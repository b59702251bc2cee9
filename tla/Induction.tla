----------------------------- MODULE Induction -----------------------------
(***************************************************************************)
(* Lemmas about numbers that the proofs of several components rest on.     *)
(* The induction theorems of the library take a predicate as a parameter,  *)
(* which the provers cannot instantiate; these take a set in its place,    *)
(* and come from the least element of the set of the counterexamples.      *)
(***************************************************************************)
EXTENDS Integers, Functions, FiniteSetsExt, TLAPS, WellFoundedInduction, FiniteSetTheorems

\* A set of natural numbers that is not empty has a least element.
LEMMA LeastNumber ==
  ASSUME NEW T \in SUBSET Nat, T # {}
  PROVE  \E x \in T : \A y \in T : x <= y
<1>1. T \subseteq Nat
  OBVIOUS
<1>2. PICK x \in T : \A y \in T : ~ (<<y, x>> \in OpToRel(<, Nat))
  BY <1>1, NatLessThanWellFounded, WFMin
<1>3. \A y \in T : <<y, x>> \in Nat \X Nat /\ (<<y, x>> \in OpToRel(<, Nat) <=> y < x)
  BY DEF OpToRel
<1>4. \A y \in T : ~ (y < x)
  BY <1>2, <1>3, Zenon
<1>5. \A y \in T : x <= y
  BY <1>4
<1> QED BY <1>5

\* A set that holds m, and with every number below n the next one, holds all
\* the numbers from m to n.
LEMMA IntervalInduction ==
  ASSUME NEW m \in Nat, NEW n \in Nat, NEW S, m \in S,
         \A i \in m .. n - 1 : i \in S => i + 1 \in S
  PROVE  m .. n \subseteq S
<1> SUFFICES ASSUME NEW k \in m .. n, k \notin S PROVE FALSE
  OBVIOUS
<1> DEFINE T == {i \in m .. n : i \notin S}
<1>1. PICK x \in T : \A y \in T : x <= y
  <2>1. T \in SUBSET Nat /\ T # {}
    OBVIOUS
  <2> HIDE DEF T
  <2> QED BY <2>1, LeastNumber
<1>2. x # m /\ x \in m .. n /\ x \notin S
  OBVIOUS
<1>3. x - 1 \in m .. n - 1 /\ x - 1 \notin T
  BY <1>1, <1>2
<1>4. x - 1 \in S
  BY <1>3
<1>5. (x - 1) + 1 \in S
  BY <1>3, <1>4
<1> QED BY <1>2, <1>5

\* The running sums of n natural numbers, as the recursive function that
\* defines them, exist.
LEMMA RunningSums ==
  ASSUME NEW n \in Nat, NEW f \in [1 .. n -> Nat]
  PROVE  \E g \in [0 .. n -> Nat] :
           g = [i \in 0 .. n |-> IF i = 0 THEN 0 ELSE g[i - 1] + f[i]]
<1> DEFINE S == {k \in 0 .. n : \E g \in [0 .. k -> Nat] :
                   g = [i \in 0 .. k |-> IF i = 0 THEN 0 ELSE g[i - 1] + f[i]]}
<1>1. 0 \in S
  <2> DEFINE g == [i \in 0 .. 0 |-> 0]
  <2>1. g \in [0 .. 0 -> Nat]
    OBVIOUS
  <2>2. g = [i \in 0 .. 0 |-> IF i = 0 THEN 0 ELSE g[i - 1] + f[i]]
    OBVIOUS
  <2> HIDE DEF g
  <2> QED BY <2>1, <2>2
<1>2. ASSUME NEW k \in 0 .. n - 1, k \in S PROVE k + 1 \in S
  <2>1. PICK g \in [0 .. k -> Nat] :
          g = [i \in 0 .. k |-> IF i = 0 THEN 0 ELSE g[i - 1] + f[i]]
    BY <1>2
  <2> DEFINE h == [i \in 0 .. k + 1 |-> IF i = k + 1 THEN g[k] + f[k + 1] ELSE g[i]]
  <2>2. h \in [0 .. k + 1 -> Nat]
    BY SMTT(30)
  <2>3. ASSUME NEW i \in 0 .. k + 1 PROVE h[i] = IF i = 0 THEN 0 ELSE h[i - 1] + f[i]
    BY <2>1
  <2>4. h = [i \in 0 .. k + 1 |-> IF i = 0 THEN 0 ELSE h[i - 1] + f[i]]
    BY <2>3
  <2>5. k + 1 \in 0 .. n
    OBVIOUS
  <2> HIDE DEF h
  <2> QED BY <2>2, <2>4, <2>5
<1> HIDE DEF S
<1>3. 0 .. n \subseteq S
  BY <1>1, <1>2, IntervalInduction
<1>4. n \in S
  BY <1>3
<1> QED BY <1>4 DEF S

\* What is defined as running sums is a function to the natural numbers.
LEMMA RunningSumsType ==
  ASSUME NEW n \in Nat, NEW f \in [1 .. n -> Nat], NEW g,
         g = [i \in 0 .. n |-> IF i = 0 THEN 0 ELSE g[i - 1] + f[i]]
  PROVE  g \in [0 .. n -> Nat]
<1> DEFINE S == {i \in 0 .. n : g[i] \in Nat}
<1>1. 0 \in S
  OBVIOUS
<1>2. \A i \in 0 .. n - 1 : i \in S => i + 1 \in S
  OBVIOUS
<1>3. 0 .. n \subseteq S
  <2> HIDE DEF S
  <2> QED BY <1>1, <1>2, IntervalInduction
<1> QED BY <1>3

-----------------------------------------------------------------------------
\* The quotient and the remainder of a division.
LEMMA Division ==
  ASSUME NEW x \in Int, NEW w \in Nat \ {0}
  PROVE  x \div w \in Int /\ x % w \in 0 .. w - 1 /\ x = (w * (x \div w)) + (x % w)
  OBVIOUS

\* There is only one quotient and one remainder.
LEMMA DivisionIsUnique ==
  ASSUME NEW w \in Nat \ {0}, NEW q \in Int, NEW p \in Int,
         NEW r \in 0 .. w - 1, NEW s \in 0 .. w - 1, (w * q) + r = (w * p) + s
  PROVE  q = p /\ r = s
<1>1. w * (q - p) = s - r
  OBVIOUS
<1>2. q - p >= 1 => w * (q - p) >= w
  OBVIOUS
<1>3. q - p <= -1 => w * (q - p) <= -w
  OBVIOUS
<1>4. q = p
  BY <1>1, <1>2, <1>3
<1> QED BY <1>4, <1>1

\* A number that is less than the word is its own remainder, and no number
\* is less than its remainder.
LEMMA SmallRemainder ==
  ASSUME NEW x \in Nat, NEW w \in Nat \ {0}
  PROVE  x % w <= x /\ (x < w => x % w = x)
  OBVIOUS

\* Adding multiples of the word leaves the remainder as it is.
LEMMA RemainderOfMultiple ==
  ASSUME NEW x \in Int, NEW k \in Int, NEW w \in Nat \ {0}
  PROVE  (x + (w * k)) % w = x % w
<1>1. PICK q \in Int, r \in 0 .. w - 1 : r = x % w /\ x = (w * q) + r
  BY Division
<1>2. x + (w * k) \in Int
  OBVIOUS
<1>3. PICK p \in Int, s \in 0 .. w - 1 :
        s = (x + (w * k)) % w /\ x + (w * k) = (w * p) + s
  BY <1>2, Division
<1>4. (w * p) + s = (w * (q + k)) + r /\ q + k \in Int
  BY <1>1, <1>3
<1>5. s = r
  BY <1>4, DivisionIsUnique
<1> QED BY <1>1, <1>3, <1>5

\* A sum may be taken of the remainders.
LEMMA RemainderOfSum ==
  ASSUME NEW x \in Int, NEW y \in Int, NEW w \in Nat \ {0}
  PROVE  (x + y) % w = ((x % w) + y) % w
<1>1. PICK q \in Int, r \in 0 .. w - 1 : r = x % w /\ x = (w * q) + r
  BY Division
<1>2. r + y \in Int /\ x + y = (r + y) + (w * q)
  BY <1>1
<1>3. ((r + y) + (w * q)) % w = (r + y) % w
  BY <1>2, RemainderOfMultiple
<1> QED BY <1>1, <1>2, <1>3

-----------------------------------------------------------------------------
\* A set that holds 0, and with every number the next one, holds them all.
LEMMA NumberInduction ==
  ASSUME NEW S, 0 \in S, \A i \in Nat : i \in S => i + 1 \in S
  PROVE  Nat \subseteq S
<1> SUFFICES ASSUME NEW k \in Nat, k \notin S PROVE FALSE
  OBVIOUS
<1>1. 0 .. k \subseteq S
  <2>1. \A i \in 0 .. k - 1 : i \in S => i + 1 \in S
    OBVIOUS
  <2>2. 0 \in Nat
    OBVIOUS
  <2> QED BY <2>1, <2>2, IntervalInduction
<1>2. k \in 0 .. k
  OBVIOUS
<1> QED BY <1>1, <1>2

\* The powers of two, as the recursive function that defines them, exist.
LEMMA PowersExist ==
  \E P : P = [n \in Nat |-> IF n = 0 THEN 1 ELSE 2 * P[n - 1]]
<1> DEFINE First(g, n) == /\ g[0] = 1 /\ \A i \in 1 .. n : g[i] = 2 * g[i - 1]
<1> DEFINE S == {n \in Nat : \E g : First(g, n)}
<1>1. Nat \subseteq S
  <2>1. 0 \in S
    <3>1. First([i \in {0} |-> 1], 0)
      OBVIOUS
    <3> HIDE DEF First
    <3> QED BY <3>1
  <2>2. ASSUME NEW n \in Nat, n \in S PROVE n + 1 \in S
    <3>1. PICK g : First(g, n)
      BY <2>2
    <3> DEFINE h == [i \in 0 .. n + 1 |-> IF i = n + 1 THEN 2 * g[n] ELSE g[i]]
    <3>2. h[0] = 1
      BY <3>1
    <3>3. ASSUME NEW i \in 1 .. n + 1 PROVE h[i] = 2 * h[i - 1]
      BY <3>1
    <3>4. First(h, n + 1)
      BY <3>2, <3>3
    <3> HIDE DEF h, First
    <3> QED BY <3>4
  <2> HIDE DEF S
  <2> QED BY <2>1, <2>2, NumberInduction
<1> DEFINE G(n) == CHOOSE g : First(g, n)
<1>2. ASSUME NEW n \in Nat PROVE First(G(n), n)
  <2>1. \E g : First(g, n)
    BY <1>1
  <2> HIDE DEF First
  <2> QED BY <2>1
<1>3. ASSUME NEW n \in Nat, NEW m \in Nat, n <= m PROVE G(n)[n] = G(m)[n]
  <2> DEFINE T == {i \in 0 .. n : G(n)[i] = G(m)[i]}
  <2> HIDE DEF G
  <2>1. 0 \in T
    BY <1>2
  <2>2. ASSUME NEW i \in 0 .. n - 1, i \in T PROVE i + 1 \in T
    <3>1. i + 1 \in 1 .. n /\ i + 1 \in 1 .. m /\ (i + 1) - 1 = i
      BY <1>3
    <3>2. G(n)[i + 1] = 2 * G(n)[i] /\ G(m)[i + 1] = 2 * G(m)[i]
      BY <1>2, <3>1
    <3> QED BY <2>2, <3>1, <3>2
  <2>3. 0 .. n \subseteq T
    <3> HIDE DEF T
    <3>1. 0 \in Nat
      OBVIOUS
    <3> QED BY <2>1, <2>2, <3>1, IntervalInduction
  <2> QED BY <2>3
<1> DEFINE P == [n \in Nat |-> G(n)[n]]
<1>4. ASSUME NEW n \in Nat PROVE P[n] = IF n = 0 THEN 1 ELSE 2 * P[n - 1]
  <2> HIDE DEF G
  <2>1. CASE n = 0
    BY <1>2, <2>1
  <2>2. CASE n # 0
    <3>1. n - 1 \in Nat /\ n - 1 <= n /\ n \in 1 .. n
      BY <2>2
    <3>2. G(n)[n] = 2 * G(n)[n - 1]
      BY <1>2, <3>1
    <3>3. G(n)[n - 1] = G(n - 1)[n - 1]
      BY <1>3, <3>1
    <3> QED BY <2>2, <3>1, <3>2, <3>3
  <2> QED BY <2>1, <2>2
<1>5. P = [n \in Nat |-> IF n = 0 THEN 1 ELSE 2 * P[n - 1]]
  <2> HIDE DEF G
  <2> QED BY <1>4
<1> HIDE DEF P
<1> QED BY <1>5

\* They are what they are called: positive, and twice the one before.
LEMMA PowersOfTwo ==
  ASSUME NEW P, P = [n \in Nat |-> IF n = 0 THEN 1 ELSE 2 * P[n - 1]]
  PROVE  /\ P[0] = 1
         /\ \A n \in Nat : P[n] \in Nat \ {0} /\ P[n + 1] = 2 * P[n]
         /\ \A n \in Nat : n < P[n]
         /\ \A n, m \in Nat : n <= m => P[n] <= P[m]
         /\ \A n, m \in Nat : n < m => 2 * P[n] <= P[m]
<1>1. P[0] = 1 /\ \A n \in Nat : P[n + 1] = 2 * P[n]
  OBVIOUS
<1> DEFINE S == {n \in Nat : P[n] \in Nat \ {0} /\ n < P[n]}
<1>2. Nat \subseteq S
  <2>1. 0 \in S
    BY <1>1
  <2>2. ASSUME NEW n \in Nat, n \in S PROVE n + 1 \in S
    <3>1. P[n + 1] = 2 * P[n] /\ n < P[n] /\ P[n] \in Nat \ {0}
      BY <1>1, <2>2
    <3> QED BY <3>1
  <2> HIDE DEF S
  <2> QED BY <2>1, <2>2, NumberInduction
<1>3. \A n \in Nat : P[n] \in Nat \ {0} /\ n < P[n]
  BY <1>2
<1>4. ASSUME NEW n \in Nat, NEW m \in Nat, n <= m PROVE P[n] <= P[m]
  <2> DEFINE T == {i \in n .. m : P[n] <= P[i]}
  <2>1. n \in T
    BY <1>3, <1>4
  <2>2. ASSUME NEW i \in n .. m - 1, i \in T PROVE i + 1 \in T
    <3>1. P[i + 1] = 2 * P[i] /\ P[i] \in Nat /\ P[n] \in Nat /\ P[n] <= P[i]
      BY <1>1, <1>3, <2>2
    <3> QED BY <3>1
  <2>3. n .. m \subseteq T
    <3> HIDE DEF T
    <3> QED BY <2>1, <2>2, IntervalInduction
  <2>4. m \in n .. m
    BY <1>4
  <2>5. m \in T
    BY <2>3, <2>4, Zenon
  <2> QED BY <2>5
<1>5. ASSUME NEW n \in Nat, NEW m \in Nat, n < m PROVE 2 * P[n] <= P[m]
  <2>0. n + 1 \in Nat /\ n + 1 <= m
    BY <1>5
  <2>1. P[n + 1] <= P[m]
    BY <1>4, <2>0, Zenon
  <2> QED BY <1>1, <2>1
<1> QED BY <1>1, <1>3, <1>4, <1>5

\* The logarithm: every positive number is between a power of two and the next.
LEMMA Logarithm ==
  ASSUME NEW P, P = [n \in Nat |-> IF n = 0 THEN 1 ELSE 2 * P[n - 1]],
         NEW x \in Nat \ {0}, NEW m \in Nat, x <= m
  PROVE  \E k \in 0 .. m : P[k] <= x /\ x < P[k + 1]
<1>1. /\ P[0] = 1 /\ \A n \in Nat : P[n] \in Nat \ {0} /\ n < P[n]
  BY PowersOfTwo
<1> DEFINE T == {i \in Nat : x < P[i]}
<1>2. m \in T
  BY <1>1
<1>3. PICK j \in T : \A y \in T : j <= y
  <2>1. T \in SUBSET Nat /\ T # {}
    BY <1>2
  <2> HIDE DEF T
  <2> QED BY <2>1, LeastNumber
<1>4. j # 0 /\ j \in Nat /\ j <= m
  BY <1>1, <1>2, <1>3
<1>5. j - 1 \in 0 .. m /\ j - 1 \notin T /\ (j - 1) + 1 = j
  BY <1>3, <1>4, SMTT(30)
<1>6. P[j - 1] <= x
  BY <1>1, <1>5
<1> QED BY <1>3, <1>5, <1>6
-----------------------------------------------------------------------------
\* A function can be applied over and over again.
Iterates(g, b, F) == g[0] = b /\ \A n \in Nat : g[n + 1] = F[g[n]]

LEMMA Iteration ==
  ASSUME NEW D, NEW b \in D, NEW F \in [D -> D]
  PROVE  \E g \in [Nat -> D] : Iterates(g, b, F)
<1> DEFINE First(g, n) == /\ g \in [0 .. n -> D] /\ g[0] = b
                          /\ \A i \in 1 .. n : g[i] = F[g[i - 1]]
<1> DEFINE S == {n \in Nat : \E g : First(g, n)}
<1>1. Nat \subseteq S
  <2>1. 0 \in S
    <3>1. First([i \in 0 .. 0 |-> b], 0)
      OBVIOUS
    <3> HIDE DEF First
    <3> QED BY <3>1
  <2>2. ASSUME NEW n \in Nat, n \in S PROVE n + 1 \in S
    <3>1. PICK g : First(g, n)
      BY <2>2
    <3> DEFINE h == [i \in 0 .. n + 1 |-> IF i = n + 1 THEN F[g[n]] ELSE g[i]]
    <3>2. h \in [0 .. n + 1 -> D] /\ h[0] = b
      BY <3>1
    <3>3. ASSUME NEW i \in 1 .. n + 1 PROVE h[i] = F[h[i - 1]]
      BY <3>1
    <3>4. First(h, n + 1)
      BY <3>2, <3>3
    <3> HIDE DEF h, First
    <3> QED BY <3>4
  <2> HIDE DEF S
  <2> QED BY <2>1, <2>2, NumberInduction
<1> DEFINE G(n) == CHOOSE g : First(g, n)
<1>2. ASSUME NEW n \in Nat PROVE First(G(n), n)
  <2>1. \E g : First(g, n)
    BY <1>1
  <2> HIDE DEF First
  <2> QED BY <2>1
<1>3. ASSUME NEW n \in Nat, NEW m \in Nat, n <= m PROVE G(n)[n] = G(m)[n]
  <2> DEFINE T == {i \in 0 .. n : G(n)[i] = G(m)[i]}
  <2> HIDE DEF G
  <2>1. 0 \in T
    BY <1>2
  <2>2. ASSUME NEW i \in 0 .. n - 1, i \in T PROVE i + 1 \in T
    <3>1. i + 1 \in 1 .. n /\ i + 1 \in 1 .. m /\ (i + 1) - 1 = i
      BY <1>3
    <3>2. G(n)[i + 1] = F[G(n)[i]] /\ G(m)[i + 1] = F[G(m)[i]]
      BY <1>2, <3>1
    <3> QED BY <2>2, <3>1, <3>2
  <2>3. 0 .. n \subseteq T
    <3> HIDE DEF T
    <3>1. 0 \in Nat
      OBVIOUS
    <3> QED BY <2>1, <2>2, <3>1, IntervalInduction
  <2> QED BY <2>3
<1> DEFINE P == [n \in Nat |-> G(n)[n]]
<1>4. P \in [Nat -> D] /\ P[0] = b
  <2> HIDE DEF G
  <2>1. ASSUME NEW n \in Nat PROVE G(n)[n] \in D
    BY <1>2
  <2>2. G(0)[0] = b
    BY <1>2
  <2> QED BY <2>1, <2>2
<1>5. ASSUME NEW n \in Nat PROVE P[n + 1] = F[P[n]]
  <2> HIDE DEF G
  <2>1. n + 1 \in Nat /\ n <= n + 1 /\ n + 1 \in 1 .. n + 1 /\ (n + 1) - 1 = n
    OBVIOUS
  <2>2. G(n + 1)[n + 1] = F[G(n + 1)[n]]
    BY <1>2, <2>1
  <2>3. G(n + 1)[n] = G(n)[n]
    BY <1>3, <2>1
  <2> QED BY <2>1, <2>2, <2>3
<1> HIDE DEF P
<1> QED BY <1>4, <1>5 DEF Iterates

\* A recursive definition whose body applies the function only where a number,
\* which is bounded, is less has a solution.  F takes the function and gives
\* the one that the body makes of it; W are the functions that may be taken.
LooksBelow(X, W, F, mu) ==
  \A G, H \in W : \A x \in X :
    (\A y \in X : mu[y] < mu[x] => G[y] = H[y]) => F[G][x] = F[H][x]

Bounded(X, mu, N) == \A x \in X : mu[x] < N

HasSolution(W, F) == \E f \in W : f = F[f]

LEMMA MeasuredRecursion ==
  ASSUME NEW X, NEW E, NEW W \in SUBSET [X -> E], W # {}, NEW F \in [W -> W],
         NEW mu \in [X -> Nat], NEW N \in Nat, Bounded(X, mu, N), LooksBelow(X, W, F, mu)
  PROVE  HasSolution(W, F)
<1>1. PICK b \in W : TRUE
  OBVIOUS
<1>2. PICK g \in [Nat -> W] : g[0] = b /\ \A n \in Nat : g[n + 1] = F[g[n]]
  <2>1. \E g \in [Nat -> W] : Iterates(g, b, F)
    BY Iteration, Zenon
  <2> QED BY <2>1, Zenon DEF Iterates
<1> DEFINE S == {n \in Nat : \A x \in X : mu[x] < n => g[n + 1][x] = g[n][x]}
<1>3. Nat \subseteq S
  <2>1. 0 \in S
    OBVIOUS
  <2>2. ASSUME NEW n \in Nat, n \in S PROVE n + 1 \in S
    <3>1. n + 1 \in Nat /\ (n + 1) + 1 \in Nat
      OBVIOUS
    <3>2. SUFFICES ASSUME NEW x \in X, mu[x] < n + 1
                   PROVE  g[(n + 1) + 1][x] = g[n + 1][x]
      BY <3>1
    <3>3. g[n + 1] \in W /\ g[n] \in W
      BY <1>2, <3>1
    <3>4. ASSUME NEW y \in X, mu[y] < mu[x] PROVE g[n + 1][y] = g[n][y]
      <4>1. mu[y] < n
        BY <3>2, <3>4
      <4> QED BY <4>1, <2>2
    <3>5. F[g[n + 1]][x] = F[g[n]][x]
      BY <3>3, <3>4 DEF LooksBelow
    <3>6. g[(n + 1) + 1] = F[g[n + 1]] /\ g[n + 1] = F[g[n]]
      BY <1>2, <3>1
    <3> QED BY <3>5, <3>6
  <2> HIDE DEF S
  <2> QED BY <2>1, <2>2, NumberInduction
<1>4. \A x \in X : g[N + 1][x] = g[N][x]
  BY <1>3 DEF Bounded
<1>5. g[N] \in W /\ g[N + 1] \in W /\ g[N + 1] = F[g[N]]
  BY <1>2
<1>6. g[N + 1] = g[N]
  BY <1>4, <1>5
<1> QED BY <1>5, <1>6 DEF HasSolution

\* The number needs no bound where every function may be taken.
LEMMA UnboundedRecursion ==
  ASSUME NEW X, NEW E, E # {}, NEW F \in [[X -> E] -> [X -> E]],
         NEW mu \in [X -> Nat], LooksBelow(X, [X -> E], F, mu)
  PROVE  HasSolution([X -> E], F)
<1> DEFINE W == [X -> E]
<1>0. PICK b \in W : TRUE
  <2>1. PICK e \in E : TRUE
    OBVIOUS
  <2>2. [x \in X |-> e] \in W
    BY <2>1
  <2> QED BY <2>2
<1>1. F \in [W -> W] /\ LooksBelow(X, W, F, mu)
  OBVIOUS
<1>2. PICK g \in [Nat -> W] : g[0] = b /\ \A n \in Nat : g[n + 1] = F[g[n]]
  <2> HIDE DEF W
  <2>1. \E g \in [Nat -> W] : Iterates(g, b, F)
    BY <1>0, <1>1, Iteration, Zenon
  <2> QED BY <2>1, Zenon DEF Iterates
<1> DEFINE S == {n \in Nat : \A m \in Nat : \A x \in X :
                               n <= m /\ mu[x] < n => g[m][x] = g[n][x]}
<1>3. Nat \subseteq S
  <2>1. 0 \in S
    OBVIOUS
  <2>2. ASSUME NEW n \in Nat, n \in S PROVE n + 1 \in S
    <3>1. n + 1 \in Nat
      OBVIOUS
    <3>2. SUFFICES ASSUME NEW m \in Nat, NEW x \in X, n + 1 <= m, mu[x] < n + 1
                   PROVE  g[m][x] = g[n + 1][x]
      BY <3>1
    <3>3. m - 1 \in Nat /\ n <= m - 1 /\ (m - 1) + 1 = m
      BY <3>2
    <3>4. ASSUME NEW y \in X, mu[y] < mu[x] PROVE g[m - 1][y] = g[n][y]
      <4>1. mu[y] < n
        BY <3>2, <3>4
      <4> QED BY <2>2, <3>3, <4>1
    <3>5. F[g[m - 1]][x] = F[g[n]][x]
      <4>1. g[m - 1] \in W /\ g[n] \in W
        BY <1>2, <3>3
      <4> HIDE DEF W
      <4> QED BY <1>1, <3>4, <4>1 DEF LooksBelow
    <3>6. g[n + 1] = F[g[n]] /\ g[m] = F[g[m - 1]]
      BY <1>2, <3>3
    <3> QED BY <3>5, <3>6
  <2> HIDE DEF S
  <2> QED BY <2>1, <2>2, NumberInduction
<1> DEFINE f == [x \in X |-> g[mu[x] + 1][x]]
<1>4. f \in W
  BY <1>2
<1>5. ASSUME NEW x \in X PROVE F[f][x] = f[x]
  <2>1. mu[x] \in Nat /\ g[mu[x]] \in W /\ g[mu[x] + 1] = F[g[mu[x]]]
    BY <1>2
  <2>2. ASSUME NEW y \in X, mu[y] < mu[x] PROVE f[y] = g[mu[x]][y]
    <3>1. mu[y] + 1 \in Nat /\ mu[y] + 1 <= mu[x] /\ mu[y] < mu[y] + 1
      BY <2>2
    <3> QED BY <1>3, <2>1, <3>1
  <2>3. F[f][x] = F[g[mu[x]]][x]
    <3> HIDE DEF W, f
    <3> QED BY <1>1, <1>4, <2>1, <2>2 DEF LooksBelow
  <2> QED BY <2>1, <2>3
<1>6. F[f] = f
  <2>1. F[f] \in W
    BY <1>1, <1>4
  <2> HIDE DEF f
  <2> QED BY <1>4, <1>5, <2>1
<1> QED BY <1>4, <1>6 DEF HasSolution

\* A definition over the numbers from 0 to n, each from the one before, too.
Recurs(g, n, b, F) == g = [i \in 0 .. n |-> IF i = 0 THEN b ELSE F[<<i, g[i - 1]>>]]

LEMMA IntervalRecursion ==
  ASSUME NEW n \in Nat, NEW D, NEW b \in D, NEW F \in [(1 .. n) \X D -> D]
  PROVE  \E g \in [0 .. n -> D] : Recurs(g, n, b, F)
<1> DEFINE X == 0 .. n
           W == [X -> D]
           Body(g) == [i \in X |-> IF i = 0 THEN b ELSE F[<<i, g[i - 1]>>]]
           H == [g \in W |-> Body(g)]
           mu == [i \in X |-> i]
<1>1. W \in SUBSET [X -> D] /\ W # {}
  <2>1. [i \in X |-> b] \in W
    OBVIOUS
  <2> HIDE DEF X
  <2> QED BY <2>1
<1>2. ASSUME NEW g \in W PROVE Body(g) \in W
  <2>1. ASSUME NEW i \in X PROVE (IF i = 0 THEN b ELSE F[<<i, g[i - 1]>>]) \in D
    OBVIOUS
  <2> QED BY <2>1
<1>3. H \in [W -> W]
  <2> HIDE DEF Body, W
  <2> QED BY <1>2
<1>4. mu \in [X -> Nat] /\ n + 1 \in Nat /\ Bounded(X, mu, n + 1)
  BY DEF Bounded
<1>5. ASSUME NEW g \in W, NEW h \in W, NEW i \in X,
             \A j \in X : mu[j] < mu[i] => g[j] = h[j]
      PROVE  H[g][i] = H[h][i]
  <2>1. i # 0 => i - 1 \in X /\ mu[i - 1] < mu[i]
    OBVIOUS
  <2>2. Body(g)[i] = Body(h)[i]
    BY <1>5, <2>1
  <2> HIDE DEF Body, W
  <2> QED BY <2>2
<1>6. HasSolution(W, H)
  <2> HIDE DEF W, H, mu, X
  <2>1. LooksBelow(X, W, H, mu)
    BY <1>5 DEF LooksBelow
  <2> QED BY <1>1, <1>3, <1>4, <2>1, MeasuredRecursion, Zenon
<1>7. PICK g \in W : g = H[g]
  BY <1>6 DEF HasSolution
<1>8. g = Body(g)
  <2> HIDE DEF Body, W
  <2> QED BY <1>7
<1> QED BY <1>8 DEF Recurs

-----------------------------------------------------------------------------
\* Sums over the subsets of S, the function that defines SumFunction.
Sums(g, S, f) ==
  g = [s \in SUBSET S |-> IF s = {} THEN 0
                          ELSE LET x == CHOOSE x \in s : TRUE IN f[x] + g[s \ {x}]]

LEMMA SumsExist ==
  ASSUME NEW S, IsFiniteSet(S), NEW f \in [S -> Int]
  PROVE  \E g \in [SUBSET S -> Int] : Sums(g, S, f)
<1> DEFINE X == SUBSET S
           W == [X -> Int]
           Ch(s) == CHOOSE x \in s : TRUE
           Body(g) == [s \in X |-> IF s = {} THEN 0 ELSE f[Ch(s)] + g[s \ {Ch(s)}]]
           H == [g \in W |-> Body(g)]
           mu == [s \in X |-> Cardinality(s)]
<1>1. ASSUME NEW s \in X, s # {}
      PROVE  /\ Ch(s) \in s /\ f[Ch(s)] \in Int /\ s \ {Ch(s)} \in X
             /\ Cardinality(s \ {Ch(s)}) < Cardinality(s)
  <2>1. \E x \in s : TRUE
    BY <1>1
  <2>2. Ch(s) \in s
    BY <2>1
  <2> HIDE DEF Ch
  <2>3. IsFiniteSet(s)
    BY FS_Subset
  <2>4. Cardinality(s) \in Nat /\ Cardinality(s \ {Ch(s)}) = Cardinality(s) - 1
    BY <2>2, <2>3, FS_CardinalityType, FS_RemoveElement
  <2> QED BY <2>2, <2>4
<1>2. ASSUME NEW g \in W PROVE Body(g) \in W
  <2> HIDE DEF Ch
  <2>1. ASSUME NEW s \in X
        PROVE  (IF s = {} THEN 0 ELSE f[Ch(s)] + g[s \ {Ch(s)}]) \in Int
    <3>1. s # {} => f[Ch(s)] \in Int /\ g[s \ {Ch(s)}] \in Int
      BY <1>1
    <3> QED BY <3>1
  <2> QED BY <2>1
<1>3. H \in [W -> W]
  <2> HIDE DEF Body, W
  <2> QED BY <1>2
<1>4. mu \in [X -> Nat] /\ Cardinality(S) + 1 \in Nat /\ Bounded(X, mu, Cardinality(S) + 1)
  <2>1. \A s \in X : Cardinality(s) \in Nat /\ Cardinality(s) <= Cardinality(S)
    BY FS_Subset, FS_CardinalityType
  <2>2. Cardinality(S) \in Nat
    BY FS_CardinalityType
  <2> QED BY <2>1, <2>2 DEF Bounded
<1>5. ASSUME NEW g \in W, NEW h \in W, NEW s \in X,
             \A t \in X : mu[t] < mu[s] => g[t] = h[t]
      PROVE  H[g][s] = H[h][s]
  <2> HIDE DEF Ch
  <2>1. s # {} => s \ {Ch(s)} \in X /\ mu[s \ {Ch(s)}] < mu[s]
    BY <1>1
  <2>2. Body(g)[s] = Body(h)[s]
    BY <1>5, <2>1
  <2> HIDE DEF Body, W
  <2> QED BY <2>2
<1>6. W \in SUBSET [X -> Int] /\ W # {}
  <2>1. [s \in X |-> 0] \in W
    OBVIOUS
  <2> HIDE DEF X
  <2> QED BY <2>1
<1>7. HasSolution(W, H)
  <2> HIDE DEF W, H, mu, X
  <2>1. LooksBelow(X, W, H, mu)
    BY <1>5 DEF LooksBelow
  <2> QED BY <1>3, <1>4, <1>6, <2>1, MeasuredRecursion, Zenon
<1>8. PICK g \in W : g = H[g]
  BY <1>7 DEF HasSolution
<1>9. g = Body(g)
  <2> HIDE DEF Body, W
  <2> QED BY <1>8
<1> QED BY <1>9 DEF Sums

LEMMA SumsType ==
  ASSUME NEW S, IsFiniteSet(S), NEW f \in [S -> Int], NEW g, Sums(g, S, f)
  PROVE  g \in [SUBSET S -> Int]
<1> DEFINE Ch(s) == CHOOSE x \in s : TRUE
<1>1. DOMAIN g = SUBSET S
      /\ \A s \in SUBSET S : g[s] = IF s = {} THEN 0 ELSE f[Ch(s)] + g[s \ {Ch(s)}]
  BY DEF Sums
<1>2. ASSUME NEW s \in SUBSET S, s # {} PROVE Ch(s) \in s
  BY <1>2
<1>0. g[{}] = 0 /\ 0 \in Int
  BY <1>1
<1> HIDE DEF Ch
<1> DEFINE T == {n \in Nat : \A s \in SUBSET S : Cardinality(s) = n => g[s] \in Int}
<1>3. Nat \subseteq T
  <2>1. 0 \in T
    <3>1. \A s \in SUBSET S : Cardinality(s) = 0 => s = {}
      BY FS_Subset, FS_EmptySet
    <3> QED BY <1>0, <3>1
  <2>2. ASSUME NEW n \in Nat, n \in T PROVE n + 1 \in T
    <3> SUFFICES ASSUME NEW s \in SUBSET S, Cardinality(s) = n + 1
                 PROVE  g[s] \in Int
      OBVIOUS
    <3>0. s # {}
      BY FS_EmptySet
    <3>1. Ch(s) \in s
      BY <1>2, <3>0
    <3>2. IsFiniteSet(s)
      BY FS_Subset
    <3>3. Cardinality(s \ {Ch(s)}) = Cardinality(s) - 1
      BY <3>1, <3>2, FS_RemoveElement
    <3>4. s \ {Ch(s)} \in SUBSET S /\ Cardinality(s \ {Ch(s)}) = n
      BY <3>3
    <3>5. g[s \ {Ch(s)}] \in Int /\ f[Ch(s)] \in Int
      BY <2>2, <3>1, <3>4
    <3> QED BY <1>1, <3>0, <3>5
  <2> HIDE DEF T
  <2> QED BY <2>1, <2>2, NumberInduction
<1>4. \A s \in SUBSET S : Cardinality(s) \in Nat
  BY FS_Subset, FS_CardinalityType
<1>5. g = [s \in SUBSET S |-> g[s]]
  BY DEF Sums
<1> QED BY <1>3, <1>4, <1>5

\* The elements may be added up in any order.
AddsUp(g, S, f) ==
  g[{}] = 0 /\ \A s \in SUBSET S : \A x \in s : g[s] = f[x] + g[s \ {x}]

LEMMA SumsInAnyOrder ==
  ASSUME NEW S, IsFiniteSet(S), NEW f \in [S -> Int], NEW g \in [SUBSET S -> Int],
         Sums(g, S, f)
  PROVE  AddsUp(g, S, f)
<1> DEFINE Ch(s) == CHOOSE x \in s : TRUE
<1>1. \A s \in SUBSET S : g[s] = IF s = {} THEN 0 ELSE f[Ch(s)] + g[s \ {Ch(s)}]
  BY DEF Sums
<1>2. ASSUME NEW s \in SUBSET S, s # {} PROVE Ch(s) \in s
  BY <1>2
<1> HIDE DEF Ch
<1> DEFINE T == {n \in Nat : \A s \in SUBSET S : Cardinality(s) = n =>
                               \A x \in s : g[s] = f[x] + g[s \ {x}]}
<1>3. Nat \subseteq T
  <2>1. 0 \in T
    <3>1. \A s \in SUBSET S : Cardinality(s) = 0 => s = {}
      BY FS_Subset, FS_EmptySet
    <3> QED BY <3>1
  <2>2. ASSUME NEW n \in Nat, n \in T PROVE n + 1 \in T
    <3> SUFFICES ASSUME NEW s \in SUBSET S, Cardinality(s) = n + 1, NEW x \in s
                 PROVE  g[s] = f[x] + g[s \ {x}]
      OBVIOUS
    <3> DEFINE y == Ch(s)
    <3>1. y \in s /\ g[s] = f[y] + g[s \ {y}]
      BY <1>1, <1>2
    <3> HIDE DEF y
    <3>2. CASE x = y
      BY <3>1, <3>2
    <3>3. CASE x # y
      <4>1. IsFiniteSet(s)
        BY FS_Subset
      <4>2. ASSUME NEW z \in s PROVE Cardinality(s \ {z}) = n
        <5>1. Cardinality(s \ {z}) = Cardinality(s) - 1
          BY <4>1, FS_RemoveElement
        <5> QED BY <5>1
      <4>3. g[s \ {y}] = f[x] + g[(s \ {y}) \ {x}]
        BY <2>2, <3>1, <3>3, <4>2
      <4>4. g[s \ {x}] = f[y] + g[(s \ {x}) \ {y}]
        BY <2>2, <3>1, <3>3, <4>2
      <4>5. (s \ {x}) \ {y} = (s \ {y}) \ {x}
        OBVIOUS
      <4>6. /\ f[x] \in Int /\ f[y] \in Int /\ g[(s \ {y}) \ {x}] \in Int
            /\ g[s \ {x}] = f[y] + g[(s \ {y}) \ {x}]
        BY <3>1, <4>4, <4>5
      <4> QED BY <3>1, <4>3, <4>6
    <3> QED BY <3>2, <3>3
  <2> HIDE DEF T
  <2> QED BY <2>1, <2>2, NumberInduction
<1>4. \A s \in SUBSET S : Cardinality(s) \in Nat
  BY FS_Subset, FS_CardinalityType
<1>5. g[{}] = 0
  BY <1>1
<1> QED BY <1>3, <1>4, <1>5 DEF AddsUp

\* The sum of the values of a function.
LEMMA SumIs ==
  ASSUME NEW S, IsFiniteSet(S), NEW f \in [S -> Int]
  PROVE  \E g \in [SUBSET S -> Int] : SumFunction(f) = g[S] /\ AddsUp(g, S, f)
<1> DEFINE G == CHOOSE g : Sums(g, S, f)
<1>1. Sums(G, S, f)
  <2>1. \E g : Sums(g, S, f)
    BY SumsExist
  <2> QED BY <2>1
<1>2. SumFunction(f) = G[S]
  <2>1. DOMAIN f = S
    OBVIOUS
  <2>2. SumFunctionOnSet(f, S) = G[S]
    BY DEF SumFunctionOnSet, FoldFunctionOnSet, MapThenFoldSet, Sums
  <2> QED BY <2>1, <2>2, Zenon DEF SumFunction
<1> HIDE DEF G
<1>3. G \in [SUBSET S -> Int]
  BY <1>1, SumsType
<1>4. AddsUp(G, S, f)
  BY <1>1, <1>3, SumsInAnyOrder
<1> QED BY <1>2, <1>3, <1>4

\* A sum is a number, and a sum of natural numbers a natural one.
LEMMA SumType ==
  ASSUME NEW S, IsFiniteSet(S), NEW f \in [S -> Int]
  PROVE  SumFunction(f) \in Int /\ ((\A x \in S : f[x] \in Nat) => SumFunction(f) \in Nat)
<1>1. PICK g \in [SUBSET S -> Int] : SumFunction(f) = g[S] /\ AddsUp(g, S, f)
  BY SumIs
<1>2. g[S] \in Int
  OBVIOUS
<1>3. ASSUME \A x \in S : f[x] \in Nat PROVE g[S] \in Nat
  <2> DEFINE T == {n \in Nat : \A s \in SUBSET S : Cardinality(s) = n => g[s] \in Nat}
  <2>1. 0 \in T
    <3>1. \A s \in SUBSET S : Cardinality(s) = 0 => s = {}
      BY FS_Subset, FS_EmptySet
    <3>2. g[{}] \in Nat
      BY <1>1 DEF AddsUp
    <3> QED BY <3>1, <3>2
  <2>2. ASSUME NEW n \in Nat, n \in T PROVE n + 1 \in T
    <3> SUFFICES ASSUME NEW s \in SUBSET S, Cardinality(s) = n + 1
                 PROVE  g[s] \in Nat
      OBVIOUS
    <3>0. s # {}
      BY FS_EmptySet
    <3>1. PICK x \in s : TRUE
      BY <3>0
    <3>2. IsFiniteSet(s)
      BY FS_Subset
    <3>3. Cardinality(s \ {x}) = Cardinality(s) - 1
      BY <3>1, <3>2, FS_RemoveElement
    <3>4. s \ {x} \in SUBSET S /\ Cardinality(s \ {x}) = n
      BY <3>3
    <3>5. g[s \ {x}] \in Nat /\ f[x] \in Nat
      BY <1>3, <2>2, <3>1, <3>4
    <3>6. g[s] = f[x] + g[s \ {x}]
      BY <1>1, <3>1 DEF AddsUp
    <3> QED BY <3>5, <3>6
  <2>3. Nat \subseteq T
    <3> HIDE DEF T
    <3> QED BY <2>1, <2>2, NumberInduction
  <2>4. Cardinality(S) \in Nat
    BY FS_CardinalityType
  <2> QED BY <2>3, <2>4
<1> QED BY <1>1, <1>2, <1>3

\* The sum of a sequence is the last one of its running sums.
LEMMA SumOfSequence ==
  ASSUME NEW n \in Nat, NEW f \in [1 .. n -> Int], NEW r \in [0 .. n -> Int],
         r[0] = 0, \A i \in 1 .. n : r[i] = r[i - 1] + f[i]
  PROVE  SumFunction(f) = r[n]
<1> DEFINE S == 1 .. n
<1>1. IsFiniteSet(S) /\ f \in [S -> Int]
  BY FS_Interval
<1>2. PICK g \in [SUBSET S -> Int] : SumFunction(f) = g[S] /\ AddsUp(g, S, f)
  <2> HIDE DEF S
  <2> QED BY <1>1, SumIs
<1> DEFINE T == {i \in 0 .. n : g[1 .. i] = r[i]}
<1>3. 0 \in T
  <2>1. 1 .. 0 = {}
    OBVIOUS
  <2>2. g[{}] = 0
    BY <1>2 DEF AddsUp
  <2> QED BY <2>1, <2>2
<1>4. ASSUME NEW i \in 0 .. n - 1, i \in T PROVE i + 1 \in T
  <2>1. /\ 1 .. i + 1 \in SUBSET S /\ i + 1 \in 1 .. i + 1
        /\ (1 .. i + 1) \ {i + 1} = 1 .. i /\ i + 1 \in 1 .. n /\ (i + 1) - 1 = i
    <3>1. i \in Int /\ i + 1 \in 1 .. n /\ (i + 1) - 1 = i /\ i + 1 \in 1 .. i + 1
      OBVIOUS
    <3>2. \A k \in (1 .. i + 1) \ {i + 1} : k \in 1 .. i
      BY <3>1
    <3>5. \A k \in 1 .. i : k \in 1 .. i + 1 /\ k # i + 1
      BY <3>1
    <3>3. (1 .. i + 1) \ {i + 1} = 1 .. i
      BY <3>2, <3>5, Zenon
    <3>4. 1 .. i + 1 \subseteq S
      BY <3>1
    <3> QED BY <3>1, <3>3, <3>4
  <2>2. g[1 .. i + 1] = f[i + 1] + g[(1 .. i + 1) \ {i + 1}]
    BY <1>2, <2>1, SMTT(20), ZenonT(30) DEF AddsUp
  <2>3. g[1 .. i + 1] = f[i + 1] + r[i]
    BY <1>4, <2>1, <2>2
  <2>4. r[i + 1] = r[i] + f[i + 1] /\ r[i] \in Int /\ f[i + 1] \in Int
    BY <2>1
  <2> QED BY <2>1, <2>3, <2>4
<1>5. 0 .. n \subseteq T
  <2> HIDE DEF T
  <2>1. 0 \in Nat
    OBVIOUS
  <2> QED BY <1>3, <1>4, <2>1, IntervalInduction
<1>6. n \in T
  <2> HIDE DEF T
  <2> QED BY <1>5
<1> QED BY <1>2, <1>6

\* w goes through S, each element once, and r sums f along it.
SumsAlong(S, n, w, f, r) ==
  /\ n \in Nat /\ w \in [1 .. n -> S]
  /\ \A x \in S : \E i \in 1 .. n : w[i] = x
  /\ \A i, j \in 1 .. n : w[i] = w[j] => i = j
  /\ f \in [S -> Int] /\ r \in [0 .. n -> Int]
  /\ r[0] = 0 /\ \A i \in 1 .. n : r[i] = r[i - 1] + f[w[i]]

\* The last of the running sums is the sum over the set.
LEMMA SumOverSequence ==
  ASSUME NEW S, NEW n, NEW w, NEW f, NEW r, SumsAlong(S, n, w, f, r)
  PROVE  SumFunction(f) = r[n]
<1> USE DEF SumsAlong
<1>1. IsFiniteSet(S)
  <2>1. IsFiniteSet(1 .. n)
    BY FS_Interval
  <2>2. w \in Surjection(1 .. n, S)
    BY DEF Surjection
  <2> QED BY <2>1, <2>2, FS_Surjection
<1>2. PICK g \in [SUBSET S -> Int] : SumFunction(f) = g[S] /\ AddsUp(g, S, f)
  BY <1>1, SumIs
<1> DEFINE First(i) == {w[j] : j \in 1 .. i}
           T == {i \in 0 .. n : g[First(i)] = r[i]}
<1>3. 0 \in T
  <2>1. First(0) = {}
    OBVIOUS
  <2>2. g[{}] = 0
    BY <1>2 DEF AddsUp
  <2>3. 0 \in 0 .. n
    OBVIOUS
  <2>4. g[First(0)] = g[{}]
    BY <2>1, Zenon
  <2>5. g[First(0)] = r[0]
    BY <2>2, <2>4, Zenon
  <2> HIDE DEF First
  <2> QED BY <2>3, <2>5
<1>4. ASSUME NEW i \in 0 .. n - 1, i \in T PROVE i + 1 \in T
  <2>1. /\ i \in Int /\ i + 1 \in 1 .. n /\ (i + 1) - 1 = i /\ i + 1 \in 1 .. i + 1
        /\ \A j \in 1 .. i + 1 : j \in 1 .. n /\ (j = i + 1 \/ j \in 1 .. i)
        /\ \A j \in 1 .. i : j \in 1 .. i + 1 /\ j # i + 1
    OBVIOUS
  <2>2. First(i + 1) \in SUBSET S /\ w[i + 1] \in First(i + 1)
    BY <2>1
  <2>3. First(i + 1) \ {w[i + 1]} = First(i)
    <3>1. \A x \in First(i + 1) \ {w[i + 1]} : x \in First(i)
      BY <2>1
    <3>2. \A x \in First(i) : x \in First(i + 1) /\ x # w[i + 1]
      BY <2>1
    <3> HIDE DEF First
    <3> QED BY <3>1, <3>2
  <2> HIDE DEF First
  <2>4. g[First(i + 1)] = f[w[i + 1]] + g[First(i + 1) \ {w[i + 1]}]
    <3>1. \A s \in SUBSET S : \A x \in s : g[s] = f[x] + g[s \ {x}]
      BY <1>2 DEF AddsUp
    <3> DEFINE A == First(i + 1)
               y == w[i + 1]
    <3>2. A \in SUBSET S /\ y \in A
      BY <2>2
    <3> HIDE DEF A, y
    <3>3. g[A] = f[y] + g[A \ {y}]
      BY <3>1, <3>2
    <3> QED BY <3>3 DEF A, y
  <2>5. g[First(i + 1)] = f[w[i + 1]] + r[i]
    BY <1>4, <2>3, <2>4
  <2>6. r[i + 1] = r[i] + f[w[i + 1]] /\ r[i] \in Int /\ f[w[i + 1]] \in Int
    BY <2>1
  <2> QED BY <2>1, <2>5, <2>6, SMTT(30)
<1>5. 0 .. n \subseteq T
  <2> HIDE DEF T
  <2>1. 0 \in Nat
    OBVIOUS
  <2> QED BY <1>3, <1>4, <2>1, IntervalInduction
<1>6. First(n) = S
  OBVIOUS
<1> HIDE DEF First
<1>7. g[First(n)] = r[n]
  BY <1>5
<1> QED BY <1>2, <1>6, <1>7

\* The largest of the values of a sequence is the last one of its running
\* maxima.
LEMMA MaxOfSequence ==
  ASSUME NEW n \in Nat \ {0}, NEW f \in [1 .. n -> Nat], NEW r \in [0 .. n -> Int],
         r[0] = 0, \A i \in 1 .. n : r[i] = IF f[i] > r[i - 1] THEN f[i] ELSE r[i - 1]
  PROVE  Max(Range(f)) = r[n]
<1> DEFINE Top(i) == /\ \A j \in 1 .. i : f[j] <= r[i]
                     /\ i # 0 => \E j \in 1 .. i : f[j] = r[i]
                     /\ r[i] >= 0
           T == {i \in 0 .. n : Top(i)}
<1>1. 0 \in T
  OBVIOUS
<1>2. ASSUME NEW i \in 0 .. n - 1, i \in T PROVE i + 1 \in T
  <2>1. i + 1 \in 1 .. n /\ (i + 1) - 1 = i /\ i \in 0 .. n
    OBVIOUS
  <2>2. r[i + 1] = IF f[i + 1] > r[i] THEN f[i + 1] ELSE r[i]
    BY <2>1
  <2>3. f[i + 1] \in Nat /\ r[i] \in Int
    BY <2>1
  <2>4. \A j \in 1 .. i + 1 : (j \in 1 .. i \/ j = i + 1) /\ f[j] \in Nat
    BY <2>1
  <2>8. \A j \in 1 .. i : f[j] <= r[i]
    BY <1>2
  <2>9. r[i + 1] >= r[i] /\ r[i + 1] >= f[i + 1] /\ r[i + 1] \in Int
    BY <2>2, <2>3
  <2>5. \A j \in 1 .. i + 1 : f[j] <= r[i + 1]
    <3> SUFFICES ASSUME NEW j \in 1 .. i + 1 PROVE f[j] <= r[i + 1]
      OBVIOUS
    <3>1. CASE j \in 1 .. i
      <4>1. f[j] <= r[i] /\ f[j] \in Nat
        BY <2>4, <2>8, <3>1
      <4> QED BY <2>3, <2>9, <4>1, SMTT(30)
    <3>2. CASE j = i + 1
      BY <2>3, <2>9, <3>2
    <3> QED BY <2>4, <3>1, <3>2
  <2>6. \E j \in 1 .. i + 1 : f[j] = r[i + 1]
    <3>1. CASE f[i + 1] > r[i]
      BY <2>1, <2>2, <3>1
    <3>2. CASE ~ (f[i + 1] > r[i]) /\ i # 0
      <4>1. PICK j \in 1 .. i : f[j] = r[i]
        BY <1>2, <3>2
      <4> QED BY <2>2, <3>2, <4>1
    <3>3. CASE ~ (f[i + 1] > r[i]) /\ i = 0
      BY <2>1, <2>2, <2>3, <3>3
    <3> QED BY <3>1, <3>2, <3>3
  <2>7. r[i + 1] >= 0
    BY <1>2, <2>2, <2>3
  <2> QED BY <2>1, <2>5, <2>6, <2>7
<1>3. 0 .. n \subseteq T
  <2> HIDE DEF T
  <2>1. 0 \in Nat /\ n \in Nat
    OBVIOUS
  <2> QED BY <1>1, <1>2, <2>1, IntervalInduction
<1>4. n \in T /\ n # 0
  <2> HIDE DEF T
  <2> QED BY <1>3
<1>5. r[n] \in Range(f) /\ \A y \in Range(f) : r[n] >= y
  BY <1>4 DEF Range
<1>6. \A x \in Range(f) : (\A y \in Range(f) : x >= y) => x = r[n]
  <2>1. r[n] \in Int /\ \A x \in Range(f) : x \in Int
    BY DEF Range
  <2> QED BY <1>5, <2>1
<1> QED BY <1>5, <1>6 DEF Max

\* There is one.
LEMMA MaxType ==
  ASSUME NEW n \in Nat \ {0}, NEW f \in [1 .. n -> Nat]
  PROVE  Max(Range(f)) \in Nat
<1> DEFINE F == [x \in (1 .. n) \X Nat |-> IF f[x[1]] > x[2] THEN f[x[1]] ELSE x[2]]
<1>1. F \in [(1 .. n) \X Nat -> Nat] /\ n \in Nat /\ 0 \in Nat
  OBVIOUS
<1>2. \A i \in 1 .. n : \A y \in Nat : F[<<i, y>>] = IF f[i] > y THEN f[i] ELSE y
  OBVIOUS
<1> HIDE DEF F
<1>3. PICK r \in [0 .. n -> Nat] : Recurs(r, n, 0, F)
  BY <1>1, IntervalRecursion
<1>4. r[0] = 0 /\ r \in [0 .. n -> Int]
  BY <1>1, <1>3 DEF Recurs
<1>5. ASSUME NEW i \in 1 .. n PROVE r[i] = IF f[i] > r[i - 1] THEN f[i] ELSE r[i - 1]
  <2>1. i \in 0 .. n /\ i # 0 /\ i - 1 \in 0 .. n /\ r[i - 1] \in Nat
    BY <1>1, <1>3
  <2>2. r[i] = F[<<i, r[i - 1]>>]
    BY <1>3, <2>1 DEF Recurs
  <2> QED BY <1>2, <2>1, <2>2
<1>6. Max(Range(f)) = r[n]
  BY <1>4, <1>5, MaxOfSequence
<1> QED BY <1>1, <1>3, <1>6
=============================================================================
