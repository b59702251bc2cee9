------------------------- MODULE VirtualTablesProofs -------------------------
(* What holds of the virtual tables for every set of classes, any programs *)
(* and every number of rounds: which classes a walk of the bases meets, what*)
(* the searches for the overriding and for the originating function find,  *)
(* how a table is laid out from the tables of the bases and the            *)
(* declarations, and that a call through it runs a most derived override.  *)
(* Bases may be shared, and may inherit in a circle: no class of a circle  *)
(* ever gets a table.                                                      *)
EXTENDS VirtualTables, Induction

\* What a program is made of; its classes are as many as the program table has.
LEMMA ProgramTypes ==
  ASSUME prog \in Programs
  PROVE  /\ \A c \in Class : bases[c] \in Seq(Class)
         /\ \A c \in Class : prog.decls[c] \in Seq([fn : Fn, kind : Kinds])
         /\ prog.order \in Seq(Class) /\ ToSet(prog.order) = Class
         /\ prog.complete \in SUBSET Class /\ prog.concrete \in SUBSET Class
<1>1. prog \in Program
  BY ProgramsAssumption
<1> QED BY <1>1 DEF Program, bases

\* The classes of a program are finitely many, each with a bounded number of
\* bases.
LEMMA ClassesAreFinite ==
  ASSUME prog \in Programs
  PROVE  /\ IsFiniteSet(Class) /\ NoClass \notin Class
         /\ \E M \in Nat : \A b \in Class : Len(bases[b]) <= M
<1> DEFINE s == prog.order
           n == Len(s)
<1>1. s \in [1 .. n -> Class] /\ n \in Nat /\ \A b \in Class : \E i \in 1 .. n : s[i] = b
  <2>1. s \in Seq(Class) /\ ToSet(s) = Class
    BY ProgramTypes
  <2> QED BY <2>1 DEF ToSet
<1> HIDE DEF s, n
<1>2. IsFiniteSet(Class)
  <2>1. IsFiniteSet(1 .. n)
    BY <1>1, FS_Interval
  <2>2. s \in Surjection(1 .. n, Class)
    BY <1>1 DEF Surjection
  <2> QED BY <2>1, <2>2, FS_Surjection
<1> DEFINE T == {k \in 0 .. n : \E M \in Nat : \A i \in 1 .. k : Len(bases[s[i]]) <= M}
<1>3. 0 \in T
  BY <1>1
<1>4. ASSUME NEW k \in 0 .. n - 1, k \in T PROVE k + 1 \in T
  <2>1. PICK M \in Nat : \A i \in 1 .. k : Len(bases[s[i]]) <= M
    BY <1>4
  <2> DEFINE L == Len(bases[s[k + 1]])
  <2>2. L \in Nat /\ \A i \in 1 .. k : Len(bases[s[i]]) \in Nat
    <3>1. k + 1 \in 1 .. n /\ \A i \in 1 .. k : i \in 1 .. n
      BY <1>1
    <3>2. \A i \in 1 .. n : bases[s[i]] \in Seq(Class)
      BY <1>1, ProgramTypes
    <3> QED BY <3>1, <3>2
  <2> HIDE DEF L
  <2>3. \A i \in 1 .. k + 1 : Len(bases[s[i]]) <= M + L
    <3>1. ASSUME NEW i \in 1 .. k + 1 PROVE Len(bases[s[i]]) <= M + L
      <4>1. CASE i = k + 1
        <5>1. Len(bases[s[i]]) = L
          BY <4>1 DEF L
        <5> QED BY <5>1, <2>2
      <4>2. CASE i # k + 1
        <5>1. i \in 1 .. k
          BY <4>2
        <5> QED BY <5>1, <2>1, <2>2
      <4> QED BY <4>1, <4>2
    <3> QED BY <3>1
  <2>4. M + L \in Nat /\ k + 1 \in 0 .. n
    BY <2>2, <1>1
  <2> QED BY <2>3, <2>4
<1>5. 0 .. n \subseteq T
  <2> HIDE DEF T
  <2>1. 0 \in Nat
    OBVIOUS
  <2> QED BY <1>1, <1>3, <1>4, <2>1, IntervalInduction
<1>6. n \in T
  <2> HIDE DEF T
  <2> QED BY <1>1, <1>5
<1>7. PICK M \in Nat : \A i \in 1 .. n : Len(bases[s[i]]) <= M
  BY <1>6
<1>8. \A b \in Class : Len(bases[b]) <= M
  BY <1>1, <1>7
<1> QED BY <1>2, <1>8, ProgramsAssumption

-----------------------------------------------------------------------------
\* The walk over the base classes.
Pairs == Seq(Class) \X SUBSET Class

Visits(v, breadthfirst) ==
  v = [x \in Pairs |-> WalkOn(x[1], x[2], breadthfirst, v)]

\* The worklist and the classes seen: the more are seen, the fewer are left,
\* and a class that was seen already leaves the worklist.
LEMMA WalkShrinks ==
  ASSUME prog \in Programs, NEW M \in Nat, \A b \in Class : Len(bases[b]) <= M,
         NEW todo \in Seq(Class), NEW seen \in SUBSET Class, todo # << >>, NEW bf
  PROVE  LET b == Head(todo)
             next == IF bf THEN Tail(todo) \o bases[b] ELSE bases[b] \o Tail(todo)
             left(t, s) == Cardinality(Class \ s) * (M + 1) + Len(t)
         IN  /\ b \in Class /\ Tail(todo) \in Seq(Class) /\ next \in Seq(Class)
             /\ left(todo, seen) \in Nat
             /\ left(Tail(todo), seen) < left(todo, seen)
             /\ b \notin seen => left(next, seen \cup {b}) < left(todo, seen)
<1> DEFINE b == Head(todo)
           next == IF bf THEN Tail(todo) \o bases[b] ELSE bases[b] \o Tail(todo)
           left(t, s) == Cardinality(Class \ s) * (M + 1) + Len(t)
           k == Cardinality(Class \ seen)
           m == Cardinality(Class \ (seen \cup {b}))
<1>1. b \in Class /\ Tail(todo) \in Seq(Class) /\ Len(Tail(todo)) = Len(todo) - 1 /\ Len(todo) \in Nat
  OBVIOUS
<1> HIDE DEF b
<1>2. bases[b] \in Seq(Class) /\ Len(bases[b]) <= M /\ Len(bases[b]) \in Nat
  BY <1>1, ProgramTypes
<1>3. next \in Seq(Class) /\ Len(next) = Len(todo) - 1 + Len(bases[b])
  BY <1>1, <1>2
<1>4. k \in Nat
  BY ClassesAreFinite, FS_Subset, FS_CardinalityType
<1>5. b \notin seen => m = k - 1 /\ k > 0 /\ m \in Nat
  <2> SUFFICES ASSUME b \notin seen PROVE m = k - 1 /\ k > 0 /\ m \in Nat
    OBVIOUS
  <2>1. Class \ (seen \cup {b}) = (Class \ seen) \ {b}
    OBVIOUS
  <2>2. IsFiniteSet(Class \ seen) /\ b \in Class \ seen
    BY <1>1, ClassesAreFinite, FS_Subset
  <2>3. Cardinality((Class \ seen) \ {b}) = Cardinality(Class \ seen) - 1
    BY <2>2, FS_RemoveElement
  <2>4. IsFiniteSet((Class \ seen) \ {b})
    BY <2>2, FS_Subset
  <2>5. Cardinality((Class \ seen) \ {b}) \in Nat
    BY <2>4, FS_CardinalityType
  <2>6. m = Cardinality((Class \ seen) \ {b})
    BY <2>1
  <2> HIDE DEF m
  <2> QED BY <1>4, <2>3, <2>5, <2>6
<1> HIDE DEF next, k, m
<1>6. left(todo, seen) \in Nat /\ left(Tail(todo), seen) < left(todo, seen)
  <2>1. k * (M + 1) \in Nat
    BY <1>4
  <2>2. left(todo, seen) = k * (M + 1) + Len(todo) /\ left(Tail(todo), seen) = k * (M + 1) + Len(Tail(todo))
    BY DEF k
  <2> QED BY <1>1, <2>1, <2>2
<1>7. ASSUME b \notin seen PROVE left(next, seen \cup {b}) < left(todo, seen)
  <2>1. m * (M + 1) = k * (M + 1) - (M + 1) /\ k * (M + 1) \in Nat
    BY <1>4, <1>5, <1>7
  <2>2. left(next, seen \cup {b}) = m * (M + 1) + Len(next) /\ left(todo, seen) = k * (M + 1) + Len(todo)
    BY DEF k, m
  <2> QED BY <1>1, <1>2, <1>3, <2>1, <2>2
<1> QED BY <1>1, <1>3, <1>6, <1>7 DEF b, next

\* The recursive function that a walk of the bases is defined by exists.
LEMMA VisitExists ==
  ASSUME prog \in Programs, NEW bf
  PROVE  \E v : Visits(v, bf)
<1>1. PICK M \in Nat : \A b \in Class : Len(bases[b]) <= M
  BY ClassesAreFinite
<1> DEFINE E == Seq(Class)
           W == [Pairs -> E]
           Body(v) == [x \in Pairs |-> WalkOn(x[1], x[2], bf, v)]
           F == [v \in W |-> Body(v)]
           mu == [x \in Pairs |-> Cardinality(Class \ x[2]) * (M + 1) + Len(x[1])]
<1>2. ASSUME NEW todo \in Seq(Class), NEW seen \in SUBSET Class, todo # << >>
      PROVE  LET b == Head(todo)
                 next == IF bf THEN Tail(todo) \o bases[b] ELSE bases[b] \o Tail(todo)
                 x == <<todo, seen>>
                 y == <<Tail(todo), seen>>
                 z == <<next, seen \cup {b}>>
             IN  /\ b \in Class /\ x \in Pairs /\ y \in Pairs /\ z \in Pairs
                 /\ mu[x] \in Nat
                 /\ mu[y] < mu[x]
                 /\ b \notin seen => mu[z] < mu[x]
  BY <1>1, <1>2, WalkShrinks DEF Pairs
<1>3. mu \in [Pairs -> Nat]
  <2>1. ASSUME NEW x \in Pairs PROVE Cardinality(Class \ x[2]) * (M + 1) + Len(x[1]) \in Nat
    <3>1. x[1] \in Seq(Class) /\ x[2] \in SUBSET Class
      BY DEF Pairs
    <3>2. Cardinality(Class \ x[2]) \in Nat
      BY <3>1, ClassesAreFinite, FS_Subset, FS_CardinalityType
    <3>3. Cardinality(Class \ x[2]) * (M + 1) \in Nat /\ Len(x[1]) \in Nat
      BY <3>1, <3>2
    <3> QED BY <3>3
  <2> QED BY <2>1
<1> HIDE DEF mu
<1>4. ASSUME NEW v \in W, NEW x \in Pairs PROVE WalkOn(x[1], x[2], bf, v) \in E
  <2> DEFINE todo == x[1]
             seen == x[2]
             b == Head(todo)
             next == IF bf THEN Tail(todo) \o bases[b] ELSE bases[b] \o Tail(todo)
  <2>1. todo \in Seq(Class) /\ seen \in SUBSET Class
    BY DEF Pairs
  <2>2. WalkOn(todo, seen, bf, v) = IF todo = << >> THEN << >>
                                    ELSE IF b \in seen THEN v[<<Tail(todo), seen>>]
                                    ELSE <<b>> \o v[<<next, seen \cup {b}>>]
    BY DEF WalkOn
  <2> HIDE DEF todo, seen
  <2>3. todo = << >> => WalkOn(todo, seen, bf, v) \in E
    BY <2>2
  <2>4. ASSUME todo # << >> PROVE WalkOn(todo, seen, bf, v) \in E
    <3>1. /\ b \in Class
          /\ <<Tail(todo), seen>> \in Pairs /\ <<next, seen \cup {b}>> \in Pairs
      BY <1>2, <2>1, <2>4
    <3> HIDE DEF b, next
    <3>2. v[<<Tail(todo), seen>>] \in Seq(Class) /\ v[<<next, seen \cup {b}>>] \in Seq(Class)
      BY <3>1
    <3>3. <<b>> \o v[<<next, seen \cup {b}>>] \in Seq(Class)
      BY <3>1, <3>2
    <3> QED BY <2>2, <2>4, <3>2, <3>3
  <2>5. WalkOn(todo, seen, bf, v) \in E
    BY <2>3, <2>4
  <2> QED BY <2>5 DEF todo, seen
<1>5. F \in [W -> W]
  <2>1. ASSUME NEW v \in W PROVE Body(v) \in W
    BY <1>4
  <2> HIDE DEF Body, W
  <2> QED BY <2>1
<1>6. ASSUME NEW v \in W, NEW u \in W, NEW x \in Pairs,
             \A y \in Pairs : mu[y] < mu[x] => v[y] = u[y]
      PROVE  F[v][x] = F[u][x]
  <2> DEFINE todo == x[1]
             seen == x[2]
             b == Head(todo)
             next == IF bf THEN Tail(todo) \o bases[b] ELSE bases[b] \o Tail(todo)
  <2>1. todo \in Seq(Class) /\ seen \in SUBSET Class /\ x = <<todo, seen>>
    BY DEF Pairs
  <2>2. \A t \in W : WalkOn(todo, seen, bf, t) =
                       IF todo = << >> THEN << >>
                       ELSE IF b \in seen THEN t[<<Tail(todo), seen>>]
                       ELSE <<b>> \o t[<<next, seen \cup {b}>>]
    BY DEF WalkOn
  <2>3. todo # << >> =>
          /\ <<Tail(todo), seen>> \in Pairs /\ <<next, seen \cup {b}>> \in Pairs
          /\ mu[<<Tail(todo), seen>>] < mu[x]
          /\ b \notin seen => mu[<<next, seen \cup {b}>>] < mu[x]
    BY <1>2, <2>1
  <2>4. F[v][x] = WalkOn(todo, seen, bf, v) /\ F[u][x] = WalkOn(todo, seen, bf, u)
    OBVIOUS
  <2> HIDE DEF todo, seen, b, next, F, W
  <2>5. WalkOn(todo, seen, bf, v) = WalkOn(todo, seen, bf, u)
    BY <1>6, <2>2, <2>3
  <2> QED BY <2>4, <2>5
<1>7. HasSolution(W, F)
  <2> HIDE DEF F, E
  <2>1. E # {} /\ LooksBelow(Pairs, W, F, mu)
    <3>1. << >> \in E
      BY DEF E
    <3> QED BY <3>1, <1>6 DEF LooksBelow
  <2> QED BY <1>3, <1>5, <2>1, UnboundedRecursion
<1>8. PICK v \in W : v = F[v]
  BY <1>7 DEF HasSolution
<1>9. v = Body(v)
  <2> HIDE DEF Body, W
  <2> QED BY <1>8
<1> QED BY <1>9 DEF Visits

\* The classes of a list.
LEMMA SetOfJoin ==
  ASSUME NEW S, NEW s \in Seq(S), NEW t \in Seq(S)
  PROVE  s \o t \in Seq(S) /\ ToSet(s \o t) = ToSet(s) \cup ToSet(t)
<1>1. /\ s \o t \in Seq(S) /\ Len(s \o t) = Len(s) + Len(t) /\ Len(s) \in Nat /\ Len(t) \in Nat
      /\ \A i \in 1 .. Len(s) + Len(t) : (s \o t)[i] = IF i <= Len(s) THEN s[i] ELSE t[i - Len(s)]
  OBVIOUS
<1>2. /\ DOMAIN s = 1 .. Len(s) /\ DOMAIN t = 1 .. Len(t) /\ DOMAIN (s \o t) = 1 .. Len(s) + Len(t)
  BY <1>1
<1>3. ASSUME NEW i \in DOMAIN (s \o t) PROVE (s \o t)[i] \in ToSet(s) \cup ToSet(t)
  <2>1. CASE i <= Len(s)
    BY <1>1, <1>2, <2>1 DEF ToSet
  <2>2. CASE i > Len(s)
    <3>1. i - Len(s) \in DOMAIN t /\ (s \o t)[i] = t[i - Len(s)]
      BY <1>1, <1>2, <2>2
    <3> QED BY <3>1 DEF ToSet
  <2> QED BY <1>1, <1>2, <2>1, <2>2
<1>4. ASSUME NEW i \in DOMAIN s PROVE s[i] \in ToSet(s \o t)
  <2>1. i \in DOMAIN (s \o t) /\ (s \o t)[i] = s[i]
    BY <1>1, <1>2
  <2> QED BY <2>1 DEF ToSet
<1>5. ASSUME NEW i \in DOMAIN t PROVE t[i] \in ToSet(s \o t)
  <2>1. i + Len(s) \in DOMAIN (s \o t) /\ (s \o t)[i + Len(s)] = t[i]
    BY <1>1, <1>2
  <2> QED BY <2>1 DEF ToSet
<1>6. /\ \A x \in ToSet(s) : \E i \in DOMAIN s : x = s[i]
      /\ \A x \in ToSet(t) : \E i \in DOMAIN t : x = t[i]
      /\ \A x \in ToSet(s \o t) : \E i \in DOMAIN (s \o t) : x = (s \o t)[i]
  BY DEF ToSet
<1> QED BY <1>1, <1>3, <1>4, <1>5, <1>6

\* A sequence has the elements of its head and its tail.
LEMMA SetOfHeadAndTail ==
  ASSUME NEW S, NEW s \in Seq(S), s # << >>
  PROVE  Head(s) \in S /\ Tail(s) \in Seq(S) /\ ToSet(s) = {Head(s)} \cup ToSet(Tail(s))
<1>1. Head(s) \in S /\ Tail(s) \in Seq(S) /\ s = <<Head(s)>> \o Tail(s) /\ <<Head(s)>> \in Seq(S)
  OBVIOUS
<1>2. ToSet(<<Head(s)>>) = {Head(s)}
  BY DEF ToSet
<1>3. ToSet(<<Head(s)>> \o Tail(s)) = ToSet(<<Head(s)>>) \cup ToSet(Tail(s))
  BY <1>1, SetOfJoin, SMTT(20), ZenonT(30)
<1> QED BY <1>1, <1>2, <1>3

\* What a visit finds: each class once, those of the worklist and their bases
\* except for those that were seen, and no others.
Inheriting(S) == \A x \in S : ToSet(bases[x]) \subseteq S

Reaches(w, todo, seen) ==
  /\ w \in Seq(Class) /\ IsInjective(w)
  /\ ToSet(w) \cap seen = {}
  /\ ToSet(todo) \subseteq seen \cup ToSet(w)
  /\ \A b \in ToSet(w) : ToSet(bases[b]) \subseteq seen \cup ToSet(w)
  /\ \A S \in SUBSET Class : Inheriting(S) /\ ToSet(todo) \subseteq S => ToSet(w) \subseteq S

\* A walk with nothing to do meets nothing.
LEMMA NothingIsReached ==
  ASSUME NEW seen PROVE Reaches(<< >>, << >>, seen)
BY DEF Reaches, ToSet, IsInjective

\* A class that was seen is passed over.
LEMMA SeenIsReached ==
  ASSUME NEW w, NEW todo \in Seq(Class), NEW seen \in SUBSET Class, todo # << >>,
         Head(todo) \in seen, Reaches(w, Tail(todo), seen)
  PROVE  Reaches(w, todo, seen)
<1>1. ToSet(todo) = {Head(todo)} \cup ToSet(Tail(todo))
  BY SetOfHeadAndTail
<1> HIDE DEF Inheriting
<1> QED BY <1>1 DEF Reaches

\* A class that was not is met, and its bases are still to do.
LEMMA NewIsReached ==
  ASSUME prog \in Programs, NEW u, NEW b \in Class, NEW todo \in Seq(Class), NEW next,
         NEW seen \in SUBSET Class, todo # << >>, b = Head(todo), b \notin seen,
         ToSet(next) = ToSet(Tail(todo)) \cup ToSet(bases[b]),
         Reaches(u, next, seen \cup {b})
  PROVE  Reaches(<<b>> \o u, todo, seen)
<1> DEFINE w == <<b>> \o u
<1>1. ToSet(todo) = {b} \cup ToSet(Tail(todo))
  BY SetOfHeadAndTail
<1>2. u \in Seq(Class) /\ <<b>> \in Seq(Class)
  BY DEF Reaches
<1>3. w \in Seq(Class) /\ ToSet(w) = {b} \cup ToSet(u)
  <2>1. ToSet(<<b>>) = {b}
    BY DEF ToSet
  <2> DEFINE h == <<b>>
  <2>3. h \in Seq(Class)
    BY <1>2
  <2> HIDE DEF h
  <2>4. h \o u \in Seq(Class) /\ ToSet(h \o u) = ToSet(h) \cup ToSet(u)
    BY <1>2, <2>3, SetOfJoin
  <2>2. w \in Seq(Class) /\ ToSet(w) = ToSet(<<b>>) \cup ToSet(u)
    BY <2>4 DEF h
  <2> QED BY <2>1, <2>2
<1>4. b \notin ToSet(u)
  BY DEF Reaches
<1>5. IsInjective(w)
  <2>1. /\ DOMAIN w = 1 .. Len(u) + 1 /\ w[1] = b /\ DOMAIN u = 1 .. Len(u) /\ Len(u) \in Nat
        /\ \A i \in 2 .. Len(u) + 1 : i - 1 \in DOMAIN u /\ w[i] = u[i - 1]
    BY <1>2
  <2> HIDE DEF w
  <2>2. \A i, j \in DOMAIN u : u[i] = u[j] => i = j
    BY DEF Reaches, IsInjective
  <2>3. \A i \in 2 .. Len(u) + 1 : w[i] # b
    BY <1>4, <2>1 DEF ToSet
  <2>4. ASSUME NEW i \in DOMAIN w, NEW j \in DOMAIN w, w[i] = w[j] PROVE i = j
    <3>1. CASE i = 1 \/ j = 1
      BY <2>1, <2>3, <2>4, <3>1
    <3>2. CASE i # 1 /\ j # 1
      <4>1. i \in 2 .. Len(u) + 1 /\ j \in 2 .. Len(u) + 1
        BY <2>1, <3>2
      <4>2. i - 1 = j - 1
        BY <2>1, <2>2, <2>4, <4>1
      <4> QED BY <4>1, <4>2
    <3> QED BY <3>1, <3>2
  <2> QED BY <2>4 DEF IsInjective
<1>6. ASSUME NEW S \in SUBSET Class, Inheriting(S), ToSet(todo) \subseteq S
      PROVE  ToSet(w) \subseteq S
  <2>1. b \in S /\ ToSet(next) \subseteq S
    BY <1>1, <1>6 DEF Inheriting
  <2>2. ToSet(u) \subseteq S
    <3> HIDE DEF Inheriting
    <3> QED BY <1>6, <2>1 DEF Reaches
  <2> QED BY <1>3, <2>1, <2>2
<1> HIDE DEF w
<1>7. ToSet(w) \cap seen = {} /\ ToSet(todo) \subseteq seen \cup ToSet(w)
      /\ \A x \in ToSet(w) : ToSet(bases[x]) \subseteq seen \cup ToSet(w)
  BY <1>1, <1>3 DEF Reaches
<1>8. Reaches(w, todo, seen)
  BY <1>3, <1>5, <1>6, <1>7 DEF Reaches
<1> QED BY <1>8 DEF w

\* A walk from any bases still to do meets exactly what can be reached
\* from them: the steps left are measured by what is unseen and to do.
LEMMA VisitReaches ==
  ASSUME prog \in Programs, NEW bf, NEW v, Visits(v, bf),
         NEW todo \in Seq(Class), NEW seen \in SUBSET Class
  PROVE  Reaches(v[<<todo, seen>>], todo, seen)
<1>1. PICK M \in Nat : \A b \in Class : Len(bases[b]) <= M
  BY ClassesAreFinite
<1> DEFINE left(t, s) == Cardinality(Class \ s) * (M + 1) + Len(t)
           T == {n \in Nat : \A t \in Seq(Class) : \A s \in SUBSET Class :
                               left(t, s) < n => Reaches(v[<<t, s>>], t, s)}
<1>2. ASSUME NEW t \in Seq(Class), NEW s \in SUBSET Class PROVE left(t, s) \in Nat
  <2>1. Cardinality(Class \ s) \in Nat
    BY ClassesAreFinite, FS_Subset, FS_CardinalityType
  <2>2. Cardinality(Class \ s) * (M + 1) \in Nat
    BY <2>1
  <2> QED BY <2>2
<1>3. ASSUME NEW t \in Seq(Class), NEW s \in SUBSET Class
      PROVE  v[<<t, s>>] = WalkOn(t, s, bf, v)
  <2>1. <<t, s>> \in Pairs
    BY DEF Pairs
  <2> QED BY <2>1 DEF Visits
<1>4. ASSUME NEW t \in Seq(Class), NEW s \in SUBSET Class, t # << >>
      PROVE  LET b == Head(t)
                 next == IF bf THEN Tail(t) \o bases[b] ELSE bases[b] \o Tail(t)
             IN  /\ b \in Class /\ Tail(t) \in Seq(Class) /\ next \in Seq(Class)
                 /\ left(Tail(t), s) < left(t, s)
                 /\ b \notin s => left(next, s \cup {b}) < left(t, s)
                 /\ ToSet(next) = ToSet(Tail(t)) \cup ToSet(bases[b])
  <2> DEFINE b == Head(t)
             next == IF bf THEN Tail(t) \o bases[b] ELSE bases[b] \o Tail(t)
  <2>1. /\ b \in Class /\ Tail(t) \in Seq(Class) /\ next \in Seq(Class)
        /\ left(Tail(t), s) < left(t, s)
        /\ b \notin s => left(next, s \cup {b}) < left(t, s)
    BY <1>1, <1>4, WalkShrinks
  <2>2. bases[b] \in Seq(Class)
    BY <2>1, ProgramTypes
  <2>3. ToSet(Tail(t) \o bases[b]) = ToSet(Tail(t)) \cup ToSet(bases[b])
        /\ ToSet(bases[b] \o Tail(t)) = ToSet(bases[b]) \cup ToSet(Tail(t))
    <3> DEFINE x == Tail(t)
               y == bases[b]
    <3>1. x \in Seq(Class) /\ y \in Seq(Class)
      BY <2>1, <2>2
    <3> HIDE DEF x, y
    <3>2. ToSet(x \o y) = ToSet(x) \cup ToSet(y)
      BY <3>1, SetOfJoin
    <3>3. ToSet(y \o x) = ToSet(y) \cup ToSet(x)
      BY <3>1, SetOfJoin
    <3> QED BY <3>2, <3>3 DEF x, y
  <2>4. ToSet(next) = ToSet(Tail(t)) \cup ToSet(bases[b])
    BY <2>3
  <2> QED BY <2>1, <2>4
<1>5. Nat \subseteq T
  <2>1. 0 \in T
    <3>1. \A t \in Seq(Class) : \A s \in SUBSET Class : ~ (left(t, s) < 0)
      <4>1. \A t \in Seq(Class) : \A s \in SUBSET Class : left(t, s) \in Nat
        BY <1>2
      <4> HIDE DEF left
      <4> QED BY <4>1
    <3> HIDE DEF left
    <3> QED BY <3>1
  <2>2. ASSUME NEW n \in Nat, n \in T PROVE n + 1 \in T
    <3> SUFFICES ASSUME NEW t \in Seq(Class), NEW s \in SUBSET Class, left(t, s) < n + 1
                 PROVE  Reaches(v[<<t, s>>], t, s)
      OBVIOUS
    <3>0. left(t, s) \in Nat /\ v[<<t, s>>] = WalkOn(t, s, bf, v)
      BY <1>2, <1>3
    <3>1. \A p \in Seq(Class) : \A q \in SUBSET Class :
            left(p, q) < left(t, s) => Reaches(v[<<p, q>>], p, q)
      <4> SUFFICES ASSUME NEW p \in Seq(Class), NEW q \in SUBSET Class, left(p, q) < left(t, s)
                   PROVE  Reaches(v[<<p, q>>], p, q)
        OBVIOUS
      <4>1. left(p, q) \in Nat
        BY <1>2
      <4>2. left(p, q) < n
        <5> HIDE DEF left
        <5> QED BY <3>0, <4>1
      <4> QED BY <2>2, <4>2
    <3> HIDE DEF T, left
    <3> DEFINE b == Head(t)
               next == IF bf THEN Tail(t) \o bases[b] ELSE bases[b] \o Tail(t)
    <3>2. WalkOn(t, s, bf, v) = IF t = << >> THEN << >>
                                ELSE IF b \in s THEN v[<<Tail(t), s>>]
                                ELSE <<b>> \o v[<<next, s \cup {b}>>]
      BY DEF WalkOn
    <3>3. CASE t = << >>
      BY <3>0, <3>2, <3>3, NothingIsReached
    <3>4. CASE t # << >>
      <4>1. /\ b \in Class /\ Tail(t) \in Seq(Class) /\ next \in Seq(Class)
            /\ left(Tail(t), s) < left(t, s)
            /\ b \notin s => left(next, s \cup {b}) < left(t, s)
            /\ ToSet(next) = ToSet(Tail(t)) \cup ToSet(bases[b])
        BY <1>4, <3>4
      <4>2. CASE b \in s
        <5>1. Reaches(v[<<Tail(t), s>>], Tail(t), s)
          BY <3>1, <4>1
        <5>2. Reaches(v[<<Tail(t), s>>], t, s)
          BY <3>4, <4>2, <5>1, SeenIsReached
        <5> QED BY <3>0, <3>2, <3>4, <4>2, <5>2
      <4>3. CASE b \notin s
        <5> DEFINE u == v[<<next, s \cup {b}>>]
        <5>0. b = Head(t)
          OBVIOUS
        <5> HIDE DEF next, b
        <5>1. s \cup {b} \in SUBSET Class
          BY <4>1
        <5>2. Reaches(u, next, s \cup {b})
          BY <3>1, <4>1, <4>3, <5>1
        <5> HIDE DEF u
        <5>3. Reaches(<<b>> \o u, t, s)
          BY <3>4, <4>1, <4>3, <5>0, <5>2, NewIsReached
        <5> QED BY <3>0, <3>2, <3>4, <4>3, <5>3 DEF u
      <4> QED BY <4>2, <4>3
    <3> QED BY <3>3, <3>4
  <2> HIDE DEF T
  <2> QED BY <2>1, <2>2, NumberInduction
<1>6. left(todo, seen) + 1 \in Nat /\ left(todo, seen) < left(todo, seen) + 1
  <2>1. left(todo, seen) \in Nat
    BY <1>2
  <2> HIDE DEF left
  <2> QED BY <2>1
<1>7. left(todo, seen) + 1 \in T
  BY <1>5, <1>6
<1> HIDE DEF left
<1> QED BY <1>6, <1>7

\* The walk over the ancestors, breadth first and depth first: the same
\* classes, each once.
LEMMA WalkReaches ==
  ASSUME prog \in Programs, NEW c \in Class, NEW bf
  PROVE  Reaches(Walk(c, bf), bases[c], {})
<1> DEFINE v == CHOOSE u : Visits(u, bf)
<1>1. Visits(v, bf)
  BY VisitExists
<1>2. Walk(c, bf) = v[<<bases[c], {}>>]
  BY DEF Walk, Visits, Pairs
<1> HIDE DEF v
<1>3. bases[c] \in Seq(Class) /\ {} \in SUBSET Class
  BY ProgramTypes
<1> QED BY <1>1, <1>2, <1>3, VisitReaches

\* The ancestors of a class are the least set that has its bases and the
\* bases of all in it, and each walk meets every one of them once.
LEMMA AncestorsAre ==
  ASSUME prog \in Programs, NEW c \in Class
  PROVE  /\ Ancestors(c) \in SUBSET Class
         /\ ToSet(bases[c]) \subseteq Ancestors(c)
         /\ Inheriting(Ancestors(c))
         /\ \A S \in SUBSET Class : Inheriting(S) /\ ToSet(bases[c]) \subseteq S
                                      => Ancestors(c) \subseteq S
         /\ \A bf : Walk(c, bf) \in Seq(Class) /\ IsInjective(Walk(c, bf))
                    /\ ToSet(Walk(c, bf)) = Ancestors(c)
<1>1. ASSUME NEW bf
      PROVE  LET A == ToSet(Walk(c, bf))
             IN  /\ Walk(c, bf) \in Seq(Class) /\ IsInjective(Walk(c, bf))
                 /\ A \in SUBSET Class
                 /\ ToSet(bases[c]) \subseteq A
                 /\ Inheriting(A)
                 /\ \A S \in SUBSET Class : Inheriting(S) /\ ToSet(bases[c]) \subseteq S
                                              => A \subseteq S
  <2>1. Reaches(Walk(c, bf), bases[c], {})
    BY WalkReaches
  <2> DEFINE w == Walk(c, bf)
  <2> HIDE DEF w
  <2>2. Reaches(w, bases[c], {})
    BY <2>1 DEF w
  <2>3. w \in Seq(Class) /\ ToSet(w) \in SUBSET Class
    BY <2>2 DEF Reaches, ToSet
  <2>4. Inheriting(ToSet(w))
    BY <2>2 DEF Reaches, Inheriting
  <2>5. \A S \in SUBSET Class : Inheriting(S) /\ ToSet(bases[c]) \subseteq S => ToSet(w) \subseteq S
    BY <2>2, Zenon DEF Reaches
  <2> QED BY <2>2, <2>3, <2>4, <2>5 DEF Reaches, w
<1>2. Ancestors(c) = ToSet(Walk(c, FALSE))
  BY DEF Ancestors
<1>3. ASSUME NEW bf PROVE ToSet(Walk(c, bf)) = Ancestors(c)
  <2> HIDE DEF Inheriting
  <2>1. ToSet(Walk(c, bf)) \subseteq ToSet(Walk(c, FALSE))
    BY <1>1
  <2>2. ToSet(Walk(c, FALSE)) \subseteq ToSet(Walk(c, bf))
    BY <1>1
  <2> QED BY <1>2, <2>1, <2>2
<1> QED BY <1>1, <1>2, <1>3

\* What an ancestor inherits is inherited.
LEMMA AncestorsInherit ==
  ASSUME prog \in Programs, NEW c \in Class, NEW x \in Ancestors(c)
  PROVE  x \in Class /\ Ancestors(x) \subseteq Ancestors(c)
<1>1. x \in Class /\ Ancestors(c) \in SUBSET Class /\ ToSet(bases[x]) \subseteq Ancestors(c)
  BY AncestorsAre DEF Inheriting
<1> QED BY <1>1, AncestorsAre

-----------------------------------------------------------------------------
\* The search for the overriding function.
Straight(c) == \A x \in Ancestors(c) : x \notin Ancestors(x)

MaybeClass == Class \cup {NoClass}

Overrides(g, c, f) ==
  g = [n \in 0 .. Len(Walk(c, TRUE)) |->
         IF n = 0 THEN NoClass ELSE Better(f, g[n - 1], Walk(c, TRUE)[n])]

\* The recursive function of the override search exists.
LEMMA OverridesExist ==
  ASSUME prog \in Programs, NEW c \in Class, NEW f
  PROVE  \E g \in [0 .. Len(Walk(c, TRUE)) -> MaybeClass] : Overrides(g, c, f)
<1> DEFINE w == Walk(c, TRUE)
           n == Len(w)
           F == [x \in (1 .. n) \X MaybeClass |-> Better(f, x[2], w[x[1]])]
<1>1. w \in Seq(Class)
  BY AncestorsAre
<1> HIDE DEF w
<1>2. n \in Nat /\ \A i \in 1 .. n : w[i] \in Class
  BY <1>1
<1> HIDE DEF n
<1>3. ASSUME NEW i \in 1 .. n, NEW o \in MaybeClass PROVE Better(f, o, w[i]) \in MaybeClass
  BY <1>2 DEF Better, MaybeClass
<1>4. F \in [(1 .. n) \X MaybeClass -> MaybeClass]
  BY <1>3
<1>5. \A i \in 1 .. n : \A o \in MaybeClass : F[<<i, o>>] = Better(f, o, w[i])
  OBVIOUS
<1>6. NoClass \in MaybeClass
  BY DEF MaybeClass
<1> HIDE DEF F
<1>7. PICK g \in [0 .. n -> MaybeClass] : Recurs(g, n, NoClass, F)
  BY <1>2, <1>4, <1>6, IntervalRecursion
<1>8. g = [i \in 0 .. n |-> IF i = 0 THEN NoClass ELSE F[<<i, g[i - 1]>>]]
  BY <1>7 DEF Recurs
<1>9. ASSUME NEW i \in 0 .. n
      PROVE  g[i] = IF i = 0 THEN NoClass ELSE Better(f, g[i - 1], w[i])
  <2>1. CASE i = 0
    BY <1>8, <2>1
  <2>2. CASE i # 0
    <3>1. i \in 1 .. n /\ i - 1 \in 0 .. n /\ g[i - 1] \in MaybeClass
      BY <1>2, <2>2
    <3>2. g[i] = F[<<i, g[i - 1]>>]
      BY <1>8, <2>2
    <3> QED BY <1>5, <2>2, <3>1, <3>2
  <2> QED BY <2>1, <2>2
<1>10. Overrides(g, c, f)
  BY <1>8, <1>9 DEF Overrides, n, w
<1> QED BY <1>10 DEF n, w

\* Of the classes that were visited the one that was found is virtual, and no
\* virtual one is below it.
Found(o, w, n, f) ==
  \/ o = NoClass /\ \A i \in 1 .. n : f \notin virtual[w[i]]
  \/ /\ \E i \in 1 .. n : o = w[i]
     /\ f \in virtual[o]
     /\ \A i \in 1 .. n : f \in virtual[w[i]] => o \notin Ancestors(w[i])

\* Another ancestor asked leaves the most derived one so far.
LEMMA BetterIsFound ==
  ASSUME prog \in Programs, NEW w \in Seq(Class), \A i \in 1 .. Len(w) : w[i] \notin Ancestors(w[i]),
         NEW k \in 1 .. Len(w), NEW o, NEW f, Found(o, w, k - 1, f)
  PROVE  Found(Better(f, o, w[k]), w, k, f)
<1>1. /\ Len(w) \in Nat /\ k \in Nat /\ \A i \in 1 .. k : i \in 1 .. Len(w) /\ (i = k \/ i \in 1 .. k - 1)
      /\ \A i \in 1 .. k - 1 : i \in 1 .. k
  OBVIOUS
<1>2. k \in 1 .. k /\ \A i \in 1 .. k : w[i] \in Class
  BY <1>1
<1> DEFINE b == w[k]
<1>3. CASE f \notin virtual[b]
  <2>1. Better(f, o, b) = o
    BY <1>3 DEF Better
  <2> QED BY <1>1, <1>2, <1>3, <2>1 DEF Found
<1>4. CASE f \in virtual[b] /\ o = NoClass
  <2>1. Better(f, o, b) = b
    BY <1>4 DEF Better
  <2>2. \A i \in 1 .. k - 1 : f \notin virtual[w[i]]
    <3>1. \A i \in 1 .. k - 1 : w[i] # NoClass
      BY <1>1, <1>2, ProgramsAssumption
    <3> QED BY <1>4, <3>1 DEF Found
  <2>3. b \notin Ancestors(b)
    BY <1>1
  <2>4. \A i \in 1 .. k : f \in virtual[w[i]] => b \notin Ancestors(w[i])
    BY <1>1, <2>2, <2>3
  <2> QED BY <1>2, <1>4, <2>1, <2>4 DEF Found
<1>5. CASE f \in virtual[b] /\ o # NoClass /\ o \in Ancestors(b)
  <2>1. Better(f, o, b) = b
    BY <1>5 DEF Better, IsClassASubclassOf
  <2>2. \A i \in 1 .. k - 1 : f \in virtual[w[i]] => o \notin Ancestors(w[i])
    BY <1>5 DEF Found
  <2>3. ASSUME NEW i \in 1 .. k, f \in virtual[w[i]] PROVE b \notin Ancestors(w[i])
    <3>1. CASE i = k
      BY <1>1, <3>1
    <3>2. CASE i # k
      <4>1. o \notin Ancestors(w[i])
        BY <1>1, <2>2, <2>3, <3>2
      <4>2. b \in Ancestors(w[i]) => Ancestors(b) \subseteq Ancestors(w[i])
        BY <1>2, AncestorsInherit
      <4> QED BY <1>5, <4>1, <4>2
    <3> QED BY <3>1, <3>2
  <2> QED BY <1>2, <1>5, <2>1, <2>3 DEF Found
<1>6. CASE f \in virtual[b] /\ o # NoClass /\ o \notin Ancestors(b)
  <2>1. Better(f, o, b) = o
    BY <1>6 DEF Better, IsClassASubclassOf
  <2>2. /\ \E i \in 1 .. k - 1 : o = w[i]
        /\ f \in virtual[o]
        /\ \A i \in 1 .. k - 1 : f \in virtual[w[i]] => o \notin Ancestors(w[i])
    BY <1>6 DEF Found
  <2>3. \A i \in 1 .. k : f \in virtual[w[i]] => o \notin Ancestors(w[i])
    BY <1>1, <1>6, <2>2
  <2> QED BY <1>1, <2>1, <2>2, <2>3 DEF Found
<1> QED BY <1>3, <1>4, <1>5, <1>6

\* FindOverride gives the most derived of the ancestors where f is virtual.
MostDerivedAncestor(o, c, f) ==
  \/ o = NoClass /\ \A x \in Ancestors(c) : f \notin virtual[x]
  \/ o \in Ancestors(c) /\ f \in virtual[o]
     /\ \A x \in Ancestors(c) : f \in virtual[x] => o \notin Ancestors(x)

\* The walk, as its positions.
LEMMA WalkIndices ==
  ASSUME prog \in Programs, NEW c \in Class, NEW bf
  PROVE  LET w == Walk(c, bf)
         IN  /\ w \in Seq(Class) /\ Len(w) \in Nat
             /\ \A x \in Ancestors(c) : \E i \in 1 .. Len(w) : x = w[i]
             /\ \A i \in 1 .. Len(w) : w[i] \in Ancestors(c)
             /\ \A i, j \in 1 .. Len(w) : w[i] = w[j] => i = j
<1> DEFINE w == Walk(c, bf)
<1>1. w \in Seq(Class) /\ IsInjective(w) /\ ToSet(w) = Ancestors(c)
  BY AncestorsAre
<1> HIDE DEF w
<1>2. Len(w) \in Nat /\ DOMAIN w = 1 .. Len(w)
  BY <1>1
<1>3. /\ \A x \in Ancestors(c) : \E i \in 1 .. Len(w) : x = w[i]
      /\ \A i \in 1 .. Len(w) : w[i] \in Ancestors(c)
  BY <1>1, <1>2 DEF ToSet
<1>4. \A i, j \in 1 .. Len(w) : w[i] = w[j] => i = j
  BY <1>1, <1>2 DEF IsInjective
<1> QED BY <1>1, <1>2, <1>3, <1>4 DEF w

\* The override search ends with an ancestor that declares f virtual and
\* that no other one that does derives from; with none if there is none.
LEMMA OverrideIsMostDerived ==
  ASSUME prog \in Programs, NEW c \in Class, Straight(c), NEW f
  PROVE  MostDerivedAncestor(FindOverride(c, f), c, f)
<1> DEFINE w == Walk(c, TRUE)
           n == Len(w)
           g == CHOOSE h : Overrides(h, c, f)
<1>1. Overrides(g, c, f)
  BY OverridesExist
<1>2. FindOverride(c, f) = g[n]
  BY DEF FindOverride, Overrides
<1> HIDE DEF g
<1>3. \A i \in 0 .. n : g[i] = IF i = 0 THEN NoClass ELSE Better(f, g[i - 1], w[i])
  BY <1>1 DEF Overrides
<1>4. /\ w \in Seq(Class) /\ n \in Nat
      /\ \A x \in Ancestors(c) : \E i \in 1 .. n : x = w[i]
      /\ \A i \in 1 .. n : w[i] \in Ancestors(c)
  BY WalkIndices
<1>5. \A i \in 1 .. n : w[i] \notin Ancestors(w[i])
  BY <1>4 DEF Straight
<1> HIDE DEF w
<1> DEFINE T == {i \in 0 .. n : Found(g[i], w, i, f)}
<1>6. 0 \in T
  BY <1>3, <1>4 DEF Found
<1>7. ASSUME NEW i \in 0 .. n - 1, i \in T PROVE i + 1 \in T
  <2>1. i + 1 \in 1 .. n /\ i + 1 \in 0 .. n /\ (i + 1) - 1 = i /\ i + 1 # 0
    BY <1>4
  <2>2. g[i + 1] = Better(f, g[i], w[i + 1]) /\ Found(g[i], w, (i + 1) - 1, f)
    BY <1>3, <1>7, <2>1
  <2> HIDE DEF T
  <2>3. Found(Better(f, g[i], w[i + 1]), w, i + 1, f)
    BY <1>4, <1>5, <2>1, <2>2, BetterIsFound
  <2> QED BY <2>1, <2>2, <2>3 DEF T
<1>8. 0 .. n \subseteq T
  <2> HIDE DEF T, n
  <2>1. 0 \in Nat
    OBVIOUS
  <2> QED BY <1>4, <1>6, <1>7, <2>1, IntervalInduction
<1>9. Found(g[n], w, n, f)
  BY <1>4, <1>8
<1> HIDE DEF n
<1>10. MostDerivedAncestor(g[n], c, f)
  BY <1>4, <1>9 DEF Found, MostDerivedAncestor
<1> QED BY <1>2, <1>10

-----------------------------------------------------------------------------
\* The search for the originator.
Origin == [class : MaybeClass, fsym : MaybeClass, errors : Nat]

Originating(g, c, f) ==
  g = [n \in 0 .. Len(Walk(c, FALSE)) |->
         IF n = 0 THEN NoOrigin ELSE Earlier(f, g[n - 1], Walk(c, FALSE)[n])]

\* What another ancestor makes of an origin is an origin.
LEMMA EarlierType ==
  ASSUME NEW s \in Origin, NEW b \in Class, NEW f
  PROVE  Earlier(f, s, b) \in Origin
<1>1. /\ s.class \in MaybeClass /\ s.fsym \in MaybeClass /\ s.errors \in Nat
      /\ s = [class |-> s.class, fsym |-> s.fsym, errors |-> s.errors]
      /\ b \in MaybeClass /\ NoClass \in MaybeClass /\ s.errors + 1 \in Nat
  BY DEF Origin, MaybeClass
<1>2. /\ [s EXCEPT !.class = b, !.fsym = b] \in Origin
      /\ [s EXCEPT !.fsym = NoClass, !.errors = @ + 1] \in Origin
  BY <1>1 DEF Origin
<1> QED BY <1>2 DEF Earlier

\* The recursive function of the originator search exists.
LEMMA OriginatingExists ==
  ASSUME prog \in Programs, NEW c \in Class, NEW f
  PROVE  \E g : Originating(g, c, f)
<1> DEFINE w == Walk(c, FALSE)
           n == Len(w)
           F == [x \in (1 .. n) \X Origin |-> Earlier(f, x[2], w[x[1]])]
<1>1. w \in Seq(Class)
  BY AncestorsAre
<1> HIDE DEF w
<1>2. n \in Nat /\ \A i \in 1 .. n : w[i] \in Class
  BY <1>1
<1> HIDE DEF n
<1>4. F \in [(1 .. n) \X Origin -> Origin]
  <2>1. ASSUME NEW x \in (1 .. n) \X Origin PROVE Earlier(f, x[2], w[x[1]]) \in Origin
    <3>1. x[1] \in 1 .. n /\ x[2] \in Origin
      OBVIOUS
    <3> QED BY <1>2, <3>1, EarlierType
  <2> QED BY <2>1
<1>5. \A i \in 1 .. n : \A s \in Origin : F[<<i, s>>] = Earlier(f, s, w[i])
  OBVIOUS
<1>6. NoOrigin \in Origin
  BY DEF MaybeClass, NoOrigin, Origin
<1> HIDE DEF F
<1>7. PICK g \in [0 .. n -> Origin] : Recurs(g, n, NoOrigin, F)
  BY <1>2, <1>4, <1>6, IntervalRecursion
<1>8. g = [i \in 0 .. n |-> IF i = 0 THEN NoOrigin ELSE F[<<i, g[i - 1]>>]]
  BY <1>7 DEF Recurs
<1>9. ASSUME NEW i \in 0 .. n
      PROVE  g[i] = IF i = 0 THEN NoOrigin ELSE Earlier(f, g[i - 1], w[i])
  <2>1. CASE i = 0
    BY <1>8, <2>1
  <2>2. CASE i # 0
    <3>1. i \in 1 .. n /\ i - 1 \in 0 .. n /\ g[i - 1] \in Origin
      BY <1>2, <2>2
    <3>2. g[i] = F[<<i, g[i - 1]>>]
      BY <1>8, <2>2
    <3> QED BY <1>5, <2>2, <3>1, <3>2
  <2> QED BY <2>1, <2>2
<1>10. Originating(g, c, f)
  BY <1>8, <1>9 DEF Originating, n, w
<1> QED BY <1>10

\* Of the classes that were visited none that is virtual is above the one that
\* was found; without an error all are below it, and it has the function.
Originated(s, w, n, f) ==
  /\ s \in Origin
  /\ \/ s = NoOrigin /\ \A i \in 1 .. n : f \notin virtual[w[i]]
     \/ /\ \E i \in 1 .. n : s.class = w[i]
        /\ f \in virtual[s.class] /\ s.fsym \in {NoClass, s.class}
        /\ \A i \in 1 .. n : f \in virtual[w[i]] => w[i] \notin Ancestors(s.class)
        /\ s.errors = 0 =>
             /\ s.fsym = s.class
             /\ \A i \in 1 .. n : f \in virtual[w[i]] =>
                  w[i] = s.class \/ s.class \in Ancestors(w[i])

\* Another ancestor asked leaves the first one so far, or counts an error.
LEMMA EarlierOriginated ==
  ASSUME prog \in Programs, NEW w \in Seq(Class), \A i \in 1 .. Len(w) : w[i] \notin Ancestors(w[i]),
         NEW k \in 1 .. Len(w), NEW s, NEW f, Originated(s, w, k - 1, f)
  PROVE  Originated(Earlier(f, s, w[k]), w, k, f)
<1>1. /\ Len(w) \in Nat /\ k \in Nat /\ \A i \in 1 .. k : i \in 1 .. Len(w) /\ (i = k \/ i \in 1 .. k - 1)
      /\ \A i \in 1 .. k - 1 : i \in 1 .. k
  OBVIOUS
<1>2. k \in 1 .. k /\ \A i \in 1 .. k : w[i] \in Class
  BY <1>1
<1> DEFINE b == w[k]
           e == Earlier(f, s, b)
<1>3. b \in Class /\ s \in Origin /\ e \in Origin /\ b # NoClass
  BY <1>2, EarlierType, ProgramsAssumption DEF Originated
<1>4. ASSUME f \notin virtual[b]
      PROVE  Originated(e, w, k, f)
  <2>1. e = s
    BY <1>4 DEF Earlier
  <2>2. CASE s = NoOrigin /\ \A i \in 1 .. k - 1 : f \notin virtual[w[i]]
    BY <1>1, <1>3, <1>4, <2>1, <2>2 DEF Originated
  <2>3. CASE ~ (s = NoOrigin /\ \A i \in 1 .. k - 1 : f \notin virtual[w[i]])
    <3>1. /\ \E i \in 1 .. k : s.class = w[i]
          /\ f \in virtual[s.class] /\ s.fsym \in {NoClass, s.class}
          /\ \A i \in 1 .. k : f \in virtual[w[i]] => i \in 1 .. k - 1 /\ w[i] \notin Ancestors(s.class)
      BY <1>1, <1>4, <2>3 DEF Originated
    <3> QED BY <1>3, <2>1, <2>3, <3>1 DEF Originated
  <2> QED BY <2>2, <2>3
<1>5. ASSUME f \in virtual[b] /\ (s.class = NoClass \/ b \in Ancestors(s.class))
      PROVE  Originated(e, w, k, f)
  <2>1. e = [s EXCEPT !.class = b, !.fsym = b]
    BY <1>5 DEF Earlier, IsClassASubclassOf
  <2>2. e.class = b /\ e.fsym = b /\ e.errors = s.errors
    BY <1>3, <2>1 DEF Origin
  <2>3. b \notin Ancestors(b)
    BY <1>1
  <2>4. CASE s = NoOrigin /\ \A i \in 1 .. k - 1 : f \notin virtual[w[i]]
    <3>1. \A i \in 1 .. k : f \in virtual[w[i]] => w[i] = b
      BY <1>1, <2>4
    <3> HIDE DEF b, e
    <3> QED BY <1>2, <1>3, <1>5, <2>2, <2>3, <3>1 DEF Originated, b
  <2>5. CASE ~ (s = NoOrigin /\ \A i \in 1 .. k - 1 : f \notin virtual[w[i]])
    <3>1. /\ s.class \in Class
          /\ \A i \in 1 .. k - 1 : f \in virtual[w[i]] => w[i] \notin Ancestors(s.class)
          /\ s.errors = 0 => \A i \in 1 .. k - 1 : f \in virtual[w[i]] =>
                  w[i] = s.class \/ s.class \in Ancestors(w[i])
      BY <1>1, <1>2, <2>5 DEF Originated
    <3>2. b \in Ancestors(s.class)
      BY <1>5, <3>1, ProgramsAssumption
    <3>3. Ancestors(b) \subseteq Ancestors(s.class)
      BY <3>1, <3>2, AncestorsInherit
    <3>4. \A i \in 1 .. k : f \in virtual[w[i]] => w[i] \notin Ancestors(b)
      BY <1>1, <2>3, <3>1, <3>3
    <3>5. ASSUME s.errors = 0, NEW i \in 1 .. k, f \in virtual[w[i]]
          PROVE  w[i] = b \/ b \in Ancestors(w[i])
      <4>1. CASE i = k
        BY <4>1
      <4>2. CASE i # k
        <5>1. w[i] = s.class \/ s.class \in Ancestors(w[i])
          BY <1>1, <3>1, <3>5, <4>2
        <5>2. s.class \in Ancestors(w[i]) => Ancestors(s.class) \subseteq Ancestors(w[i])
          BY <1>2, AncestorsInherit
        <5> QED BY <3>2, <5>1, <5>2
      <4> QED BY <4>1, <4>2
    <3> HIDE DEF b, e
    <3> QED BY <1>2, <1>3, <1>5, <2>2, <3>4, <3>5 DEF Originated, b
  <2> QED BY <2>4, <2>5
<1>6. ASSUME f \in virtual[b] /\ s.class # NoClass /\ b \notin Ancestors(s.class)
      PROVE  Originated(e, w, k, f)
  <2>0. s # NoOrigin
    BY <1>6 DEF NoOrigin
  <2>1. /\ s.class \in Class
        /\ \E i \in 1 .. k : s.class = w[i]
        /\ f \in virtual[s.class] /\ s.fsym \in {NoClass, s.class}
        /\ \A i \in 1 .. k - 1 : f \in virtual[w[i]] => w[i] \notin Ancestors(s.class)
        /\ s.errors = 0 =>
             /\ s.fsym = s.class
             /\ \A i \in 1 .. k - 1 : f \in virtual[w[i]] =>
                  w[i] = s.class \/ s.class \in Ancestors(w[i])
    BY <1>1, <1>2, <2>0 DEF Originated
  <2>2. \A i \in 1 .. k : f \in virtual[w[i]] => w[i] \notin Ancestors(s.class)
    BY <1>1, <1>6, <2>1
  <2>3. CASE s.class \in Ancestors(b)
    <3>1. e = s
      BY <1>6, <2>3 DEF Earlier, IsClassASubclassOf
    <3>2. s.errors = 0 => \A i \in 1 .. k : f \in virtual[w[i]] =>
                  w[i] = s.class \/ s.class \in Ancestors(w[i])
      BY <1>1, <2>1, <2>3
    <3> HIDE DEF b, e
    <3> QED BY <1>3, <2>1, <2>2, <3>1, <3>2 DEF Originated, b
  <2>4. CASE s.class \notin Ancestors(b)
    <3>1. e = [s EXCEPT !.fsym = NoClass, !.errors = @ + 1]
      BY <1>6, <2>4 DEF Earlier, IsClassASubclassOf
    <3>2. e.class = s.class /\ e.fsym = NoClass /\ e.errors # 0
      BY <1>3, <3>1 DEF Origin
    <3> HIDE DEF b, e
    <3> QED BY <1>3, <2>1, <2>2, <3>2 DEF Originated, b
  <2> QED BY <2>3, <2>4
<1> HIDE DEF e
<1>7. Originated(e, w, k, f)
  BY <1>4, <1>5, <1>6
<1> QED BY <1>7 DEF e

\* FindOriginating gives a first declaration; if it finds no error, the only one.
FirstOrigin(s, c, f) ==
  /\ s \in Origin
  /\ \/ s = NoOrigin /\ \A x \in Ancestors(c) : f \notin virtual[x]
     \/ /\ s.class \in Ancestors(c) /\ f \in virtual[s.class] /\ s.fsym \in {NoClass, s.class}
        /\ \A x \in Ancestors(c) : f \in virtual[x] => x \notin Ancestors(s.class)
        /\ s.errors = 0 =>
             /\ s.fsym = s.class
             /\ \A x \in Ancestors(c) : f \in virtual[x] =>
                  x = s.class \/ s.class \in Ancestors(x)

\* The originator search without an error ends with the ancestor that all
\* others with f derive from.
LEMMA OriginIsFirst ==
  ASSUME prog \in Programs, NEW c \in Class, Straight(c), NEW f
  PROVE  FirstOrigin(FindOriginating(c, f), c, f)
<1> DEFINE w == Walk(c, FALSE)
           n == Len(w)
           g == CHOOSE h : Originating(h, c, f)
<1>1. Originating(g, c, f)
  BY OriginatingExists
<1>2. FindOriginating(c, f) = g[n]
  BY DEF FindOriginating, Originating
<1> HIDE DEF g
<1>3. \A i \in 0 .. n : g[i] = IF i = 0 THEN NoOrigin ELSE Earlier(f, g[i - 1], w[i])
  BY <1>1 DEF Originating
<1>4. /\ w \in Seq(Class) /\ n \in Nat
      /\ \A x \in Ancestors(c) : \E i \in 1 .. n : x = w[i]
      /\ \A i \in 1 .. n : w[i] \in Ancestors(c)
  BY WalkIndices
<1>5. \A i \in 1 .. n : w[i] \notin Ancestors(w[i])
  BY <1>4 DEF Straight
<1> HIDE DEF w
<1> DEFINE T == {i \in 0 .. n : Originated(g[i], w, i, f)}
<1>6. 0 \in T
  <2>1. NoOrigin \in Origin
    BY DEF MaybeClass, NoOrigin, Origin
  <2>2. g[0] = NoOrigin
    BY <1>3, <1>4
  <2> QED BY <1>4, <2>1, <2>2 DEF Originated
<1>7. ASSUME NEW i \in 0 .. n - 1, i \in T PROVE i + 1 \in T
  <2>1. i + 1 \in 1 .. n /\ i + 1 \in 0 .. n /\ (i + 1) - 1 = i /\ i + 1 # 0
    BY <1>4
  <2>2. g[i + 1] = Earlier(f, g[i], w[i + 1]) /\ Originated(g[i], w, (i + 1) - 1, f)
    BY <1>3, <1>7, <2>1
  <2> HIDE DEF T
  <2>3. Originated(Earlier(f, g[i], w[i + 1]), w, i + 1, f)
    BY <1>4, <1>5, <2>1, <2>2, EarlierOriginated
  <2> QED BY <2>1, <2>2, <2>3 DEF T
<1>8. 0 .. n \subseteq T
  <2> HIDE DEF T, n
  <2>1. 0 \in Nat
    OBVIOUS
  <2> QED BY <1>4, <1>6, <1>7, <2>1, IntervalInduction
<1>9. Originated(g[n], w, n, f)
  BY <1>4, <1>8
<1> HIDE DEF n
<1> DEFINE s == g[n]
<1> HIDE DEF s
<1>10. Originated(s, w, n, f)
  BY <1>9 DEF s
<1>11. FirstOrigin(s, c, f)
  <2>1. CASE s = NoOrigin /\ \A i \in 1 .. n : f \notin virtual[w[i]]
    BY <1>4, <1>10, <2>1 DEF Originated, FirstOrigin
  <2>2. CASE ~ (s = NoOrigin /\ \A i \in 1 .. n : f \notin virtual[w[i]])
    <3>1. /\ s \in Origin
          /\ \E i \in 1 .. n : s.class = w[i]
          /\ f \in virtual[s.class] /\ s.fsym \in {NoClass, s.class}
          /\ \A i \in 1 .. n : f \in virtual[w[i]] => w[i] \notin Ancestors(s.class)
          /\ s.errors = 0 =>
               /\ s.fsym = s.class
               /\ \A i \in 1 .. n : f \in virtual[w[i]] =>
                    w[i] = s.class \/ s.class \in Ancestors(w[i])
      BY <1>10, <2>2 DEF Originated
    <3> QED BY <1>4, <3>1 DEF FirstOrigin
  <2> QED BY <2>1, <2>2
<1> QED BY <1>2, <1>11 DEF s

-----------------------------------------------------------------------------
\* The slots, and what those that a class originated look like.
Slots == [of : Class, orig : Class, vidx : Nat, fn : Fn, pure : BOOLEAN]
Sound == {e \in Slots : e.pure = IsPure(e.of, e.fn)}

OwnsSlots(c) ==
  /\ vowned[c] \in Seq(Sound)
  /\ \A i \in 1 .. Len(vowned[c]) :
       vowned[c][i].of = c /\ vowned[c][i].orig = c /\ vowned[c][i].vidx = i - 1

SameSlot(e, d) == e.orig = d.orig /\ e.vidx = d.vidx /\ e.fn = d.fn

\* A new entry has what it was made from.
LEMMA EntryIsSound ==
  ASSUME NEW of \in Class, NEW orig \in Class, NEW vidx \in Nat, NEW f \in Fn
  PROVE  LET e == Entry(of, orig, vidx, f)
         IN  /\ e \in Sound
             /\ e.of = of /\ e.orig = orig /\ e.vidx = vidx /\ e.fn = f
<1>1. IsPure(of, f) \in BOOLEAN
  BY DEF IsPure
<1> QED BY <1>1 DEF Entry, Sound, Slots

\* An inherited entry is in the slot it had in the base.
LEMMA InheritedIsSound ==
  ASSUME prog \in Programs, NEW c \in Class, Straight(c), NEW b, NEW ve \in Sound
  PROVE  LET e == InheritedEntry(c, b, ve) IN e \in Sound /\ SameSlot(e, ve)
<1> DEFINE o == FindOverride(c, ve.fn)
<1>1. o = NoClass \/ o \in Class
  <2>1. MostDerivedAncestor(o, c, ve.fn)
    BY OverrideIsMostDerived
  <2>2. Ancestors(c) \in SUBSET Class
    BY AncestorsAre
  <2> QED BY <2>1, <2>2 DEF MostDerivedAncestor
<1>2. InheritedEntry(c, b, ve) = IF o # NoClass /\ o # b /\ IsClassASubclassOf(o, b)
                                 THEN Entry(o, ve.orig, ve.vidx, ve.fn) ELSE ve
  BY DEF InheritedEntry
<1> HIDE DEF o
<1>3. ve.orig \in Class /\ ve.vidx \in Nat /\ ve.fn \in Fn
  BY DEF Sound, Slots
<1>4. o # NoClass => LET e == Entry(o, ve.orig, ve.vidx, ve.fn) IN e \in Sound /\ SameSlot(e, ve)
  BY <1>1, <1>3, EntryIsSound DEF SameSlot
<1> QED BY <1>2, <1>4 DEF SameSlot

\* The copy of the slots of the ancestors.
Starts == UNION {[S -> Nat] : S \in SUBSET Class}
Copies == [start : Starts, table : Seq(Sound)]

Copied(t, c, w, n) ==
  /\ t \in Copies
  /\ DOMAIN t.start = {w[i] : i \in 1 .. n}
  /\ \A i \in 1 .. n :
       /\ t.start[w[i]] + Len(vowned[w[i]]) <= Len(t.table)
       /\ \A k \in 1 .. Len(vowned[w[i]]) :
            t.table[t.start[w[i]] + k] = InheritedEntry(c, w[i], vowned[w[i]][k])

\* The table e has the slots of t, then those c inherits from b, and notes where they start.
Appended(c, t, b, e) ==
  LET L == Len(t.table)
      m == Len(vowned[b])
  IN  /\ e \in Copies
      /\ L \in Nat /\ m \in Nat /\ Len(e.table) = L + m
      /\ \A i \in 1 .. L : e.table[i] = t.table[i]
      /\ \A i \in 1 .. m : e.table[L + i] = InheritedEntry(c, b, vowned[b][i])
      /\ DOMAIN e.start = DOMAIN t.start \cup {b}
      /\ \A x \in DOMAIN e.start : e.start[x] = IF x = b THEN L ELSE t.start[x]

\* What the slots of another ancestor do to a table.
LEMMA CopyType ==
  ASSUME prog \in Programs, NEW c \in Class, Straight(c), NEW b \in Class, OwnsSlots(b),
         NEW t \in Copies
  PROVE  Appended(c, t, b, Copy(c, t, b))
<1> DEFINE L == Len(t.table)
           m == Len(vowned[b])
           u == [i \in DOMAIN vowned[b] |-> InheritedEntry(c, b, vowned[b][i])]
           s == [x \in DOMAIN t.start \cup {b} |-> IF x = b THEN Len(t.table) ELSE t.start[x]]
           e == Copy(c, t, b)
<1>1. e.start = s /\ e.table = t.table \o u /\ e = [start |-> s, table |-> t.table \o u]
  BY DEF Copy
<1>2. t.table \in Seq(Sound) /\ L \in Nat
  BY DEF Copies
<1>3. t.start \in Starts
  BY DEF Copies
<1>4. vowned[b] \in Seq(Sound) /\ m \in Nat /\ DOMAIN vowned[b] = 1 .. m
  BY DEF OwnsSlots
<1>5. \A i \in 1 .. m : InheritedEntry(c, b, vowned[b][i]) \in Sound
  <2>1. \A i \in 1 .. m : vowned[b][i] \in Sound
    BY <1>4
  <2> QED BY <2>1, InheritedIsSound
<1> HIDE DEF m
<1>6. u = [i \in 1 .. m |-> InheritedEntry(c, b, vowned[b][i])]
  BY <1>4
<1>7. u \in Seq(Sound) /\ Len(u) = m /\ \A i \in 1 .. m : u[i] = InheritedEntry(c, b, vowned[b][i])
  <2>1. u \in [1 .. m -> Sound]
    BY <1>5, <1>6
  <2>2. \A i \in 1 .. m : u[i] = InheritedEntry(c, b, vowned[b][i])
    BY <1>6
  <2> HIDE DEF u
  <2> QED BY <1>4, <2>1, <2>2
<1>8. PICK S \in SUBSET Class : t.start \in [S -> Nat]
  BY <1>3 DEF Starts
<1>9. s \in [S \cup {b} -> Nat]
  BY <1>2, <1>8
<1>10. s \in Starts
  <2>1. S \cup {b} \in SUBSET Class
    OBVIOUS
  <2> HIDE DEF s
  <2> QED BY <1>9, <2>1 DEF Starts
<1> HIDE DEF u, L
<1>11. /\ t.table \o u \in Seq(Sound) /\ Len(t.table \o u) = L + m
       /\ \A i \in 1 .. L : (t.table \o u)[i] = t.table[i]
       /\ \A i \in 1 .. m : (t.table \o u)[L + i] = u[i]
  BY <1>2, <1>4, <1>7, SMTT(30) DEF L
<1>12. e \in Copies
  <2> HIDE DEF s, e
  <2> QED BY <1>1, <1>10, <1>11 DEF Copies
<1>13. DOMAIN e.start = DOMAIN t.start \cup {b}
       /\ \A x \in DOMAIN e.start : e.start[x] = IF x = b THEN L ELSE t.start[x]
  BY <1>1 DEF L
<1> HIDE DEF e, s
<1> QED BY <1>1, <1>2, <1>4, <1>7, <1>11, <1>12, <1>13 DEF L, m, e, Appended

\* After another ancestor the slots of all so far are in the table.
LEMMA CopyIsCopied ==
  ASSUME prog \in Programs, NEW c \in Class, Straight(c), NEW w \in Seq(Class),
         \A i, j \in 1 .. Len(w) : w[i] = w[j] => i = j,
         \A i \in 1 .. Len(w) : OwnsSlots(w[i]),
         NEW k \in 1 .. Len(w), NEW t, Copied(t, c, w, k - 1)
  PROVE  Copied(Copy(c, t, w[k]), c, w, k)
<1> DEFINE b == w[k]
           e == Copy(c, t, b)
           L == Len(t.table)
           m == Len(vowned[b])
<1>1. /\ Len(w) \in Nat /\ k \in Nat /\ \A i \in 1 .. k : i \in 1 .. Len(w) /\ (i = k \/ i \in 1 .. k - 1)
      /\ \A i \in 1 .. k - 1 : i \in 1 .. k /\ i # k /\ w[i] \in Class
      /\ k \in 1 .. k /\ b \in Class /\ \A i \in 1 .. k : w[i] \in Class
  OBVIOUS
<1>2. t \in Copies /\ OwnsSlots(b)
  BY DEF Copied
<1>3. /\ e \in Copies
      /\ L \in Nat /\ m \in Nat /\ Len(e.table) = L + m
      /\ \A i \in 1 .. L : e.table[i] = t.table[i]
      /\ \A i \in 1 .. m : e.table[L + i] = InheritedEntry(c, b, vowned[b][i])
      /\ DOMAIN e.start = DOMAIN t.start \cup {b}
      /\ \A x \in DOMAIN e.start : e.start[x] = IF x = b THEN L ELSE t.start[x]
  <2>1. b \in Class /\ OwnsSlots(b) /\ t \in Copies
    BY <1>1, <1>2
  <2>2. Appended(c, t, b, e)
    BY <2>1, CopyType
  <2> QED BY <2>2 DEF Appended
<1> HIDE DEF e, L
<1>4. DOMAIN e.start = {w[i] : i \in 1 .. k}
  <2>1. DOMAIN t.start = {w[i] : i \in 1 .. k - 1}
    BY DEF Copied
  <2> QED BY <1>1, <1>3, <2>1
<1>5. ASSUME NEW i \in 1 .. k
      PROVE  /\ e.start[w[i]] + Len(vowned[w[i]]) <= Len(e.table)
             /\ \A j \in 1 .. Len(vowned[w[i]]) :
                  e.table[e.start[w[i]] + j] = InheritedEntry(c, w[i], vowned[w[i]][j])
  <2>1. w[i] \in DOMAIN e.start
    BY <1>4
  <2>2. CASE i = k
    <3>1. e.start[w[i]] = L /\ w[i] = b
      BY <1>3, <2>1, <2>2
    <3> HIDE DEF b
    <3> QED BY <1>3, <3>1
  <2>3. CASE i # k
    <3>1. i \in 1 .. k - 1 /\ w[i] # b
      BY <1>1, <2>3
    <3>2. e.start[w[i]] = t.start[w[i]]
      BY <1>3, <2>1, <3>1
    <3>3. /\ t.start[w[i]] + Len(vowned[w[i]]) <= L
          /\ \A j \in 1 .. Len(vowned[w[i]]) :
               t.table[t.start[w[i]] + j] = InheritedEntry(c, w[i], vowned[w[i]][j])
      BY <3>1 DEF Copied, L
    <3>4. t.start[w[i]] \in Nat
      <4>1. w[i] \in DOMAIN t.start
        BY <3>1 DEF Copied
      <4> QED BY <1>2, <4>1 DEF Copies, Starts
    <3>5. Len(vowned[w[i]]) \in Nat
      BY <1>1 DEF OwnsSlots
    <3>6. \A j \in 1 .. Len(vowned[w[i]]) : t.start[w[i]] + j \in 1 .. L
      BY <1>3, <3>3, <3>4, <3>5, SMTT(30)
    <3> HIDE DEF b, m
    <3>7. e.start[w[i]] + Len(vowned[w[i]]) <= Len(e.table)
      BY <1>3, <3>2, <3>3, <3>4, <3>5
    <3> QED BY <1>3, <3>2, <3>3, <3>6, <3>7, SMTT(20), ZenonT(30)
  <2> QED BY <2>2, <2>3
<1>6. Copied(e, c, w, k)
  BY <1>3, <1>4, <1>5 DEF Copied
<1> QED BY <1>6 DEF e

Copying(g, c) ==
  g = [n \in 0 .. Len(Walk(c, FALSE)) |->
         IF n = 0 THEN [start |-> << >>, table |-> << >>]
                  ELSE Copy(c, g[n - 1], Walk(c, FALSE)[n])]

\* The recursive function that copies the ancestors' slots exists.
LEMMA CopyingExists ==
  ASSUME prog \in Programs, NEW c \in Class, Straight(c), \A x \in Ancestors(c) : OwnsSlots(x)
  PROVE  \E g : Copying(g, c)
<1> DEFINE w == Walk(c, FALSE)
           n == Len(w)
           none == [start |-> << >>, table |-> << >>]
           F == [x \in (1 .. n) \X Copies |-> Copy(c, x[2], w[x[1]])]
<1>1. n \in Nat /\ \A i \in 1 .. n : w[i] \in Class /\ OwnsSlots(w[i])
  <2>1. n \in Nat /\ \A i \in 1 .. n : w[i] \in Ancestors(c)
    BY WalkIndices
  <2>2. Ancestors(c) \in SUBSET Class
    BY AncestorsAre
  <2> QED BY <2>1, <2>2
<1> HIDE DEF w, n
<1>4. F \in [(1 .. n) \X Copies -> Copies]
  <2>1. ASSUME NEW x \in (1 .. n) \X Copies PROVE Copy(c, x[2], w[x[1]]) \in Copies
    <3>1. x[1] \in 1 .. n /\ x[2] \in Copies
      OBVIOUS
    <3>2. Appended(c, x[2], w[x[1]], Copy(c, x[2], w[x[1]]))
      BY <1>1, <3>1, CopyType
    <3> QED BY <3>2 DEF Appended
  <2> QED BY <2>1
<1>5. \A i \in 1 .. n : \A s \in Copies : F[<<i, s>>] = Copy(c, s, w[i])
  OBVIOUS
<1>6. none \in Copies
  <2>1. << >> \in [{} -> Nat] /\ {} \in SUBSET Class
    OBVIOUS
  <2>2. << >> \in Starts
    BY <2>1, Zenon DEF Starts
  <2> QED BY <2>2 DEF Copies
<1> HIDE DEF F, none
<1>7. PICK g \in [0 .. n -> Copies] : Recurs(g, n, none, F)
  BY <1>1, <1>4, <1>6, IntervalRecursion
<1>8. g = [i \in 0 .. n |-> IF i = 0 THEN none ELSE F[<<i, g[i - 1]>>]]
  BY <1>7 DEF Recurs
<1>9. ASSUME NEW i \in 0 .. n
      PROVE  g[i] = IF i = 0 THEN none ELSE Copy(c, g[i - 1], w[i])
  <2>1. CASE i = 0
    BY <1>8, <2>1
  <2>2. CASE i # 0
    <3>1. i \in 1 .. n /\ i - 1 \in 0 .. n /\ g[i - 1] \in Copies
      BY <1>1, <2>2
    <3>2. g[i] = F[<<i, g[i - 1]>>]
      BY <1>8, <2>2
    <3> QED BY <1>5, <2>2, <3>1, <3>2
  <2> QED BY <2>1, <2>2
<1>10. Copying(g, c)
  BY <1>8, <1>9 DEF Copying, n, w, none
<1> QED BY <1>10

-----------------------------------------------------------------------------
\* The table of a class before its own declarations are looked at.
InitRight(t, c) ==
  /\ t.vowned = << >> /\ t.slot = << >> /\ t.virtual = virtual[c]
  /\ t.errors = 0 /\ t.asserts = TRUE
  /\ t.table \in Seq(Sound) /\ t.start \in [Related(c) -> Nat] /\ t.start[c] = Len(t.table)
  /\ \A x \in Ancestors(c) :
       /\ t.start[x] + Len(vowned[x]) <= Len(t.table)
       /\ \A k \in 1 .. Len(vowned[x]) :
            t.table[t.start[x] + k] = InheritedEntry(c, x, vowned[x][k])
  /\ \A m \in Nat : SumFunction([x \in Related(c) |-> IF x = c THEN m ELSE Len(vowned[x])])
                      = Len(t.table) + m

\* The lengths of the table as the ancestors of c are copied.
Lengths(r, c) ==
  LET w == Walk(c, FALSE)
  IN  /\ r \in [0 .. Len(w) -> Nat] /\ r[0] = 0
      /\ \A i \in 1 .. Len(w) : r[i] = r[i - 1] + Len(vowned[w[i]])

\* Added to the lengths of what the ancestors originated, those of c's own
\* slots give the length of the whole table.
LEMMA LengthOfCopies ==
  ASSUME prog \in Programs, NEW c \in Class, c \notin Ancestors(c),
         \A x \in Ancestors(c) : Len(vowned[x]) \in Nat,
         NEW r, Lengths(r, c), NEW m \in Nat
  PROVE  SumFunction([x \in Related(c) |-> IF x = c THEN m ELSE Len(vowned[x])])
           = r[Len(Walk(c, FALSE))] + m
<1> DEFINE w == Walk(c, FALSE)
           n == Len(w)
           v == [i \in 1 .. n + 1 |-> IF i = n + 1 THEN c ELSE w[i]]
           q == [i \in 0 .. n + 1 |-> IF i = n + 1 THEN r[n] + m ELSE r[i]]
           f == [x \in Related(c) |-> IF x = c THEN m ELSE Len(vowned[x])]
           S == Related(c)
<1>1. /\ w \in Seq(Class) /\ n \in Nat
      /\ \A x \in Ancestors(c) : \E i \in 1 .. n : x = w[i]
      /\ \A i \in 1 .. n : w[i] \in Ancestors(c)
      /\ \A i, j \in 1 .. n : w[i] = w[j] => i = j
  BY WalkIndices
<1>2. S = Ancestors(c) \cup {c}
  BY DEF Related
<1>3. /\ r \in [0 .. n -> Nat] /\ r[0] = 0
      /\ \A i \in 1 .. n : r[i] = r[i - 1] + Len(vowned[w[i]])
  BY DEF Lengths
<1> HIDE DEF w
<1>4. f \in [S -> Int]
  BY <1>2
<1> HIDE DEF n, S
<1>5. /\ n + 1 \in Nat /\ v \in [1 .. n + 1 -> S]
      /\ v[n + 1] = c /\ \A i \in 1 .. n : v[i] = w[i]
      /\ \A i \in 1 .. n + 1 : i = n + 1 \/ i \in 1 .. n
      /\ \A i \in 1 .. n : i \in 1 .. n + 1 /\ i # n + 1
      /\ n + 1 \in 1 .. n + 1
  BY <1>1, <1>2
<1> HIDE DEF v
<1>6. \A x \in S : \E i \in 1 .. n + 1 : v[i] = x
  BY <1>1, <1>2, <1>5
<1>7. ASSUME NEW i \in 1 .. n + 1, NEW j \in 1 .. n + 1, v[i] = v[j] PROVE i = j
  <2>1. CASE i = n + 1 /\ j = n + 1
    BY <2>1
  <2>2. CASE i \in 1 .. n /\ j \in 1 .. n
    BY <1>1, <1>5, <1>7, <2>2
  <2>3. CASE i = n + 1 /\ j \in 1 .. n
    BY <1>1, <1>5, <1>7, <2>3
  <2>4. CASE i \in 1 .. n /\ j = n + 1
    BY <1>1, <1>5, <1>7, <2>4
  <2> QED BY <1>5, <2>1, <2>2, <2>3, <2>4
<1>8. /\ q \in [0 .. n + 1 -> Int] /\ q[0] = 0 /\ q[n + 1] = r[n] + m
      /\ \A i \in 0 .. n : q[i] = r[i]
  <2>1. \A i \in 0 .. n : i \in 0 .. n + 1 /\ i # n + 1 /\ r[i] \in Nat
    BY <1>1, <1>3
  <2>2. n \in 0 .. n /\ 0 \in 0 .. n /\ n + 1 \in 0 .. n + 1
    BY <1>1
  <2> HIDE DEF q, f
  <2>3. r[n] + m \in Int
    <3>1. r[n] \in Nat
      BY <2>1, <2>2
    <3> QED BY <3>1
  <2>4. ASSUME NEW i \in 0 .. n + 1 PROVE (IF i = n + 1 THEN r[n] + m ELSE r[i]) \in Int
    <3>1. i = n + 1 \/ i \in 0 .. n
      BY <1>1
    <3>2. i # n + 1 => r[i] \in Int
      BY <2>1, <3>1
    <3> QED BY <2>3, <3>2
  <2>5. q = [i \in 0 .. n + 1 |-> IF i = n + 1 THEN r[n] + m ELSE r[i]]
    BY DEF q
  <2> QED BY <2>1, <2>2, <2>4, <2>5
<1> HIDE DEF q
<1>9. ASSUME NEW i \in 1 .. n + 1 PROVE q[i] = q[i - 1] + f[v[i]]
  <2>1. CASE i = n + 1
    <3>1. i - 1 = n /\ n \in 0 .. n /\ v[i] = c /\ c \in S
      BY <1>1, <1>2, <1>5, <2>1
    <3>2. f[c] = m
      BY <3>1 DEF S
    <3> HIDE DEF f
    <3> QED BY <1>8, <2>1, <3>1, <3>2
  <2>2. CASE i # n + 1
    <3>1. i \in 1 .. n /\ i - 1 \in 0 .. n /\ i \in 0 .. n /\ v[i] = w[i]
      BY <1>1, <1>5, <2>2
    <3>2. w[i] \in S /\ w[i] # c
      BY <1>1, <1>2, <3>1
    <3>3. f[w[i]] = Len(vowned[w[i]])
      BY <3>2 DEF S
    <3> HIDE DEF f
    <3> QED BY <1>3, <1>8, <3>1, <3>3
  <2> QED BY <2>1, <2>2
<1> HIDE DEF f
<1>10. SumFunction(f) = q[n + 1]
  <2> DEFINE N == n + 1
  <2>1. N \in Nat /\ v \in [1 .. N -> S] /\ q \in [0 .. N -> Int] /\ q[0] = 0
    BY <1>5, <1>8
  <2>2. \A i \in 1 .. N : q[i] = q[i - 1] + f[v[i]]
    BY <1>9
  <2>3. \A i, j \in 1 .. N : v[i] = v[j] => i = j
    BY <1>7
  <2>4. \A x \in S : \E i \in 1 .. N : v[i] = x
    BY <1>6
  <2> HIDE DEF N
  <2>5. SumFunction(f) = q[N]
    <3>1. SumsAlong(S, N, v, f, q)
      BY <1>4, <2>1, <2>2, <2>3, <2>4 DEF SumsAlong
    <3> QED BY <3>1, SumOverSequence
  <2> QED BY <2>5 DEF N
<1> QED BY <1>8, <1>10 DEF f, n, w

\* The table a class starts with has the slots of all its ancestors, each
\* where its start says, and nothing else.
LEMMA InitIsRight ==
  ASSUME prog \in Programs, NEW c \in Class, c \notin Ancestors(c), Straight(c),
         \A x \in Ancestors(c) : OwnsSlots(x)
  PROVE  InitRight(InitVTable(c), c)
<1> DEFINE w == Walk(c, FALSE)
           n == Len(w)
           g == CHOOSE h : Copying(h, c)
           none == [start |-> << >>, table |-> << >>]
<1>1. Copying(g, c)
  BY CopyingExists
<1> DEFINE all == g[n]
           t == InitVTable(c)
           s == [x \in DOMAIN all.start \cup {c} |-> IF x = c THEN Len(all.table) ELSE all.start[x]]
<1>2. t = [table |-> all.table, start |-> s, vowned |-> << >>, virtual |-> virtual[c],
           slot |-> << >>, errors |-> 0, asserts |-> TRUE]
  BY Zenon DEF InitVTable, Copying
<1> HIDE DEF g
<1>3. \A i \in 0 .. n : g[i] = IF i = 0 THEN none ELSE Copy(c, g[i - 1], w[i])
  BY <1>1 DEF Copying
<1>4. /\ w \in Seq(Class) /\ n \in Nat
      /\ \A x \in Ancestors(c) : \E i \in 1 .. n : x = w[i]
      /\ \A i \in 1 .. n : w[i] \in Ancestors(c)
      /\ \A i, j \in 1 .. n : w[i] = w[j] => i = j
  BY WalkIndices
<1>5. \A i \in 1 .. n : OwnsSlots(w[i]) /\ w[i] \in Class
  <2> HIDE DEF w, n
  <2>1. Ancestors(c) \in SUBSET Class
    BY AncestorsAre
  <2> QED BY <1>4, <2>1
<1>6. Related(c) = Ancestors(c) \cup {c}
  BY DEF Related
<1>14. \A x \in Ancestors(c) : Len(vowned[x]) \in Nat
  BY DEF OwnsSlots
<1> DEFINE T == {i \in 0 .. n : Copied(g[i], c, w, i)}
<1>7. 0 \in T
  <2>1. none \in Copies
    <3>1. << >> \in [{} -> Nat] /\ {} \in SUBSET Class
      OBVIOUS
    <3>2. << >> \in Starts
      BY <3>1, Zenon DEF Starts
    <3> QED BY <3>2 DEF Copies
  <2>2. g[0] = none /\ 0 \in 0 .. n
    <3> HIDE DEF n, none, w
    <3> QED BY <1>3, <1>4
  <2>3. Copied(none, c, w, 0)
    BY <2>1 DEF Copied
  <2> QED BY <2>2, <2>3
<1>8. ASSUME NEW i \in 0 .. n - 1, i \in T PROVE i + 1 \in T
  <2>1. i + 1 \in 1 .. n /\ i + 1 \in 0 .. n /\ (i + 1) - 1 = i /\ i + 1 # 0
    <3> HIDE DEF n, T
    <3> QED BY <1>4
  <2>2. g[i + 1] = Copy(c, g[i], w[i + 1]) /\ Copied(g[i], c, w, (i + 1) - 1)
    BY <1>3, <1>8, <2>1
  <2> HIDE DEF T, w
  <2>3. Copied(Copy(c, g[i], w[i + 1]), c, w, i + 1)
    BY <1>4, <1>5, <2>1, <2>2, CopyIsCopied
  <2> QED BY <2>1, <2>2, <2>3 DEF T
<1>9. 0 .. n \subseteq T
  <2> HIDE DEF T, n
  <2>1. 0 \in Nat
    OBVIOUS
  <2> QED BY <1>4, <1>7, <1>8, <2>1, IntervalInduction
<1>10. Copied(all, c, w, n)
  <2>1. n \in 0 .. n
    <3> HIDE DEF n, T, w
    <3> QED BY <1>4
  <2> QED BY <1>9, <2>1
<1>11. DOMAIN all.start = Ancestors(c)
  <2> HIDE DEF w, n, all
  <2> QED BY <1>4, <1>10 DEF Copied
<1>12. ASSUME NEW x \in Ancestors(c)
       PROVE  /\ all.start[x] + Len(vowned[x]) <= Len(all.table)
              /\ \A k \in 1 .. Len(vowned[x]) :
                   all.table[all.start[x] + k] = InheritedEntry(c, x, vowned[x][k])
  <2> HIDE DEF w, n, all
  <2>1. PICK i \in 1 .. n : x = w[i]
    BY <1>4
  <2> QED BY <1>10, <2>1, Zenon DEF Copied
<1>13. all.table \in Seq(Sound) /\ Len(all.table) \in Nat /\ all.start \in [Ancestors(c) -> Nat]
  <2>1. all \in Copies
    BY <1>10 DEF Copied
  <2> HIDE DEF all
  <2>2. all.table \in Seq(Sound) /\ all.start \in Starts
    BY <2>1 DEF Copies
  <2> QED BY <1>11, <2>2 DEF Starts
<1>15. ASSUME NEW m \in Nat
       PROVE  SumFunction([x \in Related(c) |-> IF x = c THEN m ELSE Len(vowned[x])])
                = Len(all.table) + m
  <2> DEFINE r == [i \in 0 .. n |-> Len(g[i].table)]
  <2>1. ASSUME NEW i \in 0 .. n PROVE Len(g[i].table) \in Nat
    <3>1. Copied(g[i], c, w, i)
      BY <1>9
    <3> HIDE DEF w, n
    <3> QED BY <3>1 DEF Copied, Copies
  <2>2. r \in [0 .. n -> Nat]
    BY <2>1
  <2>3. r[0] = 0 /\ r[n] = Len(all.table)
    <3>1. 0 \in 0 .. n /\ n \in 0 .. n /\ g[0] = none
      <4> HIDE DEF n, w, none
      <4> QED BY <1>3, <1>4
    <3>2. r[0] = Len(none.table)
      <4> HIDE DEF n, none
      <4> QED BY <3>1
    <3>3. r[n] = Len(all.table)
      <4> HIDE DEF n, none
      <4> QED BY <3>1
    <3> QED BY <3>2, <3>3
  <2>4. ASSUME NEW i \in 1 .. n PROVE r[i] = r[i - 1] + Len(vowned[w[i]])
    <3>1. i \in 0 .. n /\ i - 1 \in 0 .. n /\ i # 0
      <4> HIDE DEF n, w
      <4> QED BY <1>4
    <3>2. g[i - 1] \in Copies /\ g[i] = Copy(c, g[i - 1], w[i])
      BY <1>3, <1>9, <3>1 DEF Copied
    <3> DEFINE p == g[i - 1]
               b == w[i]
    <3> HIDE DEF p, b
    <3>3. p \in Copies /\ b \in Class /\ OwnsSlots(b)
      BY <1>5, <3>2 DEF p, b
    <3>4. Len(Copy(c, p, b).table) = Len(p.table) + Len(vowned[b])
      <4>1. Appended(c, p, b, Copy(c, p, b))
        BY <3>3, CopyType
      <4> QED BY <4>1 DEF Appended
    <3>5. Len(g[i].table) = Len(g[i - 1].table) + Len(vowned[w[i]])
      BY <3>2, <3>4 DEF p, b
    <3> HIDE DEF w, n
    <3> QED BY <3>1, <3>5
  <2> HIDE DEF r
  <2>5. SumFunction([x \in Related(c) |-> IF x = c THEN m ELSE Len(vowned[x])]) = r[n] + m
    <3>1. Lengths(r, c)
      BY <2>2, <2>3, <2>4 DEF Lengths
    <3> QED BY <1>14, <2>2, <3>1, LengthOfCopies
  <2> QED BY <2>3, <2>5
<1> HIDE DEF all, w, n
<1>16. s \in [Related(c) -> Nat] /\ s[c] = Len(all.table) /\ \A x \in Ancestors(c) : s[x] = all.start[x]
  BY <1>6, <1>11, <1>13
<1> HIDE DEF s, t
<1> QED BY <1>2, <1>12, <1>13, <1>15, <1>16 DEF InitRight, t

-----------------------------------------------------------------------------
\* The slot of each virtual function of a class.
SlotIds == [orig : Class, vidx : Nat]
Slottings == UNION {[S -> SlotIds] : S \in SUBSET Fn}

SlotOf(x, f) ==
  LET s == slot[x][f]
  IN  /\ s \in SlotIds /\ s.orig \in Related(x)
      /\ s.vidx < Len(vowned[s.orig]) /\ vowned[s.orig][s.vidx + 1].fn = f
      /\ (\A y \in Ancestors(x) : f \notin virtual[y]) => s.orig = x

\* A class that has its table, as far as the classes below it look at it.
Fits(x) ==
  /\ x \notin Ancestors(x) /\ OwnsSlots(x)
  /\ virtual[x] \in SUBSET Fn /\ slot[x] \in Slottings /\ DOMAIN slot[x] = virtual[x]
  /\ \A f \in virtual[x] : SlotOf(x, f)

\* A class whose ancestors have theirs.
Ready(c) ==
  /\ c \in Class /\ c \notin Ancestors(c) /\ virtual[c] \in SUBSET Fn
  /\ \A x \in Ancestors(c) : Fits(x)

\* The table of c while its declarations are looked at.
Layouts(c) ==
  [table : Seq(Sound), start : [Related(c) -> Nat], vowned : Seq(Sound),
   virtual : SUBSET Fn, slot : Slottings, errors : Nat, asserts : BOOLEAN]

\* A record of that kind, from its parts.
LEMMA LayoutOfParts ==
  ASSUME NEW c, NEW tb \in Seq(Sound), NEW st \in [Related(c) -> Nat], NEW vo \in Seq(Sound),
         NEW vi \in SUBSET Fn, NEW sl \in Slottings, NEW er \in Nat, NEW as \in BOOLEAN
  PROVE  [table |-> tb, start |-> st, vowned |-> vo, virtual |-> vi, slot |-> sl,
          errors |-> er, asserts |-> as] \in Layouts(c)
BY DEF Layouts

\* A layout is the record of its parts.
LEMMA PartsOfLayout ==
  ASSUME NEW c, NEW t \in Layouts(c)
  PROVE  /\ t = [table |-> t.table, start |-> t.start, vowned |-> t.vowned,
                 virtual |-> t.virtual, slot |-> t.slot, errors |-> t.errors,
                 asserts |-> t.asserts]
         /\ t.table \in Seq(Sound) /\ t.start \in [Related(c) -> Nat] /\ t.vowned \in Seq(Sound)
         /\ t.virtual \in SUBSET Fn /\ t.slot \in Slottings /\ t.errors \in Nat
         /\ t.asserts \in BOOLEAN
BY DEF Layouts

\* A slot given to one more function.
Slotted(s, f, i) == [x \in DOMAIN s \cup {f} |-> IF x = f THEN i ELSE s[x]]

\* It stays a slotting, and the other functions keep their slots.
LEMMA SlotAdded ==
  ASSUME NEW s \in Slottings, NEW f \in Fn, NEW i \in SlotIds
  PROVE  /\ Slotted(s, f, i) \in Slottings
         /\ DOMAIN Slotted(s, f, i) = DOMAIN s \cup {f} /\ Slotted(s, f, i)[f] = i
         /\ \A x \in DOMAIN s : x # f => Slotted(s, f, i)[x] = s[x]
<1>1. PICK S \in SUBSET Fn : s \in [S -> SlotIds]
  BY DEF Slottings
<1>2. Slotted(s, f, i) \in [S \cup {f} -> SlotIds] /\ S \cup {f} \in SUBSET Fn
  BY <1>1 DEF Slotted
<1>3. /\ DOMAIN Slotted(s, f, i) = DOMAIN s \cup {f} /\ Slotted(s, f, i)[f] = i
      /\ \A x \in DOMAIN s : x # f => Slotted(s, f, i)[x] = s[x]
  BY DEF Slotted
<1>4. Slotted(s, f, i) \in Slottings
  BY <1>2 DEF Slottings
<1> QED BY <1>3, <1>4

\* An entry that is given the slot it has stays what it is.
LEMMA SameEntry ==
  ASSUME NEW e \in Sound, NEW o, NEW i, e.orig = o, e.vidx = i
  PROVE  [e EXCEPT !.orig = o, !.vidx = i] = e
BY DEF Sound, Slots

\* What updateVTable does with function f, and the slot s.
Updated(u, t, c, f, s) ==
  /\ u \in Layouts(c) /\ u.start = t.start
  /\ u.virtual = t.virtual \cup {f} /\ DOMAIN u.slot = DOMAIN t.slot \cup {f}
  /\ u.slot[f] = s /\ \A x \in DOMAIN t.slot : x # f => u.slot[x] = t.slot[x]
  /\ u.errors = t.errors /\ u.asserts = t.asserts

\* updateVTable of an inherited slot puts the class's own entry into it.
LEMMA PutsInPlace ==
  ASSUME NEW c \in Class, NEW t \in Layouts(c), NEW f \in Fn, NEW orig \in Related(c),
         NEW vidx \in Nat, orig \in Class,
         LET i == t.start[orig] + vidx
         IN  i < Len(t.table) /\ t.table[i + 1].orig = orig /\ t.table[i + 1].vidx = vidx
  PROVE  LET u == UpdateVTable(t, c, f, vidx, orig)
             i == t.start[orig] + vidx + 1
         IN  /\ Updated(u, t, c, f, [orig |-> orig, vidx |-> vidx])
             /\ u.vowned = t.vowned
             /\ i \in 1 .. Len(t.table) /\ Len(u.table) = Len(t.table)
             /\ u.table[i] = Entry(c, orig, vidx, f)
             /\ \A j \in 1 .. Len(t.table) : j # i => u.table[j] = t.table[j]
<1> DEFINE i == t.start[orig] + vidx
           e == Entry(c, orig, vidx, f)
           u == UpdateVTable(t, c, f, vidx, orig)
           s == [orig |-> orig, vidx |-> vidx]
           r == [x \in DOMAIN t.slot \cup {f} |-> IF x = f THEN s ELSE t.slot[x]]
           tb == [t.table EXCEPT ![i + 1] = e]
<1>1. /\ t = [table |-> t.table, start |-> t.start, vowned |-> t.vowned,
              virtual |-> t.virtual, slot |-> t.slot, errors |-> t.errors,
              asserts |-> t.asserts]
      /\ t.table \in Seq(Sound) /\ t.start \in [Related(c) -> Nat] /\ t.vowned \in Seq(Sound)
      /\ t.virtual \in SUBSET Fn /\ t.slot \in Slottings /\ t.errors \in Nat
      /\ t.asserts \in BOOLEAN
  BY PartsOfLayout
<1>2. t.start[orig] \in Nat
  BY <1>1
<1>3. i \in Nat /\ i + 1 \in 1 .. Len(t.table) /\ i < Len(t.table) /\ orig \in DOMAIN t.start
  BY <1>1, <1>2
<1>4. e \in Sound /\ e = [of |-> c, orig |-> orig, vidx |-> vidx, fn |-> f, pure |-> IsPure(c, f)]
  BY EntryIsSound DEF Entry
<1>5. t.table[i + 1].orig = orig /\ t.table[i + 1].vidx = vidx
  OBVIOUS
<1>6. [e EXCEPT !.orig = t.table[i + 1].orig, !.vidx = t.table[i + 1].vidx] = e
  <2> DEFINE d == t.table[i + 1]
  <2>1. d.orig = orig /\ d.vidx = vidx
    BY <1>5
  <2>2. e \in Sound /\ e.orig = orig /\ e.vidx = vidx
    BY <1>4
  <2> HIDE DEF i, e, d
  <2>3. [e EXCEPT !.orig = d.orig, !.vidx = d.vidx] = [e EXCEPT !.orig = orig, !.vidx = vidx]
    BY <2>1
  <2>4. [e EXCEPT !.orig = orig, !.vidx = vidx] = e
    BY <2>2, SameEntry
  <2> QED BY <2>3, <2>4 DEF d
<1>7. u = [table |-> tb, start |-> t.start, vowned |-> t.vowned, virtual |-> t.virtual \cup {f},
           slot |-> r, errors |-> t.errors, asserts |-> t.asserts]
  <2>1. u = [[t EXCEPT !.slot = r, !.virtual = @ \cup {f}]
               EXCEPT !.table[i + 1] = [e EXCEPT !.orig = t.table[i + 1].orig,
                                                 !.vidx = t.table[i + 1].vidx],
                      !.asserts = @ /\ t.table[i + 1].orig = orig /\ t.table[i + 1].vidx = vidx]
    BY <1>3 DEF UpdateVTable
  <2> HIDE DEF u, e, r, i
  <2>2. u = [[t EXCEPT !.slot = r, !.virtual = @ \cup {f}]
               EXCEPT !.table[i + 1] = e, !.asserts = @]
    BY <1>1, <1>5, <1>6, <2>1
  <2> HIDE DEF tb
  <2> QED BY <1>1, <2>2 DEF tb
<1>8. s \in SlotIds
  BY DEF SlotIds
<1>9. /\ r \in Slottings /\ DOMAIN r = DOMAIN t.slot \cup {f} /\ r[f] = s
      /\ \A x \in DOMAIN t.slot : x # f => r[x] = t.slot[x]
  <2> DEFINE z == t.slot
  <2>1. z \in Slottings
    BY <1>1
  <2>2. r = Slotted(z, f, s)
    BY DEF Slotted
  <2> HIDE DEF s, z, r, u, e, tb, i
  <2>3. /\ Slotted(z, f, s) \in Slottings
        /\ DOMAIN Slotted(z, f, s) = DOMAIN z \cup {f} /\ Slotted(z, f, s)[f] = s
        /\ \A x \in DOMAIN z : x # f => Slotted(z, f, s)[x] = z[x]
    BY <1>8, <2>1, SlotAdded
  <2> QED BY <2>2, <2>3 DEF z
<1> HIDE DEF e, r, s, i, u
<1>10. /\ tb \in Seq(Sound) /\ Len(tb) = Len(t.table) /\ tb[i + 1] = e
       /\ \A j \in 1 .. Len(t.table) : j # i + 1 => tb[j] = t.table[j]
  BY <1>1, <1>3, <1>4
<1> HIDE DEF tb
<1>11. t.virtual \cup {f} \in SUBSET Fn
  BY <1>1
<1>12. u \in Layouts(c)
  BY <1>1, <1>7, <1>9, <1>10, <1>11, LayoutOfParts
<1>13. Updated(u, t, c, f, s)
  BY <1>7, <1>9, <1>12 DEF Updated
<1>14. t.start[orig] + vidx + 1 = i + 1
  BY DEF i
<1> QED BY <1>3, <1>7, <1>10, <1>13, <1>14 DEF u, e, s

\* updateVTable of a new slot appends one entry.
LEMMA Appends ==
  ASSUME NEW c \in Class, NEW t \in Layouts(c), NEW f \in Fn,
         Len(t.table) = t.start[c] + Len(t.vowned)
  PROVE  LET m == Len(t.vowned)
             u == UpdateVTable(t, c, f, m, c)
             e == Entry(c, c, m, f)
         IN  /\ m \in Nat /\ Updated(u, t, c, f, [orig |-> c, vidx |-> m])
             /\ Len(u.vowned) = m + 1 /\ u.vowned[m + 1] = e
             /\ \A j \in 1 .. m : u.vowned[j] = t.vowned[j]
             /\ Len(u.table) = Len(t.table) + 1 /\ u.table[Len(t.table) + 1] = e
             /\ \A j \in 1 .. Len(t.table) : u.table[j] = t.table[j]
<1> DEFINE m == Len(t.vowned)
           e == Entry(c, c, m, f)
           u == UpdateVTable(t, c, f, m, c)
           s == [orig |-> c, vidx |-> m]
           r == [x \in DOMAIN t.slot \cup {f} |-> IF x = f THEN s ELSE t.slot[x]]
           tb == Append(t.table, e)
           vo == Append(t.vowned, e)
<1>1. /\ t = [table |-> t.table, start |-> t.start, vowned |-> t.vowned,
              virtual |-> t.virtual, slot |-> t.slot, errors |-> t.errors,
              asserts |-> t.asserts]
      /\ t.table \in Seq(Sound) /\ t.start \in [Related(c) -> Nat] /\ t.vowned \in Seq(Sound)
      /\ t.virtual \in SUBSET Fn /\ t.slot \in Slottings /\ t.errors \in Nat
      /\ t.asserts \in BOOLEAN
  BY PartsOfLayout
<1>2. c \in DOMAIN t.start
  BY <1>1 DEF Related
<1>3. m \in Nat /\ Len(t.table) \in Nat /\ Len(t.table) = t.start[c] + m
  BY <1>1
<1>4. e \in Sound
  <2> HIDE DEF m
  <2> QED BY <1>3, EntryIsSound
<1>7. u = [table |-> tb, start |-> t.start, vowned |-> vo, virtual |-> t.virtual \cup {f},
           slot |-> r, errors |-> t.errors, asserts |-> t.asserts]
  <2>1. ~ (t.start[c] + m < Len(t.table))
    BY <1>3
  <2>2. u = [[t EXCEPT !.slot = r, !.virtual = @ \cup {f}]
               EXCEPT !.table = Append(@, e), !.vowned = Append(@, e),
                      !.asserts = @ /\ c \in DOMAIN t.start /\ Len(t.table) = t.start[c] + m
                                    /\ Len(t.vowned) = m]
    BY <1>2, <2>1 DEF UpdateVTable
  <2> HIDE DEF u, e, r
  <2>3. u = [[t EXCEPT !.slot = r, !.virtual = @ \cup {f}]
               EXCEPT !.table = Append(@, e), !.vowned = Append(@, e), !.asserts = @]
    BY <1>1, <1>2, <1>3, <2>2
  <2> QED BY <1>1, <2>3
<1>8. s \in SlotIds
  BY <1>3 DEF SlotIds
<1>9. /\ r \in Slottings /\ DOMAIN r = DOMAIN t.slot \cup {f} /\ r[f] = s
      /\ \A x \in DOMAIN t.slot : x # f => r[x] = t.slot[x]
  <2> DEFINE z == t.slot
  <2>1. z \in Slottings
    BY <1>1
  <2>2. r = Slotted(z, f, s)
    BY DEF Slotted
  <2> HIDE DEF s, z, r, u, e, tb, vo, m
  <2>3. /\ Slotted(z, f, s) \in Slottings
        /\ DOMAIN Slotted(z, f, s) = DOMAIN z \cup {f} /\ Slotted(z, f, s)[f] = s
        /\ \A x \in DOMAIN z : x # f => Slotted(z, f, s)[x] = z[x]
    BY <1>8, <2>1, SlotAdded
  <2> QED BY <2>2, <2>3 DEF z
<1> HIDE DEF e, r, s, u
<1>10. /\ tb \in Seq(Sound) /\ Len(tb) = Len(t.table) + 1 /\ tb[Len(t.table) + 1] = e
       /\ \A j \in 1 .. Len(t.table) : tb[j] = t.table[j]
  BY <1>1, <1>4
<1>11. /\ vo \in Seq(Sound) /\ Len(vo) = m + 1 /\ vo[m + 1] = e
       /\ \A j \in 1 .. m : vo[j] = t.vowned[j]
  BY <1>1, <1>4
<1> HIDE DEF tb, vo, m
<1>12. t.virtual \cup {f} \in SUBSET Fn
  BY <1>1
<1>13. u \in Layouts(c)
  BY <1>1, <1>7, <1>9, <1>10, <1>11, <1>12, LayoutOfParts
<1>14. Updated(u, t, c, f, s)
  BY <1>7, <1>9, <1>13 DEF Updated
<1> QED BY <1>3, <1>7, <1>10, <1>11, <1>14, SMTT(30) DEF u, e, s, m

-----------------------------------------------------------------------------
\* What the declarations that were looked at have made of the table of c.
Inherits(c, f) == FindOverride(c, f) # NoClass /\ FindOriginating(c, f).fsym # NoClass
OriginOf(c, f) == FindOriginating(c, f).class

\* Whether c has a function of its own for the slot i of the functions f.
Taken(t, c, f, i) == f \in DOMAIN t.slot /\ Inherits(c, f) /\ slot[OriginOf(c, f)][f] = i

OwnSlotsLaid(t, c) ==
  /\ Len(t.table) = t.start[c] + Len(t.vowned)
  /\ \A i \in 1 .. Len(t.vowned) :
       /\ t.vowned[i].of = c /\ t.vowned[i].orig = c /\ t.vowned[i].vidx = i - 1
       /\ SameSlot(t.table[t.start[c] + i], t.vowned[i]) /\ t.table[t.start[c] + i].of = c

InheritedLaid(t, c) ==
  \A x \in Ancestors(c) : \A k \in 1 .. Len(vowned[x]) :
    /\ t.start[x] + k \in 1 .. t.start[c]
    /\ SameSlot(t.table[t.start[x] + k], vowned[x][k])
    /\ t.table[t.start[x] + k].of =
         IF Taken(t, c, vowned[x][k].fn, [orig |-> x, vidx |-> k - 1])
         THEN c ELSE InheritedEntry(c, x, vowned[x][k]).of

SlotsAssigned(t, c) ==
  \A f \in DOMAIN t.slot :
    IF Inherits(c, f) THEN t.slot[f] = slot[OriginOf(c, f)][f]
    ELSE /\ t.slot[f].orig = c /\ t.slot[f].vidx < Len(t.vowned)
         /\ t.vowned[t.slot[f].vidx + 1].fn = f

LaidOut(t, c) ==
  /\ t \in Layouts(c) /\ t.start = InitVTable(c).start /\ t.asserts = TRUE
  /\ t.virtual = virtual[c] \cup DOMAIN t.slot
  /\ OwnSlotsLaid(t, c) /\ InheritedLaid(t, c) /\ SlotsAssigned(t, c)

\* The slot that the originator has for a function is one of its own.
LEMMA OriginSlot ==
  ASSUME prog \in Programs, NEW c, Ready(c), NEW f, Inherits(c, f)
  PROVE  LET o == OriginOf(c, f)
             s == slot[o][f]
         IN  /\ o \in Ancestors(c) /\ o \in Class /\ o \in Related(c)
             /\ FindOriginating(c, f).fsym = o
             /\ s \in SlotIds /\ s = [orig |-> o, vidx |-> s.vidx]
             /\ s.vidx \in Nat /\ s.vidx + 1 \in 1 .. Len(vowned[o])
             /\ (s.vidx + 1) - 1 = s.vidx
             /\ vowned[o][s.vidx + 1].fn = f
<1> DEFINE r == FindOriginating(c, f)
           o == OriginOf(c, f)
           s == slot[o][f]
<1>1. c \in Class /\ Straight(c) /\ Ancestors(c) \in SUBSET Class
  BY AncestorsAre DEF Ready, Straight, Fits
<1>2. FirstOrigin(r, c, f)
  BY <1>1, OriginIsFirst
<1>3. r.fsym # NoClass /\ o = r.class
  BY DEF Inherits, OriginOf
<1> HIDE DEF r, o
<1>4. /\ o \in Ancestors(c) /\ f \in virtual[o] /\ r.fsym = o
      /\ \A x \in Ancestors(c) : f \in virtual[x] => x \notin Ancestors(o)
  BY <1>2, <1>3 DEF FirstOrigin, NoOrigin
<1>5. o \in Class /\ Ancestors(o) \subseteq Ancestors(c)
  BY <1>1, <1>4, AncestorsInherit
<1>6. SlotOf(o, f) /\ OwnsSlots(o)
  BY <1>4 DEF Ready, Fits
<1>7. s \in SlotIds /\ s.vidx < Len(vowned[o]) /\ vowned[o][s.vidx + 1].fn = f /\ s.orig = o
  <2>1. \A y \in Ancestors(o) : f \notin virtual[y]
    BY <1>4, <1>5
  <2> QED BY <1>6, <2>1 DEF SlotOf
<1> HIDE DEF s
<1>8. s = [orig |-> o, vidx |-> s.vidx] /\ s.vidx \in Nat
  BY <1>7 DEF SlotIds
<1>9. Len(vowned[o]) \in Nat
  BY <1>6 DEF OwnsSlots
<1>10. s.vidx + 1 \in 1 .. Len(vowned[o]) /\ (s.vidx + 1) - 1 = s.vidx
  BY <1>7, <1>8, <1>9
<1>11. o \in Related(c)
  BY <1>4 DEF Related
<1> QED BY <1>4, <1>5, <1>7, <1>8, <1>10, <1>11 DEF o, s, r

\* A function that inherits its slot is put in it.
LEMMA InheritedUpdate ==
  ASSUME prog \in Programs, NEW c, Ready(c), NEW t, LaidOut(t, c), NEW f \in Fn, Inherits(c, f)
  PROVE  LET o == OriginOf(c, f)
             u == UpdateVTable(t, c, f, slot[FindOriginating(c, f).fsym][f].vidx, o)
         IN  LaidOut(u, c) /\ u.errors = t.errors /\ DOMAIN u.slot = DOMAIN t.slot \cup {f}
<1> DEFINE o == OriginOf(c, f)
           s == slot[o][f]
           v == s.vidx
           u == UpdateVTable(t, c, f, v, o)
           i == t.start[o] + v + 1
<1>1. /\ o \in Ancestors(c) /\ o \in Class /\ o \in Related(c)
      /\ FindOriginating(c, f).fsym = o
      /\ s \in SlotIds /\ s = [orig |-> o, vidx |-> v]
      /\ v \in Nat /\ v + 1 \in 1 .. Len(vowned[o])
      /\ (v + 1) - 1 = v
      /\ vowned[o][v + 1].fn = f
  BY OriginSlot
<1>2. c \in Class /\ c \notin Ancestors(c) /\ Ancestors(c) \in SUBSET Class
  BY AncestorsAre DEF Ready
<1>3. /\ t \in Layouts(c) /\ t.start = InitVTable(c).start /\ t.asserts = TRUE
      /\ t.virtual = virtual[c] \cup DOMAIN t.slot
      /\ OwnSlotsLaid(t, c) /\ InheritedLaid(t, c) /\ SlotsAssigned(t, c)
  BY DEF LaidOut
<1> HIDE DEF o, s, v
<1>4. /\ t.table \in Seq(Sound) /\ t.start \in [Related(c) -> Nat] /\ t.vowned \in Seq(Sound)
      /\ t.start[o] \in Nat /\ t.start[c] \in Nat /\ Len(t.table) \in Nat /\ Len(t.vowned) \in Nat
  <2>1. t.table \in Seq(Sound) /\ t.start \in [Related(c) -> Nat] /\ t.vowned \in Seq(Sound)
    BY <1>3, PartsOfLayout
  <2>2. c \in Related(c)
    BY DEF Related
  <2> QED BY <1>1, <2>1, <2>2
<1>5. vowned[o][v + 1].orig = o /\ vowned[o][v + 1].vidx = v
  <2>1. OwnsSlots(o)
    BY <1>1 DEF Ready, Fits
  <2> QED BY <1>1, <2>1 DEF OwnsSlots
<1>6. /\ t.start[o] + (v + 1) \in 1 .. t.start[c]
      /\ SameSlot(t.table[t.start[o] + (v + 1)], vowned[o][v + 1])
  BY <1>1, <1>3 DEF InheritedLaid
<1>7. t.start[o] + (v + 1) = i /\ (t.start[o] + v) + 1 = i /\ i \in Nat
  BY <1>1, <1>4
<1>8. t.table[i].orig = o /\ t.table[i].vidx = v /\ t.table[i].fn = f
  BY <1>1, <1>5, <1>6, <1>7 DEF SameSlot
<1>9. Len(t.table) = t.start[c] + Len(t.vowned)
  BY <1>3 DEF OwnSlotsLaid
<1>10. i \in 1 .. t.start[c] /\ t.start[o] + v < Len(t.table)
  BY <1>1, <1>4, <1>6, <1>7, <1>9, SMTT(30)
<1>11. /\ Updated(u, t, c, f, [orig |-> o, vidx |-> v]) /\ u.vowned = t.vowned
       /\ Len(u.table) = Len(t.table)
       /\ u.table[i] = Entry(c, o, v, f)
       /\ \A j \in 1 .. Len(t.table) : j # i => u.table[j] = t.table[j]
  <2>1. LET j == t.start[o] + v
        IN  j < Len(t.table) /\ t.table[j + 1].orig = o /\ t.table[j + 1].vidx = v
    <3> HIDE DEF i, u
    <3>1. t.table[(t.start[o] + v) + 1] = t.table[i]
      BY <1>7
    <3> QED BY <1>8, <1>10, <3>1
  <2>2. t \in Layouts(c) /\ v \in Nat /\ o \in Related(c) /\ o \in Class /\ c \in Class
    BY <1>1, <1>2, <1>3
  <2> QED BY <2>1, <2>2, PutsInPlace
<1> HIDE DEF u, i
<1>12. /\ u \in Layouts(c) /\ u.start = t.start
       /\ u.virtual = t.virtual \cup {f} /\ DOMAIN u.slot = DOMAIN t.slot \cup {f}
       /\ u.slot[f] = s /\ \A x \in DOMAIN t.slot : x # f => u.slot[x] = t.slot[x]
       /\ u.errors = t.errors /\ u.asserts = t.asserts
  BY <1>1, <1>11 DEF Updated
<1>13. OwnSlotsLaid(u, c)
  <2>1. ASSUME NEW j \in 1 .. Len(t.vowned)
        PROVE  u.table[t.start[c] + j] = t.table[t.start[c] + j]
    <3>1. t.start[c] + j \in 1 .. Len(t.table) /\ t.start[c] + j # i
      BY <1>4, <1>9, <1>10
    <3> QED BY <1>11, <3>1
  <2> QED BY <1>3, <1>11, <1>12, <2>1 DEF OwnSlotsLaid
<1>14. InheritedLaid(u, c)
  <2> SUFFICES ASSUME NEW x \in Ancestors(c), NEW k \in 1 .. Len(vowned[x])
               PROVE  /\ u.start[x] + k \in 1 .. u.start[c]
                      /\ SameSlot(u.table[u.start[x] + k], vowned[x][k])
                      /\ u.table[u.start[x] + k].of =
                           IF Taken(u, c, vowned[x][k].fn, [orig |-> x, vidx |-> k - 1])
                           THEN c ELSE InheritedEntry(c, x, vowned[x][k]).of
    BY DEF InheritedLaid
  <2> DEFINE j == t.start[x] + k
             d == vowned[x][k]
             a == [orig |-> x, vidx |-> k - 1]
  <2>1. /\ j \in 1 .. t.start[c] /\ SameSlot(t.table[j], d)
        /\ t.table[j].of = IF Taken(t, c, d.fn, a) THEN c ELSE InheritedEntry(c, x, d).of
    BY <1>3 DEF InheritedLaid
  <2>2. u.start[x] + k = j /\ u.start[c] = t.start[c]
    BY <1>12
  <2>3. d.orig = x /\ d.vidx = k - 1
    <3>1. OwnsSlots(x)
      BY DEF Ready, Fits
    <3> QED BY <3>1 DEF OwnsSlots
  <2>4. OwnsSlots(x) /\ Len(vowned[x]) \in Nat /\ k \in Nat
    <3>1. OwnsSlots(x)
      BY DEF Ready, Fits
    <3> QED BY <3>1 DEF OwnsSlots
  <2>5. j \in 1 .. Len(t.table)
    BY <1>4, <1>9, <2>1, SMTT(30)
  <2>6. CASE j = i
    <3>1. x = o /\ k - 1 = v /\ d.fn = f
      BY <1>8, <2>1, <2>3, <2>6 DEF SameSlot
    <3>2. a = s /\ Taken(u, c, d.fn, a)
      <4>1. a = s
        BY <1>1, <3>1
      <4> HIDE DEF a, d
      <4> QED BY <1>12, <3>1, <4>1 DEF Taken, s, o
    <3>3. LET e == u.table[j] IN e.of = c /\ e.orig = o /\ e.vidx = v /\ e.fn = f
      <4>1. u.table[j] = Entry(c, o, v, f)
        BY <1>11, <2>6
      <4> QED BY <1>1, <1>2, <4>1, EntryIsSound
    <3> HIDE DEF a, d, j
    <3> QED BY <2>1, <2>2, <2>3, <3>1, <3>2, <3>3 DEF SameSlot, a, d, j
  <2>7. CASE j # i
    <3>1. u.table[j] = t.table[j]
      BY <1>11, <2>5, <2>7
    <3>2. a # s \/ d.fn # f
      <4> SUFFICES ASSUME a = s PROVE FALSE
        OBVIOUS
      <4>1. a.orig = o /\ a.vidx = v
        BY <1>1
      <4>2. x = o /\ k - 1 = v
        BY <4>1
      <4>3. j = i
        BY <1>1, <1>4, <2>4, <4>2 DEF i
      <4> QED BY <2>7, <4>3
    <3>3. Taken(u, c, d.fn, a) <=> Taken(t, c, d.fn, a)
      <4> HIDE DEF a, d
      <4>1. CASE d.fn = f
        BY <3>2, <4>1 DEF Taken, s, o
      <4>2. CASE d.fn # f
        BY <1>12, <4>2 DEF Taken
      <4> QED BY <4>1, <4>2
    <3> HIDE DEF a, d, j
    <3> QED BY <2>1, <2>2, <3>1, <3>3 DEF a, d, j
  <2> QED BY <2>6, <2>7
<1>15. SlotsAssigned(u, c)
  <2> SUFFICES ASSUME NEW g \in DOMAIN u.slot
               PROVE  IF Inherits(c, g) THEN u.slot[g] = slot[OriginOf(c, g)][g]
                      ELSE /\ u.slot[g].orig = c /\ u.slot[g].vidx < Len(u.vowned)
                           /\ u.vowned[u.slot[g].vidx + 1].fn = g
    BY DEF SlotsAssigned
  <2>1. CASE g = f
    BY <1>12, <2>1 DEF s, o
  <2>2. CASE g # f
    <3>1. g \in DOMAIN t.slot /\ u.slot[g] = t.slot[g]
      BY <1>12, <2>2
    <3> QED BY <1>3, <1>11, <3>1 DEF SlotsAssigned
  <2> QED BY <2>1, <2>2
<1>16. u.virtual = virtual[c] \cup DOMAIN u.slot
  BY <1>3, <1>12
<1>17. LaidOut(u, c)
  BY <1>3, <1>12, <1>13, <1>14, <1>15, <1>16 DEF LaidOut
<1> QED BY <1>1, <1>12, <1>17 DEF u, v, s, o

-----------------------------------------------------------------------------
\* A function that inherits no slot gets the next one that c originates.
LEMMA OwnUpdate ==
  ASSUME prog \in Programs, NEW c, Ready(c), NEW t, LaidOut(t, c), NEW f \in Fn, ~ Inherits(c, f)
  PROVE  LET u == UpdateVTable(t, c, f, Len(t.vowned), c)
         IN  LaidOut(u, c) /\ u.errors = t.errors /\ DOMAIN u.slot = DOMAIN t.slot \cup {f}
<1> DEFINE m == Len(t.vowned)
           n == t.start[c]
           e == Entry(c, c, m, f)
           u == UpdateVTable(t, c, f, m, c)
<1>1. c \in Class /\ c \notin Ancestors(c) /\ Ancestors(c) \in SUBSET Class /\ c \in Related(c)
  BY AncestorsAre DEF Ready, Related
<1>2. /\ t \in Layouts(c) /\ t.start = InitVTable(c).start /\ t.asserts = TRUE
      /\ t.virtual = virtual[c] \cup DOMAIN t.slot
      /\ OwnSlotsLaid(t, c) /\ InheritedLaid(t, c) /\ SlotsAssigned(t, c)
  BY DEF LaidOut
<1>3. /\ t.table \in Seq(Sound) /\ t.start \in [Related(c) -> Nat] /\ t.vowned \in Seq(Sound)
      /\ t.slot \in Slottings
  BY <1>2, PartsOfLayout
<1>4. n \in Nat /\ m \in Nat /\ Len(t.table) \in Nat /\ Len(t.table) = n + m
  BY <1>1, <1>2, <1>3 DEF OwnSlotsLaid
<1>5. /\ Updated(u, t, c, f, [orig |-> c, vidx |-> m])
      /\ Len(u.vowned) = m + 1 /\ u.vowned[m + 1] = e
      /\ \A j \in 1 .. m : u.vowned[j] = t.vowned[j]
      /\ Len(u.table) = Len(t.table) + 1 /\ u.table[Len(t.table) + 1] = e
      /\ \A j \in 1 .. Len(t.table) : u.table[j] = t.table[j]
  BY <1>1, <1>2, <1>4, Appends
<1> HIDE DEF u, e
<1>6. /\ u \in Layouts(c) /\ u.start = t.start
      /\ u.virtual = t.virtual \cup {f} /\ DOMAIN u.slot = DOMAIN t.slot \cup {f}
      /\ u.slot[f] = [orig |-> c, vidx |-> m]
      /\ \A x \in DOMAIN t.slot : x # f => u.slot[x] = t.slot[x]
      /\ u.errors = t.errors /\ u.asserts = t.asserts
  BY <1>5 DEF Updated
<1>7. e.of = c /\ e.orig = c /\ e.vidx = m /\ e.fn = f
  <2> HIDE DEF m
  <2> QED BY <1>1, <1>4, EntryIsSound DEF e
<1> HIDE DEF m, n
<1>8. OwnSlotsLaid(u, c)
  <2>1. ASSUME NEW i \in 1 .. m + 1
        PROVE  /\ u.vowned[i].of = c /\ u.vowned[i].orig = c /\ u.vowned[i].vidx = i - 1
               /\ SameSlot(u.table[n + i], u.vowned[i]) /\ u.table[n + i].of = c
    <3>1. CASE i = m + 1
      <4>1. n + i = Len(t.table) + 1 /\ i - 1 = m
        BY <1>4, <3>1
      <4>2. u.vowned[i] = e /\ u.table[n + i] = e
        BY <1>5, <3>1, <4>1
      <4> QED BY <1>7, <4>1, <4>2 DEF SameSlot
    <3>2. CASE i # m + 1
      <4>1. i \in 1 .. m /\ n + i \in 1 .. Len(t.table)
        BY <1>4, <3>2
      <4>2. /\ t.vowned[i].of = c /\ t.vowned[i].orig = c /\ t.vowned[i].vidx = i - 1
            /\ SameSlot(t.table[n + i], t.vowned[i]) /\ t.table[n + i].of = c
        BY <1>2, <4>1 DEF OwnSlotsLaid, n, m
      <4>3. u.vowned[i] = t.vowned[i] /\ u.table[n + i] = t.table[n + i]
        BY <1>5, <4>1
      <4> QED BY <4>2, <4>3
    <3> QED BY <3>1, <3>2
  <2>2. Len(u.table) = n + (m + 1)
    BY <1>4, <1>5
  <2>3. u.start[c] = n
    BY <1>6 DEF n
  <2> QED BY <1>5, <2>1, <2>2, <2>3 DEF OwnSlotsLaid
<1>9. InheritedLaid(u, c)
  <2> SUFFICES ASSUME NEW x \in Ancestors(c), NEW k \in 1 .. Len(vowned[x])
               PROVE  /\ u.start[x] + k \in 1 .. u.start[c]
                      /\ SameSlot(u.table[u.start[x] + k], vowned[x][k])
                      /\ u.table[u.start[x] + k].of =
                           IF Taken(u, c, vowned[x][k].fn, [orig |-> x, vidx |-> k - 1])
                           THEN c ELSE InheritedEntry(c, x, vowned[x][k]).of
    BY DEF InheritedLaid
  <2> DEFINE j == t.start[x] + k
             d == vowned[x][k]
             a == [orig |-> x, vidx |-> k - 1]
  <2>1. /\ j \in 1 .. t.start[c] /\ SameSlot(t.table[j], d)
        /\ t.table[j].of = IF Taken(t, c, d.fn, a) THEN c ELSE InheritedEntry(c, x, d).of
    BY <1>2 DEF InheritedLaid
  <2>2. u.start[x] + k = j /\ u.start[c] = t.start[c]
    BY <1>6
  <2> HIDE DEF j, d, a
  <2>3. j \in 1 .. Len(t.table)
    BY <1>4, <2>1 DEF n
  <2>4. u.table[j] = t.table[j]
    BY <1>5, <2>3
  <2>5. Taken(u, c, d.fn, a) <=> Taken(t, c, d.fn, a)
    <3>1. CASE d.fn = f
      BY <3>1 DEF Taken
    <3>2. CASE d.fn # f
      BY <1>6, <3>2 DEF Taken
    <3> QED BY <3>1, <3>2
  <2> QED BY <2>1, <2>2, <2>4, <2>5 DEF j, d, a
<1>10. SlotsAssigned(u, c)
  <2> SUFFICES ASSUME NEW g \in DOMAIN u.slot
               PROVE  IF Inherits(c, g) THEN u.slot[g] = slot[OriginOf(c, g)][g]
                      ELSE /\ u.slot[g].orig = c /\ u.slot[g].vidx < Len(u.vowned)
                           /\ u.vowned[u.slot[g].vidx + 1].fn = g
    BY DEF SlotsAssigned
  <2>1. CASE g = f
    <3>1. u.slot[g].orig = c /\ u.slot[g].vidx = m /\ m < m + 1
      BY <1>4, <1>6, <2>1
    <3> QED BY <1>5, <1>7, <2>1, <3>1
  <2>2. CASE g # f
    <3>1. g \in DOMAIN t.slot /\ u.slot[g] = t.slot[g]
      BY <1>6, <2>2
    <3>2. CASE Inherits(c, g)
      BY <1>2, <3>1, <3>2 DEF SlotsAssigned
    <3>3. CASE ~ Inherits(c, g)
      <4>1. /\ t.slot[g].orig = c /\ t.slot[g].vidx < m
            /\ t.vowned[t.slot[g].vidx + 1].fn = g
        BY <1>2, <3>1, <3>3 DEF SlotsAssigned, m
      <4>2. t.slot[g].vidx \in Nat
        BY <1>3, <3>1 DEF Slottings, SlotIds
      <4> DEFINE i == t.slot[g].vidx
      <4> HIDE DEF i
      <4>3. i + 1 \in 1 .. m /\ i < m + 1
        <5>1. m \in Nat /\ i \in Nat /\ i < m
          BY <1>4, <4>1, <4>2 DEF i
        <5> HIDE DEF m
        <5> QED BY <5>1
      <4>4. u.vowned[i + 1] = t.vowned[i + 1]
        BY <1>5, <4>3
      <4> QED BY <1>5, <3>1, <3>3, <4>1, <4>3, <4>4 DEF i
    <3> QED BY <3>2, <3>3
  <2> QED BY <2>1, <2>2
<1>11. LaidOut(u, c)
  BY <1>2, <1>6, <1>8, <1>9, <1>10 DEF LaidOut
<1> QED BY <1>6, <1>11 DEF u, m

\* No error was counted unless a function has no single originator.
ErrorsRight(t, c) ==
  t.errors = 0 => \A f \in DOMAIN t.slot :
    FindOverride(c, f) # NoClass => FindOriginating(c, f).errors = 0

IsVirtual(c, d) == d.kind # "plain" \/ FindOverride(c, d.fn) # NoClass

\* An error more leaves a table as it was laid out.
LEMMA ErrorsAdded ==
  ASSUME NEW c, NEW t, LaidOut(t, c), NEW n \in Nat
  PROVE  LET u == [t EXCEPT !.errors = @ + n]
         IN  LaidOut(u, c) /\ u.errors = t.errors + n /\ u.slot = t.slot
<1> DEFINE u == [t EXCEPT !.errors = @ + n]
<1>1. t \in Layouts(c)
  BY DEF LaidOut
<1>2. /\ u \in Layouts(c) /\ u.errors = t.errors + n /\ u.slot = t.slot /\ u.table = t.table
      /\ u.start = t.start /\ u.vowned = t.vowned /\ u.virtual = t.virtual /\ u.asserts = t.asserts
  <2>1. /\ t = [table |-> t.table, start |-> t.start, vowned |-> t.vowned,
                virtual |-> t.virtual, slot |-> t.slot, errors |-> t.errors,
                asserts |-> t.asserts]
        /\ t.table \in Seq(Sound) /\ t.start \in [Related(c) -> Nat] /\ t.vowned \in Seq(Sound)
        /\ t.virtual \in SUBSET Fn /\ t.slot \in Slottings /\ t.errors \in Nat
        /\ t.asserts \in BOOLEAN
    BY <1>1, PartsOfLayout
  <2>2. u = [table |-> t.table, start |-> t.start, vowned |-> t.vowned,
             virtual |-> t.virtual, slot |-> t.slot, errors |-> t.errors + n,
             asserts |-> t.asserts]
    BY <2>1, SMTT(30)
  <2> HIDE DEF u
  <2>3. t.errors + n \in Nat
    BY <2>1
  <2>4. u \in Layouts(c)
    BY <2>1, <2>2, <2>3, LayoutOfParts
  <2> QED BY <2>2, <2>4
<1> HIDE DEF u
<1>3. OwnSlotsLaid(u, c) /\ SlotsAssigned(u, c)
  BY <1>2 DEF LaidOut, OwnSlotsLaid, SlotsAssigned
<1>4. InheritedLaid(u, c)
  BY <1>2, SMTT(20), ZenonT(30) DEF LaidOut, InheritedLaid, Taken
<1>5. LaidOut(u, c)
  BY <1>2, <1>3, <1>4 DEF LaidOut
<1> QED BY <1>2, <1>5 DEF u

\* A declaration leaves the table laid out, with a slot for its function if
\* it is virtual.
LEMMA DeclarationStep ==
  ASSUME prog \in Programs, NEW c, Ready(c), NEW t, LaidOut(t, c), ErrorsRight(t, c),
         NEW d \in [fn : Fn, kind : Kinds]
  PROVE  LET v == CalcMaxIndexOfVirtualFunction(t, c, d)
         IN  /\ LaidOut(v, c) /\ ErrorsRight(v, c)
             /\ DOMAIN v.slot = DOMAIN t.slot \cup (IF IsVirtual(c, d) THEN {d.fn} ELSE {})
<1> DEFINE f == d.fn
           org == FindOriginating(c, f)
           overriding == FindOverride(c, f) # NoClass
           u == IF Inherits(c, f)
                THEN UpdateVTable(t, c, f, slot[org.fsym][f].vidx, OriginOf(c, f))
                ELSE UpdateVTable(t, c, f, Len(t.vowned), c)
           n == (IF d.kind = "override" /\ ~ overriding THEN 1 ELSE 0)
                  + (IF overriding THEN org.errors ELSE 0)
           v == CalcMaxIndexOfVirtualFunction(t, c, d)
<1>1. f \in Fn
  OBVIOUS
<1>2. LaidOut(u, c) /\ u.errors = t.errors /\ DOMAIN u.slot = DOMAIN t.slot \cup {f}
  <2>1. CASE Inherits(c, f)
    BY <1>1, <2>1, InheritedUpdate
  <2>2. CASE ~ Inherits(c, f)
    BY <1>1, <2>2, OwnUpdate
  <2> QED BY <2>1, <2>2
<1>3. org.errors \in Nat
  <2>1. c \in Class /\ Straight(c)
    BY AncestorsAre DEF Ready, Straight, Fits
  <2>2. FirstOrigin(org, c, f)
    BY <2>1, OriginIsFirst
  <2> HIDE DEF org
  <2> QED BY <2>2 DEF FirstOrigin, Origin
<1>4. t.errors \in Nat /\ u.errors \in Nat
  <2>1. t.errors \in Nat
    BY PartsOfLayout DEF LaidOut
  <2> HIDE DEF u
  <2> QED BY <1>2, <2>1
<1>5. v = IF ~ IsVirtual(c, d) THEN t
          ELSE [u EXCEPT !.errors = (@ + (IF d.kind = "override" /\ ~ overriding THEN 1 ELSE 0))
                                       + (IF overriding THEN org.errors ELSE 0)]
  BY DEF CalcMaxIndexOfVirtualFunction, IsVirtual, Inherits, OriginOf
<1> HIDE DEF u, org, v, f
<1>6. n \in Nat /\ (n = 0 => (overriding => org.errors = 0))
  BY <1>3
<1>7. CASE ~ IsVirtual(c, d)
  BY <1>5, <1>7 DEF v, f
<1>8. CASE IsVirtual(c, d)
  <2>1. v = [u EXCEPT !.errors = @ + n]
    <3>1. (u.errors + (IF d.kind = "override" /\ ~ overriding THEN 1 ELSE 0))
             + (IF overriding THEN org.errors ELSE 0) = u.errors + n
      BY <1>3, <1>4
    <3> QED BY <1>5, <1>8, <3>1
  <2> HIDE DEF n
  <2>2. LaidOut(v, c) /\ v.errors = u.errors + n /\ v.slot = u.slot
    BY <1>2, <1>6, <2>1, ErrorsAdded
  <2>3. ErrorsRight(v, c)
    <3> SUFFICES ASSUME v.errors = 0, NEW g \in DOMAIN v.slot, FindOverride(c, g) # NoClass
                 PROVE  FindOriginating(c, g).errors = 0
      BY DEF ErrorsRight
    <3>1. t.errors = 0 /\ n = 0
      BY <1>2, <1>4, <1>6, <2>2
    <3>2. CASE g = f
      BY <1>6, <3>1, <3>2 DEF org
    <3>3. CASE g # f
      <4>1. g \in DOMAIN t.slot
        BY <1>2, <2>2, <3>3
      <4> QED BY <3>1, <4>1 DEF ErrorsRight
    <3> QED BY <3>2, <3>3
  <2> QED BY <1>2, <1>8, <2>2, <2>3 DEF v, f
<1> QED BY <1>7, <1>8

-----------------------------------------------------------------------------
\* The table of c from its inherited slots to the last declaration.
LEMMA InitIsLaidOut ==
  ASSUME prog \in Programs, NEW c, Ready(c)
  PROVE  LET t == InitVTable(c)
         IN  InitRight(t, c) /\ LaidOut(t, c) /\ ErrorsRight(t, c) /\ DOMAIN t.slot = {}
<1> DEFINE t == InitVTable(c)
<1>1. /\ c \in Class /\ c \notin Ancestors(c) /\ Straight(c) /\ virtual[c] \in SUBSET Fn
      /\ \A x \in Ancestors(c) : OwnsSlots(x)
  BY AncestorsAre DEF Ready, Straight, Fits
<1>2. InitRight(t, c)
  BY <1>1, InitIsRight
<1>3. t = [table |-> t.table, start |-> t.start, vowned |-> t.vowned, virtual |-> t.virtual,
           slot |-> t.slot, errors |-> t.errors, asserts |-> t.asserts]
  BY DEF InitVTable
<1> HIDE DEF t
<1>4. /\ t.vowned = << >> /\ t.slot = << >> /\ t.virtual = virtual[c]
      /\ t.errors = 0 /\ t.asserts = TRUE
      /\ t.table \in Seq(Sound) /\ t.start \in [Related(c) -> Nat] /\ t.start[c] = Len(t.table)
      /\ \A x \in Ancestors(c) :
           /\ t.start[x] + Len(vowned[x]) <= Len(t.table)
           /\ \A k \in 1 .. Len(vowned[x]) :
                t.table[t.start[x] + k] = InheritedEntry(c, x, vowned[x][k])
  BY <1>2 DEF InitRight
<1>5. << >> \in Seq(Sound) /\ Len(<< >>) = 0
  OBVIOUS
<1>6. DOMAIN t.slot = {} /\ t.slot \in Slottings
  <2>1. << >> \in [{} -> SlotIds] /\ {} \in SUBSET Fn /\ DOMAIN << >> = {}
    OBVIOUS
  <2>2. << >> \in Slottings
    BY <2>1, Zenon DEF Slottings
  <2> QED BY <1>4, <2>1, <2>2
<1>7. t \in Layouts(c)
  <2>1. /\ t.vowned \in Seq(Sound) /\ t.virtual \in SUBSET Fn
        /\ t.errors \in Nat /\ t.asserts \in BOOLEAN
    <3>1. t.vowned \in Seq(Sound)
      BY <1>4, <1>5, Zenon
    <3>2. t.virtual \in SUBSET Fn
      BY <1>1, <1>4, Zenon
    <3>3. t.errors \in Nat /\ t.asserts \in BOOLEAN
      <4>1. t.errors = 0 /\ t.asserts = TRUE
        BY <1>4, Zenon
      <4>2. t.errors \in Nat
        BY <4>1
      <4>3. t.asserts \in BOOLEAN
        BY <4>1, Zenon
      <4> QED BY <4>2, <4>3
    <3> QED BY <3>1, <3>2, <3>3
  <2>2. t.table \in Seq(Sound) /\ t.start \in [Related(c) -> Nat]
    BY <1>4, Zenon
  <2>3. [table |-> t.table, start |-> t.start, vowned |-> t.vowned, virtual |-> t.virtual,
         slot |-> t.slot, errors |-> t.errors, asserts |-> t.asserts] \in Layouts(c)
    BY <1>6, <2>1, <2>2, LayoutOfParts
  <2> QED BY <1>3, <2>3, Zenon
<1>8. OwnSlotsLaid(t, c)
  <2>1. Len(t.vowned) = 0 /\ Len(t.table) \in Nat
    BY <1>4, <1>5
  <2> QED BY <1>4, <2>1 DEF OwnSlotsLaid
<1>9. InheritedLaid(t, c)
  <2> SUFFICES ASSUME NEW x \in Ancestors(c), NEW k \in 1 .. Len(vowned[x])
               PROVE  /\ t.start[x] + k \in 1 .. t.start[c]
                      /\ SameSlot(t.table[t.start[x] + k], vowned[x][k])
                      /\ t.table[t.start[x] + k].of =
                           IF Taken(t, c, vowned[x][k].fn, [orig |-> x, vidx |-> k - 1])
                           THEN c ELSE InheritedEntry(c, x, vowned[x][k]).of
    BY DEF InheritedLaid
  <2>1. ~ Taken(t, c, vowned[x][k].fn, [orig |-> x, vidx |-> k - 1])
    BY <1>6 DEF Taken
  <2>2. t.table[t.start[x] + k] = InheritedEntry(c, x, vowned[x][k])
    BY <1>4
  <2>3. vowned[x][k] \in Sound /\ Len(vowned[x]) \in Nat
    <3>1. vowned[x] \in Seq(Sound)
      BY <1>1 DEF OwnsSlots
    <3> QED BY <3>1
  <2>4. SameSlot(InheritedEntry(c, x, vowned[x][k]), vowned[x][k])
    BY <1>1, <2>3, InheritedIsSound
  <2>5. t.start[x] + k \in 1 .. t.start[c]
    <3>1. t.start[x] \in Nat /\ Len(t.table) \in Nat
      <4>1. x \in Related(c)
        BY DEF Related
      <4> QED BY <1>4, <4>1
    <3>2. t.start[x] + Len(vowned[x]) <= t.start[c] /\ t.start[c] = Len(t.table)
      BY <1>4
    <3> QED BY <2>3, <3>1, <3>2
  <2> QED BY <2>1, <2>2, <2>4, <2>5
<1>10. SlotsAssigned(t, c) /\ ErrorsRight(t, c)
  BY <1>6 DEF SlotsAssigned, ErrorsRight
<1>11. LaidOut(t, c)
  BY <1>4, <1>6, <1>7, <1>8, <1>9, <1>10 DEF LaidOut, t
<1> QED BY <1>2, <1>6, <1>10, <1>11 DEF t

\* The table after n declarations of c.
Declaring(g, c) ==
  g = [n \in 0 .. Len(prog.decls[c]) |->
         IF n = 0 THEN InitVTable(c)
                  ELSE CalcMaxIndexOfVirtualFunction(g[n - 1], c, prog.decls[c][n])]

Progress(c) == {t \in Layouts(c) : LaidOut(t, c) /\ ErrorsRight(t, c)}

\* The recursive function along the declarations exists.
LEMMA DeclaringExists ==
  ASSUME prog \in Programs, NEW c, Ready(c)
  PROVE  \E g : Declaring(g, c)
<1> DEFINE w == prog.decls[c]
           n == Len(w)
           D == Progress(c)
           b == InitVTable(c)
           F == [x \in (1 .. n) \X D |-> CalcMaxIndexOfVirtualFunction(x[2], c, w[x[1]])]
<1>1. n \in Nat /\ \A i \in 1 .. n : w[i] \in [fn : Fn, kind : Kinds]
  <2>1. w \in Seq([fn : Fn, kind : Kinds])
    BY ProgramTypes DEF Ready
  <2> DEFINE R == [fn : Fn, kind : Kinds]
  <2>2. w \in Seq(R)
    BY <2>1
  <2> HIDE DEF w, R
  <2>3. n \in Nat /\ \A i \in 1 .. n : w[i] \in R
    BY <2>2
  <2> QED BY <2>3 DEF R
<1> HIDE DEF w, n
<1>4. F \in [(1 .. n) \X D -> D]
  <2>1. ASSUME NEW x \in (1 .. n) \X D PROVE CalcMaxIndexOfVirtualFunction(x[2], c, w[x[1]]) \in D
    <3> DEFINE t == x[2]
               d == w[x[1]]
               v == CalcMaxIndexOfVirtualFunction(t, c, d)
    <3>1. x[1] \in 1 .. n /\ t \in D
      OBVIOUS
    <3>2. LaidOut(t, c) /\ ErrorsRight(t, c) /\ d \in [fn : Fn, kind : Kinds]
      BY <1>1, <3>1 DEF Progress
    <3> HIDE DEF t, d
    <3>3. LaidOut(v, c) /\ ErrorsRight(v, c)
      BY <3>2, DeclarationStep
    <3> HIDE DEF v
    <3>4. v \in D
      BY <3>3 DEF LaidOut, Progress
    <3> QED BY <3>4 DEF v, t, d
  <2> HIDE DEF D
  <2> QED BY <2>1
<1>6. b \in D
  BY InitIsLaidOut DEF LaidOut, Progress
<1> HIDE DEF D, b
<1>5. \A i \in 1 .. n : \A s \in D : F[<<i, s>>] = CalcMaxIndexOfVirtualFunction(s, c, w[i])
  OBVIOUS
<1> HIDE DEF F
<1>7. PICK g \in [0 .. n -> D] : Recurs(g, n, b, F)
  BY <1>1, <1>4, <1>6, IntervalRecursion
<1>8. g = [i \in 0 .. n |-> IF i = 0 THEN b ELSE F[<<i, g[i - 1]>>]]
  BY <1>7 DEF Recurs
<1>9. ASSUME NEW i \in 0 .. n
      PROVE  g[i] = IF i = 0 THEN b ELSE CalcMaxIndexOfVirtualFunction(g[i - 1], c, w[i])
  <2>1. CASE i = 0
    BY <1>8, <2>1
  <2>2. CASE i # 0
    <3>1. i \in 1 .. n /\ i - 1 \in 0 .. n /\ g[i - 1] \in D
      BY <1>1, <2>2
    <3>2. g[i] = F[<<i, g[i - 1]>>]
      BY <1>8, <2>2
    <3> QED BY <1>5, <2>2, <3>1, <3>2
  <2> QED BY <2>1, <2>2
<1>10. Declaring(g, c)
  BY <1>8, <1>9 DEF Declaring, n, w, b
<1> QED BY <1>10

\* The functions among the first n declarations of c that are virtual.
VirtualOnes(c, n) ==
  {f \in Fn : \E i \in 1 .. n : prog.decls[c][i].fn = f /\ IsVirtual(c, prog.decls[c][i])}

\* The table made of all declarations is laid out and has a slot for
\* exactly the virtual functions.
LEMMA CalcIsRight ==
  ASSUME prog \in Programs, NEW c, Ready(c)
  PROVE  LET t == CalcVTable(c)
         IN  /\ LaidOut(t, c) /\ ErrorsRight(t, c)
             /\ DOMAIN t.slot = VirtualOnes(c, Len(prog.decls[c]))
<1> DEFINE w == prog.decls[c]
           n == Len(w)
           g == CHOOSE h : Declaring(h, c)
           b == InitVTable(c)
<1>1. Declaring(g, c)
  BY DeclaringExists
<1>2. CalcVTable(c) = g[n]
  BY Zenon DEF CalcVTable, Declaring
<1> HIDE DEF g
<1>3. \A i \in 0 .. n : g[i] = IF i = 0 THEN b ELSE CalcMaxIndexOfVirtualFunction(g[i - 1], c, w[i])
  BY <1>1 DEF Declaring
<1>4. n \in Nat /\ \A i \in 1 .. n : w[i] \in [fn : Fn, kind : Kinds]
  <2>1. w \in Seq([fn : Fn, kind : Kinds])
    BY ProgramTypes DEF Ready
  <2> DEFINE R == [fn : Fn, kind : Kinds]
  <2>2. w \in Seq(R)
    BY <2>1
  <2> HIDE DEF w, R
  <2>3. n \in Nat /\ \A i \in 1 .. n : w[i] \in R
    BY <2>2
  <2> QED BY <2>3 DEF R
<1> DEFINE Good(t, i) == LaidOut(t, c) /\ ErrorsRight(t, c) /\ DOMAIN t.slot = VirtualOnes(c, i)
           T == {i \in 0 .. n : Good(g[i], i)}
<1> HIDE DEF w, n, b
<1>5. 0 \in T
  <2>1. g[0] = b /\ 0 \in 0 .. n
    BY <1>3, <1>4
  <2>2. LaidOut(b, c) /\ ErrorsRight(b, c) /\ DOMAIN b.slot = {}
    BY InitIsLaidOut DEF b
  <2>3. VirtualOnes(c, 0) = {}
    BY DEF VirtualOnes
  <2> QED BY <2>1, <2>2, <2>3
<1>6. ASSUME NEW i \in 0 .. n - 1, i \in T PROVE i + 1 \in T
  <2> DEFINE t == g[i]
             d == w[i + 1]
             v == CalcMaxIndexOfVirtualFunction(t, c, d)
  <2>1. i + 1 \in 1 .. n /\ i + 1 \in 0 .. n /\ (i + 1) - 1 = i /\ i + 1 # 0
    BY <1>4
  <2>2. g[i + 1] = v /\ d \in [fn : Fn, kind : Kinds]
    BY <1>3, <1>4, <2>1
  <2>3. Good(t, i)
    BY <1>6
  <2> HIDE DEF t, d
  <2>4. /\ LaidOut(v, c) /\ ErrorsRight(v, c)
        /\ DOMAIN v.slot = DOMAIN t.slot \cup (IF IsVirtual(c, d) THEN {d.fn} ELSE {})
    BY <2>2, <2>3, DeclarationStep
  <2> HIDE DEF v
  <2>5. VirtualOnes(c, i + 1) = VirtualOnes(c, i) \cup (IF IsVirtual(c, d) THEN {d.fn} ELSE {})
    <3>1. /\ \A j \in 1 .. i + 1 : j = i + 1 \/ j \in 1 .. i
          /\ \A j \in 1 .. i : j \in 1 .. i + 1
          /\ i + 1 \in 1 .. i + 1
      OBVIOUS
    <3>2. d = prog.decls[c][i + 1] /\ d.fn \in Fn
      BY <2>2 DEF d, w
    <3> QED BY <3>1, <3>2 DEF VirtualOnes
  <2>6. Good(v, i + 1)
    BY <2>3, <2>4, <2>5
  <2> HIDE DEF Good
  <2> QED BY <2>1, <2>2, <2>6
<1>7. 0 .. n \subseteq T
  <2> HIDE DEF T
  <2>1. 0 \in Nat
    OBVIOUS
  <2> QED BY <1>4, <1>5, <1>6, <2>1, IntervalInduction
<1>8. Good(g[n], n)
  <2>1. n \in 0 .. n
    BY <1>4
  <2> HIDE DEF Good
  <2> QED BY <1>7, <2>1
<1> QED BY <1>2, <1>8 DEF n, w

-----------------------------------------------------------------------------
\* The ancestors of c that have f as a virtual function, and the first of them.
Above(c, f) == {x \in Ancestors(c) : f \in virtual[x]}

First(o, c, f) ==
  /\ o \in Above(c, f)
  /\ \A x \in Above(c, f) : x \notin Ancestors(o) /\ (x = o \/ o \in Ancestors(x))

\* The ancestors of c that override the f of o, and that no other overrides.
Overriders(o, c, f) ==
  {x \in Above(c, f) : /\ x = o \/ o \in Ancestors(x)
                      /\ \A y \in Above(c, f) : x \notin Ancestors(y)}

\* What is known of the ancestors of a class that is ready for its table.
LEMMA ReadyIsStraight ==
  ASSUME prog \in Programs, NEW c, Ready(c)
  PROVE  /\ c \in Class /\ c \notin Ancestors(c) /\ Straight(c) /\ Ancestors(c) \in SUBSET Class
         /\ Related(c) = Ancestors(c) \cup {c}
         /\ \A x \in Ancestors(c) : OwnsSlots(x) /\ x # c
BY AncestorsAre DEF Ready, Straight, Fits, Related

\* A function that no ancestor has as a virtual one overrides none; one without
\* an error has the slot of the first ancestor that has it.
LEMMA OriginIsTheFirst ==
  ASSUME prog \in Programs, NEW c, Ready(c), NEW f
  PROVE  /\ FindOverride(c, f) # NoClass <=> Above(c, f) # {}
         /\ Above(c, f) # {} /\ FindOriginating(c, f).errors = 0 =>
              Inherits(c, f) /\ First(OriginOf(c, f), c, f)
<1> DEFINE o == FindOverride(c, f)
           r == FindOriginating(c, f)
<1>1. c \in Class /\ Straight(c) /\ Ancestors(c) \in SUBSET Class
  BY ReadyIsStraight
<1>2. MostDerivedAncestor(o, c, f)
  BY <1>1, OverrideIsMostDerived
<1>3. FirstOrigin(r, c, f)
  BY <1>1, OriginIsFirst
<1>4. NoClass \notin Class
  BY ProgramsAssumption
<1> HIDE DEF o, r
<1>5. o # NoClass <=> Above(c, f) # {}
  BY <1>1, <1>2, <1>4 DEF MostDerivedAncestor, Above
<1>6. ASSUME Above(c, f) # {}, r.errors = 0
      PROVE  r.fsym = r.class /\ r.fsym # NoClass /\ First(r.class, c, f)
  <2>1. PICK x \in Ancestors(c) : f \in virtual[x]
    BY <1>6 DEF Above
  <2>2. /\ r.class \in Ancestors(c) /\ f \in virtual[r.class]
        /\ \A y \in Ancestors(c) : f \in virtual[y] => y \notin Ancestors(r.class)
        /\ r.fsym = r.class
        /\ \A y \in Ancestors(c) : f \in virtual[y] => y = r.class \/ r.class \in Ancestors(y)
    BY <1>3, <1>6, <2>1 DEF FirstOrigin
  <2>3. First(r.class, c, f)
    BY <2>2 DEF First, Above
  <2> QED BY <1>1, <1>4, <2>2, <2>3
<1> QED BY <1>5, <1>6 DEF Inherits, OriginOf, o, r

\* The slots that c gives its virtual functions.
LEMMA SlotsFit ==
  ASSUME prog \in Programs, NEW c, Ready(c), NEW t, LaidOut(t, c), NEW f \in DOMAIN t.slot
  PROVE  LET s == t.slot[f]
             m == IF s.orig = c THEN t.vowned ELSE vowned[s.orig]
         IN  /\ s \in SlotIds /\ s.orig \in Related(c)
             /\ s.vidx < Len(m) /\ m[s.vidx + 1].fn = f
             /\ Above(c, f) = {} => s.orig = c
<1> DEFINE s == t.slot[f]
<1>1. c \in Class /\ c \notin Ancestors(c) /\ Related(c) = Ancestors(c) \cup {c}
  BY ReadyIsStraight
<1>2. t.slot \in Slottings /\ SlotsAssigned(t, c)
  BY PartsOfLayout DEF LaidOut
<1>3. s \in SlotIds
  BY <1>2 DEF Slottings
<1>4. CASE Inherits(c, f)
  <2> DEFINE o == OriginOf(c, f)
             z == slot[o][f]
  <2>1. s = z
    BY <1>2, <1>4 DEF SlotsAssigned
  <2>2. /\ o \in Ancestors(c) /\ o \in Related(c)
        /\ z = [orig |-> o, vidx |-> z.vidx] /\ z.vidx \in Nat
        /\ z.vidx + 1 \in 1 .. Len(vowned[o])
        /\ vowned[o][z.vidx + 1].fn = f
    BY <1>4, OriginSlot
  <2>3. Above(c, f) # {}
    BY <1>4, OriginIsTheFirst DEF Inherits
  <2> HIDE DEF o, z, s
  <2>4. z.orig = o /\ o # c
    BY <1>1, <2>2
  <2>5. Len(vowned[o]) \in Nat
    <3>1. OwnsSlots(o)
      BY <2>2, ReadyIsStraight
    <3> QED BY <3>1 DEF OwnsSlots
  <2>6. z.vidx < Len(vowned[o])
    BY <2>2, <2>5
  <2> QED BY <1>3, <2>1, <2>2, <2>3, <2>4, <2>6 DEF s
<1>5. CASE ~ Inherits(c, f)
  BY <1>1, <1>2, <1>3, <1>5 DEF SlotsAssigned
<1> QED BY <1>4, <1>5

\* The slots of a table and how many they are.
LEMMA TableFits ==
  ASSUME prog \in Programs, NEW c, Ready(c), NEW t, LaidOut(t, c)
  PROVE  /\ t.table \in Seq(Sound) /\ t.vowned \in Seq(Sound) /\ t.start \in [Related(c) -> Nat]
         /\ \A o \in Related(c) :
              LET m == IF o = c THEN t.vowned ELSE vowned[o]
              IN  \A i \in 1 .. Len(m) : /\ t.start[o] + i \in 1 .. Len(t.table)
                                         /\ SameSlot(t.table[t.start[o] + i], m[i])
         /\ Len(t.table) = Len(InitVTable(c).table) + Len(t.vowned)
         /\ Len(t.table) = SumFunction([x \in Related(c) |-> IF x = c THEN Len(t.vowned)
                                                                      ELSE Len(vowned[x])])
<1>1. c \in Class /\ c \notin Ancestors(c) /\ Related(c) = Ancestors(c) \cup {c}
  BY ReadyIsStraight
<1>2. t.table \in Seq(Sound) /\ t.vowned \in Seq(Sound) /\ t.start \in [Related(c) -> Nat]
  BY PartsOfLayout DEF LaidOut
<1>3. /\ t.start = InitVTable(c).start
      /\ OwnSlotsLaid(t, c) /\ InheritedLaid(t, c)
  BY DEF LaidOut
<1> DEFINE L == Len(t.table)
           n == t.start[c]
           q == Len(t.vowned)
<1>4. L \in Nat /\ n \in Nat /\ q \in Nat /\ L = n + q
  BY <1>1, <1>2, <1>3 DEF OwnSlotsLaid
<1> HIDE DEF L, n, q
<1>5. ASSUME NEW o \in Related(c)
      PROVE  LET m == IF o = c THEN t.vowned ELSE vowned[o]
             IN  \A i \in 1 .. Len(m) : /\ t.start[o] + i \in 1 .. L
                                        /\ SameSlot(t.table[t.start[o] + i], m[i])
  <2>1. CASE o = c
    <3>1. \A i \in 1 .. q : n + i \in 1 .. L
      BY <1>4
    <3>2. \A i \in 1 .. q : SameSlot(t.table[n + i], t.vowned[i])
      BY <1>3 DEF OwnSlotsLaid, n, q
    <3> QED BY <2>1, <3>1, <3>2 DEF n, q
  <2>2. CASE o # c
    <3>1. o \in Ancestors(c)
      BY <1>1, <2>2
    <3>2. \A i \in 1 .. Len(vowned[o]) : /\ t.start[o] + i \in 1 .. n
                                         /\ SameSlot(t.table[t.start[o] + i], vowned[o][i])
      BY <1>3, <3>1 DEF InheritedLaid, n
    <3>3. \A j \in 1 .. n : j \in 1 .. L
      BY <1>4
    <3> QED BY <2>2, <3>2, <3>3
  <2> QED BY <2>1, <2>2
<1>6. InitRight(InitVTable(c), c)
  BY InitIsLaidOut
<1>7. n = Len(InitVTable(c).table)
  BY <1>3, <1>6 DEF InitRight, n
<1>8. SumFunction([x \in Related(c) |-> IF x = c THEN q ELSE Len(vowned[x])])
        = Len(InitVTable(c).table) + q
  BY <1>4, <1>6 DEF InitRight
<1> QED BY <1>2, <1>4, <1>5, <1>7, <1>8 DEF L, q

\* Whose function is in the slot of a function's originator.
LEMMA EntryRuns ==
  ASSUME prog \in Programs, NEW c, Ready(c), NEW t, LaidOut(t, c), ErrorsRight(t, c),
         t.errors = 0, NEW f \in Fn
  PROVE  /\ f \in DOMAIN t.slot /\ Above(c, f) = {} =>
              t.table[t.start[c] + t.slot[f].vidx + 1].of = c
         /\ f \in DOMAIN t.slot /\ Above(c, f) # {} =>
              \E o : First(o, c, f) /\ t.slot[f] = slot[o][f]
         /\ \A o : First(o, c, f) =>
              LET x == t.table[t.start[o] + slot[o][f].vidx + 1].of
              IN  IF f \in DOMAIN t.slot THEN x = c ELSE x \in Overriders(o, c, f)
<1>1. /\ c \in Class /\ c \notin Ancestors(c) /\ Straight(c) /\ Ancestors(c) \in SUBSET Class
      /\ Related(c) = Ancestors(c) \cup {c}
  BY ReadyIsStraight
<1>2. /\ t.table \in Seq(Sound) /\ t.vowned \in Seq(Sound) /\ t.start \in [Related(c) -> Nat]
      /\ t.slot \in Slottings
      /\ OwnSlotsLaid(t, c) /\ InheritedLaid(t, c) /\ SlotsAssigned(t, c)
  BY PartsOfLayout DEF LaidOut
<1>3. ASSUME f \in DOMAIN t.slot, Above(c, f) = {}
      PROVE  t.table[t.start[c] + t.slot[f].vidx + 1].of = c
  <2>1. ~ Inherits(c, f)
    BY <1>3, OriginIsTheFirst DEF Inherits
  <2>2. t.slot[f].vidx < Len(t.vowned)
    BY <1>2, <1>3, <2>1 DEF SlotsAssigned
  <2> DEFINE v == t.slot[f].vidx
             n == t.start[c]
             q == Len(t.vowned)
  <2>3. v \in Nat /\ n \in Nat /\ q \in Nat
    <3>1. v \in Nat
      BY <1>2, <1>3 DEF Slottings, SlotIds
    <3>2. n \in Nat /\ q \in Nat
      BY <1>1, <1>2
    <3> QED BY <3>1, <3>2
  <2>4. \A i \in 1 .. q : t.table[n + i].of = c
    BY <1>2 DEF OwnSlotsLaid
  <2> HIDE DEF v, n, q
  <2>5. v + 1 \in 1 .. q /\ n + (v + 1) = n + v + 1
    BY <2>2, <2>3 DEF v, q
  <2>6. t.table[n + (v + 1)].of = c
    BY <2>4, <2>5
  <2> QED BY <2>5, <2>6 DEF v, n
<1>4. ASSUME f \in DOMAIN t.slot, Above(c, f) # {}
      PROVE  Inherits(c, f) /\ First(OriginOf(c, f), c, f)
  <2>1. FindOriginating(c, f).errors = 0
    BY <1>4, OriginIsTheFirst DEF ErrorsRight
  <2> QED BY <1>4, <2>1, OriginIsTheFirst
<1>5. ASSUME f \in DOMAIN t.slot, Above(c, f) # {}
      PROVE  \E o : First(o, c, f) /\ t.slot[f] = slot[o][f]
  BY <1>2, <1>4, <1>5 DEF SlotsAssigned
<1>6. ASSUME NEW o, First(o, c, f)
      PROVE  LET x == t.table[t.start[o] + slot[o][f].vidx + 1].of
             IN  IF f \in DOMAIN t.slot THEN x = c ELSE x \in Overriders(o, c, f)
  <2> DEFINE s == slot[o][f]
             v == s.vidx
             d == vowned[o][v + 1]
             x == t.table[t.start[o] + v + 1].of
  <2>1. o \in Ancestors(c) /\ o \in Class /\ f \in virtual[o] /\ Above(o, f) = {}
    <3>1. o \in Ancestors(c) /\ f \in virtual[o] /\ \A y \in Above(c, f) : y \notin Ancestors(o)
      BY <1>6 DEF First, Above
    <3>2. Ancestors(o) \subseteq Ancestors(c)
      BY <1>1, <3>1, AncestorsInherit
    <3> QED BY <1>1, <3>1, <3>2 DEF Above
  <2>2. s \in SlotIds /\ s.orig = o /\ v < Len(vowned[o]) /\ d.fn = f
    <3>1. SlotOf(o, f)
      BY <2>1 DEF Ready, Fits
    <3>2. \A y \in Ancestors(o) : f \notin virtual[y]
      BY <2>1 DEF Above
    <3>3. s \in SlotIds /\ s.orig = o /\ s.vidx < Len(vowned[s.orig])
          /\ vowned[s.orig][s.vidx + 1].fn = f
      BY <3>1, <3>2 DEF SlotOf
    <3> HIDE DEF s
    <3> QED BY <3>3
  <2>3. v \in Nat /\ s = [orig |-> o, vidx |-> v]
    <3> HIDE DEF s
    <3> QED BY <2>2 DEF SlotIds
  <2>4. vowned[o] \in Seq(Sound) /\ Len(vowned[o]) \in Nat /\ t.start[o] \in Nat
    <3>1. OwnsSlots(o)
      BY <2>1 DEF Ready, Fits
    <3>2. o \in Related(c)
      BY <1>1, <2>1
    <3> QED BY <1>2, <3>1, <3>2 DEF OwnsSlots
  <2> HIDE DEF s, v
  <2>5. /\ v + 1 \in 1 .. Len(vowned[o]) /\ (v + 1) - 1 = v
        /\ t.start[o] + (v + 1) = t.start[o] + v + 1
    BY <2>2, <2>3, <2>4
  <2>6. d \in Sound
    BY <2>4, <2>5
  <2>7. x = IF Taken(t, c, d.fn, [orig |-> o, vidx |-> v])
            THEN c ELSE InheritedEntry(c, o, d).of
    <3>1. t.table[t.start[o] + (v + 1)].of
            = IF Taken(t, c, d.fn, [orig |-> o, vidx |-> (v + 1) - 1])
              THEN c ELSE InheritedEntry(c, o, d).of
      BY <1>2, <2>1, <2>5 DEF InheritedLaid
    <3> QED BY <2>5, <3>1
  <2> HIDE DEF d, x
  <2>8. CASE f \in DOMAIN t.slot
    <3>1. Inherits(c, f) /\ First(OriginOf(c, f), c, f)
      BY <1>4, <1>6, <2>8 DEF First
    <3>2. OriginOf(c, f) = o
      BY <1>6, <3>1 DEF First
    <3>3. Taken(t, c, d.fn, [orig |-> o, vidx |-> v])
      <4>1. slot[OriginOf(c, f)][f] = [orig |-> o, vidx |-> v]
        BY <2>3, <3>2 DEF s
      <4> QED BY <2>2, <2>8, <3>1, <4>1 DEF Taken
    <3> QED BY <2>7, <2>8, <3>3 DEF x, v, s
  <2>9. CASE f \notin DOMAIN t.slot
    <3>1. x = InheritedEntry(c, o, d).of
      BY <2>2, <2>7, <2>9 DEF Taken
    <3> DEFINE p == FindOverride(c, f)
    <3>2. MostDerivedAncestor(p, c, f) /\ p # NoClass
      BY <1>1, <1>6, OverrideIsMostDerived, OriginIsTheFirst DEF First
    <3>3. InheritedEntry(c, o, d) = IF p # NoClass /\ p # o /\ o \in Ancestors(p)
                                    THEN Entry(p, d.orig, d.vidx, d.fn) ELSE d
      BY <2>2 DEF InheritedEntry, IsClassASubclassOf
    <3> HIDE DEF p
    <3>4. NoClass \notin Class
      BY ProgramsAssumption
    <3>5. p \in Above(c, f) /\ (p = o \/ o \in Ancestors(p)) /\ p \in Class
          /\ \A y \in Above(c, f) : p \notin Ancestors(y)
      BY <1>1, <1>6, <3>2, <3>4 DEF MostDerivedAncestor, Above, First
    <3>6. p \in Overriders(o, c, f)
      BY <3>5 DEF Overriders
    <3>7. x = p
      <4>1. CASE p = o
        <5>1. OwnsSlots(o)
          BY <2>1 DEF Ready, Fits
        <5>2. d.of = o
          BY <2>5, <5>1 DEF OwnsSlots, d
        <5> QED BY <3>1, <3>3, <4>1, <5>2
      <4>2. CASE p # o
        <5>1. InheritedEntry(c, o, d) = Entry(p, d.orig, d.vidx, d.fn)
          BY <3>2, <3>3, <3>5, <4>2
        <5>2. Entry(p, d.orig, d.vidx, d.fn).of = p
          BY DEF Entry
        <5> QED BY <3>1, <5>1, <5>2
      <4> QED BY <4>1, <4>2
    <3> QED BY <2>9, <3>6, <3>7 DEF x, v, s
  <2> QED BY <2>8, <2>9
<1> QED BY <1>3, <1>5, <1>6

-----------------------------------------------------------------------------
\* What holds of a class that has its table.
Table(c) ==
  /\ maxidx[c] = Len(vtable[c]) /\ vtable[c] \in Seq(Sound) /\ start[c] \in [Related(c) -> Nat]
  /\ \A o \in Related(c) : \A i \in 1 .. Len(vowned[o]) :
       /\ start[c][o] + i \in 1 .. Len(vtable[c])
       /\ SameSlot(vtable[c][start[c][o] + i], vowned[o][i])
  /\ maxidx[c] = SumFunction([o \in Related(c) |-> Len(vowned[o])])

\* Of a function that c has as a virtual one the slot is the one of the first
\* ancestor that has it, and c's own function is in it; of one that it has not,
\* a most derived one.
Runs(c) ==
  \A f \in Fn :
    /\ f \in virtual[c] /\ Above(c, f) = {} =>
         vtable[c][start[c][c] + slot[c][f].vidx + 1].of = c
    /\ f \in virtual[c] /\ Above(c, f) # {} =>
         \E o : First(o, c, f) /\ slot[c][f] = slot[o][f]
    /\ \A o : First(o, c, f) =>
         LET x == vtable[c][start[c][o] + slot[o][f].vidx + 1].of
         IN  IF f \in virtual[c] THEN x = c ELSE x \in Overriders(o, c, f)

DeclaredVirtual(c) == {f \in Fn : \E i \in Declared(c, f) : prog.decls[c][i].kind # "plain"}

\* The tables of class x are left alone.
Same(x) ==
  /\ maxidx'[x] = maxidx[x] /\ vtable'[x] = vtable[x] /\ vowned'[x] = vowned[x]
  /\ start'[x] = start[x] /\ slot'[x] = slot[x] /\ virtual'[x] = virtual[x]

\* A walk depends on the program alone.
LEMMA SameWalk ==
  ASSUME prog' = prog, NEW c, NEW bf
  PROVE  Walk(c, bf)' = Walk(c, bf)
BY DEF Walk, WalkOn, bases

\* So do the ancestors.
LEMMA SameProgram ==
  ASSUME prog' = prog
  PROVE  /\ Sound' = Sound /\ bases' = bases
         /\ \A c : Ancestors(c)' = Ancestors(c) /\ Related(c)' = Related(c)
<1>1. Sound' = Sound /\ bases' = bases
  BY DEF Sound, Slots, IsPure, Declared, bases
<1>2. ASSUME NEW c PROVE Ancestors(c)' = Ancestors(c)
  <2>1. Walk(c, FALSE)' = Walk(c, FALSE)
    BY SameWalk
  <2> QED BY <2>1, Zenon DEF Ancestors
<1>3. ASSUME NEW c PROVE Related(c)' = Related(c)
  BY <1>2 DEF Related
<1> QED BY <1>1, <1>2, <1>3

\* What is declared above a class depends on its ancestors' tables alone.
LEMMA SameAbove ==
  ASSUME prog' = prog, NEW c, \A x \in Ancestors(c) : Same(x), NEW f
  PROVE  /\ Above(c, f)' = Above(c, f)
         /\ \A o : First(o, c, f)' <=> First(o, c, f)
         /\ \A o : Overriders(o, c, f)' = Overriders(o, c, f)
<1>1. \A x : Ancestors(x)' = Ancestors(x)
  BY SameProgram
<1>2. Above(c, f)' = Above(c, f)
  BY <1>1 DEF Above, Same
<1>3. ASSUME NEW o PROVE First(o, c, f)' <=> First(o, c, f)
  BY <1>1, <1>2 DEF First
<1>4. ASSUME NEW o PROVE Overriders(o, c, f)' = Overriders(o, c, f)
  BY <1>1, <1>2 DEF Overriders
<1> QED BY <1>2, <1>3, <1>4

\* What holds of a class goes on holding while its tables, and those of its
\* ancestors, are left alone.
LEMMA FitsStays ==
  ASSUME prog \in Programs, prog' = prog, NEW c \in Class, \A x \in Related(c) : Same(x), Fits(c)
  PROVE  Fits(c)'
<1>1. /\ Sound' = Sound /\ Ancestors(c)' = Ancestors(c) /\ Related(c)' = Related(c)
      /\ Related(c) = Ancestors(c) \cup {c}
  BY SameProgram DEF Related
<1>2. /\ c \notin Ancestors(c) /\ OwnsSlots(c)
      /\ virtual[c] \in SUBSET Fn /\ slot[c] \in Slottings /\ DOMAIN slot[c] = virtual[c]
      /\ \A f \in virtual[c] : SlotOf(c, f)
  BY DEF Fits
<1>3. /\ vowned'[c] = vowned[c] /\ slot'[c] = slot[c] /\ virtual'[c] = virtual[c]
      /\ \A x \in Ancestors(c) : virtual'[x] = virtual[x]
      /\ \A x \in Related(c) : vowned'[x] = vowned[x]
  BY <1>1 DEF Same
<1>4. OwnsSlots(c)'
  BY <1>1, <1>2, <1>3 DEF OwnsSlots
<1>5. ASSUME NEW f \in virtual[c] PROVE SlotOf(c, f)'
  <2>1. SlotOf(c, f)
    BY <1>2
  <2> DEFINE s == slot[c][f]
  <2>2. s = slot'[c][f]
    BY <1>3
  <2>3. /\ s \in SlotIds /\ s.orig \in Related(c)
        /\ s.vidx < Len(vowned[s.orig]) /\ vowned[s.orig][s.vidx + 1].fn = f
        /\ (\A y \in Ancestors(c) : f \notin virtual[y]) => s.orig = c
    BY <2>1 DEF SlotOf
  <2> HIDE DEF s
  <2>4. /\ s \in SlotIds /\ s.orig \in Related(c)'
        /\ s.vidx < Len(vowned'[s.orig]) /\ vowned'[s.orig][s.vidx + 1].fn = f
        /\ (\A y \in Ancestors(c)' : f \notin virtual'[y]) => s.orig = c
    BY <1>1, <1>3, <2>3
  <2> QED BY <2>2, <2>4 DEF SlotOf
<1>6. \A f \in virtual'[c] : SlotOf(c, f)'
  BY <1>3, <1>5
<1> QED BY <1>1, <1>2, <1>3, <1>4, <1>6 DEF Fits

\* The table of a class stays right while it and its ancestors stay.
LEMMA TableStays ==
  ASSUME prog \in Programs, prog' = prog, NEW c \in Class, \A x \in Related(c) : Same(x), Table(c)
  PROVE  Table(c)'
<1>1. /\ Sound' = Sound /\ Related(c)' = Related(c) /\ c \in Related(c)
  BY SameProgram DEF Related
<1>2. /\ maxidx'[c] = maxidx[c] /\ vtable'[c] = vtable[c] /\ start'[c] = start[c]
      /\ \A x \in Related(c) : vowned'[x] = vowned[x]
  BY <1>1 DEF Same
<1>3. [o \in Related(c)' |-> Len(vowned'[o])] = [o \in Related(c) |-> Len(vowned[o])]
  BY <1>1, <1>2
<1>4. maxidx'[c] = SumFunction([o \in Related(c)' |-> Len(vowned'[o])])
  BY <1>2, <1>3 DEF Table
<1>5. /\ maxidx'[c] = Len(vtable'[c]) /\ vtable'[c] \in Seq(Sound') /\ start'[c] \in [Related(c)' -> Nat]
  BY <1>1, <1>2 DEF Table
<1>6. \A o \in Related(c)' : \A i \in 1 .. Len(vowned'[o]) :
        /\ start'[c][o] + i \in 1 .. Len(vtable'[c])
        /\ SameSlot(vtable'[c][start'[c][o] + i], vowned'[o][i])
  BY <1>1, <1>2 DEF Table
<1> QED BY <1>4, <1>5, <1>6 DEF Table, SameSlot

\* So does what its calls run.
LEMMA RunsStays ==
  ASSUME prog \in Programs, prog' = prog, NEW c \in Class, \A x \in Related(c) : Same(x), Runs(c)
  PROVE  Runs(c)'
<1>1. Related(c) = Ancestors(c) \cup {c} /\ \A x \in Ancestors(c) : Same(x)
  BY DEF Related
<1>2. /\ vtable'[c] = vtable[c] /\ start'[c] = start[c] /\ slot'[c] = slot[c] /\ virtual'[c] = virtual[c]
      /\ \A x \in Ancestors(c) : slot'[x] = slot[x]
  BY <1>1 DEF Same
<1>3. ASSUME NEW f \in Fn
      PROVE  /\ f \in virtual'[c] /\ Above(c, f)' = {} =>
                  vtable'[c][start'[c][c] + slot'[c][f].vidx + 1].of = c
             /\ f \in virtual'[c] /\ Above(c, f)' # {} =>
                  \E o : First(o, c, f)' /\ slot'[c][f] = slot'[o][f]
             /\ \A o : First(o, c, f)' =>
                  LET x == vtable'[c][start'[c][o] + slot'[o][f].vidx + 1].of
                  IN  IF f \in virtual'[c] THEN x = c ELSE x \in Overriders(o, c, f)'
  <2>1. /\ Above(c, f)' = Above(c, f)
        /\ \A o : First(o, c, f)' <=> First(o, c, f)
        /\ \A o : Overriders(o, c, f)' = Overriders(o, c, f)
    BY <1>1, SameAbove
  <2>2. /\ f \in virtual[c] /\ Above(c, f) = {} =>
             vtable[c][start[c][c] + slot[c][f].vidx + 1].of = c
        /\ f \in virtual[c] /\ Above(c, f) # {} =>
             \E o : First(o, c, f) /\ slot[c][f] = slot[o][f]
        /\ \A o : First(o, c, f) =>
             LET x == vtable[c][start[c][o] + slot[o][f].vidx + 1].of
             IN  IF f \in virtual[c] THEN x = c ELSE x \in Overriders(o, c, f)
    BY DEF Runs
  <2>3. \A o : First(o, c, f) => slot'[o] = slot[o]
    BY <1>2 DEF First, Above
  <2>4. f \in virtual'[c] /\ Above(c, f)' = {} =>
             vtable'[c][start'[c][c] + slot'[c][f].vidx + 1].of = c
    BY <1>2, <2>1, <2>2
  <2>5. f \in virtual'[c] /\ Above(c, f)' # {} =>
             \E o : First(o, c, f)' /\ slot'[c][f] = slot'[o][f]
    BY <1>2, <2>1, <2>2, <2>3
  <2>6. ASSUME NEW o, First(o, c, f)'
        PROVE  LET x == vtable'[c][start'[c][o] + slot'[o][f].vidx + 1].of
               IN  IF f \in virtual'[c] THEN x = c ELSE x \in Overriders(o, c, f)'
    <3> DEFINE x == vtable[c][start[c][o] + slot[o][f].vidx + 1].of
    <3>1. First(o, c, f)
      BY <2>1, <2>6
    <3>2. vtable'[c][start'[c][o] + slot'[o][f].vidx + 1].of = x
      BY <1>2, <2>3, <3>1
    <3>3. IF f \in virtual[c] THEN x = c ELSE x \in Overriders(o, c, f)
      BY <2>2, <3>1
    <3> HIDE DEF x
    <3> QED BY <1>2, <2>1, <3>2, <3>3
  <2> QED BY <2>4, <2>5, <2>6
<1> QED BY <1>3 DEF Runs

-----------------------------------------------------------------------------
\* The inductive invariant: the state's type, what holds of each class with
\* and without its table, and what the loop and the check know of them.
StateType ==
  /\ prog \in Programs /\ at \in Nat \ {0} /\ infcounter2 \in Nat /\ errors \in Nat
  /\ maxidx \in [Class -> Nat \cup {Unknown}]
  /\ vtable = [c \in Class |-> vtable[c]] /\ vowned = [c \in Class |-> vowned[c]]
  /\ start = [c \in Class |-> start[c]] /\ slot = [c \in Class |-> slot[c]]
  /\ virtual = [c \in Class |-> virtual[c]]

TablesRight ==
  \A c \in Class :
    /\ Built(c) => Fits(c) /\ Table(c) /\ (errors = 0 => Runs(c))
    /\ ~ Built(c) => virtual[c] = DeclaredVirtual(c)

AllBuilt == \A c \in prog.complete : Built(c)

LoopRight ==
  /\ phase \in {"looping", "checking", "done"}
  /\ phase = "looping" /\ aok =>
       \A i \in 1 .. Len(prog.order) : i < at /\ prog.order[i] \in prog.complete
                                         => Built(prog.order[i])
  /\ phase \in {"checking", "done"} /\ errors = 0 => AllBuilt
  /\ phase = "done" /\ errors = 0 => \A c \in prog.concrete : ~ IsAbstract(c)

IInv == StateType /\ BasesBuiltFirst /\ TablesRight /\ LoopRight

\* A class whose bases have their tables has no ancestor without one.
LEMMA AncestorsBuilt ==
  ASSUME StateType, BasesBuiltFirst, NEW c \in Class, Built(c) \/ BasesNotReady(c) = {}
  PROVE  \A x \in Ancestors(c) : Built(x)
<1> DEFINE S == {x \in Class : Built(x)}
<1>1. prog \in Programs /\ maxidx \in [Class -> Nat \cup {Unknown}]
  BY DEF StateType
<1>2. \A x \in Class : bases[x] \in Seq(Class)
  BY <1>1, ProgramTypes
<1>3. ASSUME NEW x \in Class, \A i \in DOMAIN bases[x] : Built(bases[x][i])
      PROVE  ToSet(bases[x]) \subseteq S
  BY <1>2, <1>3 DEF ToSet
<1>4. Inheriting(S)
  <2>1. ASSUME NEW x \in S PROVE ToSet(bases[x]) \subseteq S
    <3>1. \A i \in DOMAIN bases[x] : Built(bases[x][i])
      BY DEF BasesBuiltFirst, Built
    <3> HIDE DEF S
    <3> QED BY <1>3, <3>1 DEF S
  <2> QED BY <2>1 DEF Inheriting
<1>5. ToSet(bases[c]) \subseteq S
  <2>1. CASE Built(c)
    <3>1. \A i \in DOMAIN bases[c] : Built(bases[c][i])
      BY <2>1 DEF BasesBuiltFirst, Built
    <3> QED BY <1>3, <3>1
  <2>2. CASE BasesNotReady(c) = {}
    <3>1. ASSUME NEW i \in DOMAIN bases[c] PROVE Built(bases[c][i])
      <4>1. bases[c][i] \in Class /\ ~ (maxidx[bases[c][i]] < 0)
        BY <1>2, <2>2 DEF BasesNotReady
      <4> QED BY <1>1, <4>1 DEF Built, Unknown
    <3> QED BY <1>3, <3>1
  <2> QED BY <2>1, <2>2
<1>6. Ancestors(c) \subseteq S
  <2> HIDE DEF S
  <2>1. S \in SUBSET Class
    BY DEF S
  <2> QED BY <1>1, <1>4, <1>5, <2>1, AncestorsAre
<1> QED BY <1>6

\* A class whose bases are built is ready for its table.
LEMMA ReadyToBuild ==
  ASSUME StateType, BasesBuiltFirst, TablesRight, NEW c \in Class, ~ Built(c), BasesNotReady(c) = {}
  PROVE  Ready(c) /\ prog \in Programs /\ \A x \in Ancestors(c) : x # c /\ Built(x)
<1>1. \A x \in Ancestors(c) : Built(x)
  BY AncestorsBuilt
<1>2. prog \in Programs
  BY DEF StateType
<1>3. Ancestors(c) \in SUBSET Class
  BY <1>2, AncestorsAre
<1>4. virtual[c] \in SUBSET Fn
  BY DEF TablesRight, DeclaredVirtual
<1>5. \A x \in Ancestors(c) : Fits(x)
  BY <1>1, <1>3 DEF TablesRight
<1> QED BY <1>1, <1>2, <1>4, <1>5 DEF Ready

\* The step that builds the table of c, as its parts.
Builds(c, t) ==
  /\ maxidx'[c] = Len(InitVTable(c).table) + Len(t.vowned)
  /\ vtable'[c] = t.table /\ vowned'[c] = t.vowned /\ start'[c] = t.start
  /\ virtual'[c] = t.virtual /\ slot'[c] = t.slot
  /\ errors' = errors + t.errors /\ prog' = prog
  /\ \A x \in Class : x # c => Same(x)

\* The step that builds a table builds the one made of the declarations.
LEMMA CalcBuilds ==
  ASSUME StateType, NEW c \in Class, CalcMaxIndexOfVirtualFunctions(c)
  PROVE  /\ Builds(c, CalcVTable(c))
         /\ phase' = IF CalcVTable(c).asserts THEN phase ELSE "aborted"
<1> DEFINE t == CalcVTable(c)
           m == Len(InitVTable(c).table) + Len(t.vowned)
<1>1. /\ maxidx' = [maxidx EXCEPT ![c] = m]
      /\ vtable' = [vtable EXCEPT ![c] = t.table] /\ vowned' = [vowned EXCEPT ![c] = t.vowned]
      /\ start' = [start EXCEPT ![c] = t.start] /\ virtual' = [virtual EXCEPT ![c] = t.virtual]
      /\ slot' = [slot EXCEPT ![c] = t.slot] /\ errors' = errors + t.errors
      /\ phase' = (IF t.asserts THEN phase ELSE "aborted") /\ prog' = prog
  BY Zenon DEF CalcMaxIndexOfVirtualFunctions
<1> HIDE DEF t, m
<1>2. maxidx'[c] = m /\ \A x \in Class : x # c => maxidx'[x] = maxidx[x]
  BY <1>1 DEF StateType
<1>3. vtable'[c] = t.table /\ \A x \in Class : x # c => vtable'[x] = vtable[x]
  BY <1>1 DEF StateType
<1>4. vowned'[c] = t.vowned /\ \A x \in Class : x # c => vowned'[x] = vowned[x]
  BY <1>1 DEF StateType
<1>5. start'[c] = t.start /\ \A x \in Class : x # c => start'[x] = start[x]
  BY <1>1 DEF StateType
<1>6. virtual'[c] = t.virtual /\ \A x \in Class : x # c => virtual'[x] = virtual[x]
  BY <1>1 DEF StateType
<1>7. slot'[c] = t.slot /\ \A x \in Class : x # c => slot'[x] = slot[x]
  BY <1>1 DEF StateType
<1>8. \A x \in Class : x # c => Same(x)
  BY <1>2, <1>3, <1>4, <1>5, <1>6, <1>7 DEF Same
<1>9. Builds(c, t)
  BY <1>1, <1>2, <1>3, <1>4, <1>5, <1>6, <1>7, <1>8 DEF Builds, m
<1> QED BY <1>1, <1>9 DEF t

\* Its virtual functions are then those that have a slot.
LEMMA VirtualIsSlotted ==
  ASSUME prog \in Programs, NEW c, Ready(c), virtual[c] = DeclaredVirtual(c)
  PROVE  LET t == CalcVTable(c) IN t.virtual = DOMAIN t.slot /\ DOMAIN t.slot \in SUBSET Fn
<1> DEFINE t == CalcVTable(c)
           w == prog.decls[c]
<1>1. LaidOut(t, c) /\ DOMAIN t.slot = VirtualOnes(c, Len(w))
  BY CalcIsRight
<1> HIDE DEF t
<1>2. w \in Seq([fn : Fn, kind : Kinds])
  BY ProgramTypes DEF Ready
<1>3. DOMAIN w = 1 .. Len(w)
  <2> HIDE DEF w
  <2> QED BY <1>2
<1>4. DeclaredVirtual(c) \subseteq VirtualOnes(c, Len(w))
  BY <1>3 DEF DeclaredVirtual, VirtualOnes, Declared, IsVirtual
<1>5. t.virtual = virtual[c] \cup DOMAIN t.slot
  BY <1>1 DEF LaidOut
<1>6. VirtualOnes(c, Len(w)) \in SUBSET Fn
  BY DEF VirtualOnes
<1> QED BY <1>1, <1>4, <1>5, <1>6 DEF t

\* The table that is built fits its class.
LEMMA BuiltFits ==
  ASSUME prog \in Programs, NEW c, Ready(c), virtual[c] = DeclaredVirtual(c),
         Builds(c, CalcVTable(c))
  PROVE  Fits(c)'
<1> DEFINE t == CalcVTable(c)
<1>1. LaidOut(t, c) /\ t.virtual = DOMAIN t.slot /\ DOMAIN t.slot \in SUBSET Fn
  BY CalcIsRight, VirtualIsSlotted
<1>2. /\ vowned'[c] = t.vowned /\ virtual'[c] = t.virtual /\ slot'[c] = t.slot
      /\ prog' = prog /\ \A x \in Class : x # c => Same(x)
  BY DEF Builds
<1> HIDE DEF t
<1>3. /\ c \in Class /\ c \notin Ancestors(c) /\ Ancestors(c) \in SUBSET Class
      /\ Related(c) = Ancestors(c) \cup {c}
      /\ \A x \in Ancestors(c) : x # c
  BY ReadyIsStraight
<1>4. /\ Sound' = Sound /\ Ancestors(c)' = Ancestors(c) /\ Related(c)' = Related(c)
  BY <1>2, SameProgram
<1>5. t.vowned \in Seq(Sound) /\ t.slot \in Slottings /\ OwnSlotsLaid(t, c)
  BY <1>1, PartsOfLayout DEF LaidOut
<1>6. OwnsSlots(c)'
  <2>1. \A i \in 1 .. Len(t.vowned) :
          t.vowned[i].of = c /\ t.vowned[i].orig = c /\ t.vowned[i].vidx = i - 1
    BY <1>5 DEF OwnSlotsLaid
  <2> QED BY <1>2, <1>4, <1>5, <2>1 DEF OwnsSlots
<1>7. ASSUME NEW f \in virtual'[c] PROVE SlotOf(c, f)'
  <2> DEFINE s == t.slot[f]
             m == IF s.orig = c THEN t.vowned ELSE vowned[s.orig]
  <2>1. f \in DOMAIN t.slot
    BY <1>1, <1>2
  <2>2. /\ s \in SlotIds /\ s.orig \in Related(c)
        /\ s.vidx < Len(m) /\ m[s.vidx + 1].fn = f
        /\ Above(c, f) = {} => s.orig = c
    BY <1>1, <2>1, SlotsFit
  <2> HIDE DEF s
  <2>3. vowned'[s.orig] = m
    BY <1>2, <1>3, <2>2 DEF Same
  <2> HIDE DEF m
  <2>4. (\A y \in Ancestors(c) : f \notin virtual'[y]) => s.orig = c
    <3>1. \A y \in Ancestors(c) : virtual'[y] = virtual[y]
      BY <1>2, <1>3 DEF Same
    <3> QED BY <2>2, <3>1 DEF Above
  <2>5. slot'[c][f] = s
    BY <1>2 DEF s
  <2> QED BY <1>4, <2>2, <2>3, <2>4, <2>5 DEF SlotOf
<1>8. virtual'[c] \in SUBSET Fn /\ slot'[c] \in Slottings /\ DOMAIN slot'[c] = virtual'[c]
  BY <1>1, <1>2, <1>5
<1> QED BY <1>3, <1>4, <1>6, <1>7, <1>8 DEF Fits

\* Its slots are the ancestors' and the class's own.
LEMMA BuiltTable ==
  ASSUME prog \in Programs, NEW c, Ready(c), Builds(c, CalcVTable(c))
  PROVE  Table(c)'
<1> DEFINE t == CalcVTable(c)
<1>1. LaidOut(t, c)
  BY CalcIsRight
<1>2. /\ maxidx'[c] = Len(InitVTable(c).table) + Len(t.vowned)
      /\ vtable'[c] = t.table /\ vowned'[c] = t.vowned /\ start'[c] = t.start
      /\ prog' = prog /\ \A x \in Class : x # c => Same(x)
  BY DEF Builds
<1> HIDE DEF t
<1>3. /\ c \in Class /\ Ancestors(c) \in SUBSET Class
      /\ Related(c) = Ancestors(c) \cup {c}
      /\ \A x \in Ancestors(c) : x # c
  BY ReadyIsStraight
<1>4. /\ Sound' = Sound /\ Related(c)' = Related(c)
  BY <1>2, SameProgram
<1>5. /\ t.table \in Seq(Sound) /\ t.vowned \in Seq(Sound) /\ t.start \in [Related(c) -> Nat]
      /\ \A o \in Related(c) :
           LET m == IF o = c THEN t.vowned ELSE vowned[o]
           IN  \A i \in 1 .. Len(m) : /\ t.start[o] + i \in 1 .. Len(t.table)
                                      /\ SameSlot(t.table[t.start[o] + i], m[i])
      /\ Len(t.table) = Len(InitVTable(c).table) + Len(t.vowned)
      /\ Len(t.table) = SumFunction([x \in Related(c) |-> IF x = c THEN Len(t.vowned)
                                                                   ELSE Len(vowned[x])])
  BY <1>1, TableFits
<1>6. \A o \in Related(c) : vowned'[o] = IF o = c THEN t.vowned ELSE vowned[o]
  BY <1>2, <1>3 DEF Same
<1>7. maxidx'[c] = SumFunction([o \in Related(c)' |-> Len(vowned'[o])])
  <2>1. [o \in Related(c)' |-> Len(vowned'[o])]
          = [x \in Related(c) |-> IF x = c THEN Len(t.vowned) ELSE Len(vowned[x])]
    BY <1>4, <1>6
  <2> QED BY <1>2, <1>5, <2>1
<1>8. \A o \in Related(c)' : \A i \in 1 .. Len(vowned'[o]) :
        /\ start'[c][o] + i \in 1 .. Len(vtable'[c])
        /\ SameSlot(vtable'[c][start'[c][o] + i], vowned'[o][i])
  <2> SUFFICES ASSUME NEW o \in Related(c), NEW i \in 1 .. Len(vowned'[o])
               PROVE  /\ t.start[o] + i \in 1 .. Len(t.table)
                      /\ SameSlot(t.table[t.start[o] + i], vowned'[o][i])
    BY <1>2, <1>4
  <2> QED BY <1>5, <1>6
<1>9. /\ maxidx'[c] = Len(vtable'[c]) /\ vtable'[c] \in Seq(Sound') /\ start'[c] \in [Related(c)' -> Nat]
  BY <1>2, <1>4, <1>5
<1> QED BY <1>7, <1>8, <1>9 DEF Table, SameSlot

\* Its entries are most derived overrides.
LEMMA BuiltRuns ==
  ASSUME prog \in Programs, NEW c, Ready(c), virtual[c] = DeclaredVirtual(c),
         Builds(c, CalcVTable(c)), CalcVTable(c).errors = 0
  PROVE  Runs(c)'
<1> DEFINE t == CalcVTable(c)
<1>1. LaidOut(t, c) /\ ErrorsRight(t, c) /\ t.virtual = DOMAIN t.slot
  BY CalcIsRight, VirtualIsSlotted
<1>2. /\ vtable'[c] = t.table /\ start'[c] = t.start /\ virtual'[c] = t.virtual /\ slot'[c] = t.slot
      /\ prog' = prog /\ \A x \in Class : x # c => Same(x)
  BY DEF Builds
<1>10. t.errors = 0
  OBVIOUS
<1> HIDE DEF t
<1>3. \A x \in Ancestors(c) : Same(x) /\ slot'[x] = slot[x]
  <2>1. Ancestors(c) \in SUBSET Class /\ \A x \in Ancestors(c) : x # c
    BY ReadyIsStraight
  <2> QED BY <1>2, <2>1 DEF Same
<1>4. ASSUME NEW f \in Fn
      PROVE  /\ f \in virtual'[c] /\ Above(c, f)' = {} =>
                  vtable'[c][start'[c][c] + slot'[c][f].vidx + 1].of = c
             /\ f \in virtual'[c] /\ Above(c, f)' # {} =>
                  \E o : First(o, c, f)' /\ slot'[c][f] = slot'[o][f]
             /\ \A o : First(o, c, f)' =>
                  LET x == vtable'[c][start'[c][o] + slot'[o][f].vidx + 1].of
                  IN  IF f \in virtual'[c] THEN x = c ELSE x \in Overriders(o, c, f)'
  <2>1. /\ Above(c, f)' = Above(c, f)
        /\ \A o : First(o, c, f)' <=> First(o, c, f)
        /\ \A o : Overriders(o, c, f)' = Overriders(o, c, f)
    BY <1>2, <1>3, SameAbove
  <2>2. /\ f \in DOMAIN t.slot /\ Above(c, f) = {} =>
              t.table[t.start[c] + t.slot[f].vidx + 1].of = c
        /\ f \in DOMAIN t.slot /\ Above(c, f) # {} =>
              \E o : First(o, c, f) /\ t.slot[f] = slot[o][f]
        /\ \A o : First(o, c, f) =>
              LET x == t.table[t.start[o] + slot[o][f].vidx + 1].of
              IN  IF f \in DOMAIN t.slot THEN x = c ELSE x \in Overriders(o, c, f)
    BY <1>1, <1>10, EntryRuns
  <2>3. \A o : First(o, c, f) => slot'[o] = slot[o]
    BY <1>3 DEF First, Above
  <2>4. virtual'[c] = DOMAIN t.slot
    BY <1>1, <1>2
  <2>5. f \in virtual'[c] /\ Above(c, f)' = {} =>
             vtable'[c][start'[c][c] + slot'[c][f].vidx + 1].of = c
    BY <1>2, <2>1, <2>2, <2>4
  <2>6. f \in virtual'[c] /\ Above(c, f)' # {} =>
             \E o : First(o, c, f)' /\ slot'[c][f] = slot'[o][f]
    BY <1>2, <2>1, <2>2, <2>3, <2>4
  <2>7. ASSUME NEW o, First(o, c, f)'
        PROVE  LET x == vtable'[c][start'[c][o] + slot'[o][f].vidx + 1].of
               IN  IF f \in virtual'[c] THEN x = c ELSE x \in Overriders(o, c, f)'
    <3> DEFINE x == t.table[t.start[o] + slot[o][f].vidx + 1].of
    <3>1. First(o, c, f)
      BY <2>1, <2>7
    <3>2. vtable'[c][start'[c][o] + slot'[o][f].vidx + 1].of = x
      BY <1>2, <2>3, <3>1
    <3>3. IF f \in DOMAIN t.slot THEN x = c ELSE x \in Overriders(o, c, f)
      BY <2>2, <3>1
    <3> HIDE DEF x
    <3> QED BY <2>1, <2>4, <3>2, <3>3
  <2> QED BY <2>5, <2>6, <2>7
<1> QED BY <1>4 DEF Runs

-----------------------------------------------------------------------------
\* The steps: all but one leave the tables alone, and none loses an error.
LEMMA StepTables ==
  ASSUME [Next]_vars
  PROVE  /\ prog' = prog
         /\ \/ \E c \in Class : CalcMaxIndexOfVirtualFunctions(c)
            \/ UNCHANGED tables
<1>1. CASE UNCHANGED vars
  BY <1>1 DEF vars
<1>2. ASSUME NEW c \in Class, SkipClass(c) PROVE prog' = prog /\ UNCHANGED tables
  BY <1>2 DEF SkipClass
<1>3. ASSUME NEW c \in Class, WaitForBases(c) PROVE prog' = prog /\ UNCHANGED tables
  BY <1>3 DEF WaitForBases
<1>4. ASSUME NEW c \in Class, CalcMaxIndexOfVirtualFunctions(c) PROVE prog' = prog
  BY <1>4, Zenon DEF CalcMaxIndexOfVirtualFunctions
<1>5. CASE EndRound
  BY <1>5 DEF EndRound
<1>6. CASE CheckAbstractInstanceErrors
  BY <1>6 DEF CheckAbstractInstanceErrors
<1>7. CASE Done
  BY <1>7 DEF Done, vars
<1> QED BY <1>1, <1>2, <1>3, <1>4, <1>5, <1>6, <1>7 DEF Next

\* What the step that builds a table does, in a state of the loop.
LEMMA CalcStep ==
  ASSUME StateType, BasesBuiltFirst, TablesRight, NEW c \in Class,
         CalcMaxIndexOfVirtualFunctions(c)
  PROVE  LET t == CalcVTable(c)
         IN  /\ Ready(c) /\ prog \in Programs /\ ~ Built(c) /\ BasesNotReady(c) = {}
             /\ virtual[c] = DeclaredVirtual(c)
             /\ Builds(c, t) /\ t.errors \in Nat /\ phase' = phase
             /\ maxidx'[c] \in Nat /\ Built(c)'
<1> DEFINE t == CalcVTable(c)
<1>1. ~ Built(c) /\ BasesNotReady(c) = {}
  BY DEF CalcMaxIndexOfVirtualFunctions, Built
<1>2. Ready(c) /\ prog \in Programs
  BY <1>1, ReadyToBuild
<1>3. virtual[c] = DeclaredVirtual(c)
  BY <1>1 DEF TablesRight
<1>4. Builds(c, t) /\ phase' = IF t.asserts THEN phase ELSE "aborted"
  BY CalcBuilds
<1>5. LaidOut(t, c)
  BY <1>2, CalcIsRight
<1> HIDE DEF t
<1>6. t.asserts = TRUE /\ t.errors \in Nat /\ t.vowned \in Seq(Sound)
  BY <1>5, PartsOfLayout DEF LaidOut
<1>7. InitVTable(c).table \in Seq(Sound)
  BY <1>2, InitIsLaidOut DEF InitRight
<1>8. maxidx'[c] \in Nat
  <2> DEFINE p == InitVTable(c).table
             q == t.vowned
  <2>1. p \in Seq(Sound) /\ q \in Seq(Sound) /\ maxidx'[c] = Len(p) + Len(q)
    BY <1>4, <1>6, <1>7 DEF Builds
  <2> HIDE DEF p, q
  <2> QED BY <2>1
<1>9. Built(c)'
  BY <1>8 DEF Built, Unknown
<1>10. phase' = phase
  BY <1>4, <1>6
<1> QED BY <1>1, <1>2, <1>3, <1>4, <1>6, <1>8, <1>9, <1>10 DEF t

\* No step takes an error back.
LEMMA StepErrors ==
  ASSUME StateType, BasesBuiltFirst, TablesRight, [Next]_vars
  PROVE  errors' \in Nat /\ (errors' = 0 => errors = 0)
<1>0. errors \in Nat /\ prog \in Programs
  BY DEF StateType
<1>1. CASE UNCHANGED vars
  BY <1>0, <1>1 DEF vars, loop
<1>2. ASSUME NEW c \in Class, SkipClass(c) PROVE errors' = errors
  BY <1>2 DEF SkipClass
<1>3. ASSUME NEW c \in Class, WaitForBases(c) PROVE errors' \in Nat /\ errors' >= errors
  <2> DEFINE S == BasesNotReady(c)
             k == Cardinality(S)
  <2>1. IsFiniteSet(S)
    <3>1. DOMAIN bases[c] = 1 .. Len(bases[c]) /\ Len(bases[c]) \in Nat
      <4>1. bases[c] \in Seq(Class)
        BY <1>0, ProgramTypes
      <4> QED BY <4>1
    <3>2. IsFiniteSet(1 .. Len(bases[c]))
      BY <3>1, FS_Interval
    <3> QED BY <3>1, <3>2, FS_Subset DEF BasesNotReady
  <2>2. k \in Nat
    BY <2>1, FS_CardinalityType
  <2>3. errors' = IF waitMode THEN errors ELSE errors + k
    BY <1>3 DEF WaitForBases
  <2> HIDE DEF k
  <2> QED BY <1>0, <2>2, <2>3
<1>4. ASSUME NEW c \in Class, CalcMaxIndexOfVirtualFunctions(c)
      PROVE  errors' \in Nat /\ errors' >= errors
  <2> DEFINE k == CalcVTable(c).errors
  <2>1. errors' = errors + k /\ k \in Nat
    BY <1>4, CalcStep DEF Builds
  <2> HIDE DEF k
  <2> QED BY <1>0, <2>1
<1>5. CASE EndRound
  BY <1>0, <1>5 DEF EndRound
<1>6. CASE CheckAbstractInstanceErrors
  <2> DEFINE S == {c \in ToSet(prog.order) \cap prog.concrete : IsAbstract(c)}
             k == Cardinality(S)
  <2>1. IsFiniteSet(S)
    <3>1. S \subseteq Class /\ IsFiniteSet(Class)
      BY <1>0, ProgramTypes, ClassesAreFinite
    <3> QED BY <3>1, FS_Subset
  <2>2. k \in Nat
    BY <2>1, FS_CardinalityType
  <2>3. errors' = IF errors > 0 THEN errors ELSE k
    BY <1>6 DEF CheckAbstractInstanceErrors
  <2> HIDE DEF k
  <2> QED BY <1>0, <2>2, <2>3
<1>7. CASE Done
  BY <1>0, <1>7 DEF Done, vars, loop
<1>8. ASSUME errors' \in Nat, errors' >= errors PROVE errors' = 0 => errors = 0
  BY <1>0, <1>8
<1> QED BY <1>0, <1>1, <1>2, <1>3, <1>4, <1>5, <1>6, <1>7, <1>8 DEF Next

\* A visit moves the iterator on by one and belongs to the same round.
LEMMA VisitMovesOn ==
  ASSUME NEW c \in Class,
         SkipClass(c) \/ WaitForBases(c) \/ CalcMaxIndexOfVirtualFunctions(c)
  PROVE  /\ at' = at + 1 /\ infcounter2' = infcounter2
         /\ phase = "looping" /\ c = prog.order[at]
         /\ c \notin prog.complete \/ Built(c) \/ aok' = FALSE
              \/ CalcMaxIndexOfVirtualFunctions(c)
<1>1. CASE SkipClass(c)
  BY <1>1 DEF SkipClass, Visit, Built
<1>2. CASE WaitForBases(c)
  BY <1>2 DEF WaitForBases, Visit
<1>3. CASE CalcMaxIndexOfVirtualFunctions(c)
  <2>1. at' = at + 1 /\ infcounter2' = infcounter2 /\ Visit(c)
    BY <1>3, Zenon DEF CalcMaxIndexOfVirtualFunctions
  <2> QED BY <1>3, <2>1 DEF Visit
<1> QED BY <1>1, <1>2, <1>3

\* The counters stay natural numbers.
LEMMA StepCounts ==
  ASSUME at \in Nat \ {0}, infcounter2 \in Nat, [Next]_vars
  PROVE  at' \in Nat \ {0} /\ infcounter2' \in Nat
<1>1. CASE UNCHANGED vars
  BY <1>1 DEF vars, loop
<1>2. ASSUME NEW c \in Class,
             SkipClass(c) \/ WaitForBases(c) \/ CalcMaxIndexOfVirtualFunctions(c)
      PROVE  at' \in Nat \ {0} /\ infcounter2' \in Nat
  <2>1. at' = at + 1 /\ infcounter2' = infcounter2
    BY <1>2, VisitMovesOn
  <2> QED BY <2>1
<1>3. CASE EndRound
  BY <1>3 DEF EndRound
<1>4. CASE CheckAbstractInstanceErrors
  BY <1>4 DEF CheckAbstractInstanceErrors
<1>5. CASE Done
  BY <1>5 DEF Done, vars, loop
<1> QED BY <1>1, <1>2, <1>3, <1>4, <1>5 DEF Next

-----------------------------------------------------------------------------
\* The invariant holds of a program that is about to be labelled,
LEMMA InitInvariant == Init => IInv
<1> SUFFICES ASSUME Init PROVE IInv
  OBVIOUS
<1>1. StateType
  BY DEF Init, StateType
<1>2. \A c \in Class : ~ Built(c)
  BY DEF Init, Built
<1>3. BasesBuiltFirst
  BY <1>2 DEF BasesBuiltFirst
<1>4. TablesRight
  BY <1>2 DEF Init, TablesRight, DeclaredVirtual
<1>5. LoopRight
  BY DEF Init, LoopRight
<1> QED BY <1>1, <1>3, <1>4, <1>5 DEF IInv

\* each part of it is preserved by every step,
LEMMA NextType ==
  ASSUME StateType, BasesBuiltFirst, TablesRight, [Next]_vars
  PROVE  StateType'
<1>1. at' \in Nat \ {0} /\ infcounter2' \in Nat /\ errors' \in Nat /\ prog' \in Programs
  <2>1. at \in Nat \ {0} /\ infcounter2 \in Nat /\ prog \in Programs
    BY DEF StateType
  <2> QED BY <2>1, StepCounts, StepErrors, StepTables
<1>2. CASE UNCHANGED tables
  BY <1>1, <1>2 DEF StateType, tables
<1>3. ASSUME NEW c \in Class, CalcMaxIndexOfVirtualFunctions(c) PROVE StateType'
  <2> DEFINE m == Len(InitVTable(c).table) + Len(CalcVTable(c).vowned)
  <2>1. PICK t : /\ maxidx' = [maxidx EXCEPT ![c] = m]
                 /\ vtable' = [vtable EXCEPT ![c] = t.table]
                 /\ vowned' = [vowned EXCEPT ![c] = t.vowned]
                 /\ start' = [start EXCEPT ![c] = t.start]
                 /\ virtual' = [virtual EXCEPT ![c] = t.virtual]
                 /\ slot' = [slot EXCEPT ![c] = t.slot]
    BY <1>3, Zenon DEF CalcMaxIndexOfVirtualFunctions
  <2>2. m \in Nat
    <3>1. maxidx'[c] = m /\ maxidx'[c] \in Nat
      BY <1>3, CalcStep DEF Builds
    <3> QED BY <3>1
  <2> HIDE DEF m
  <2>3. maxidx' \in [Class -> Nat \cup {Unknown}]
    BY <2>1, <2>2 DEF StateType
  <2>4. vtable' = [x \in Class |-> vtable'[x]] /\ vowned' = [x \in Class |-> vowned'[x]]
    BY <2>1 DEF StateType
  <2>5. start' = [x \in Class |-> start'[x]] /\ slot' = [x \in Class |-> slot'[x]]
    BY <2>1 DEF StateType
  <2>6. virtual' = [x \in Class |-> virtual'[x]]
    BY <2>1 DEF StateType
  <2> QED BY <1>1, <2>3, <2>4, <2>5, <2>6 DEF StateType
<1> QED BY <1>2, <1>3, StepTables

\* Which classes have their tables after a step.
LEMMA StepBuilt ==
  ASSUME StateType, BasesBuiltFirst, TablesRight, [Next]_vars
  PROVE  \A x \in Class : Built(x) => Same(x) /\ Built(x)'
<1>1. CASE UNCHANGED tables
  BY <1>1 DEF tables, Same, Built
<1>2. ASSUME NEW c \in Class, CalcMaxIndexOfVirtualFunctions(c), NEW x \in Class, Built(x)
      PROVE  Same(x) /\ Built(x)'
  <2>1. ~ Built(c) /\ Builds(c, CalcVTable(c))
    BY <1>2, CalcStep
  <2>2. Same(x)
    BY <1>2, <2>1 DEF Builds
  <2> QED BY <1>2, <2>2 DEF Same, Built
<1> QED BY <1>1, <1>2, StepTables

\* the bases before the classes,
LEMMA NextBases ==
  ASSUME StateType, BasesBuiltFirst, TablesRight, [Next]_vars
  PROVE  BasesBuiltFirst'
<1> SUFFICES ASSUME NEW d \in Class, Built(d)', NEW i \in DOMAIN bases[d]
             PROVE  maxidx'[bases[d][i]] # Unknown
  <2>1. bases' = bases
    BY StepTables, SameProgram
  <2> QED BY <2>1 DEF BasesBuiltFirst, Built
<1> DEFINE b == bases[d][i]
<1>1. b \in Class
  <2>1. bases[d] \in Seq(Class)
    BY ProgramTypes DEF StateType
  <2> QED BY <2>1
<1> HIDE DEF b
<1>2. Built(b)
  <2>1. CASE Built(d)
    BY <2>1 DEF BasesBuiltFirst, Built, b
  <2>2. CASE ~ Built(d)
    <3>1. PICK c \in Class : CalcMaxIndexOfVirtualFunctions(c)
      BY <2>2, StepTables DEF tables, Built
    <3>2. c = d
      <4>1. Builds(c, CalcVTable(c))
        BY <3>1, CalcStep
      <4> QED BY <2>2, <4>1 DEF Builds, Same, Built
    <3>3. ~ (maxidx[b] < 0)
      BY <3>1, <3>2, CalcStep DEF BasesNotReady, b
    <3> QED BY <3>3 DEF Built, Unknown
  <2> QED BY <2>1, <2>2
<1>3. maxidx'[b] # Unknown
  BY <1>1, <1>2, StepBuilt DEF Same, Built
<1> QED BY <1>3 DEF b

\* the tables themselves,
LEMMA NextTables ==
  ASSUME StateType, BasesBuiltFirst, TablesRight, [Next]_vars
  PROVE  TablesRight'
<1>1. prog \in Programs /\ prog' = prog /\ (errors' = 0 => errors = 0)
  BY StepTables, StepErrors DEF StateType
<1>2. ASSUME NEW d \in Class, Built(d)
      PROVE  Fits(d)' /\ Table(d)' /\ (errors' = 0 => Runs(d)')
  <2>1. Fits(d) /\ Table(d) /\ (errors = 0 => Runs(d))
    BY <1>2 DEF TablesRight
  <2>2. \A x \in Related(d) : Same(x)
    <3>1. Ancestors(d) \in SUBSET Class /\ \A x \in Ancestors(d) : Built(x)
      BY <1>1, <1>2, AncestorsAre, AncestorsBuilt
    <3> QED BY <1>2, <3>1, StepBuilt DEF Related
  <2> QED BY <1>1, <2>1, <2>2, FitsStays, TableStays, RunsStays
<1>3. ASSUME NEW d \in Class, ~ Built(d)
      PROVE  /\ Built(d)' => Fits(d)' /\ Table(d)' /\ (errors' = 0 => Runs(d)')
             /\ ~ Built(d)' => virtual'[d] = DeclaredVirtual(d)'
  <2>0. virtual[d] = DeclaredVirtual(d)
    BY <1>3 DEF TablesRight
  <2>1. CASE UNCHANGED tables
    BY <1>1, <1>3, <2>0, <2>1 DEF tables, Built, DeclaredVirtual, Declared
  <2>2. ASSUME NEW c \in Class, CalcMaxIndexOfVirtualFunctions(c), c # d
        PROVE  ~ Built(d)' /\ virtual'[d] = DeclaredVirtual(d)'
    <3>1. Builds(c, CalcVTable(c))
      BY <2>2, CalcStep
    <3>2. Same(d)
      BY <2>2, <3>1 DEF Builds
    <3> QED BY <1>1, <1>3, <2>0, <3>2 DEF Same, Built, DeclaredVirtual, Declared
  <2>3. ASSUME CalcMaxIndexOfVirtualFunctions(d)
        PROVE  Built(d)' /\ Fits(d)' /\ Table(d)' /\ (errors' = 0 => Runs(d)')
    <3>1. Ready(d) /\ Builds(d, CalcVTable(d)) /\ CalcVTable(d).errors \in Nat /\ Built(d)'
      BY <2>3, CalcStep
    <3>2. Fits(d)' /\ Table(d)'
      BY <1>1, <2>0, <3>1, BuiltFits, BuiltTable
    <3>3. ASSUME errors' = 0 PROVE Runs(d)'
      <4>1. errors' = errors + CalcVTable(d).errors /\ errors \in Nat
        BY <3>1 DEF Builds, StateType
      <4> DEFINE k == CalcVTable(d).errors
      <4>2. k \in Nat /\ errors' = errors + k
        BY <3>1, <4>1
      <4> HIDE DEF k
      <4>3. k = 0
        BY <3>3, <4>1, <4>2
      <4> QED BY <1>1, <2>0, <3>1, <4>3, BuiltRuns DEF k
    <3> QED BY <3>1, <3>2, <3>3
  <2> QED BY <2>1, <2>2, <2>3, StepTables
<1>4. ASSUME NEW d \in Class, Built(d) PROVE Built(d)'
  BY <1>4, StepBuilt
<1> QED BY <1>2, <1>3, <1>4 DEF TablesRight

\* the loop's counts,
LEMMA NextLoop ==
  ASSUME StateType, BasesBuiltFirst, TablesRight, LoopRight, [Next]_vars
  PROVE  LoopRight'
<1>0. /\ prog \in Programs /\ prog' = prog /\ at \in Nat \ {0} /\ errors \in Nat
      /\ (errors' = 0 => errors = 0)
      /\ \A x \in Class : Built(x) => Built(x)'
  BY StepTables, StepErrors, StepBuilt DEF StateType
<1>1. /\ prog.order \in Seq(Class) /\ ToSet(prog.order) = Class
      /\ prog.complete \in SUBSET Class /\ prog.concrete \in SUBSET Class
  BY <1>0, ProgramTypes
<1>2. CASE UNCHANGED vars
  BY <1>2 DEF vars, loop, tables, LoopRight, AllBuilt, Built, IsAbstract
<1>3. ASSUME NEW c \in Class,
             SkipClass(c) \/ WaitForBases(c) \/ CalcMaxIndexOfVirtualFunctions(c)
      PROVE  LoopRight'
  <2>1. /\ at' = at + 1 /\ phase = "looping" /\ c = prog.order[at]
        /\ c \notin prog.complete \/ Built(c) \/ aok' = FALSE
              \/ CalcMaxIndexOfVirtualFunctions(c)
    BY <1>3, VisitMovesOn
  <2>2. phase' = "looping"
    <3>1. CASE SkipClass(c)
      BY <2>1, <3>1 DEF SkipClass
    <3>2. CASE WaitForBases(c)
      BY <2>1, <3>2 DEF WaitForBases
    <3>3. CASE CalcMaxIndexOfVirtualFunctions(c)
      BY <2>1, <3>3, CalcStep
    <3> QED BY <1>3, <3>1, <3>2, <3>3
  <2>3. ASSUME aok', NEW i \in 1 .. Len(prog.order), i < at', prog.order[i] \in prog.complete
        PROVE  maxidx'[prog.order[i]] # Unknown
    <3>1. prog.order[i] \in Class
      BY <1>1
    <3>2. CASE i = at
      <4>1. c = prog.order[i] /\ (Built(c) \/ CalcMaxIndexOfVirtualFunctions(c))
        BY <2>1, <2>3, <3>2
      <4>2. CASE Built(c)
        BY <1>0, <4>1, <4>2 DEF Built
      <4>3. CASE CalcMaxIndexOfVirtualFunctions(c)
        <5>1. Built(c)'
          BY <4>3, CalcStep
        <5> QED BY <4>1, <5>1 DEF Built
      <4> QED BY <4>1, <4>2, <4>3
    <3>3. CASE i # at
      <4>1. i < at
        BY <1>0, <2>1, <2>3, <3>3
      <4>2. aok
        <5>1. CASE SkipClass(c)
          BY <2>3, <5>1 DEF SkipClass
        <5>2. CASE WaitForBases(c)
          BY <2>3, <5>2 DEF WaitForBases
        <5>3. CASE CalcMaxIndexOfVirtualFunctions(c)
          <6>1. aok' = aok
            BY <5>3, Zenon DEF CalcMaxIndexOfVirtualFunctions
          <6> QED BY <2>3, <6>1
        <5> QED BY <1>3, <5>1, <5>2, <5>3
      <4>3. Built(prog.order[i])
        BY <2>1, <2>3, <4>1, <4>2 DEF LoopRight
      <4> QED BY <1>0, <3>1, <4>3 DEF Built
    <3> QED BY <3>2, <3>3
  <2> QED BY <1>0, <2>2, <2>3 DEF LoopRight, Built
<1>4. CASE EndRound
  <2>1. /\ phase = "looping" /\ at > Len(prog.order) /\ at' = 1 /\ maxidx' = maxidx
        /\ reported' \in BOOLEAN
        /\ errors' = (IF reported' THEN errors + 1 ELSE errors)
        /\ phase' = (IF aok \/ reported' THEN "checking" ELSE "looping")
    BY <1>4 DEF EndRound, tables
  <2>2. ASSUME phase' = "checking", errors' = 0 PROVE AllBuilt'
    <3>1. ~ reported' /\ aok
      BY <1>0, <2>1, <2>2
    <3>2. ASSUME NEW c \in prog.complete PROVE Built(c)
      <4>1. PICK i \in 1 .. Len(prog.order) : prog.order[i] = c
        BY <1>1 DEF ToSet
      <4>2. i < at
        BY <1>0, <1>1, <2>1
      <4> QED BY <2>1, <3>1, <4>1, <4>2 DEF LoopRight
    <3> QED BY <1>0, <2>1, <3>2 DEF AllBuilt, Built
  <2>3. ~ \E i \in 1 .. Len(prog.order) : i < at'
    BY <2>1
  <2> QED BY <1>0, <2>1, <2>2, <2>3 DEF LoopRight
<1>5. CASE CheckAbstractInstanceErrors
  <2> DEFINE S == {c \in ToSet(prog.order) \cap prog.concrete : IsAbstract(c)}
  <2>1. /\ phase = "checking" /\ phase' = "done" /\ maxidx' = maxidx /\ vtable' = vtable
        /\ errors' = IF errors > 0 THEN errors ELSE Cardinality(S)
    BY <1>5 DEF CheckAbstractInstanceErrors, tables
  <2>2. ASSUME errors' = 0 PROVE AllBuilt' /\ \A c \in prog'.concrete : ~ IsAbstract(c)'
    <3>1. errors = 0 /\ Cardinality(S) = 0
      BY <1>0, <2>1, <2>2
    <3>2. IsFiniteSet(S)
      <4>1. S \subseteq Class /\ IsFiniteSet(Class)
        BY <1>0, <1>1, ClassesAreFinite
      <4> QED BY <4>1, FS_Subset
    <3>3. S = {}
      BY <3>1, <3>2, FS_EmptySet
    <3>4. \A c \in prog.concrete : ~ IsAbstract(c)
      BY <1>1, <3>3
    <3>5. AllBuilt
      BY <2>1, <3>1 DEF LoopRight
    <3> QED BY <1>0, <2>1, <3>4, <3>5 DEF AllBuilt, Built, IsAbstract
  <2> QED BY <1>0, <2>1, <2>2 DEF LoopRight
<1>6. CASE Done
  BY <1>6 DEF Done, vars, loop, tables, LoopRight, AllBuilt, Built, IsAbstract
<1> QED BY <1>2, <1>3, <1>4, <1>5, <1>6 DEF Next

\* and so is the whole.
LEMMA NextInvariant == IInv /\ [Next]_vars => IInv'
<1> SUFFICES ASSUME IInv, [Next]_vars PROVE IInv'
  OBVIOUS
<1>1. StateType /\ BasesBuiltFirst /\ TablesRight /\ LoopRight
  BY DEF IInv
<1>2. StateType' /\ BasesBuiltFirst' /\ TablesRight' /\ LoopRight'
  BY <1>1, NextType, NextBases, NextTables, NextLoop
<1> QED BY <1>2 DEF IInv

\* The inductive invariant holds of every state of the loop.
THEOREM Invariance == Spec => []IInv
<1> QED BY InitInvariant, NextInvariant, PTL DEF Spec

-----------------------------------------------------------------------------
\* A class with its table has only ancestors with theirs.
LEMMA BuiltClass ==
  ASSUME IInv, NEW c \in Class, Built(c)
  PROVE  /\ Related(c) = Ancestors(c) \cup {c} /\ Related(c) \in SUBSET Class
         /\ c \notin Ancestors(c) /\ Straight(c)
         /\ \A x \in Related(c) : /\ Built(x) /\ Fits(x) /\ Table(x) /\ (errors = 0 => Runs(x))
                                  /\ Ancestors(x) \subseteq Ancestors(c)
                                  /\ Related(x) \subseteq Related(c)
<1>1. StateType /\ BasesBuiltFirst /\ TablesRight /\ prog \in Programs
  BY DEF IInv, StateType
<1>2. Ancestors(c) \in SUBSET Class /\ \A x \in Ancestors(c) : Built(x)
  BY <1>1, AncestorsAre, AncestorsBuilt
<1>3. Related(c) = Ancestors(c) \cup {c}
  BY DEF Related
<1>4. ASSUME NEW x \in Related(c)
      PROVE  /\ x \in Class /\ Built(x) /\ Fits(x) /\ Table(x) /\ (errors = 0 => Runs(x))
             /\ Ancestors(x) \subseteq Ancestors(c)
  <2>1. x \in Class /\ Built(x)
    BY <1>2, <1>3
  <2>2. x # c => Ancestors(x) \subseteq Ancestors(c)
    BY <1>1, <1>3, AncestorsInherit
  <2> QED BY <1>1, <2>1, <2>2 DEF TablesRight
<1>5. \A x \in Related(c) : Related(x) \subseteq Related(c)
  BY <1>3, <1>4 DEF Related
<1>6. \A x \in Related(c) : x \notin Ancestors(x)
  BY <1>4 DEF Fits
<1> QED BY <1>2, <1>3, <1>4, <1>5, <1>6 DEF Straight

\* The first of the ancestors with a function is the one that originates it.
LEMMA FirstOriginates ==
  ASSUME IInv, NEW c \in Class, Built(c), NEW f, NEW o, First(o, c, f)
  PROVE  Originators(c, f) = {o}
<1>1. /\ Related(c) = Ancestors(c) \cup {c} /\ c \notin Ancestors(c)
      /\ \A x \in Related(c) : Ancestors(x) \subseteq Ancestors(c)
  BY BuiltClass
<1>2. /\ o \in Ancestors(c) /\ f \in virtual[o]
      /\ \A x \in Ancestors(c) : f \in virtual[x] =>
           x \notin Ancestors(o) /\ (x = o \/ o \in Ancestors(x))
  BY DEF First, Above
<1>3. o \in Declarers(c, f)
  BY <1>1, <1>2 DEF Declarers
<1>4. \A x \in Declarers(c, f) : x \notin Ancestors(o)
  BY <1>1, <1>2 DEF Declarers
<1>5. \A x \in Declarers(c, f) : x # o => o \in Ancestors(x)
  BY <1>1, <1>2 DEF Declarers
<1> QED BY <1>3, <1>4, <1>5 DEF Originators, IsClassASubclassOf

\* A function that no ancestor has as a virtual one the class itself originates.
LEMMA ClassOriginates ==
  ASSUME IInv, NEW c \in Class, Built(c), NEW f \in virtual[c], Above(c, f) = {}
  PROVE  Declarers(c, f) = {c} /\ Originators(c, f) = {c}
<1>1. Related(c) = Ancestors(c) \cup {c} /\ c \notin Ancestors(c)
  BY BuiltClass
<1>2. Declarers(c, f) = {c}
  BY <1>1 DEF Declarers, Above
<1> QED BY <1>1, <1>2 DEF Originators, IsClassASubclassOf

\* An ancestor has fewer ancestors.
LEMMA FewerAncestors ==
  ASSUME IInv, NEW c \in Class, Built(c), NEW y \in Related(c), NEW z \in Ancestors(y)
  PROVE  /\ Cardinality(Ancestors(z)) \in Nat /\ Cardinality(Ancestors(y)) \in Nat
         /\ Cardinality(Ancestors(z)) < Cardinality(Ancestors(y))
<1>1. /\ y \in Class /\ Built(y)
      /\ prog \in Programs
  BY BuiltClass DEF IInv, StateType
<1>2. z \in Related(y) /\ z \notin Ancestors(z) /\ Ancestors(z) \subseteq Ancestors(y)
      /\ Ancestors(y) \subseteq Class
  <2>1. Related(y) = Ancestors(y) \cup {y} /\ Related(y) \in SUBSET Class
    BY <1>1, BuiltClass
  <2>2. z \in Related(y)
    BY <2>1
  <2>3. Fits(z) /\ Ancestors(z) \subseteq Ancestors(y)
    BY <1>1, <2>2, BuiltClass
  <2> QED BY <2>1, <2>2, <2>3 DEF Fits
<1> DEFINE S == Ancestors(y)
           T == Ancestors(z)
           U == S \ {z}
<1>3. IsFiniteSet(S) /\ IsFiniteSet(U) /\ IsFiniteSet(T)
  <2>1. IsFiniteSet(Class)
    BY <1>1, ClassesAreFinite
  <2> QED BY <1>2, <2>1, FS_Subset
<1>4. Cardinality(U) = Cardinality(S) - 1
  BY <1>3, FS_RemoveElement
<1>5. Cardinality(T) <= Cardinality(U)
  <2>1. T \subseteq U
    BY <1>2
  <2> HIDE DEF T, U
  <2> QED BY <1>3, <2>1, FS_Subset
<1>6. Cardinality(S) \in Nat /\ Cardinality(T) \in Nat /\ Cardinality(U) \in Nat
  BY <1>3, FS_CardinalityType
<1> HIDE DEF S, T, U
<1>7. Cardinality(T) < Cardinality(S)
  BY <1>4, <1>5, <1>6
<1> QED BY <1>6, <1>7 DEF S, T

\* A class that originates a function alone is related to all that have it:
\* going up from any of them one comes to an originator.
LEMMA SoleOriginator ==
  ASSUME IInv, NEW c \in Class, Built(c), NEW f, NEW o, Originators(c, f) = {o}
  PROVE  \A x \in Declarers(c, f) : x \notin Ancestors(o) /\ (x = o \/ o \in Ancestors(x))
<1> SUFFICES ASSUME NEW x \in Declarers(c, f)
             PROVE  x \notin Ancestors(o) /\ (x = o \/ o \in Ancestors(x))
  OBVIOUS
<1>1. /\ Related(c) \in SUBSET Class /\ x \in Related(c) /\ x \in Class /\ Built(x)
      /\ Related(x) \subseteq Related(c) /\ f \in virtual[x]
      /\ Related(x) = Ancestors(x) \cup {x}
  BY BuiltClass DEF Declarers, Related
<1> DEFINE Y == {y \in Related(x) : f \in virtual[y]}
           T == {Cardinality(Ancestors(y)) : y \in Y}
<1>2. x \in Y
  BY <1>1
<1>3. \A y \in Related(c) : Cardinality(Ancestors(y)) \in Nat
  <2>1. prog \in Programs
    BY DEF IInv, StateType
  <2>2. ASSUME NEW y \in Related(c) PROVE Cardinality(Ancestors(y)) \in Nat
    <3>1. Ancestors(y) \subseteq Class /\ IsFiniteSet(Class)
      BY <1>1, <2>1, AncestorsAre, ClassesAreFinite
    <3>2. IsFiniteSet(Ancestors(y))
      BY <3>1, FS_Subset
    <3> QED BY <3>2, FS_CardinalityType
  <2> QED BY <2>2
<1>4. T \in SUBSET Nat /\ T # {}
  <2> HIDE DEF Y
  <2>1. \A y \in Y : y \in Related(c)
    BY <1>1 DEF Y
  <2> QED BY <1>2, <1>3, <2>1
<1>5. PICK m \in T : \A k \in T : m <= k
  <2> HIDE DEF T
  <2> QED BY <1>4, LeastNumber
<1>6. PICK y \in Y : m = Cardinality(Ancestors(y))
  OBVIOUS
<1>7. y \in Related(x) /\ y \in Related(c) /\ f \in virtual[y]
  BY <1>1
<1>8. y \in Originators(c, f)
  <2> SUFFICES ASSUME NEW z \in Declarers(c, f), z \in Ancestors(y) PROVE FALSE
    BY <1>7 DEF Originators, Declarers, IsClassASubclassOf
  <2>1. z \in Related(x)
    <3>1. Ancestors(y) \subseteq Ancestors(x)
      BY <1>1, <1>7, BuiltClass
    <3> QED BY <1>1, <3>1
  <2>2. z \in Y
    BY <2>1 DEF Declarers
  <2>3. /\ Cardinality(Ancestors(z)) \in Nat /\ Cardinality(Ancestors(y)) \in Nat
        /\ Cardinality(Ancestors(z)) < Cardinality(Ancestors(y))
    BY <1>7, FewerAncestors
  <2> DEFINE a == Cardinality(Ancestors(z))
             b == Cardinality(Ancestors(y))
  <2>4. b <= a
    BY <1>5, <1>6, <2>2
  <2>5. a < b /\ a \in Nat /\ b \in Nat
    BY <2>3
  <2> HIDE DEF a, b
  <2> QED BY <2>4, <2>5
<1>9. y = o
  BY <1>8
<1>10. x \notin Ancestors(o)
  BY DEF Originators, IsClassASubclassOf
<1> QED BY <1>1, <1>7, <1>9, <1>10

\* In a program without errors all that have the function of the first of them
\* have its slot.
LEMMA OneSlot ==
  ASSUME IInv, errors = 0, NEW c \in Class, Built(c), NEW f \in Fn, NEW o, First(o, c, f),
         NEW d \in Declarers(c, f)
  PROVE  slot[d][f] = slot[o][f] /\ slot[o][f].orig = o
<1>1. /\ Related(c) = Ancestors(c) \cup {c} /\ Related(c) \in SUBSET Class
      /\ \A x \in Related(c) : /\ Built(x) /\ Fits(x) /\ Runs(x)
                               /\ Ancestors(x) \subseteq Ancestors(c)
      /\ c \notin Ancestors(c)
  BY BuiltClass
<1>2. /\ o \in Ancestors(c) /\ f \in virtual[o]
      /\ \A x \in Above(c, f) : x \notin Ancestors(o) /\ (x = o \/ o \in Ancestors(x))
  BY DEF First, Above
<1>3. slot[o][f].orig = o
  <2>1. SlotOf(o, f)
    BY <1>1, <1>2 DEF Fits
  <2>2. \A y \in Ancestors(o) : f \notin virtual[y]
    BY <1>1, <1>2 DEF Above
  <2> QED BY <2>1, <2>2 DEF SlotOf
<1>4. d \in Related(c) /\ f \in virtual[d]
  BY DEF Declarers
<1>5. CASE d = o
  BY <1>3, <1>5
<1>6. CASE d # o
  <2>1. o \in Ancestors(d)
    <3>1. CASE d = c
      BY <1>2, <3>1
    <3>2. CASE d # c
      BY <1>1, <1>2, <1>4, <1>6, <3>2 DEF Above
    <3> QED BY <3>1, <3>2
  <2>2. o \in Above(d, f)
    BY <1>2, <2>1 DEF Above
  <2>3. PICK p : First(p, d, f) /\ slot[d][f] = slot[p][f]
    BY <1>1, <1>4, <2>2 DEF Runs
  <2>4. p = o
    <3>1. p \in Above(d, f) /\ o \notin Ancestors(p)
      BY <2>2, <2>3 DEF First
    <3>2. p \in Above(c, f)
      BY <1>1, <1>4, <3>1 DEF Above
    <3> QED BY <1>2, <3>1, <3>2
  <2> QED BY <1>3, <2>3, <2>4
<1> QED BY <1>5, <1>6

-----------------------------------------------------------------------------
\* No assertion of updateVTable fails, in any hierarchy: the slot that an
\* overriding function looks up is one its originator has.
THEOREM AssertionsHold == Spec => []NoAssertFails
<1>1. IInv => NoAssertFails
  BY DEF IInv, LoopRight, NoAssertFails
<1> QED BY <1>1, Invariance, PTL

\* Each table holds the slots of every class it is related to, from the offset
\* recorded for that class, and no others.
THEOREM LayoutIsRight == Spec => []TablesLaidOut
<1>1. ASSUME IInv PROVE TablesLaidOut
  <2> SUFFICES ASSUME NEW c \in Class, Built(c)
               PROVE  /\ Len(vtable[c]) = maxidx[c]
                      /\ DOMAIN start[c] = Related(c)
                      /\ \A o \in Related(c) : \A i \in DOMAIN vowned[o] :
                           LET e == vtable[c][start[c][o] + i]
                           IN  e.orig = o /\ e.vidx = i - 1 /\ e.fn = vowned[o][i].fn
                      /\ maxidx[c] = SumFunction([o \in Related(c) |-> Len(vowned[o])])
    BY DEF TablesLaidOut
  <2>1. Table(c) /\ \A o \in Related(c) : Fits(o)
    BY <1>1, BuiltClass DEF Related
  <2>2. ASSUME NEW o \in Related(c), NEW i \in DOMAIN vowned[o]
        PROVE  LET e == vtable[c][start[c][o] + i]
               IN  e.orig = o /\ e.vidx = i - 1 /\ e.fn = vowned[o][i].fn
    <3>1. OwnsSlots(o)
      BY <2>1 DEF Fits
    <3>2. i \in 1 .. Len(vowned[o])
      BY <3>1 DEF OwnsSlots
    <3>3. vowned[o][i].orig = o /\ vowned[o][i].vidx = i - 1
      BY <3>1, <3>2 DEF OwnsSlots
    <3>4. SameSlot(vtable[c][start[c][o] + i], vowned[o][i])
      BY <2>1, <3>2 DEF Table
    <3> QED BY <3>3, <3>4 DEF SameSlot
  <2>3. maxidx[c] = SumFunction([o \in Related(c) |-> Len(vowned[o])])
    BY <2>1 DEF Table
  <2> QED BY <2>1, <2>2, <2>3 DEF Table
<1> QED BY <1>1, Invariance, PTL

\* The loop that leaves a class without its table reports an error.
THEOREM AcceptedAreBuilt == Spec => []AcceptedMeansBuilt
<1>1. IInv => AcceptedMeansBuilt
  BY DEF IInv, LoopRight, AcceptedMeansBuilt, Accepted, AllBuilt
<1> QED BY <1>1, Invariance, PTL

\* A virtual function of a class of an accepted program has one originator.
THEOREM OneOrigin == Spec => []OriginsAreUnique
<1>1. ASSUME IInv PROVE OriginsAreUnique
  <2> SUFFICES ASSUME Accepted, NEW c \in Class, NEW f \in Fn, f \in virtual[c], Built(c)
               PROVE  Cardinality(Originators(c, f)) = 1
    BY DEF OriginsAreUnique
  <2>1. CASE Above(c, f) = {}
    <3>1. Originators(c, f) = {c}
      BY <1>1, <2>1, ClassOriginates
    <3> QED BY <3>1, FS_Singleton
  <2>2. CASE Above(c, f) # {}
    <3>1. Runs(c)
      BY <1>1, BuiltClass DEF Accepted, Related
    <3>2. PICK o : First(o, c, f)
      BY <2>2, <3>1 DEF Runs
    <3>3. Originators(c, f) = {o}
      BY <1>1, <3>2, FirstOriginates
    <3> QED BY <3>3, FS_Singleton
  <2> QED BY <2>1, <2>2
<1> QED BY <1>1, Invariance, PTL

\* A virtual call in an accepted program runs a most derived override of its
\* function, where that has one originator.
THEOREM DispatchIsRight == Spec => []DispatchIsMostDerived
<1>1. ASSUME IInv PROVE DispatchIsMostDerived
  <2> SUFFICES ASSUME Accepted, NEW c \in Class, NEW f \in Fn, Built(c),
                      Cardinality(Originators(c, f)) = 1, NEW d \in Declarers(c, f)
               PROVE  Called(c, d, f) \in MostDerived(c, slot[d][f].orig, f)
    BY DEF DispatchIsMostDerived
  <2>1. /\ errors = 0
        /\ Related(c) = Ancestors(c) \cup {c} /\ Related(c) \in SUBSET Class
        /\ c \notin Ancestors(c) /\ Fits(c) /\ Runs(c)
        /\ \A x \in Related(c) : Ancestors(x) \subseteq Ancestors(c)
    BY <1>1, BuiltClass DEF Accepted, Related
  <2>2. PICK q : Originators(c, f) = {q}
    <3>1. IsFiniteSet(Originators(c, f))
      <4>1. IsFiniteSet(Class)
        BY <1>1, ClassesAreFinite DEF IInv, StateType
      <4>2. Originators(c, f) \subseteq Class
        BY <2>1 DEF Originators, Declarers
      <4> QED BY <4>1, <4>2, FS_Subset
    <3> QED BY <3>1, FS_Singleton
  <2>3. CASE f \in virtual[c] /\ Above(c, f) = {}
    <3>1. d = c /\ Declarers(c, f) = {c}
      BY <1>1, <2>3, ClassOriginates
    <3>2. slot[c][f].orig = c
      BY <2>1, <2>3 DEF Fits, SlotOf, Above
    <3>3. Called(c, d, f) = c
      BY <2>1, <2>3, <3>1, <3>2 DEF Runs, Called
    <3>4. c \in MostDerived(c, c, f)
      BY <2>1, <3>1 DEF MostDerived, IsClassASubclassOf
    <3> QED BY <3>1, <3>2, <3>3, <3>4
  <2>4. CASE ~ (f \in virtual[c] /\ Above(c, f) = {})
    <3>1. PICK o : First(o, c, f)
      <4>1. CASE f \in virtual[c]
        BY <2>1, <2>4, <4>1 DEF Runs
      <4>2. CASE f \notin virtual[c]
        <5>1. /\ q \in Declarers(c, f)
              /\ \A x \in Declarers(c, f) : x \notin Ancestors(q) /\ (x = q \/ q \in Ancestors(x))
          BY <1>1, <2>2, SoleOriginator DEF Originators
        <5>2. Above(c, f) = Declarers(c, f)
          BY <2>1, <4>2 DEF Above, Declarers
        <5> QED BY <5>1, <5>2 DEF First
      <4> QED BY <4>1, <4>2
    <3>2. slot[d][f] = slot[o][f] /\ slot[o][f].orig = o
      BY <1>1, <2>1, <3>1, OneSlot
    <3> DEFINE x == vtable[c][start[c][o] + slot[o][f].vidx + 1].of
    <3>3. Called(c, d, f) = x
      BY <3>2 DEF Called
    <3>4. IF f \in virtual[c] THEN x = c ELSE x \in Overriders(o, c, f)
      BY <2>1, <3>1 DEF Runs
    <3> HIDE DEF x
    <3>5. x \in MostDerived(c, o, f)
      <4>1. CASE f \in virtual[c]
        <5>1. x = c /\ o \in Ancestors(c)
          BY <3>1, <3>4, <4>1 DEF First, Above
        <5>2. c \in Declarers(c, f) /\ \A y \in Declarers(c, f) : c \notin Ancestors(y)
          BY <2>1, <4>1 DEF Declarers
        <5> QED BY <5>1, <5>2 DEF MostDerived, IsClassASubclassOf
      <4>2. CASE f \notin virtual[c]
        <5>1. Above(c, f) = Declarers(c, f)
          BY <2>1, <4>2 DEF Above, Declarers
        <5> QED BY <3>4, <4>2, <5>1 DEF Overriders, MostDerived, IsClassASubclassOf
      <4> QED BY <4>1, <4>2
    <3> QED BY <3>2, <3>3, <3>5
  <2> QED BY <2>3, <2>4
<1> QED BY <1>1, Invariance, PTL

\* No virtual call on an element or a concrete class of an accepted program
\* reaches a pure function.
THEOREM CallsReachCode == Spec => []ConcreteCallsReachCode
<1>1. ASSUME IInv PROVE ConcreteCallsReachCode
  <2> SUFFICES ASSUME Accepted, NEW c \in prog.concrete, NEW f \in Fn, NEW d \in Declarers(c, f),
                      Built(c)
               PROVE  ~ IsPure(Called(c, d, f), f)
    BY DEF ConcreteCallsReachCode
  <2>1. c \in Class /\ ~ IsAbstract(c)
    BY <1>1, ProgramTypes DEF IInv, StateType, LoopRight, Accepted
  <2>2. /\ Table(c) /\ d \in Related(c) /\ f \in virtual[d] /\ Fits(d)
        /\ Related(d) \subseteq Related(c) /\ \A x \in Related(c) : Fits(x)
    BY <1>1, <2>1, BuiltClass DEF Declarers, Related
  <2> DEFINE s == slot[d][f]
             o == s.orig
             i == s.vidx + 1
             e == vtable[c][start[c][o] + i]
  <2>3. s \in SlotIds /\ o \in Related(c) /\ s.vidx < Len(vowned[o]) /\ vowned[o][s.vidx + 1].fn = f
    BY <2>2 DEF Fits, SlotOf
  <2>4. Len(vowned[o]) \in Nat
    BY <2>2, <2>3 DEF Fits, OwnsSlots
  <2>5. s.vidx \in Nat
    BY <2>3 DEF SlotIds
  <2>6. start[c][o] \in Nat
    BY <2>2, <2>3 DEF Table
  <2> HIDE DEF s, o
  <2>7. i \in 1 .. Len(vowned[o])
    BY <2>3, <2>4, <2>5
  <2>8. Called(c, d, f) = e.of
    <3>1. start[c][o] + s.vidx + 1 = start[c][o] + i
      BY <2>5, <2>6
    <3> QED BY <3>1 DEF Called, s, o
  <2>9. start[c][o] + i \in 1 .. Len(vtable[c]) /\ SameSlot(e, vowned[o][i]) /\ vtable[c] \in Seq(Sound)
    BY <2>2, <2>3, <2>7 DEF Table
  <2>10. e \in Sound /\ e.fn = f
    BY <2>3, <2>9 DEF SameSlot
  <2>11. e.pure = FALSE
    <3>1. DOMAIN vtable[c] = 1 .. Len(vtable[c])
      BY <2>9
    <3>2. ~ e.pure
      BY <2>1, <2>9, <3>1 DEF IsAbstract
    <3> HIDE DEF e
    <3>3. e.pure \in BOOLEAN
      BY <2>10 DEF Sound, Slots
    <3> QED BY <3>2, <3>3
  <2> HIDE DEF e
  <2> QED BY <2>8, <2>10, <2>11 DEF Sound
<1> QED BY <1>1, Invariance, PTL

\* A class has its virtual table only when all its bases have theirs, whatever
\* the order of the program table.
THEOREM BasesComeFirst == Spec => []BasesBuiltFirst
<1>1. IInv => BasesBuiltFirst
  BY DEF IInv
<1> QED BY <1>1, Invariance, PTL

\* No round changes a table, its offsets or its slots once they are set.
THEOREM TablesStay == Spec => TableSetOnce
<1> DEFINE A == \A c \in Class : Built(c) => /\ maxidx'[c] = maxidx[c] /\ vtable'[c] = vtable[c]
                                             /\ start'[c] = start[c] /\ slot'[c] = slot[c]
<1>1. IInv /\ [Next]_vars => [A]_vars
  BY StepBuilt DEF IInv, Same
<1> QED BY <1>1, Invariance, PTL DEF Spec, TableSetOnce

-----------------------------------------------------------------------------
(* The limit of rounds.  A class that still waits in a round is the first  *)
(* of a chain of base classes that is longer than the rounds before it.    *)

\* A chain of n classes that begins with c.
HasChain(c, n) == \E s \in BaseChains(n) : s[1] = c

\* The classes that can be waited for are complete themselves.
BasesCanBeBuilt == \A c \in prog.complete : ToSet(bases[c]) \subseteq prog.complete

\* What holds if the classes without tables are at the head of long chains: n
\* classes before this round, and one more for those already visited.
RoundsAreChains ==
  /\ phase = "looping" =>
       /\ infcounter2 <= MaxIterations
       /\ \A c \in prog.complete : ~ Built(c) => HasChain(c, infcounter2 + 1)
       /\ \A i \in 1 .. Len(prog.order) :
            i < at /\ prog.order[i] \in prog.complete /\ ~ Built(prog.order[i])
              => HasChain(prog.order[i], infcounter2 + 2)
       /\ ~ aok => BaseChains(infcounter2 + 2) # {}
       /\ infcounter2 > 0 => BaseChains(infcounter2 + 1) # {}
  /\ reported => BaseChains(MaxIterations + 1) # {}

RoundsAreNeeded == BasesCanBeBuilt => RoundsAreChains

\* A class is a chain of its own.
LEMMA OneIsAChain == ASSUME NEW c \in Class PROVE HasChain(c, 1)
<1> DEFINE s == [i \in 1 .. 1 |-> c]
<1>1. s \in [1 .. 1 -> Class] /\ s[1] = c /\ ~ \E i \in 1 .. 1 - 1 : TRUE
  OBVIOUS
<1> QED BY <1>1 DEF HasChain, BaseChains

\* A class with a base is a chain that is one longer.
LEMMA ChainGrows ==
  ASSUME NEW c \in Class, NEW b \in ToSet(bases[c]), NEW n \in Nat \ {0}, HasChain(b, n)
  PROVE  HasChain(c, n + 1)
<1>1. PICK s \in [1 .. n -> Class] : /\ s[1] = b
                                     /\ \A i \in 1 .. n - 1 : s[i + 1] \in ToSet(bases[s[i]])
  BY DEF HasChain, BaseChains
<1> DEFINE t == [i \in 1 .. n + 1 |-> IF i = 1 THEN c ELSE s[i - 1]]
<1>2. t \in [1 .. n + 1 -> Class] /\ t[1] = c
  BY <1>1
<1>3. ASSUME NEW i \in 1 .. (n + 1) - 1 PROVE t[i + 1] \in ToSet(bases[t[i]])
  <2>1. t[i + 1] = s[i] /\ i \in 1 .. n
    OBVIOUS
  <2>2. CASE i = 1
    BY <1>1, <2>1, <2>2
  <2>3. CASE i # 1
    <3>1. i - 1 \in 1 .. n - 1 /\ t[i] = s[i - 1] /\ (i - 1) + 1 = i
      BY <2>1, <2>3
    <3> QED BY <1>1, <2>1, <3>1
  <2> QED BY <2>2, <2>3
<1> HIDE DEF t
<1>4. t \in BaseChains(n + 1)
  BY <1>2, <1>3 DEF BaseChains
<1> QED BY <1>2, <1>4 DEF HasChain

\* The chains depend on the program alone.
LEMMA SameChains ==
  ASSUME prog' = prog
  PROVE  /\ \A n : BaseChains(n)' = BaseChains(n)
         /\ \A c, n : HasChain(c, n)' <=> HasChain(c, n)
         /\ BasesCanBeBuilt' <=> BasesCanBeBuilt
BY DEF BaseChains, HasChain, BasesCanBeBuilt, bases

\* A class that waits is the first of a chain that is longer by one.
LEMMA WaitingIsLonger ==
  ASSUME IInv, BasesCanBeBuilt, RoundsAreChains, NEW c \in Class, WaitForBases(c)
  PROVE  HasChain(c, infcounter2 + 2)
<1>1. /\ phase = "looping" /\ c \in prog.complete /\ prog \in Programs /\ infcounter2 \in Nat
      /\ maxidx \in [Class -> Nat \cup {Unknown}]
  BY DEF IInv, StateType, WaitForBases, Visit
<1>2. bases[c] \in Seq(Class)
  BY <1>1, ProgramTypes
<1>3. PICK i \in DOMAIN bases[c] : maxidx[bases[c][i]] < 0
  BY DEF WaitForBases, BasesNotReady
<1>4. PICK b : b = bases[c][i]
  OBVIOUS
<1>5. b \in Class /\ b \in ToSet(bases[c])
  BY <1>2, <1>3, <1>4 DEF ToSet
<1>6. ~ Built(b)
  BY <1>1, <1>3, <1>4, <1>5 DEF Built
<1>7. b \in prog.complete
  BY <1>1, <1>5 DEF BasesCanBeBuilt
<1>8. HasChain(b, infcounter2 + 1)
  BY <1>1, <1>6, <1>7 DEF RoundsAreChains
<1>9. infcounter2 + 1 \in Nat \ {0} /\ (infcounter2 + 1) + 1 = infcounter2 + 2
  BY <1>1
<1>10. HasChain(c, (infcounter2 + 1) + 1)
  BY <1>5, <1>8, <1>9, ChainGrows
<1> QED BY <1>9, <1>10

LEMMA RoundsStart == Init => RoundsAreNeeded
<1> SUFFICES ASSUME Init PROVE RoundsAreChains
  BY DEF RoundsAreNeeded
<1>1. /\ phase = "looping" /\ at = 1 /\ aok = TRUE /\ infcounter2 = 0 /\ reported = FALSE
      /\ prog \in Programs
  BY DEF Init
<1>2. prog.complete \in SUBSET Class
  BY <1>1, ProgramTypes
<1>3. \A c \in prog.complete : HasChain(c, infcounter2 + 1)
  <2>1. infcounter2 + 1 = 1
    BY <1>1
  <2> QED BY <1>2, <2>1, OneIsAChain
<1>4. ~ \E i \in 1 .. Len(prog.order) : i < at
  BY <1>1
<1> QED BY <1>1, <1>3, <1>4, IterationsAssumption DEF RoundsAreChains

\* A visit leaves a class without a table only if it waits.
LEMMA VisitsAreChains ==
  ASSUME IInv, BasesCanBeBuilt, RoundsAreChains, NEW c \in Class,
         SkipClass(c) \/ WaitForBases(c) \/ CalcMaxIndexOfVirtualFunctions(c)
  PROVE  RoundsAreChains'
<1>1. /\ at' = at + 1 /\ infcounter2' = infcounter2 /\ phase = "looping" /\ c = prog.order[at]
      /\ prog \in Programs /\ infcounter2 \in Nat /\ at \in Nat \ {0}
      /\ prog' = prog /\ reported' = reported /\ (aok' = aok \/ WaitForBases(c))
  <2>1. prog' = prog /\ reported' = reported /\ (aok' = aok \/ WaitForBases(c))
    <3>1. CASE SkipClass(c)
      BY <3>1 DEF SkipClass
    <3>2. CASE WaitForBases(c)
      BY <3>2 DEF WaitForBases
    <3>3. CASE CalcMaxIndexOfVirtualFunctions(c)
      BY <3>3, Zenon DEF CalcMaxIndexOfVirtualFunctions
    <3> QED BY <3>1, <3>2, <3>3
  <2> QED BY <2>1, VisitMovesOn DEF IInv, StateType
<1>2. \A x \in Class : Built(x) => Built(x)'
  BY StepBuilt DEF IInv, Next
<1>3. /\ prog.order \in Seq(Class) /\ prog.complete \in SUBSET Class
  BY <1>1, ProgramTypes
<1>4. WaitForBases(c) => HasChain(c, infcounter2 + 2)
  BY WaitingIsLonger
<1>5. /\ infcounter2 <= MaxIterations
      /\ \A x \in prog.complete : ~ Built(x) => HasChain(x, infcounter2 + 1)
      /\ ~ aok => BaseChains(infcounter2 + 2) # {}
      /\ infcounter2 > 0 => BaseChains(infcounter2 + 1) # {}
      /\ reported => BaseChains(MaxIterations + 1) # {}
  BY <1>1 DEF RoundsAreChains
<1>6. ASSUME NEW i \in 1 .. Len(prog.order), NEW x \in prog.complete, x = prog.order[i],
             i < at + 1, maxidx'[x] = Unknown
      PROVE  HasChain(x, infcounter2 + 2)
  <2>1. x \in Class /\ ~ Built(x)
    BY <1>2, <1>3, <1>6 DEF Built
  <2>2. CASE i = at
    <3>0. x = c
      BY <1>1, <1>6, <2>2
    <3>1. CASE WaitForBases(c)
      BY <1>4, <3>0, <3>1
    <3>2. CASE SkipClass(c)
      BY <2>1, <3>0, <3>2 DEF SkipClass, Built
    <3>3. CASE CalcMaxIndexOfVirtualFunctions(c)
      <4>1. Built(c)'
        BY <3>3, CalcStep DEF IInv
      <4> QED BY <1>6, <3>0, <4>1 DEF Built
    <3> QED BY <3>1, <3>2, <3>3
  <2>3. CASE i # at
    <3>1. i < at
      BY <1>1, <1>6, <2>3
    <3> QED BY <1>1, <1>6, <2>1, <3>1 DEF RoundsAreChains
  <2> QED BY <2>2, <2>3
<1>7. ~ aok' => BaseChains(infcounter2 + 2) # {}
  BY <1>1, <1>4, <1>5 DEF HasChain
<1>8. \A x \in prog.complete : maxidx'[x] = Unknown => HasChain(x, infcounter2 + 1)
  BY <1>2, <1>3, <1>5 DEF Built
<1>9. \A i \in 1 .. Len(prog.order) :
        i < at + 1 /\ prog.order[i] \in prog.complete /\ maxidx'[prog.order[i]] = Unknown
          => HasChain(prog.order[i], infcounter2 + 2)
  BY <1>6
<1> QED BY <1>1, <1>5, <1>7, <1>8, <1>9, SameChains DEF RoundsAreChains, Built

\* A round that is not the last leaves the classes that waited in it.
LEMMA RoundEndsAreChains ==
  ASSUME IInv, RoundsAreChains, EndRound
  PROVE  RoundsAreChains'
<1>1. /\ phase = "looping" /\ at > Len(prog.order) /\ infcounter2' = infcounter2 + 1 /\ at' = 1
      /\ aok' = TRUE /\ prog' = prog /\ maxidx' = maxidx
      /\ reported' = (infcounter2 + 1 > MaxIterations)
      /\ phase' = (IF aok \/ reported' THEN "checking" ELSE "looping")
  BY DEF EndRound, tables
<1>2. /\ prog \in Programs /\ infcounter2 \in Nat /\ at \in Nat \ {0} /\ MaxIterations \in Nat \ {0}
  BY IterationsAssumption DEF IInv, StateType
<1>3. /\ prog.order \in Seq(Class) /\ ToSet(prog.order) = Class /\ prog.complete \in SUBSET Class
  BY <1>2, ProgramTypes
<1>4. ASSUME reported' PROVE BaseChains(MaxIterations + 1) # {}
  <2>1. infcounter2 + 1 > MaxIterations
    BY <1>1, <1>4, Zenon
  <2>2. infcounter2 <= MaxIterations /\ (infcounter2 > 0 => BaseChains(infcounter2 + 1) # {})
    BY <1>1 DEF RoundsAreChains
  <2>3. infcounter2 = MaxIterations /\ infcounter2 > 0
    BY <1>2, <2>1, <2>2
  <2> QED BY <2>2, <2>3
<1>5. ASSUME phase' = "looping"
      PROVE  /\ infcounter2 + 1 <= MaxIterations
             /\ \A x \in prog.complete : ~ Built(x) => HasChain(x, infcounter2 + 2)
             /\ BaseChains(infcounter2 + 2) # {}
  <2>1. ~ aok /\ ~ reported'
    BY <1>1, <1>5, Zenon
  <2>2. infcounter2 + 1 <= MaxIterations
    <3>1. ~ (infcounter2 + 1 > MaxIterations)
      BY <1>1, <2>1, Zenon
    <3> QED BY <1>2, <3>1
  <2>3. ASSUME NEW x \in prog.complete, ~ Built(x) PROVE HasChain(x, infcounter2 + 2)
    <3>1. PICK i \in 1 .. Len(prog.order) : prog.order[i] = x
      BY <1>3 DEF ToSet
    <3>2. i < at
      BY <1>1, <1>2, <1>3
    <3> QED BY <1>1, <2>3, <3>1, <3>2 DEF RoundsAreChains
  <2> QED BY <1>1, <2>1, <2>2, <2>3 DEF RoundsAreChains
<1>6. infcounter2' + 1 = infcounter2 + 2 /\ ~ \E i \in 1 .. Len(prog.order) : i < at'
  BY <1>1, <1>2
<1> QED BY <1>1, <1>4, <1>5, <1>6, SameChains DEF RoundsAreChains, Built

LEMMA RoundsStep == IInv /\ RoundsAreNeeded /\ [Next]_vars => RoundsAreNeeded'
<1> SUFFICES ASSUME IInv, RoundsAreNeeded, [Next]_vars, BasesCanBeBuilt' PROVE RoundsAreChains'
  BY DEF RoundsAreNeeded
<1>1. prog' = prog
  BY StepTables
<1>2. BasesCanBeBuilt /\ RoundsAreChains
  BY <1>1, SameChains DEF RoundsAreNeeded
<1>3. ASSUME NEW c \in Class,
             SkipClass(c) \/ WaitForBases(c) \/ CalcMaxIndexOfVirtualFunctions(c)
      PROVE  RoundsAreChains'
  BY <1>2, <1>3, VisitsAreChains
<1>4. CASE EndRound
  BY <1>2, <1>4, RoundEndsAreChains
<1>5. CASE CheckAbstractInstanceErrors
  <2>1. phase' = "done" /\ reported' = reported
    BY <1>5 DEF CheckAbstractInstanceErrors
  <2> QED BY <1>1, <1>2, <2>1, SameChains DEF RoundsAreChains
<1>6. CASE UNCHANGED vars
  <2>1. UNCHANGED <<phase, at, aok, infcounter2, reported, maxidx>>
    BY <1>6 DEF vars, loop, tables
  <2> QED BY <1>1, <1>2, <2>1, SameChains DEF RoundsAreChains, Built
<1>7. CASE Done
  BY <1>6, <1>7 DEF Done
<1> QED BY <1>3, <1>4, <1>5, <1>6, <1>7 DEF Next

\* "Incomplete calc of max index" is reported only where a base class is not
\* complete, or where more classes are in line than the limit of rounds,
\* whatever the order in which the classes are visited.
THEOREM IncompleteReports == Spec => []IncompleteIsTrue
<1>1. RoundsAreNeeded => IncompleteIsTrue
  BY DEF RoundsAreNeeded, RoundsAreChains, BasesCanBeBuilt, IncompleteIsTrue
<1>2. Init => RoundsAreNeeded
  BY RoundsStart
<1>3. IInv /\ RoundsAreNeeded /\ [Next]_vars => RoundsAreNeeded'
  BY RoundsStep
<1> QED BY <1>1, <1>2, <1>3, Invariance, PTL DEF Spec

=============================================================================
