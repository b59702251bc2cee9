-------------------------- MODULE ClassSizingProofs --------------------------
(***************************************************************************)
(* Proofs about the rounds that size and label the classes and about the   *)
(* layout that is made in them, for any number of classes and any          *)
(* programs.                                                               *)
(***************************************************************************)
EXTENDS BitLayout, Induction, FiniteSetTheorems, SequenceTheorems

\* What is not changed while a class is sized.
LabelTypes ==
  /\ prog \in Programs
  /\ linked \in [Class -> SUBSET Class]
  /\ known \in [Class -> SUBSET Nat]
  /\ konst \in [Class -> Nat \cup {Unknown}]

Size == Nat \cup {Unknown, Cycle}

\* The parts of a program have their types.
LEMMA ProgramTypes ==
  ASSUME LabelTypes
  PROVE  /\ bases \in [Class -> Seq(Class)] /\ members \in [Class -> Seq(Member)]
         /\ IsFiniteSet(Class) /\ prog.limit \in Nat \ {0}
         /\ \A c \in Class : prog.konst[c] \in Constant
         /\ \A c \in Class : /\ Len(members[c]) \in Nat
                             /\ DOMAIN members[c] = 1 .. Len(members[c])
                             /\ \A i \in 1 .. Len(members[c]) : members[c][i] \in Member
                             /\ c \in prog.unions => Len(members[c]) # 0
         /\ \A c \in Class : ToSet(bases[c]) \in SUBSET Class
<1>1. prog \in Programs
  BY DEF LabelTypes
<1>2. /\ bases \in [Class -> Seq(Class)] /\ prog.konst \in [Class -> Constant]
      /\ members \in [Class -> Seq(Member)] /\ prog.order \in Seq(Class)
      /\ ToSet(prog.order) = Class /\ prog.limit \in Nat \ {0}
      /\ \A c \in prog.unions : members[c] # << >>
  BY <1>1, ProgramsAssumption DEF bases, members
<1>3. IsFiniteSet(Class)
  <2>1. DOMAIN prog.order = 1 .. Len(prog.order) /\ Len(prog.order) \in Nat
    BY <1>2
  <2>2. IsFiniteSet(DOMAIN prog.order)
    BY <2>1, FS_Interval
  <2>3. prog.order \in Surjection(DOMAIN prog.order, Class)
    <3>1. prog.order \in [DOMAIN prog.order -> Class]
      BY <1>2
    <3>2. \A x \in Class : \E i \in DOMAIN prog.order : prog.order[i] = x
      BY <1>2 DEF ToSet
    <3> QED BY <3>1, <3>2 DEF Surjection
  <2> QED BY <2>2, <2>3, FS_Surjection
<1>4. ASSUME NEW c \in Class
      PROVE  /\ Len(members[c]) \in Nat
             /\ DOMAIN members[c] = 1 .. Len(members[c])
             /\ \A i \in 1 .. Len(members[c]) : members[c][i] \in Member
             /\ c \in prog.unions => Len(members[c]) # 0
  <2>1. members[c] \in Seq(Member)
    BY <1>2
  <2> QED BY <2>1, <1>2
<1>5. ASSUME NEW c \in Class PROVE ToSet(bases[c]) \in SUBSET Class
  <2>1. bases[c] \in Seq(Class)
    BY <1>2
  <2> QED BY <2>1 DEF ToSet
<1>6. \A c \in Class : prog.konst[c] \in Constant
  BY <1>2
<1> QED BY <1>2, <1>3, <1>4, <1>5, <1>6

\* A member is of one of five kinds.
LEMMA MemberTypes ==
  ASSUME NEW m \in Member
  PROVE  \/ m.kind = "int" /\ m.n \in Nat \ {0}
         \/ m.kind \in {"sizeof", "const", "class"} /\ m.of \in Class
         \/ m.kind = "array" /\ m.of \in Class /\ m.n \in Nat \ {0}
BY DEF Member

-----------------------------------------------------------------------------
(***************************************************************************)
(* TrySetBitsize calls itself for classes it has not seen yet.  Its        *)
(* solution is one of the functions that forget no class.                  *)
(***************************************************************************)
Tries == {G \in [Class \X Sizing -> Sizing] :
            \A x \in Class \X Sizing : x[2].seen \subseteq G[x].seen}

LEMMA SizingTypes ==
  ASSUME NEW s \in Sizing
  PROVE  /\ s.bits \in [Class -> Size] /\ s.base \in [Class -> Int]
         /\ s.seen \in SUBSET Class /\ s.errors \in Nat /\ s.mine \in Int /\ s.total \in Int
BY DEF Sizing, Size

\* Another total leaves the rest.
LEMMA FailIs ==
  ASSUME NEW s \in Sizing, NEW n \in Int
  PROVE  /\ Fail(s, n) \in Sizing /\ Fail(s, n).total = n
         /\ Fail(s, n).bits = s.bits /\ Fail(s, n).base = s.base
         /\ Fail(s, n).seen = s.seen /\ Fail(s, n).mine = s.mine
         /\ Fail(s, n).errors = s.errors
BY DEF Fail, Sizing

LEMMA ErrorIs ==
  ASSUME NEW s \in Sizing
  PROVE  LET r == [s EXCEPT !.errors = @ + 1]
         IN  /\ r \in Sizing /\ r.total = s.total /\ r.bits = s.bits /\ r.base = s.base
             /\ r.seen = s.seen /\ r.mine = s.mine
BY DEF Sizing

\* The classes seen so far, and one more.
LEMMA SeenIs ==
  ASSUME NEW t \in Sizing, NEW d \in Class
  PROVE  LET u == [t EXCEPT !.seen = @ \cup {d}]
         IN  /\ u \in Sizing /\ u.seen = t.seen \cup {d} /\ u.bits = t.bits
             /\ u.base = t.base
BY DEF Sizing

\* What is left of an attempt for class d by the class that holds it.
Added(a, tried, d) ==
  /\ a \in Sizing /\ a.seen = tried.seen
  /\ tried.total >= 0 =>
       /\ a.total = tried.total
       /\ a.bits = [tried.bits EXCEPT ![d] = tried.total]
       /\ \/ a.base = [tried.base EXCEPT ![d] = Unknown]
          \/ a.base = [tried.base EXCEPT ![d] = tried.mine]
  /\ tried.total < 0 =>
       a.total < 0 /\ a.bits = tried.bits /\ a.base = tried.base

LEMMA AddMemberIs ==
  ASSUME NEW s, NEW c \in Class, NEW tried \in Sizing, NEW d \in Class
  PROVE  Added(AddMember(s, c, tried, d), tried, d)
<1>1. tried.total \in Int /\ tried.mine \in Int /\ tried.errors \in Nat
  BY SizingTypes
<1>2. CASE tried.total >= 0
  <2>1. AddMember(s, c, tried, d) =
          [tried EXCEPT !.bits[d] = tried.total,
                        !.base[d] = IF c \in prog.unions THEN Unknown ELSE tried.mine]
    BY <1>1, <1>2 DEF AddMember, Cycle
  <2>2. tried.total \in Nat /\ Unknown \in Int
    BY <1>1, <1>2 DEF Unknown
  <2> DEFINE n == IF c \in prog.unions THEN Unknown ELSE tried.mine
  <2>3. n \in Int
    BY <1>1, <2>2
  <2> DEFINE r == [tried EXCEPT !.bits[d] = tried.total, !.base[d] = n]
  <2> HIDE DEF n
  <2>4. /\ r.bits = [tried.bits EXCEPT ![d] = tried.total]
        /\ r.base = [tried.base EXCEPT ![d] = n]
        /\ r.seen = tried.seen /\ r.total = tried.total
        /\ r \in Sizing
    BY <2>2, <2>3 DEF Sizing
  <2> HIDE DEF r
  <2>5. n = Unknown \/ n = tried.mine
    BY DEF n
  <2>6. AddMember(s, c, tried, d) = r
    BY <2>1 DEF r, n
  <2> QED BY <1>1, <1>2, <2>4, <2>5, <2>6 DEF Added
<1>3. CASE tried.total = Cycle
  <2>1. AddMember(s, c, tried, d) = [tried EXCEPT !.total = Unknown, !.errors = @ + 1]
    BY <1>1, <1>3 DEF AddMember, Cycle
  <2> DEFINE r == [tried EXCEPT !.total = Unknown, !.errors = @ + 1]
  <2>2. Unknown \in Int /\ Unknown < 0 /\ Cycle \in Int /\ Cycle < 0 /\ tried.errors + 1 \in Nat
    BY <1>1 DEF Unknown, Cycle
  <2>3. /\ r.total = Unknown /\ r.bits = tried.bits /\ r.base = tried.base
        /\ r.seen = tried.seen /\ r \in Sizing
    BY <1>1, <2>2 DEF Sizing
  <2>4. AddMember(s, c, tried, d) = r
    BY <2>1
  <2> HIDE DEF r
  <2> QED BY <1>3, <2>2, <2>3, <2>4 DEF Added
<1>4. CASE tried.total < 0 /\ tried.total # Cycle
  <2>1. AddMember(s, c, tried, d) = tried
    BY <1>1, <1>4 DEF AddMember
  <2> QED BY <1>1, <1>4, <2>1 DEF Added
<1> QED BY <1>1, <1>2, <1>3, <1>4

\* A class is sized with no class forgotten.
LEMMA ClassSizeType ==
  ASSUME NEW c \in Class, NEW t \in Sizing, NEW d \in Class, NEW G \in Tries
  PROVE  ClassSize(c, t, d, G) \in Sizing /\ t.seen \subseteq ClassSize(c, t, d, G).seen
<1>1. t.bits[d] \in Size /\ t.bits[d] \in Int
  BY SizingTypes DEF Size, Unknown, Cycle
<1>2. CASE t.bits[d] >= 0
  <2>1. ClassSize(c, t, d, G) = Fail(t, t.bits[d])
    BY <1>1, <1>2 DEF ClassSize, Unknown, Cycle
  <2> QED BY <1>1, <2>1, FailIs
<1>3. CASE t.bits[d] = Cycle
  <2>1. ClassSize(c, t, d, G) = [Fail(t, Cycle) EXCEPT !.errors = @ + 1]
    BY <1>3 DEF ClassSize, Unknown, Cycle
  <2>2. Cycle \in Int
    BY DEF Cycle
  <2>3. Fail(t, Cycle) \in Sizing /\ Fail(t, Cycle).seen = t.seen
    BY <2>2, FailIs
  <2> QED BY <2>1, <2>3, ErrorIs
<1>4. CASE t.bits[d] = Unknown /\ d = c
  <2>1. ClassSize(c, t, d, G) = [Fail(t, Unknown) EXCEPT !.errors = @ + 1]
    BY <1>4 DEF ClassSize, Unknown, Cycle
  <2>2. Unknown \in Int
    BY DEF Unknown
  <2>3. Fail(t, Unknown) \in Sizing /\ Fail(t, Unknown).seen = t.seen
    BY <2>2, FailIs
  <2> QED BY <2>1, <2>3, ErrorIs
<1>5. CASE t.bits[d] = Unknown /\ d # c /\ d \in t.seen
  <2>1. ClassSize(c, t, d, G) = [Fail(t, Cycle) EXCEPT !.bits[d] = Cycle, !.errors = @ + 1]
    BY <1>5 DEF ClassSize, Unknown, Cycle
  <2>2. Cycle \in Int
    BY DEF Cycle
  <2>3. Fail(t, Cycle) \in Sizing /\ Fail(t, Cycle).seen = t.seen
    BY <2>2, FailIs
  <2> DEFINE v == Fail(t, Cycle)
             r == [v EXCEPT !.bits[d] = Cycle, !.errors = @ + 1]
  <2>4. v \in Sizing /\ v.errors + 1 \in Nat
    BY <2>3, SizingTypes
  <2> HIDE DEF v
  <2>5. r \in Sizing /\ r.seen = v.seen
    BY <2>4 DEF Sizing
  <2> QED BY <2>1, <2>3, <2>5 DEF v
<1>6. CASE t.bits[d] = Unknown /\ d # c /\ d \notin t.seen
  <2> DEFINE u == [t EXCEPT !.seen = @ \cup {d}]
  <2>1. ClassSize(c, t, d, G) = AddMember(t, c, G[<<d, u>>], d)
    BY <1>6 DEF ClassSize, Unknown, Cycle
  <2>2. u \in Sizing /\ u.seen = t.seen \cup {d}
    BY SeenIs, Zenon
  <2> HIDE DEF u
  <2>3. <<d, u>> \in Class \X Sizing /\ <<d, u>>[2] = u
    BY <2>2
  <2>4. G[<<d, u>>] \in Sizing /\ u.seen \subseteq G[<<d, u>>].seen
    BY <2>3 DEF Tries
  <2> DEFINE w == G[<<d, u>>]
  <2>5. w \in Sizing
    BY <2>4
  <2> HIDE DEF w
  <2>6. Added(AddMember(t, c, w, d), w, d)
    BY <2>5, AddMemberIs
  <2> QED BY <2>1, <2>2, <2>4, <2>6 DEF w, Added
<1> QED BY <1>1, <1>2, <1>3, <1>4, <1>5, <1>6 DEF Size

LEMMA MemberSizeType ==
  ASSUME LabelTypes, NEW c \in Class, NEW t \in Sizing, NEW i \in 1 .. Len(members[c]),
         NEW G \in Tries
  PROVE  MemberSize(c, t, i, G) \in Sizing /\ t.seen \subseteq MemberSize(c, t, i, G).seen
<1> DEFINE m == members[c][i]
<1>1. m \in Member
  BY ProgramTypes
<1> HIDE DEF m
<1>2. \A d \in Class : t.bits[d] \in Int /\ konst[d] \in Int
  BY SizingTypes DEF Size, Unknown, Cycle, LabelTypes
<1>0. \A n \in Int : Fail(t, n) \in Sizing /\ t.seen \subseteq Fail(t, n).seen
  BY FailIs
<1>3. CASE i \notin known[c] /\ m.kind \in {"sizeof", "const", "array"}
  <2>1. MemberSize(c, t, i, G) = Fail(t, Unknown) /\ Unknown \in Int
    BY <1>3 DEF MemberSize, m, Unknown
  <2> QED BY <2>1, <1>0
<1>4. CASE ~ (i \notin known[c] /\ m.kind \in {"sizeof", "const", "array"})
  <2>1. CASE m.kind = "int"
    <3>1. MemberSize(c, t, i, G) = Fail(t, m.n) /\ m.n \in Int
      BY <1>1, <1>4, <2>1, MemberTypes DEF MemberSize, m
    <3> QED BY <3>1, <1>0
  <2>2. CASE m.kind = "sizeof"
    <3>1. MemberSize(c, t, i, G) = Fail(t, t.bits[m.of]) /\ m.of \in Class
      BY <1>1, <1>4, <2>2, MemberTypes DEF MemberSize, m
    <3> QED BY <1>2, <3>1, <1>0
  <2>3. CASE m.kind = "const"
    <3>1. MemberSize(c, t, i, G) = Fail(t, konst[m.of]) /\ m.of \in Class
      BY <1>1, <1>4, <2>3, MemberTypes DEF MemberSize, m
    <3> QED BY <1>2, <3>1, <1>0
  <2>4. CASE m.kind = "array"
    <3>1. /\ MemberSize(c, t, i, G) = Fail(t, m.n * t.bits[m.of])
          /\ m.of \in Class /\ m.n \in Nat
      BY <1>1, <1>4, <2>4, MemberTypes DEF MemberSize, m
    <3>2. m.n * t.bits[m.of] \in Int
      BY <1>2, <3>1
    <3> QED BY <3>1, <3>2, <1>0
  <2>5. CASE m.kind = "class"
    <3>1. MemberSize(c, t, i, G) = ClassSize(c, t, m.of, G) /\ m.of \in Class
      BY <1>1, <1>4, <2>5, MemberTypes DEF MemberSize, m
    <3> QED BY <3>1, ClassSizeType
  <2> QED BY <1>1, <2>1, <2>2, <2>3, <2>4, <2>5, MemberTypes
<1> QED BY <1>3, <1>4

LEMMA AddBitsIs ==
  ASSUME NEW c, NEW t \in Sizing, NEW u \in Sizing
  PROVE  /\ u.total < 0 => AddBits(c, t, u) = u
         /\ u.total >= 0 =>
              \E n \in Int :
                /\ AddBits(c, t, u) = Fail(u, n)
                /\ n = IF c \notin prog.unions THEN t.total + u.total
                       ELSE IF u.total > t.total THEN u.total ELSE t.total
<1>1. t.total \in Int /\ u.total \in Int
  BY SizingTypes
<1>2. CASE u.total < 0
  BY <1>1, <1>2 DEF AddBits, Ends
<1>3. CASE ~ (u.total < 0)
  <2> DEFINE n == IF c \notin prog.unions THEN t.total + u.total
                  ELSE IF u.total > t.total THEN u.total ELSE t.total
  <2>1. n \in Int
    BY <1>1
  <2>2. AddBits(c, t, u) = Fail(u, n)
    BY <1>3 DEF AddBits, Ends
  <2> QED BY <1>3, <2>1, <2>2
<1> QED BY <1>2, <1>3

LEMMA NextSumType ==
  ASSUME LabelTypes, NEW c \in Class, NEW t \in Sizing, NEW i \in 1 .. Len(members[c]),
         NEW G \in Tries
  PROVE  NextSum(c, t, i, G) \in Sizing /\ t.seen \subseteq NextSum(c, t, i, G).seen
<1> DEFINE u == MemberSize(c, t, i, G)
<1>1. u \in Sizing /\ t.seen \subseteq u.seen
  BY MemberSizeType
<1>2. NextSum(c, t, i, G) = IF Ends(t.total) THEN t ELSE AddBits(c, t, u)
  BY DEF NextSum
<1> HIDE DEF u
<1>3. u.total \in Int
  BY <1>1, SizingTypes
<1>4. AddBits(c, t, u) \in Sizing /\ AddBits(c, t, u).seen = u.seen
  <2>1. CASE u.total < 0
    BY <1>1, <2>1, AddBitsIs
  <2>2. CASE u.total >= 0
    <3>1. PICK k \in Int : AddBits(c, t, u) = Fail(u, k)
      BY <1>1, <2>2, AddBitsIs
    <3>2. Fail(u, k) \in Sizing /\ Fail(u, k).seen = u.seen
      BY <1>1, FailIs
    <3> QED BY <3>1, <3>2
  <2> QED BY <1>3, <2>1, <2>2
<1> QED BY <1>1, <1>2, <1>4

\* The sums over the data members of a class.
SumsAre(g, c, s, G) ==
  g = [i \in 0 .. Len(members[c]) |->
         IF i = 0 THEN Fail(s, 0) ELSE NextSum(c, g[i - 1], i, G)]

LEMMA MemberSumsExist ==
  ASSUME LabelTypes, NEW c \in Class, NEW s \in Sizing, NEW G \in Tries
  PROVE  \E g : SumsAre(g, c, s, G)
<1> DEFINE n == Len(members[c])
           F == [x \in (1 .. n) \X Sizing |-> NextSum(c, x[2], x[1], G)]
<1>1. n \in Nat
  BY ProgramTypes
<1>2. ASSUME NEW t \in Sizing, NEW i \in 1 .. n PROVE NextSum(c, t, i, G) \in Sizing
  BY NextSumType
<1>3. F \in [(1 .. n) \X Sizing -> Sizing]
  BY <1>2
<1>4. \A i \in 1 .. n : \A t \in Sizing : F[<<i, t>>] = NextSum(c, t, i, G)
  OBVIOUS
<1>5. Fail(s, 0) \in Sizing
  BY FailIs
<1> HIDE DEF F, n
<1> DEFINE b == Fail(s, 0)
<1> HIDE DEF b
<1>9. PICK g \in [0 .. n -> Sizing] : Recurs(g, n, b, F)
  BY <1>1, <1>3, <1>5, IntervalRecursion DEF b
<1>6. g = [i \in 0 .. n |-> IF i = 0 THEN Fail(s, 0) ELSE F[<<i, g[i - 1]>>]]
  BY <1>9 DEF Recurs, b
<1>7. ASSUME NEW i \in 0 .. n
      PROVE  g[i] = IF i = 0 THEN Fail(s, 0) ELSE NextSum(c, g[i - 1], i, G)
  <2>1. CASE i = 0
    BY <1>6, <2>1
  <2>2. CASE i # 0
    <3>1. i \in 1 .. n /\ i - 1 \in 0 .. n /\ g[i - 1] \in Sizing
      BY <1>1, <2>2
    <3>2. g[i] = F[<<i, g[i - 1]>>]
      BY <1>6, <2>2
    <3> QED BY <1>4, <2>2, <3>1, <3>2
  <2> QED BY <2>1, <2>2
<1>8. SumsAre(g, c, s, G)
  BY <1>6, <1>7 DEF SumsAre, n
<1> QED BY <1>8

LEMMA MemberSumsAre ==
  ASSUME LabelTypes, NEW c \in Class, NEW s \in Sizing, NEW G \in Tries
  PROVE  /\ MemberSums(c, s, G)[0] = Fail(s, 0)
         /\ \A i \in 1 .. Len(members[c]) :
              MemberSums(c, s, G)[i] = NextSum(c, MemberSums(c, s, G)[i - 1], i, G)
         /\ \A i \in 0 .. Len(members[c]) :
              MemberSums(c, s, G)[i] \in Sizing /\ s.seen \subseteq MemberSums(c, s, G)[i].seen
<1> DEFINE n == Len(members[c])
           g == CHOOSE h : SumsAre(h, c, s, G)
<1>1. SumsAre(g, c, s, G)
  BY MemberSumsExist
<1>2. MemberSums(c, s, G) = g
  BY DEF MemberSums, SumsAre
<1> HIDE DEF g
<1>3. n \in Nat /\ 0 \in Nat /\ 0 \in Int
  BY ProgramTypes
<1>4. g[0] = Fail(s, 0) /\ \A i \in 1 .. n : g[i] = NextSum(c, g[i - 1], i, G)
  BY <1>1, <1>3, SMTT(30) DEF SumsAre
<1> HIDE DEF n
<1> DEFINE T == {i \in 0 .. n : g[i] \in Sizing /\ s.seen \subseteq g[i].seen}
<1>5. 0 \in T
  BY <1>3, <1>4, FailIs
<1>6. ASSUME NEW i \in 0 .. n - 1, i \in T PROVE i + 1 \in T
  <2>1. i + 1 \in 1 .. n /\ (i + 1) - 1 = i /\ g[i] \in Sizing
    BY <1>3, <1>6
  <2>2. g[i + 1] = NextSum(c, g[i], i + 1, G)
    BY <1>4, <2>1
  <2>3. g[i + 1] \in Sizing /\ g[i].seen \subseteq g[i + 1].seen
    BY <2>1, <2>2, NextSumType DEF n
  <2> QED BY <1>3, <1>6, <2>1, <2>3
<1>7. 0 .. n \subseteq T
  <2> HIDE DEF T
  <2> QED BY <1>3, <1>5, <1>6, IntervalInduction
<1> QED BY <1>2, <1>4, <1>7 DEF n

\* All the base classes are classes, and in every set that holds the direct
\* ones of c and those of its own elements.
Climbs(g, c) ==
  g = [n \in Nat |-> IF n = 0 THEN ToSet(bases[c])
                     ELSE UNION {{b} \cup ToSet(bases[b]) : b \in g[n - 1]}]

LEMMA ClimbsExist ==
  ASSUME LabelTypes, NEW c \in Class
  PROVE  \E h : Climbs(h, c)
<1>1. \A d \in Class : ToSet(bases[d]) \in SUBSET Class
  BY ProgramTypes
<1> DEFINE Above(S) == UNION {{b} \cup ToSet(bases[b]) : b \in S}
           D == SUBSET Class
           F == [S \in D |-> Above(S)]
           first == ToSet(bases[c])
<1>2. F \in [D -> D] /\ first \in D
  BY <1>1
<1>3. \A S \in D : F[S] = Above(S)
  OBVIOUS
<1> HIDE DEF F, D, first
<1>4. PICK h \in [Nat -> D] : Iterates(h, first, F)
  BY <1>2, Iteration
<1>5. ASSUME NEW n \in Nat
      PROVE  h[n] = IF n = 0 THEN ToSet(bases[c]) ELSE Above(h[n - 1])
  <2>1. CASE n = 0
    BY <1>4, <2>1 DEF Iterates, first
  <2>2. CASE n # 0
    <3>1. n - 1 \in Nat /\ (n - 1) + 1 = n
      BY <2>2
    <3>2. h[n] = F[h[n - 1]] /\ h[n - 1] \in D
      BY <1>4, <3>1 DEF Iterates
    <3> QED BY <1>3, <2>2, <3>2
  <2> QED BY <2>1, <2>2
<1> QED BY <1>4, <1>5 DEF Climbs

LEMMA BaseSetIs ==
  ASSUME LabelTypes, NEW c \in Class
  PROVE  /\ BaseSet(c) \in SUBSET Class /\ IsFiniteSet(BaseSet(c))
         /\ \A S \in SUBSET Class :
              ToSet(bases[c]) \subseteq S /\ (\A b \in S : ToSet(bases[b]) \subseteq S)
              => BaseSet(c) \subseteq S
<1>1. /\ \A d \in Class : ToSet(bases[d]) \in SUBSET Class
      /\ IsFiniteSet(Class) /\ Cardinality(Class) \in Nat
  BY ProgramTypes, FS_CardinalityType
<1> DEFINE g == CHOOSE f : Climbs(f, c)
<1>2. Climbs(g, c)
  BY ClimbsExist
<1>3. BaseSet(c) = g[Cardinality(Class)]
  BY DEF BaseSet, Climbs
<1> HIDE DEF g
<1>4. ASSUME NEW S \in SUBSET Class, ToSet(bases[c]) \subseteq S,
             \A b \in S : ToSet(bases[b]) \subseteq S
      PROVE  \A n \in Nat : g[n] \subseteq S
  <2> DEFINE T == {n \in Nat : g[n] \subseteq S}
  <2>1. 0 \in T
    BY <1>2, <1>4 DEF Climbs
  <2>2. ASSUME NEW n \in Nat, n \in T PROVE n + 1 \in T
    <3>1. g[n + 1] = UNION {{b} \cup ToSet(bases[b]) : b \in g[n]}
      BY <1>2 DEF Climbs
    <3>2. UNION {{b} \cup ToSet(bases[b]) : b \in g[n]} \subseteq S
      BY <1>4, <2>2
    <3> QED BY <3>1, <3>2
  <2>3. Nat \subseteq T
    <3> HIDE DEF T
    <3> QED BY <2>1, <2>2, NumberInduction
  <2> QED BY <2>3
<1>5. BaseSet(c) \in SUBSET Class
  BY <1>1, <1>3, <1>4
<1>6. IsFiniteSet(BaseSet(c))
  BY <1>1, <1>5, FS_Subset
<1> QED BY <1>1, <1>3, <1>4, <1>5, <1>6

\* The bits of the base classes, from a function of the classes.
BasesSum(c, f) == SumFunction([b \in BaseSet(c) |-> f[b]])

LEMMA BasesSumType ==
  ASSUME LabelTypes, NEW c \in Class, NEW f \in [Class -> Int]
  PROVE  /\ BasesSum(c, f) \in Int
         /\ (\A b \in BaseSet(c) : f[b] \in Nat) => BasesSum(c, f) \in Nat
<1> DEFINE S == BaseSet(c)
           g == [b \in S |-> f[b]]
<1>1. S \in SUBSET Class /\ IsFiniteSet(S)
  BY BaseSetIs
<1> HIDE DEF S
<1>2. g \in [S -> Int] /\ \A b \in S : g[b] = f[b]
  BY <1>1
<1>3. BasesSum(c, f) = SumFunction(g)
  BY DEF BasesSum, S
<1> HIDE DEF g
<1>4. SumFunction(g) \in Int /\ ((\A b \in S : g[b] \in Nat) => SumFunction(g) \in Nat)
  BY <1>1, <1>2, SumType
<1> QED BY <1>2, <1>3, <1>4 DEF S

LEMMA AddBasesIs ==
  ASSUME LabelTypes, NEW c \in Class, NEW s \in Sizing
  PROVE  /\ AddBases(c, s) \in Sizing /\ AddBases(c, s).seen = s.seen
         /\ AddBases(c, s).bits = s.bits /\ AddBases(c, s).base = s.base
         /\ \/ AddBases(c, s).total = Unknown
            \/ /\ \A b \in BaseSet(c) : s.base[b] # Unknown
               /\ AddBases(c, s).mine = s.total
               /\ AddBases(c, s).total = s.total + BasesSum(c, s.base)
<1>1. Unknown \in Int
  BY DEF Unknown
<1>2. CASE \E b \in BaseSet(c) : s.base[b] = Unknown
  <2>1. AddBases(c, s) = Fail(s, Unknown)
    BY <1>2 DEF AddBases
  <2>2. /\ Fail(s, Unknown) \in Sizing /\ Fail(s, Unknown).total = Unknown
        /\ Fail(s, Unknown).bits = s.bits /\ Fail(s, Unknown).base = s.base
        /\ Fail(s, Unknown).seen = s.seen
    BY <1>1, FailIs
  <2> QED BY <2>1, <2>2
<1>3. CASE ~ \E b \in BaseSet(c) : s.base[b] = Unknown
  <2> DEFINE n == s.total + BasesSum(c, s.base)
             r == [s EXCEPT !.mine = s.total, !.total = n]
  <2>1. AddBases(c, s) = r
    BY <1>3 DEF AddBases, BasesSum
  <2>2. s.total \in Int /\ s.base \in [Class -> Int]
    BY SizingTypes
  <2>3. n \in Int
    BY <2>2, BasesSumType
  <2> HIDE DEF n
  <2>4. /\ r \in Sizing /\ r.seen = s.seen /\ r.bits = s.bits /\ r.base = s.base
        /\ r.mine = s.total /\ r.total = n
    BY <2>2, <2>3 DEF Sizing
  <2> QED BY <1>3, <2>1, <2>4 DEF n
<1> QED BY <1>2, <1>3

LEMMA SizeOfType ==
  ASSUME LabelTypes, NEW c \in Class, NEW s \in Sizing, NEW G \in Tries
  PROVE  SizeOf(c, s, G) \in Sizing /\ s.seen \subseteq SizeOf(c, s, G).seen
<1> DEFINE n == Len(members[c])
           mine == MemberSums(c, s, G)[n]
<1>1. n \in 0 .. n
  BY ProgramTypes
<1>2. mine \in Sizing /\ s.seen \subseteq mine.seen
  BY <1>1, MemberSumsAre
<1>3. SizeOf(c, s, G) = IF ToSet(bases[c]) \ linked[c] # {} THEN Fail(s, Unknown)
                        ELSE IF mine.total < 0 THEN mine ELSE AddBases(c, mine)
  BY DEF SizeOf
<1> HIDE DEF mine
<1>4. Fail(s, Unknown) \in Sizing /\ Fail(s, Unknown).seen = s.seen
  BY FailIs DEF Unknown
<1>5. AddBases(c, mine) \in Sizing /\ AddBases(c, mine).seen = mine.seen
  BY <1>2, AddBasesIs
<1> QED BY <1>2, <1>3, <1>4, <1>5

\* How many classes an attempt has not seen: less with every call.
Left(s) == Cardinality(Class \ s.seen)

LEMMA LeftIs ==
  ASSUME LabelTypes, NEW s \in Sizing
  PROVE  /\ Left(s) \in Nat /\ Left(s) < Cardinality(Class) + 1
         /\ \A t \in Sizing : s.seen \subseteq t.seen => Left(t) <= Left(s)
         /\ \A t \in Sizing : s.seen \subseteq t.seen /\ s.seen # t.seen => Left(t) < Left(s)
<1>1. IsFiniteSet(Class) /\ Cardinality(Class) \in Nat
  BY ProgramTypes, FS_CardinalityType
<1> DEFINE S == Class \ s.seen
<1>2. IsFiniteSet(S) /\ Cardinality(S) \in Nat /\ Cardinality(S) <= Cardinality(Class)
  BY <1>1, FS_Subset, FS_CardinalityType
<1>3. ASSUME NEW t \in Sizing, s.seen \subseteq t.seen
      PROVE  Left(t) <= Left(s) /\ (s.seen # t.seen => Left(t) < Left(s))
  <2> DEFINE T == Class \ t.seen
  <2>1. T \in SUBSET S /\ (s.seen # t.seen => T # S)
    BY <1>3, SizingTypes
  <2> HIDE DEF S, T
  <2>2. Cardinality(T) <= Cardinality(S) /\ (Cardinality(S) = Cardinality(T) => S = T)
    BY <1>2, <2>1, FS_Subset
  <2>3. Cardinality(T) \in Nat
    BY <1>2, <2>1, FS_Subset, FS_CardinalityType
  <2> QED BY <1>2, <2>1, <2>2, <2>3 DEF Left, S, T
<1>4. Left(s) \in Nat /\ Left(s) < Cardinality(Class) + 1
  BY <1>1, <1>2 DEF Left
<1> QED BY <1>3, <1>4

\* Two attempts that are the same for every call from s.
Same(G, H, s) == \A x \in Class \X Sizing : Left(x[2]) < Left(s) => G[x] = H[x]

LEMMA SameMemberSize ==
  ASSUME LabelTypes, NEW c \in Class, NEW s \in Sizing, NEW t \in Sizing,
         s.seen \subseteq t.seen, NEW i \in 1 .. Len(members[c]),
         NEW G, NEW H, Same(G, H, s)
  PROVE  MemberSize(c, t, i, G) = MemberSize(c, t, i, H)
<1> DEFINE m == members[c][i]
<1>1. m \in Member
  BY ProgramTypes
<1> HIDE DEF m
<1>2. CASE m.kind # "class"
  BY <1>2 DEF MemberSize, m
<1>3. CASE m.kind = "class"
  <2>1. m.of \in Class
    BY <1>1, <1>3, MemberTypes
  <2>2. MemberSize(c, t, i, G) = ClassSize(c, t, m.of, G)
        /\ MemberSize(c, t, i, H) = ClassSize(c, t, m.of, H)
    BY <1>3 DEF MemberSize, m
  <2> DEFINE u == [t EXCEPT !.seen = @ \cup {m.of}]
  <2>3. CASE m.of \in t.seen \/ t.bits[m.of] # Unknown
    BY <2>2, <2>3 DEF ClassSize
  <2>4. CASE m.of \notin t.seen
    <3>1. u \in Sizing /\ u.seen = t.seen \cup {m.of}
      BY <2>1, SeenIs
    <3> HIDE DEF u
    <3>2. Left(u) < Left(s)
      BY <2>1, <2>4, <3>1, LeftIs
    <3>3. <<m.of, u>> \in Class \X Sizing /\ <<m.of, u>>[2] = u
      BY <2>1, <3>1
    <3>4. G[<<m.of, u>>] = H[<<m.of, u>>]
      BY <3>2, <3>3 DEF Same
    <3>5. ClassSize(c, t, m.of, G) = ClassSize(c, t, m.of, H)
      BY <3>4 DEF ClassSize, u
    <3> QED BY <2>2, <3>5
  <2> QED BY <2>3, <2>4
<1> QED BY <1>2, <1>3

LEMMA SameSizeOf ==
  ASSUME LabelTypes, NEW c \in Class, NEW s \in Sizing,
         NEW G \in Tries, NEW H, Same(G, H, s)
  PROVE  SizeOf(c, s, G) = SizeOf(c, s, H)
<1> DEFINE n == Len(members[c])
           g == MemberSums(c, s, G)
           h == CHOOSE f : SumsAre(f, c, s, H)
<1>1. n \in Nat /\ 0 \in Nat
  BY ProgramTypes
<1>2. /\ g[0] = Fail(s, 0)
      /\ \A i \in 1 .. n : g[i] = NextSum(c, g[i - 1], i, G)
      /\ \A i \in 0 .. n : g[i] \in Sizing /\ s.seen \subseteq g[i].seen
  BY MemberSumsAre
<1>3. ASSUME NEW i \in 1 .. n PROVE g[i] = NextSum(c, g[i - 1], i, H)
  <2> HIDE DEF g
  <2>1. i - 1 \in 0 .. n
    BY <1>1
  <2>2. g[i - 1] \in Sizing /\ s.seen \subseteq g[i - 1].seen
    BY <1>2, <2>1
  <2>3. MemberSize(c, g[i - 1], i, G) = MemberSize(c, g[i - 1], i, H)
    BY <2>2, SameMemberSize
  <2>4. NextSum(c, g[i - 1], i, G) = NextSum(c, g[i - 1], i, H)
    BY <2>3 DEF NextSum
  <2> QED BY <1>2, <2>4
<1>4. SumsAre(h, c, s, H)
  <2> DEFINE f == [i \in 0 .. n |-> g[i]]
  <2>1. \A i \in 0 .. n : f[i] = IF i = 0 THEN Fail(s, 0) ELSE NextSum(c, f[i - 1], i, H)
    <3> HIDE DEF g
    <3>1. ASSUME NEW i \in 0 .. n, i # 0
          PROVE  i \in 1 .. n /\ f[i - 1] = g[i - 1] /\ f[i] = g[i]
      BY <1>1, <3>1
    <3> QED BY <1>1, <1>2, <1>3, <3>1
  <2>2. SumsAre(f, c, s, H)
    BY <2>1 DEF SumsAre
  <2> HIDE DEF f
  <2> QED BY <2>2
<1>5. MemberSums(c, s, H) = h
  BY DEF MemberSums, SumsAre
<1> HIDE DEF g, h
<1>6. h[0] = Fail(s, 0) /\ \A i \in 1 .. n : h[i] = NextSum(c, h[i - 1], i, H)
  <2>1. 0 \in 0 .. n /\ \A i \in 1 .. n : i \in 0 .. n /\ i # 0
    BY <1>1
  <2>2. h = [i \in 0 .. n |-> IF i = 0 THEN Fail(s, 0) ELSE NextSum(c, h[i - 1], i, H)]
    BY <1>4 DEF SumsAre
  <2> QED BY <2>1, <2>2
<1> DEFINE T == {i \in 0 .. n : g[i] = h[i]}
<1>7. 0 \in T
  BY <1>1, <1>2, <1>6
<1>8. ASSUME NEW i \in 0 .. n - 1, i \in T PROVE i + 1 \in T
  <2>1. i + 1 \in 1 .. n /\ (i + 1) - 1 = i /\ i \in 0 .. n /\ g[i] = h[i]
    BY <1>1, <1>8
  <2>2. g[i + 1] = h[i + 1]
    BY <1>3, <1>6, <2>1
  <2> QED BY <1>1, <2>1, <2>2
<1>9. 0 .. n \subseteq T
  <2> HIDE DEF T, n
  <2> QED BY <1>1, <1>7, <1>8, IntervalInduction
<1>10. g[n] = h[n]
  BY <1>1, <1>9
<1> QED BY <1>5, <1>10 DEF SizeOf, g

\* TrySetBitsize is the function that its definition says.
LEMMA TryUnfolds ==
  ASSUME LabelTypes
  PROVE  /\ TrySetBitsize \in Tries
         /\ \A c \in Class : \A s \in Sizing :
              TrySetBitsize[<<c, s>>] = SizeOf(c, s, TrySetBitsize)
<1> DEFINE X == Class \X Sizing
           Body(G) == [x \in X |-> SizeOf(x[1], x[2], G)]
           H == [G \in Tries |-> Body(G)]
           mu == [x \in X |-> Left(x[2])]
           N == Cardinality(Class) + 1
<1>1. \A x \in X : x[1] \in Class /\ x[2] \in Sizing
  OBVIOUS
<1>2. ASSUME NEW G \in Tries PROVE Body(G) \in Tries
  <2>1. ASSUME NEW x \in X
        PROVE  SizeOf(x[1], x[2], G) \in Sizing /\ x[2].seen \subseteq SizeOf(x[1], x[2], G).seen
    BY <1>1, SizeOfType
  <2> QED BY <2>1 DEF Tries
<1>3. H \in [Tries -> Tries]
  <2> HIDE DEF Body
  <2> QED BY <1>2
<1>4. mu \in [X -> Nat] /\ N \in Nat /\ Bounded(X, mu, N)
  <2>1. \A x \in X : Left(x[2]) \in Nat /\ Left(x[2]) < N
    BY <1>1, LeftIs
  <2>2. Cardinality(Class) \in Nat
    BY ProgramTypes, FS_CardinalityType
  <2> HIDE DEF X
  <2> QED BY <2>1, <2>2 DEF Bounded
<1>5. ASSUME NEW G \in Tries, NEW K \in Tries, NEW x \in X,
             \A y \in X : mu[y] < mu[x] => G[y] = K[y]
      PROVE  H[G][x] = H[K][x]
  <2>1. Same(G, K, x[2])
    BY <1>5 DEF Same
  <2>2. SizeOf(x[1], x[2], G) = SizeOf(x[1], x[2], K)
    BY <1>1, <2>1, SameSizeOf
  <2> QED BY <2>2
<1>6. Tries \in SUBSET [X -> Sizing] /\ Tries # {}
  <2>1. [x \in X |-> x[2]] \in Tries
    BY DEF Tries
  <2>2. Tries \subseteq [X -> Sizing]
    BY DEF Tries
  <2> QED BY <2>1, <2>2
<1>7. HasSolution(Tries, H)
  <2> HIDE DEF H, mu, X, N
  <2>1. LooksBelow(X, Tries, H, mu)
    BY <1>5 DEF LooksBelow
  <2> QED BY <1>3, <1>4, <1>6, <2>1, MeasuredRecursion, Zenon
<1>8. PICK f \in Tries : f = H[f]
  BY <1>7 DEF HasSolution
<1>9. f = Body(f)
  <2> HIDE DEF Body
  <2> QED BY <1>8
<1>10. TrySetBitsize = Body(TrySetBitsize)
  BY <1>9, Zenon DEF TrySetBitsize
<1>11. \A x \in X : TrySetBitsize[x] = SizeOf(x[1], x[2], TrySetBitsize)
                    /\ f[x] = SizeOf(x[1], x[2], f)
  BY <1>9, <1>10
<1> DEFINE T == {n \in Nat : \A x \in X : Left(x[2]) < n => f[x] = TrySetBitsize[x]}
<1>12. 0 \in T
  <2> HIDE DEF X
  <2> QED BY <1>1, LeftIs
<1>13. ASSUME NEW n \in Nat, n \in T PROVE n + 1 \in T
  <2> SUFFICES ASSUME NEW x \in X, Left(x[2]) < n + 1 PROVE f[x] = TrySetBitsize[x]
    OBVIOUS
  <2>1. x[2] \in Sizing /\ x[1] \in Class
    BY <1>1
  <2>2. Left(x[2]) \in Nat /\ \A y \in X : Left(y[2]) \in Nat
    BY <1>1, LeftIs
  <2>3. Same(f, TrySetBitsize, x[2])
    BY <1>13, <2>2 DEF Same
  <2>4. SizeOf(x[1], x[2], f) = SizeOf(x[1], x[2], TrySetBitsize)
    BY <2>1, <2>3, SameSizeOf
  <2> QED BY <1>11, <2>4
<1>14. Nat \subseteq T
  <2> HIDE DEF T
  <2> QED BY <1>12, <1>13, NumberInduction
<1>15. \A x \in X : f[x] = TrySetBitsize[x]
  <2>1. \A x \in X : Left(x[2]) < N
    BY <1>1, LeftIs
  <2>2. N \in T
    BY <1>4, <1>14
  <2> QED BY <2>1, <2>2
<1>16. TrySetBitsize = f
  <2> HIDE DEF X
  <2>1. TrySetBitsize = [x \in X |-> TrySetBitsize[x]] /\ f = [x \in X |-> f[x]]
    BY <1>9, <1>10
  <2> QED BY <1>15, <2>1
<1>17. TrySetBitsize \in Tries
  BY <1>16
<1>18. ASSUME NEW c \in Class, NEW s \in Sizing
       PROVE  TrySetBitsize[<<c, s>>] = SizeOf(c, s, TrySetBitsize)
  <2>1. <<c, s>> \in X /\ <<c, s>>[1] = c /\ <<c, s>>[2] = s
    OBVIOUS
  <2> QED BY <1>11, <2>1
<1> QED BY <1>17, <1>18

-----------------------------------------------------------------------------
(***************************************************************************)
(* What a class holds, in one step or more: as many steps as there are     *)
(* classes are enough, since each adds a class or is the last.             *)
(***************************************************************************)
Widens(g, c) ==
  g = [n \in Nat |-> IF n = 0 THEN Holds(c) ELSE g[n - 1] \cup UNION {Holds(d) : d \in g[n - 1]}]

LEMMA HoldsType ==
  ASSUME LabelTypes, NEW c \in Class
  PROVE  /\ Holds(c) \in SUBSET Class
         /\ \A i \in 1 .. Len(members[c]) :
              members[c][i].kind = "class" => members[c][i].of \in Holds(c)
<1>1. DOMAIN members[c] = 1 .. Len(members[c])
      /\ \A i \in 1 .. Len(members[c]) : members[c][i] \in Member
  BY ProgramTypes
<1>2. \A m \in ToSet(members[c]) : m \in Member
  BY <1>1 DEF ToSet
<1>3. \A m \in Member : m.kind = "class" => m.of \in Class
  BY MemberTypes
<1>4. Holds(c) \in SUBSET Class
  BY <1>2, <1>3 DEF Holds
<1>5. \A i \in 1 .. Len(members[c]) : members[c][i] \in ToSet(members[c])
  BY <1>1 DEF ToSet
<1> QED BY <1>4, <1>5 DEF Holds

LEMMA WidensExists ==
  ASSUME LabelTypes, NEW c \in Class
  PROVE  \E g \in [Nat -> SUBSET Class] : Widens(g, c)
<1> DEFINE Wider(S) == S \cup UNION {Holds(d) : d \in S}
           D == SUBSET Class
           F == [S \in D |-> Wider(S)]
           first == Holds(c)
<1>1. F \in [D -> D] /\ first \in D
  BY HoldsType
<1>2. \A S \in D : F[S] = Wider(S)
  OBVIOUS
<1> HIDE DEF F, D, first
<1>3. PICK h \in [Nat -> D] : Iterates(h, first, F)
  BY <1>1, Iteration
<1>4. ASSUME NEW n \in Nat PROVE h[n] = IF n = 0 THEN Holds(c) ELSE Wider(h[n - 1])
  <2>1. CASE n = 0
    BY <1>3, <2>1 DEF Iterates, first
  <2>2. CASE n # 0
    <3>1. n - 1 \in Nat /\ (n - 1) + 1 = n
      BY <2>2
    <3>2. h[n] = F[h[n - 1]] /\ h[n - 1] \in D
      BY <1>3, <3>1 DEF Iterates
    <3> QED BY <1>2, <2>2, <3>2
  <2> QED BY <2>1, <2>2
<1>5. Widens(h, c)
  BY <1>3, <1>4 DEF Widens
<1> QED BY <1>3, <1>5 DEF D

LEMMA WidensType ==
  ASSUME LabelTypes, NEW c \in Class, NEW g, Widens(g, c)
  PROVE  /\ \A n \in Nat : g[n] \in SUBSET Class /\ Holds(c) \subseteq g[n]
         /\ \A n \in Nat : g[n + 1] = g[n] \cup UNION {Holds(d) : d \in g[n]}
<1>1. g[0] = Holds(c) /\ \A n \in Nat : g[n + 1] = g[n] \cup UNION {Holds(d) : d \in g[n]}
  BY DEF Widens
<1> DEFINE T == {n \in Nat : g[n] \in SUBSET Class /\ Holds(c) \subseteq g[n]}
<1>2. 0 \in T
  BY <1>1, HoldsType
<1>3. ASSUME NEW n \in Nat, n \in T PROVE n + 1 \in T
  <2>1. \A d \in g[n] : Holds(d) \in SUBSET Class
    BY <1>3, HoldsType
  <2>2. g[n + 1] = g[n] \cup UNION {Holds(d) : d \in g[n]}
    BY <1>1
  <2> QED BY <1>3, <2>1, <2>2
<1>4. Nat \subseteq T
  <2> HIDE DEF T
  <2> QED BY <1>2, <1>3, NumberInduction
<1> QED BY <1>1, <1>4

LEMMA ClosureIsClosed ==
  ASSUME LabelTypes, NEW c \in Class
  PROVE  /\ Closure(Holds, c) \in SUBSET Class /\ Holds(c) \subseteq Closure(Holds, c)
         /\ \A d \in Closure(Holds, c) : Holds(d) \subseteq Closure(Holds, c)
<1> DEFINE g == CHOOSE h : Widens(h, c)
           N == Cardinality(Class)
<1>1. Widens(g, c)
  BY WidensExists
<1>2. Closure(Holds, c) = g[N]
  BY DEF Closure, Widens
<1> HIDE DEF g
<1>3. IsFiniteSet(Class) /\ N \in Nat
  BY ProgramTypes, FS_CardinalityType
<1>4. \A n \in Nat : g[n] \in SUBSET Class /\ Holds(c) \subseteq g[n]
  BY <1>1, WidensType
<1>5. \A n \in Nat : g[n + 1] = g[n] \cup UNION {Holds(d) : d \in g[n]}
  BY <1>1, WidensType
<1>6. \A n \in Nat : IsFiniteSet(g[n]) /\ Cardinality(g[n]) \in Nat
  BY <1>3, <1>4, FS_Subset, FS_CardinalityType
<1> DEFINE T == {n \in Nat : g[n + 1] = g[n] \/ Cardinality(g[n]) >= n}
<1>7. 0 \in T
  BY <1>6
<1>8. ASSUME NEW n \in Nat, n \in T PROVE n + 1 \in T
  <2>1. CASE g[n + 1] = g[n]
    <3>1. n + 1 \in Nat
      OBVIOUS
    <3>2. g[(n + 1) + 1] = g[n + 1] \cup UNION {Holds(d) : d \in g[n + 1]}
      BY <1>5, <3>1
    <3>3. g[(n + 1) + 1] = g[n + 1]
      BY <1>5, <2>1, <3>2
    <3> QED BY <3>1, <3>3
  <2>2. CASE g[n + 1] # g[n]
    <3>1. n + 1 \in Nat /\ Cardinality(g[n]) >= n
      BY <1>8, <2>2
    <3>2. g[n] \in SUBSET g[n + 1]
      BY <1>5
    <3>3. Cardinality(g[n]) <= Cardinality(g[n + 1])
          /\ Cardinality(g[n + 1]) # Cardinality(g[n])
      BY <1>6, <2>2, <3>1, <3>2, FS_Subset
    <3>4. Cardinality(g[n]) \in Nat /\ Cardinality(g[n + 1]) \in Nat
      BY <1>6, <3>1
    <3>5. Cardinality(g[n + 1]) >= n + 1
      BY <3>1, <3>3, <3>4
    <3> QED BY <3>1, <3>5
  <2> QED BY <2>1, <2>2
<1>9. N \in T
  <2> HIDE DEF T
  <2> QED BY <1>3, <1>7, <1>8, NumberInduction
<1>10. CASE g[N + 1] = g[N]
  <2>1. \A d \in g[N] : Holds(d) \subseteq g[N]
    BY <1>3, <1>5, <1>10
  <2> QED BY <1>2, <1>3, <1>4, <2>1
<1>11. CASE Cardinality(g[N]) >= N
  <2>1. Cardinality(g[N]) <= N /\ (Cardinality(Class) = Cardinality(g[N]) => Class = g[N])
    BY <1>3, <1>4, FS_Subset
  <2>2. g[N] = Class
    BY <1>3, <1>6, <1>11, <2>1
  <2> QED BY <1>2, <2>2, HoldsType
<1> QED BY <1>9, <1>10, <1>11

-----------------------------------------------------------------------------
(***************************************************************************)
(* What the data members of a class add up to, from the sizes b and the    *)
(* constants k.                                                            *)
(***************************************************************************)
Constants == [Class -> Nat \cup {Unknown}]

Values(c, b, k) == [i \in 1 .. Len(members[c]) |-> ValueOf(members[c][i], b, k)]

\* The sum so far and one more member: the larger of the two in a union.
Joined(c, x, y) == IF c \notin prog.unions THEN x + y ELSE IF y > x THEN y ELSE x

OwnOf(c, v) == IF \E i \in 1 .. Len(members[c]) : v[i] < 0 THEN Unknown
               ELSE IF c \in prog.unions THEN Max(Range(v)) ELSE SumFunction(v)

LEMMA ValuesType ==
  ASSUME LabelTypes, NEW c \in Class, NEW b \in [Class -> Size], NEW k \in Constants
  PROVE  /\ Len(members[c]) \in Nat /\ Values(c, b, k) \in [1 .. Len(members[c]) -> Int]
         /\ \A i \in 1 .. Len(members[c]) :
              /\ members[c][i] \in Member /\ Values(c, b, k)[i] \in Int
              /\ Values(c, b, k)[i] = ValueOf(members[c][i], b, k)
         /\ OwnBits(c, b, k) = OwnOf(c, Values(c, b, k))
<1>1. /\ Len(members[c]) \in Nat /\ DOMAIN members[c] = 1 .. Len(members[c])
      /\ \A i \in 1 .. Len(members[c]) : members[c][i] \in Member
  BY ProgramTypes
<1>2. \A d \in Class : b[d] \in Int /\ k[d] \in Int
  BY DEF Size, Constants, Unknown, Cycle
<1>3. ASSUME NEW m \in Member PROVE ValueOf(m, b, k) \in Int
  <2>1. CASE m.kind = "int"
    BY <2>1, MemberTypes DEF ValueOf
  <2>2. CASE m.kind = "const"
    BY <1>2, <2>2, MemberTypes DEF ValueOf
  <2>3. CASE m.kind = "array"
    <3>1. m.of \in Class /\ m.n \in Int /\ b[m.of] \in Int
      BY <1>2, <2>3, MemberTypes
    <3>2. m.n * b[m.of] \in Int /\ Unknown \in Int
      BY <3>1 DEF Unknown
    <3> QED BY <2>3, <3>2 DEF ValueOf
  <2>4. CASE m.kind \in {"sizeof", "class"}
    BY <1>2, <2>4, MemberTypes DEF ValueOf
  <2> QED BY <2>1, <2>2, <2>3, <2>4, MemberTypes
<1>4. Values(c, b, k) \in [1 .. Len(members[c]) -> Int]
  BY <1>1, <1>3 DEF Values
<1>5. OwnBits(c, b, k) = OwnOf(c, Values(c, b, k))
  <2> DEFINE v == [i \in DOMAIN members[c] |-> ValueOf(members[c][i], b, k)]
  <2>1. v = Values(c, b, k) /\ DOMAIN v = 1 .. Len(members[c])
    BY <1>1 DEF Values
  <2>2. OwnBits(c, b, k) = IF \E i \in DOMAIN v : v[i] < 0 THEN Unknown
                           ELSE IF c \in prog.unions THEN Max(Range(v)) ELSE SumFunction(v)
    BY DEF OwnBits
  <2> HIDE DEF v
  <2> QED BY <2>1, <2>2 DEF OwnOf
<1>6. \A i \in 1 .. Len(members[c]) : Values(c, b, k)[i] = ValueOf(members[c][i], b, k)
  BY DEF Values
<1> QED BY <1>1, <1>4, <1>5, <1>6

\* Sizes and constants that are there stay the same.
Grows(b, k, b2, k2) ==
  \A d \in Class : /\ b[d] >= 0 => b2[d] = b[d]
                   /\ k[d] # Unknown => k2[d] = k[d]

LEMMA ValueIsStable ==
  ASSUME NEW m \in Member, NEW b \in [Class -> Size], NEW k \in Constants,
         NEW b2 \in [Class -> Size], NEW k2 \in Constants, Grows(b, k, b2, k2),
         ValueOf(m, b, k) >= 0
  PROVE  ValueOf(m, b2, k2) = ValueOf(m, b, k)
<1>2. \A d \in Class : b[d] \in Int /\ k[d] \in Int
  BY DEF Size, Constants, Unknown, Cycle
<1>1. CASE m.kind = "int"
  BY <1>1 DEF ValueOf
<1>3. CASE m.kind = "const"
  <2>1. m.of \in Class
    BY <1>3, MemberTypes
  <2>2. ValueOf(m, b, k) = k[m.of] /\ ValueOf(m, b2, k2) = k2[m.of]
    BY <1>3 DEF ValueOf
  <2>3. k[m.of] # Unknown
    BY <1>2, <2>1, <2>2 DEF Unknown
  <2> QED BY <2>1, <2>2, <2>3 DEF Grows
<1>4. CASE m.kind = "array"
  <2>1. m.of \in Class
    BY <1>4, MemberTypes
  <2>2. /\ ValueOf(m, b, k) = IF b[m.of] < 0 THEN Unknown ELSE m.n * b[m.of]
        /\ ValueOf(m, b2, k2) = IF b2[m.of] < 0 THEN Unknown ELSE m.n * b2[m.of]
    BY <1>4 DEF ValueOf
  <2>3. b[m.of] >= 0
    BY <1>2, <2>1, <2>2 DEF Unknown
  <2> QED BY <2>1, <2>2, <2>3 DEF Grows
<1>5. CASE m.kind \in {"sizeof", "class"}
  <2>1. m.of \in Class
    BY <1>5, MemberTypes
  <2>2. ValueOf(m, b, k) = b[m.of] /\ ValueOf(m, b2, k2) = b2[m.of]
    BY <1>5 DEF ValueOf
  <2> QED BY <2>1, <2>2 DEF Grows
<1> QED BY <1>1, <1>3, <1>4, <1>5, MemberTypes

LEMMA OwnIsStable ==
  ASSUME LabelTypes, NEW c \in Class, NEW b \in [Class -> Size], NEW k \in Constants,
         NEW b2 \in [Class -> Size], NEW k2 \in Constants, Grows(b, k, b2, k2),
         OwnBits(c, b, k) # Unknown
  PROVE  OwnBits(c, b2, k2) = OwnBits(c, b, k)
<1> DEFINE n == Len(members[c])
<1>1. \A i \in 1 .. n : Values(c, b, k)[i] >= 0
  <2>1. \A i \in 1 .. n : Values(c, b, k)[i] \in Int
    BY ValuesType
  <2>2. ~ \E i \in 1 .. n : Values(c, b, k)[i] < 0
    BY ValuesType DEF OwnOf
  <2> QED BY <2>1, <2>2
<1>2. \A i \in 1 .. n : members[c][i] \in Member
                        /\ Values(c, b, k)[i] = ValueOf(members[c][i], b, k)
                        /\ Values(c, b2, k2)[i] = ValueOf(members[c][i], b2, k2)
  BY ValuesType
<1>3. \A i \in 1 .. n : Values(c, b2, k2)[i] = Values(c, b, k)[i]
  BY <1>1, <1>2, ValueIsStable
<1>4. Values(c, b2, k2) = Values(c, b, k)
  BY <1>3 DEF Values
<1> QED BY <1>4, ValuesType

LEMMA OwnType ==
  ASSUME LabelTypes, NEW c \in Class, NEW b \in [Class -> Size], NEW k \in Constants
  PROVE  OwnBits(c, b, k) \in Nat \cup {Unknown}
<1> DEFINE n == Len(members[c])
           v == Values(c, b, k)
<1>1. n \in Nat /\ v \in [1 .. n -> Int]
  BY ValuesType
<1>2. OwnBits(c, b, k) = IF \E i \in 1 .. n : v[i] < 0 THEN Unknown
                         ELSE IF c \in prog.unions THEN Max(Range(v)) ELSE SumFunction(v)
  BY ValuesType DEF OwnOf
<1>3. c \in prog.unions => n # 0
  BY ProgramTypes
<1> HIDE DEF v, n
<1>4. CASE \E i \in 1 .. n : v[i] < 0
  BY <1>2, <1>4
<1>5. CASE \A i \in 1 .. n : v[i] \in Nat
  <2>1. CASE c \notin prog.unions
    <3> DEFINE S == 1 .. n
    <3>1. IsFiniteSet(S) /\ v \in [S -> Int] /\ \A i \in S : v[i] \in Nat
      BY <1>1, <1>5, FS_Interval
    <3> HIDE DEF S
    <3>2. SumFunction(v) \in Nat
      BY <3>1, SumType
    <3> QED BY <1>1, <1>2, <1>5, <2>1, <3>2
  <2>2. CASE c \in prog.unions
    <3>1. n \in Nat \ {0} /\ v \in [1 .. n -> Nat]
      BY <1>1, <1>3, <1>5, <2>2
    <3>2. Max(Range(v)) \in Nat
      BY <3>1, MaxType
    <3> QED BY <1>1, <1>2, <1>5, <2>2, <3>2
  <2> QED BY <2>1, <2>2
<1> QED BY <1>1, <1>4, <1>5

-----------------------------------------------------------------------------
(***************************************************************************)
(* The sizes b and base sizes a are right: what the linked base classes    *)
(* and the known members stand for is there, a size is what the class adds *)
(* up to, no class that has one inherits from itself, and a class that is  *)
(* flagged does hold itself.                                               *)
(***************************************************************************)
OwnOfAll(b, k) == [d \in Class |-> OwnBits(d, b, k)]

WholeSize(c, b, k) == OwnBits(c, b, k) + BasesSum(c, OwnOfAll(b, k))

Linked(c) == ToSet(bases[c]) \subseteq linked[c]

RightFor(c, b, a) ==
  /\ b[c] >= 0 => /\ Linked(c) /\ OwnBits(c, b, konst) # Unknown
                  /\ b[c] = WholeSize(c, b, konst) /\ c \notin BaseSet(c)
  /\ a[c] # Unknown => a[c] = OwnBits(c, b, konst)
  /\ b[c] = Cycle => c \in Closure(Holds, c)
  /\ \A d \in linked[c] : b[d] >= 0 /\ a[d] # Unknown
  /\ \A i \in 1 .. Len(members[c]) : i \in known[c] =>
       /\ members[c][i].kind = "const" => konst[members[c][i].of] # Unknown
       /\ members[c][i].kind \in {"sizeof", "array"} => b[members[c][i].of] >= 0

SizesRight(b, a) ==
  /\ b \in [Class -> Size] /\ a \in [Class -> Int]
  /\ \A c \in Class : RightFor(c, b, a)

LEMMA SameBasesSum ==
  ASSUME NEW c, NEW f, NEW g, \A x \in BaseSet(c) : f[x] = g[x]
  PROVE  BasesSum(c, f) = BasesSum(c, g)
<1>1. [b \in BaseSet(c) |-> f[b]] = [b \in BaseSet(c) |-> g[b]]
  OBVIOUS
<1> QED BY <1>1 DEF BasesSum

\* All the base classes of a class that is linked to the direct ones are
\* complete: those were sized after theirs.
LEMMA LinkedMeansComplete ==
  ASSUME LabelTypes, NEW b, NEW a, SizesRight(b, a), NEW c \in Class, Linked(c)
  PROVE  \A x \in BaseSet(c) : x \in Class /\ b[x] >= 0 /\ a[x] # Unknown
<1> DEFINE S == {x \in Class : b[x] >= 0 /\ a[x] # Unknown}
<1>1. \A x \in Class : Linked(x) => ToSet(bases[x]) \subseteq S
  <2>1. \A x \in Class : linked[x] \in SUBSET Class
    BY DEF LabelTypes
  <2>2. \A x \in Class : \A d \in linked[x] : b[d] >= 0 /\ a[d] # Unknown
    BY DEF SizesRight, RightFor
  <2> QED BY <2>1, <2>2 DEF Linked
<1>2. \A x \in S : Linked(x)
  BY DEF SizesRight, RightFor
<1>3. \A x \in S : ToSet(bases[x]) \subseteq S
  BY <1>1, <1>2
<1>4. ToSet(bases[c]) \subseteq S /\ S \in SUBSET Class
  BY <1>1
<1>5. BaseSet(c) \subseteq S
  <2> HIDE DEF S
  <2> QED BY <1>3, <1>4, BaseSetIs
<1> QED BY <1>5

\* What a class adds up to stays the same.
LEMMA WholeIsStable ==
  ASSUME LabelTypes, NEW b, NEW a, SizesRight(b, a), NEW c \in Class, Linked(c),
         OwnBits(c, b, konst) # Unknown,
         NEW b2 \in [Class -> Size], NEW k2 \in Constants, Grows(b, konst, b2, k2)
  PROVE  /\ OwnBits(c, b2, k2) = OwnBits(c, b, konst)
         /\ WholeSize(c, b2, k2) = WholeSize(c, b, konst)
         /\ WholeSize(c, b, konst) = OwnBits(c, b, konst) + BasesSum(c, a)
         /\ WholeSize(c, b, konst) \in Nat
<1>1. b \in [Class -> Size] /\ a \in [Class -> Int] /\ konst \in Constants
  BY DEF SizesRight, LabelTypes, Constants
<1>2. \A x \in BaseSet(c) : x \in Class /\ a[x] # Unknown
  BY LinkedMeansComplete
<1>3. \A x \in BaseSet(c) : a[x] = OwnBits(x, b, konst)
  BY <1>2 DEF SizesRight, RightFor
<1>4. OwnBits(c, b2, k2) = OwnBits(c, b, konst)
  BY <1>1, OwnIsStable
<1>5. \A x \in BaseSet(c) : OwnBits(x, b2, k2) = OwnBits(x, b, konst)
  BY <1>1, <1>2, <1>3, OwnIsStable
<1>6. \A x \in BaseSet(c) : OwnOfAll(b2, k2)[x] = OwnOfAll(b, konst)[x]
                            /\ OwnOfAll(b, konst)[x] = a[x]
  BY <1>2, <1>3, <1>5 DEF OwnOfAll
<1>7. /\ BasesSum(c, OwnOfAll(b2, k2)) = BasesSum(c, OwnOfAll(b, konst))
      /\ BasesSum(c, OwnOfAll(b, konst)) = BasesSum(c, a)
  BY <1>6, SameBasesSum
<1>8. \A x \in BaseSet(c) : a[x] \in Nat
  BY <1>1, <1>2, <1>3, OwnType
<1>9. BasesSum(c, a) \in Nat
  BY <1>1, <1>8, BasesSumType
<1>10. OwnBits(c, b, konst) \in Nat
  BY <1>1, OwnType
<1> QED BY <1>4, <1>7, <1>9, <1>10 DEF WholeSize

\* The sizes may change to others that are right.
GrownFor(x, b, a, b2, a2) ==
  /\ b[x] >= 0 => b2[x] = b[x]
  /\ \/ b2[x] = b[x]
     \/ b2[x] = Cycle /\ x \in Closure(Holds, x)
     \/ Linked(x) /\ OwnBits(x, b, konst) # Unknown /\ b2[x] = WholeSize(x, b, konst)
  /\ \/ a2[x] = a[x]
     \/ a2[x] = OwnBits(x, b, konst) /\ a2[x] # Unknown
     \/ a2[x] = Unknown /\ b[x] < 0

LEMMA GrownIsRight ==
  ASSUME LabelTypes, NEW b, NEW a, SizesRight(b, a),
         NEW b2 \in [Class -> Size], NEW a2 \in [Class -> Int],
         \A x \in Class : GrownFor(x, b, a, b2, a2)
  PROVE  SizesRight(b2, a2)
<1>1. b \in [Class -> Size] /\ a \in [Class -> Int] /\ konst \in Constants
  BY DEF SizesRight, LabelTypes, Constants
<1>2. Grows(b, konst, b2, konst)
  BY DEF Grows, GrownFor
<1>3. \A d \in Class : b[d] \in Int /\ b2[d] \in Int
  BY <1>1 DEF Size, Unknown, Cycle
<1> SUFFICES ASSUME NEW c \in Class PROVE RightFor(c, b2, a2)
  BY DEF SizesRight
<1>4. RightFor(c, b, a) /\ GrownFor(c, b, a, b2, a2)
  BY DEF SizesRight
<1>5. ASSUME b2[c] >= 0
      PROVE  /\ Linked(c) /\ OwnBits(c, b2, konst) # Unknown
             /\ b2[c] = WholeSize(c, b2, konst) /\ c \notin BaseSet(c)
  <2>1. b2[c] # Cycle
    BY <1>5 DEF Cycle
  <2>2. Linked(c) /\ OwnBits(c, b, konst) # Unknown /\ b2[c] = WholeSize(c, b, konst)
    BY <1>4, <1>5, <2>1 DEF RightFor, GrownFor
  <2>3. c \notin BaseSet(c)
    <3>1. CASE b[c] >= 0
      BY <1>4, <3>1 DEF RightFor
    <3>2. CASE ~ (b[c] >= 0)
      BY <2>2, <3>2, LinkedMeansComplete
    <3> QED BY <3>1, <3>2
  <2> QED BY <1>1, <1>2, <2>2, <2>3, WholeIsStable
<1>6. ASSUME a2[c] # Unknown PROVE a2[c] = OwnBits(c, b2, konst)
  <2>1. a2[c] = OwnBits(c, b, konst)
    BY <1>4, <1>6 DEF RightFor, GrownFor
  <2> QED BY <1>1, <1>2, <1>6, <2>1, OwnIsStable
<1>7. ASSUME b2[c] = Cycle PROVE c \in Closure(Holds, c)
  <2>1. CASE b2[c] = b[c]
    BY <1>4, <1>7, <2>1 DEF RightFor
  <2>2. CASE Linked(c) /\ OwnBits(c, b, konst) # Unknown /\ b2[c] = WholeSize(c, b, konst)
    <3>1. WholeSize(c, b, konst) \in Nat
      BY <1>1, <1>2, <2>2, WholeIsStable
    <3> QED BY <1>7, <2>2, <3>1 DEF Cycle
  <2> QED BY <1>4, <2>1, <2>2 DEF GrownFor
<1>8. ASSUME NEW d \in linked[c] PROVE b2[d] >= 0 /\ a2[d] # Unknown
  <2>1. d \in Class
    BY DEF LabelTypes
  <2>2. b[d] >= 0 /\ a[d] # Unknown
    BY <1>4 DEF RightFor
  <2>3. b2[d] = b[d] /\ a2[d] # Unknown
    <3>1. GrownFor(d, b, a, b2, a2) /\ ~ (b[d] < 0)
      BY <1>3, <2>1, <2>2
    <3> QED BY <2>2, <3>1 DEF GrownFor
  <2> QED BY <2>2, <2>3
<1>9. ASSUME NEW i \in 1 .. Len(members[c]), i \in known[c],
             members[c][i].kind \in {"sizeof", "array"}
      PROVE  b2[members[c][i].of] >= 0
  <2>1. members[c][i] \in Member
    BY ProgramTypes
  <2>2. members[c][i].of \in Class
    BY <1>9, <2>1, MemberTypes
  <2>3. b[members[c][i].of] >= 0
    BY <1>4, <1>9 DEF RightFor
  <2> QED BY <1>2, <2>2, <2>3 DEF Grows
<1>10. \A i \in 1 .. Len(members[c]) : i \in known[c] =>
         (members[c][i].kind = "const" => konst[members[c][i].of] # Unknown)
  BY <1>4 DEF RightFor
<1> QED BY <1>5, <1>6, <1>7, <1>8, <1>9, <1>10 DEF RightFor

-----------------------------------------------------------------------------
(***************************************************************************)
(* One attempt for class c.  It begins with sizes that are right, and each *)
(* class that was seen on the way and has no size holds c.                 *)
(***************************************************************************)
Begins(c, s) ==
  /\ SizesRight(s.bits, s.base) /\ c \in s.seen
  /\ \A x \in s.seen : s.bits[x] = Unknown => x = c \/ c \in Closure(Holds, x)

\* What was known in s still is in t; a class seen before s got no size since.
Extends(s, t) ==
  /\ s.seen \subseteq t.seen
  /\ \A x \in Class : /\ s.bits[x] # Unknown => t.bits[x] = s.bits[x]
                      /\ s.bits[x] >= 0 => t.base[x] = s.base[x]
                      /\ x \in s.seen /\ s.bits[x] = Unknown => t.bits[x] < 0

\* The classes seen since s all have a size.
NewHaveSizes(s, t) == \A x \in t.seen \ s.seen : t.bits[x] >= 0

\* It ends with sizes that are right, that of c among them if there is one.
Settles(c, s, r) ==
  /\ SizesRight(r.bits, r.base) /\ Extends(s, r)
  /\ r.total >= 0 => /\ NewHaveSizes(s, r)
                     /\ Linked(c) /\ OwnBits(c, r.bits, konst) # Unknown
                     /\ r.mine = OwnBits(c, r.bits, konst)
                     /\ r.total = WholeSize(c, r.bits, konst)

\* All the attempts made from t, for classes that it has not seen, are right.
RightBelow(G, t) ==
  \A d \in Class : \A u \in Sizing :
    Left(u) < Left(t) /\ Begins(d, u) => Settles(d, u, G[<<d, u>>])

LEMMA ExtendsFurther ==
  ASSUME NEW s \in Sizing, NEW t \in Sizing, NEW r \in Sizing, Extends(s, t), Extends(t, r)
  PROVE  /\ Extends(s, r)
         /\ NewHaveSizes(s, t) /\ NewHaveSizes(t, r) => NewHaveSizes(s, r)
<1>1. \A x \in Class : s.bits[x] \in Size /\ t.bits[x] \in Size /\ r.bits[x] \in Size
  BY SizingTypes
<1>2. \A n \in Size : n \in Int /\ (n < 0 => n = Unknown \/ n = Cycle)
                      /\ (n >= 0 => n # Unknown)
  BY DEF Size, Unknown, Cycle
<1>3. s.seen \subseteq r.seen
  BY DEF Extends
<1>4. ASSUME NEW x \in Class
      PROVE  /\ s.bits[x] # Unknown => r.bits[x] = s.bits[x]
             /\ s.bits[x] >= 0 => r.base[x] = s.base[x]
             /\ x \in s.seen /\ s.bits[x] = Unknown => r.bits[x] < 0
  <2>1. s.bits[x] # Unknown => r.bits[x] = s.bits[x]
    BY DEF Extends
  <2>2. s.bits[x] >= 0 => r.base[x] = s.base[x]
    BY <1>1, <1>2 DEF Extends
  <2>3. ASSUME x \in s.seen, s.bits[x] = Unknown PROVE r.bits[x] < 0
    <3>1. t.bits[x] < 0 /\ x \in t.seen
      BY <2>3 DEF Extends
    <3>2. CASE t.bits[x] = Unknown
      BY <3>1, <3>2 DEF Extends
    <3>3. CASE t.bits[x] = Cycle
      <4>1. t.bits[x] # Unknown
        BY <3>3 DEF Unknown, Cycle
      <4>2. r.bits[x] = t.bits[x]
        BY <4>1 DEF Extends
      <4> QED BY <3>1, <4>2
    <3> QED BY <1>1, <1>2, <3>1, <3>2, <3>3
  <2> QED BY <2>1, <2>2, <2>3
<1>5. Extends(s, r)
  BY <1>3, <1>4 DEF Extends
<1>6. ASSUME NewHaveSizes(s, t), NewHaveSizes(t, r), NEW x \in r.seen \ s.seen
      PROVE  r.bits[x] >= 0
  <2>1. CASE x \notin t.seen
    BY <1>6, <2>1 DEF NewHaveSizes
  <2>2. CASE x \in t.seen
    <3>1. t.bits[x] >= 0 /\ x \in Class
      BY <1>6, <2>2, SizingTypes DEF NewHaveSizes
    <3>2. t.bits[x] # Unknown
      BY <1>1, <1>2, <3>1
    <3> QED BY <3>1, <3>2 DEF Extends
  <2> QED BY <2>1, <2>2
<1>7. NewHaveSizes(s, t) /\ NewHaveSizes(t, r) => NewHaveSizes(s, r)
  BY <1>6 DEF NewHaveSizes
<1> QED BY <1>5, <1>7

\* What has the same sizes and has seen the same classes is as good.
LEMMA ExtendsSame ==
  ASSUME NEW s \in Sizing, NEW t \in Sizing,
         t.bits = s.bits, t.base = s.base, t.seen = s.seen
  PROVE  /\ Extends(s, t) /\ NewHaveSizes(s, t)
         /\ \A c : Begins(c, s) => Begins(c, t)
BY DEF Extends, NewHaveSizes, Begins, Unknown

\* The attempt can go on from there, too.
LEMMA BeginsAgain ==
  ASSUME LabelTypes, NEW c \in Class, NEW s \in Sizing, NEW t \in Sizing, Begins(c, s),
         Extends(s, t), SizesRight(t.bits, t.base), NewHaveSizes(s, t)
  PROVE  Begins(c, t)
<1>1. \A x \in Class : s.bits[x] \in Size
  BY SizingTypes
<1>2. ASSUME NEW x \in t.seen, t.bits[x] = Unknown PROVE x = c \/ c \in Closure(Holds, x)
  <2>1. x \in s.seen /\ x \in Class
    BY <1>2, SizingTypes DEF NewHaveSizes, Unknown
  <2>2. s.bits[x] = Unknown
    BY <1>2, <2>1 DEF Extends
  <2> QED BY <2>1, <2>2 DEF Begins
<1> QED BY <1>2 DEF Begins, Extends

\* A number is not one of the two flags.
LEMMA SizeFacts ==
  /\ \A n \in Size : n \in Int /\ (n >= 0 \/ n = Unknown \/ n = Cycle)
  /\ Unknown \in Int /\ Cycle \in Int /\ Unknown < 0 /\ Cycle < 0 /\ Unknown # Cycle
BY DEF Size, Unknown, Cycle

\* A class in the middle of an attempt for it, met again: it is flagged.
LEMMA FlagIsRight ==
  ASSUME LabelTypes, NEW c \in Class, NEW t \in Sizing, Begins(c, t), NEW d \in Holds(c),
         d # c, d \in t.seen, t.bits[d] = Unknown, NEW r \in Sizing,
         r.bits = [t.bits EXCEPT ![d] = Cycle], r.base = t.base, r.seen = t.seen
  PROVE  SizesRight(r.bits, r.base) /\ Extends(t, r)
<1>1. d \in Class
  BY HoldsType
<1>2. c \in Closure(Holds, d)
  BY DEF Begins
<1>3. d \in Closure(Holds, d)
  BY <1>1, <1>2, ClosureIsClosed
<1>4. t.bits \in [Class -> Size] /\ r.bits \in [Class -> Size] /\ r.base \in [Class -> Int]
  BY SizingTypes
<1>5. SizesRight(t.bits, t.base)
  BY DEF Begins
<1>6. \A x \in Class : x # d => r.bits[x] = t.bits[x]
  BY <1>4
<1>7. r.bits[d] = Cycle
  BY <1>1, <1>4
<1>8. \A x \in Class : GrownFor(x, t.bits, t.base, r.bits, r.base)
  BY <1>3, <1>6, <1>7, SizeFacts DEF GrownFor
<1>9. SizesRight(r.bits, r.base)
  BY <1>4, <1>5, <1>8, GrownIsRight
<1>10. Extends(t, r)
  BY <1>4, <1>6, <1>7, SizeFacts DEF Extends
<1> QED BY <1>9, <1>10

\* A class that was sized on the way gets its size.
LEMMA AddedIsRight ==
  ASSUME LabelTypes, NEW t \in Sizing, NEW d \in Class, d \notin t.seen, t.bits[d] = Unknown,
         NEW u \in Sizing, u.bits = t.bits, u.base = t.base, u.seen = t.seen \cup {d},
         NEW w \in Sizing, Settles(d, u, w), NEW a, Added(a, w, d)
  PROVE  /\ SizesRight(a.bits, a.base) /\ Extends(t, a)
         /\ a.total >= 0 => a.total = a.bits[d] /\ NewHaveSizes(t, a)
<1>1. a \in Sizing /\ a.seen = w.seen /\ w.total \in Int /\ w.bits \in [Class -> Size]
      /\ w.base \in [Class -> Int] /\ a.bits \in [Class -> Size] /\ a.base \in [Class -> Int]
      /\ a.total \in Int /\ t.bits \in [Class -> Size]
  BY SizingTypes DEF Added
<1>2. SizesRight(w.bits, w.base) /\ Extends(u, w)
  BY DEF Settles
<1>3. w.bits[d] < 0
  BY <1>2 DEF Extends
<1>4. CASE w.total < 0
  <2>1. a.total < 0 /\ a.bits = w.bits /\ a.base = w.base
    BY <1>4 DEF Added
  <2>2. Extends(t, a)
    BY <1>1, <1>2, <2>1 DEF Extends
  <2> QED BY <1>1, <1>2, <2>1, <2>2
<1>5. CASE w.total >= 0
  <2>1. /\ a.total = w.total /\ a.bits = [w.bits EXCEPT ![d] = w.total]
        /\ \/ a.base = [w.base EXCEPT ![d] = Unknown]
           \/ a.base = [w.base EXCEPT ![d] = w.mine]
    BY <1>5 DEF Added
  <2>2. /\ NewHaveSizes(u, w) /\ Linked(d) /\ OwnBits(d, w.bits, konst) # Unknown
        /\ w.mine = OwnBits(d, w.bits, konst) /\ w.total = WholeSize(d, w.bits, konst)
    BY <1>5 DEF Settles
  <2>3. \A x \in Class : x # d => a.bits[x] = w.bits[x] /\ a.base[x] = w.base[x]
    BY <1>1, <2>1
  <2>4. a.bits[d] = w.total /\ (a.base[d] = Unknown \/ a.base[d] = w.mine)
    BY <1>1, <2>1
  <2>5. GrownFor(d, w.bits, w.base, a.bits, a.base)
    BY <1>1, <1>3, <2>2, <2>4, SizeFacts DEF GrownFor
  <2>6. \A x \in Class : GrownFor(x, w.bits, w.base, a.bits, a.base)
    BY <2>3, <2>5 DEF GrownFor
  <2>7. SizesRight(a.bits, a.base)
    BY <1>1, <1>2, <2>6, GrownIsRight
  <2>8. Extends(t, a)
    BY <1>1, <1>2, <2>3, SizeFacts DEF Extends
  <2>9. NewHaveSizes(t, a)
    <3> SUFFICES ASSUME NEW x \in a.seen \ t.seen PROVE a.bits[x] >= 0
      BY DEF NewHaveSizes
    <3>1. CASE x = d
      BY <1>5, <2>4, <3>1
    <3>2. CASE x # d
      BY <1>1, <2>2, <2>3, <3>2, SizingTypes DEF NewHaveSizes
    <3> QED BY <3>1, <3>2
  <2> QED BY <2>1, <2>4, <2>7, <2>8, <2>9
<1> QED BY <1>1, <1>4, <1>5

LEMMA ClassSizeIsRight ==
  ASSUME LabelTypes, NEW c \in Class, NEW t \in Sizing, Begins(c, t), NEW d \in Holds(c),
         NEW G \in Tries, RightBelow(G, t), NEW r, r = ClassSize(c, t, d, G)
  PROVE  /\ SizesRight(r.bits, r.base) /\ Extends(t, r)
         /\ r.total >= 0 => r.total = r.bits[d] /\ NewHaveSizes(t, r)
<1>0. d \in Class /\ r \in Sizing
  BY HoldsType, ClassSizeType
<1>1. t.bits[d] \in Size /\ SizesRight(t.bits, t.base)
  BY <1>0, SizingTypes DEF Begins
<1>2. CASE t.bits[d] >= 0
  <2>1. r = Fail(t, t.bits[d])
    BY <1>1, <1>2, SizeFacts DEF ClassSize
  <2>2. r.bits = t.bits /\ r.base = t.base /\ r.seen = t.seen /\ r.total = t.bits[d]
    <3>1. t.bits[d] \in Int
      BY <1>1, SizeFacts
    <3> QED BY <2>1, <3>1, FailIs
  <2> QED BY <1>0, <1>1, <2>2, ExtendsSame
<1>3. CASE t.bits[d] = Cycle
  <2>1. r = [Fail(t, Cycle) EXCEPT !.errors = @ + 1]
    BY <1>3, SizeFacts DEF ClassSize
  <2>2. /\ Fail(t, Cycle) \in Sizing /\ Fail(t, Cycle).total = Cycle
        /\ Fail(t, Cycle).bits = t.bits /\ Fail(t, Cycle).base = t.base
        /\ Fail(t, Cycle).seen = t.seen
    BY SizeFacts, FailIs
  <2>3. r.bits = t.bits /\ r.base = t.base /\ r.seen = t.seen /\ r.total = Cycle
    BY <2>1, <2>2, ErrorIs
  <2> QED BY <1>0, <1>1, <2>3, ExtendsSame, SizeFacts
<1>4. CASE t.bits[d] = Unknown /\ d = c
  <2>1. r = [Fail(t, Unknown) EXCEPT !.errors = @ + 1]
    BY <1>4, SizeFacts DEF ClassSize
  <2>2. /\ Fail(t, Unknown) \in Sizing /\ Fail(t, Unknown).total = Unknown
        /\ Fail(t, Unknown).bits = t.bits /\ Fail(t, Unknown).base = t.base
        /\ Fail(t, Unknown).seen = t.seen
    BY SizeFacts, FailIs
  <2>3. r.bits = t.bits /\ r.base = t.base /\ r.seen = t.seen /\ r.total = Unknown
    BY <2>1, <2>2, ErrorIs
  <2> QED BY <1>0, <1>1, <2>3, ExtendsSame, SizeFacts
<1>5. CASE t.bits[d] = Unknown /\ d # c /\ d \in t.seen
  <2> DEFINE v == Fail(t, Cycle)
  <2>1. r = [v EXCEPT !.bits[d] = Cycle, !.errors = @ + 1]
    BY <1>5, SizeFacts DEF ClassSize
  <2>2. /\ v \in Sizing /\ v.total = Cycle /\ v.bits = t.bits /\ v.base = t.base
        /\ v.seen = t.seen
    BY SizeFacts, FailIs
  <2> HIDE DEF v
  <2>3. /\ r.bits = [v.bits EXCEPT ![d] = Cycle] /\ r.base = v.base /\ r.seen = v.seen
        /\ r.total = v.total
    BY <2>1, <2>2 DEF Sizing
  <2>4. SizesRight(r.bits, r.base) /\ Extends(t, r)
    BY <1>0, <1>5, <2>2, <2>3, FlagIsRight
  <2> QED BY <2>2, <2>3, <2>4, SizeFacts
<1>6. CASE t.bits[d] = Unknown /\ d # c /\ d \notin t.seen
  <2> DEFINE u == [t EXCEPT !.seen = @ \cup {d}]
  <2>1. r = AddMember(t, c, G[<<d, u>>], d)
    BY <1>6, SizeFacts DEF ClassSize
  <2>2. u \in Sizing /\ u.seen = t.seen \cup {d} /\ u.bits = t.bits /\ u.base = t.base
    BY <1>0, SeenIs, Zenon
  <2> HIDE DEF u
  <2>3. Left(u) < Left(t)
    BY <1>0, <1>6, <2>2, LeftIs
  <2>4. Begins(d, u)
    <3>1. ASSUME NEW x \in u.seen, u.bits[x] = Unknown, x # d PROVE d \in Closure(Holds, x)
      <4>1. x \in t.seen /\ x \in Class
        BY <2>2, <3>1, SizingTypes
      <4>2. CASE x = c
        BY <4>1, <4>2, ClosureIsClosed
      <4>3. CASE c \in Closure(Holds, x)
        BY <4>1, <4>3, ClosureIsClosed
      <4> QED BY <2>2, <3>1, <4>1, <4>2, <4>3 DEF Begins
    <3> QED BY <1>1, <2>2, <3>1 DEF Begins
  <2> DEFINE w == G[<<d, u>>]
  <2>5. Settles(d, u, w)
    BY <1>0, <2>2, <2>3, <2>4 DEF RightBelow
  <2>6. w \in Sizing
    <3>1. <<d, u>> \in Class \X Sizing
      BY <1>0, <2>2
    <3> QED BY <3>1 DEF Tries
  <2> HIDE DEF w
  <2>7. Added(r, w, d)
    BY <1>0, <2>1, <2>6, AddMemberIs DEF w
  <2> QED BY <1>0, <1>6, <2>2, <2>5, <2>6, <2>7, AddedIsRight
<1> QED BY <1>1, <1>2, <1>3, <1>4, <1>5, <1>6, SizeFacts

LEMMA MemberSizeIsRight ==
  ASSUME LabelTypes, NEW c \in Class, NEW t \in Sizing, Begins(c, t),
         NEW i \in 1 .. Len(members[c]), NEW G \in Tries, RightBelow(G, t),
         NEW r, r = MemberSize(c, t, i, G)
  PROVE  /\ SizesRight(r.bits, r.base) /\ Extends(t, r)
         /\ r.total >= 0 => /\ r.total = ValueOf(members[c][i], r.bits, konst)
                            /\ NewHaveSizes(t, r)
<1> DEFINE m == members[c][i]
<1>1. m \in Member /\ r \in Sizing
  BY ProgramTypes, MemberSizeType
<1>2. SizesRight(t.bits, t.base) /\ RightFor(c, t.bits, t.base)
  BY DEF Begins, SizesRight
<1>3. \A d \in Class : t.bits[d] \in Int /\ konst[d] \in Int
  BY SizingTypes, SizeFacts DEF LabelTypes
<1>4. ASSUME NEW n \in Int, r = Fail(t, n), n >= 0 => n = ValueOf(m, t.bits, konst)
      PROVE  /\ SizesRight(r.bits, r.base) /\ Extends(t, r)
             /\ r.total >= 0 => r.total = ValueOf(m, r.bits, konst) /\ NewHaveSizes(t, r)
  <2>1. r.bits = t.bits /\ r.base = t.base /\ r.seen = t.seen /\ r.total = n
    BY <1>4, FailIs
  <2> HIDE DEF m
  <2> QED BY <1>1, <1>2, <1>4, <2>1, ExtendsSame
<1>5. i \in known[c] => /\ m.kind = "const" => konst[m.of] # Unknown
                        /\ m.kind \in {"sizeof", "array"} => t.bits[m.of] >= 0
  BY <1>2 DEF RightFor
<1>6. m.kind = "class" => m.of \in Holds(c)
  BY HoldsType
<1>7. MemberSize(c, t, i, G) =
        IF i \notin known[c] /\ m.kind \in {"sizeof", "const", "array"} THEN Fail(t, Unknown)
        ELSE CASE m.kind = "int" -> Fail(t, m.n)
               [] m.kind = "sizeof" -> Fail(t, t.bits[m.of])
               [] m.kind = "const" -> Fail(t, konst[m.of])
               [] m.kind = "array" -> Fail(t, m.n * t.bits[m.of])
               [] m.kind = "class" -> ClassSize(c, t, m.of, G)
  BY DEF MemberSize
<1> SUFFICES /\ SizesRight(r.bits, r.base) /\ Extends(t, r)
             /\ r.total >= 0 => r.total = ValueOf(m, r.bits, konst) /\ NewHaveSizes(t, r)
  OBVIOUS
<1> HIDE DEF m
<1>8. CASE i \notin known[c] /\ m.kind \in {"sizeof", "const", "array"}
  <2>1. r = Fail(t, Unknown)
    BY <1>7, <1>8
  <2> QED BY <1>4, <2>1, SizeFacts
<1>9. CASE m.kind = "int"
  <2>1. r = Fail(t, m.n) /\ m.n \in Int /\ m.n = ValueOf(m, t.bits, konst)
    BY <1>1, <1>7, <1>9, MemberTypes DEF ValueOf
  <2> QED BY <1>4, <2>1
<1>10. CASE i \in known[c] /\ m.kind = "sizeof"
  <2>1. /\ m.of \in Class /\ r = Fail(t, t.bits[m.of])
        /\ t.bits[m.of] = ValueOf(m, t.bits, konst)
    BY <1>1, <1>7, <1>10, MemberTypes DEF ValueOf
  <2> QED BY <1>3, <1>4, <2>1
<1>11. CASE i \in known[c] /\ m.kind = "const"
  <2>1. m.of \in Class /\ r = Fail(t, konst[m.of]) /\ konst[m.of] = ValueOf(m, t.bits, konst)
    BY <1>1, <1>7, <1>11, MemberTypes DEF ValueOf
  <2> QED BY <1>3, <1>4, <2>1
<1>12. CASE i \in known[c] /\ m.kind = "array"
  <2>1. m.of \in Class /\ m.n \in Int /\ r = Fail(t, m.n * t.bits[m.of])
    BY <1>1, <1>7, <1>12, MemberTypes
  <2>2. ValueOf(m, t.bits, konst) = IF t.bits[m.of] < 0 THEN Unknown ELSE m.n * t.bits[m.of]
    BY <1>12 DEF ValueOf
  <2>3. t.bits[m.of] \in Int /\ t.bits[m.of] >= 0
    BY <1>3, <1>5, <1>12, <2>1
  <2>4. m.n * t.bits[m.of] \in Int /\ m.n * t.bits[m.of] = ValueOf(m, t.bits, konst)
    BY <2>1, <2>2, <2>3
  <2> QED BY <1>4, <2>1, <2>4
<1>13. CASE m.kind = "class"
  <2>1. r = ClassSize(c, t, m.of, G) /\ m.of \in Holds(c)
    BY <1>6, <1>7, <1>13
  <2>2. /\ SizesRight(r.bits, r.base) /\ Extends(t, r)
        /\ r.total >= 0 => r.total = r.bits[m.of] /\ NewHaveSizes(t, r)
    BY <2>1, ClassSizeIsRight
  <2>3. r.bits[m.of] = ValueOf(m, r.bits, konst)
    BY <1>13 DEF ValueOf
  <2> QED BY <2>2, <2>3
<1> QED BY <1>1, <1>8, <1>9, <1>10, <1>11, <1>12, <1>13, MemberTypes

\* One more member was added to the sum t, with its value as it is in r.
Adds(c, t, i, r) ==
  /\ t.total >= 0 /\ ValueOf(members[c][i], r.bits, konst) >= 0
  /\ r.total = Joined(c, t.total, ValueOf(members[c][i], r.bits, konst))

LEMMA NextSumIsRight ==
  ASSUME LabelTypes, NEW c \in Class, NEW t \in Sizing, t.total >= 0 => Begins(c, t),
         SizesRight(t.bits, t.base),
         NEW i \in 1 .. Len(members[c]), NEW G \in Tries, RightBelow(G, t),
         NEW r, r = NextSum(c, t, i, G)
  PROVE  /\ r \in Sizing /\ SizesRight(r.bits, r.base) /\ Extends(t, r)
         /\ r.total >= 0 => Adds(c, t, i, r) /\ NewHaveSizes(t, r)
<1>1. t.total \in Int /\ r \in Sizing
  BY SizingTypes, NextSumType
<1> DEFINE u == MemberSize(c, t, i, G)
<1>2. r = IF t.total < 0 THEN t ELSE AddBits(c, t, u)
  BY DEF NextSum, Ends
<1>3. u \in Sizing
  BY MemberSizeType
<1> HIDE DEF u
<1>4. u.total \in Int
  BY <1>3, SizingTypes
<1>5. CASE t.total < 0
  <2>1. r = t
    BY <1>2, <1>5
  <2> QED BY <1>1, <1>5, <2>1, ExtendsSame
<1>6. CASE t.total >= 0
  <2>1. r = AddBits(c, t, u)
    BY <1>1, <1>2, <1>6
  <2>2. /\ SizesRight(u.bits, u.base) /\ Extends(t, u)
        /\ u.total >= 0 => /\ u.total = ValueOf(members[c][i], u.bits, konst)
                           /\ NewHaveSizes(t, u)
    BY <1>6, MemberSizeIsRight DEF u
  <2>3. CASE u.total < 0
    <3>1. r = u
      BY <1>3, <2>1, <2>3, AddBitsIs
    <3> QED BY <1>1, <1>4, <2>2, <2>3, <3>1
  <2>4. CASE u.total >= 0
    <3>1. PICK k \in Int :
            /\ AddBits(c, t, u) = Fail(u, k)
            /\ k = IF c \notin prog.unions THEN t.total + u.total
                   ELSE IF u.total > t.total THEN u.total ELSE t.total
      BY <1>3, <2>4, AddBitsIs
    <3>5. /\ Fail(u, k).bits = u.bits /\ Fail(u, k).base = u.base
          /\ Fail(u, k).seen = u.seen /\ Fail(u, k).total = k
      BY <1>3, FailIs
    <3>2. r.bits = u.bits /\ r.base = u.base /\ r.seen = u.seen /\ r.total = k
      BY <2>1, <3>1, <3>5
    <3>3. Adds(c, t, i, r)
      BY <1>6, <2>2, <2>4, <3>1, <3>2 DEF Adds, Joined
    <3>4. Extends(t, r) /\ NewHaveSizes(t, r)
      BY <2>2, <2>4, <3>2 DEF Extends, NewHaveSizes
    <3> QED BY <1>1, <2>2, <3>2, <3>3, <3>4
  <2> QED BY <1>4, <2>3, <2>4
<1> QED BY <1>1, <1>5, <1>6

\* The attempts for classes that s has not seen are no less right later.
LEMMA RightBelowLater ==
  ASSUME LabelTypes, NEW s \in Sizing, NEW t \in Sizing, s.seen \subseteq t.seen,
         NEW G, RightBelow(G, s)
  PROVE  RightBelow(G, t)
<1>1. Left(t) <= Left(s) /\ Left(s) \in Nat /\ Left(t) \in Nat
  BY LeftIs
<1>2. \A u \in Sizing : Left(u) \in Nat
  BY LeftIs
<1>3. \A u \in Sizing : Left(u) < Left(t) => Left(u) < Left(s)
  BY <1>1, <1>2
<1> QED BY <1>3 DEF RightBelow

\* The sums g over the first i members, all of them if the last is a number.
SumIsRight(c, s, g, i) ==
  /\ SizesRight(g[i].bits, g[i].base) /\ Extends(s, g[i])
  /\ g[i].total >= 0 => /\ NewHaveSizes(s, g[i])
                        /\ \A j \in 0 .. i : Extends(g[j], g[i])
                        /\ \A j \in 1 .. i : Adds(c, g[j - 1], j, g[j])

LEMMA SumsAreRight ==
  ASSUME LabelTypes, NEW c \in Class, NEW s \in Sizing, Begins(c, s),
         NEW G \in Tries, RightBelow(G, s), NEW g, g = MemberSums(c, s, G)
  PROVE  SumIsRight(c, s, g, Len(members[c]))
<1> DEFINE n == Len(members[c])
<1>1. n \in Nat /\ 0 \in Nat /\ 0 \in Int
  BY ProgramTypes
<1>2. /\ g[0] = Fail(s, 0)
      /\ \A i \in 1 .. n : g[i] = NextSum(c, g[i - 1], i, G)
      /\ \A i \in 0 .. n : g[i] \in Sizing /\ s.seen \subseteq g[i].seen
  BY MemberSumsAre
<1> HIDE DEF n
<1> DEFINE T == {i \in 0 .. n : SumIsRight(c, s, g, i)}
<1>3. 0 \in T
  <2>1. /\ g[0].bits = s.bits /\ g[0].base = s.base /\ g[0].seen = s.seen /\ g[0] \in Sizing
    BY <1>1, <1>2, FailIs
  <2>2. Extends(s, g[0]) /\ NewHaveSizes(s, g[0]) /\ Extends(g[0], g[0])
    BY <2>1, ExtendsSame
  <2>3. SizesRight(g[0].bits, g[0].base)
    BY <2>1 DEF Begins
  <2>4. \A j \in 0 .. 0 : j = 0
    OBVIOUS
  <2>5. \A j \in 1 .. 0 : FALSE
    OBVIOUS
  <2>6. SumIsRight(c, s, g, 0)
    BY <2>2, <2>3, <2>4, <2>5 DEF SumIsRight
  <2> QED BY <1>1, <2>6
<1>4. ASSUME NEW i \in 0 .. n - 1, i \in T PROVE i + 1 \in T
  <2>1. i + 1 \in 1 .. n /\ (i + 1) - 1 = i /\ i \in 0 .. n /\ i + 1 \in 0 .. n
    BY <1>1
  <2> DEFINE t == g[i]
             r == g[i + 1]
  <2>2. t \in Sizing /\ s.seen \subseteq t.seen /\ r = NextSum(c, t, i + 1, G)
    BY <1>2, <2>1
  <2>3. SumIsRight(c, s, g, i)
    BY <1>4
  <2>4. /\ SizesRight(t.bits, t.base) /\ Extends(s, t)
        /\ t.total >= 0 => /\ NewHaveSizes(s, t)
                           /\ \A j \in 0 .. i : Extends(g[j], t)
                           /\ \A j \in 1 .. i : Adds(c, g[j - 1], j, g[j])
    BY <2>3 DEF SumIsRight
  <2> HIDE DEF t, r
  <2>5. t.total >= 0 => Begins(c, t)
    BY <2>2, <2>4, BeginsAgain
  <2>6. RightBelow(G, t)
    BY <2>2, RightBelowLater
  <2>7. /\ r \in Sizing /\ SizesRight(r.bits, r.base) /\ Extends(t, r)
        /\ r.total >= 0 => Adds(c, t, i + 1, r) /\ NewHaveSizes(t, r)
    BY <2>1, <2>2, <2>4, <2>5, <2>6, NextSumIsRight DEF n
  <2>8. Extends(s, r)
    BY <2>2, <2>4, <2>7, ExtendsFurther
  <2>9. ASSUME r.total >= 0
        PROVE  /\ NewHaveSizes(s, r)
               /\ \A j \in 0 .. i + 1 : Extends(g[j], r)
               /\ \A j \in 1 .. i + 1 : Adds(c, g[j - 1], j, g[j])
    <3>1. Adds(c, t, i + 1, r) /\ NewHaveSizes(t, r) /\ t.total >= 0
      BY <2>7, <2>9 DEF Adds
    <3>2. NewHaveSizes(s, r)
      BY <2>2, <2>4, <2>7, <3>1, ExtendsFurther
    <3>3. ASSUME NEW j \in 0 .. i + 1 PROVE Extends(g[j], r)
      <4>1. CASE j = i + 1
        BY <2>7, <4>1, ExtendsSame DEF r
      <4>2. CASE j \in 0 .. i
        <5>1. Extends(g[j], t) /\ g[j] \in Sizing
          BY <1>1, <1>2, <2>4, <3>1, <4>2
        <5> QED BY <2>2, <2>7, <5>1, ExtendsFurther
      <4> QED BY <1>1, <4>1, <4>2
    <3>4. ASSUME NEW j \in 1 .. i + 1 PROVE Adds(c, g[j - 1], j, g[j])
      <4>1. CASE j = i + 1
        BY <2>1, <3>1, <4>1 DEF t, r
      <4>2. CASE j \in 1 .. i
        BY <2>4, <3>1, <4>2
      <4> QED BY <1>1, <4>1, <4>2
    <3> QED BY <3>2, <3>3, <3>4
  <2>10. SumIsRight(c, s, g, i + 1)
    BY <2>7, <2>8, <2>9 DEF SumIsRight, r
  <2> QED BY <2>1, <2>10
<1>5. 0 .. n \subseteq T
  <2> HIDE DEF T
  <2> QED BY <1>1, <1>3, <1>4, IntervalInduction
<1>6. n \in T
  BY <1>1, <1>5
<1> QED BY <1>6 DEF n

\* The last sum is what the members add up to, with the sizes that are known
\* by then.
LEMMA LastSumIs ==
  ASSUME LabelTypes, NEW c \in Class, NEW s \in Sizing,
         NEW G \in Tries, NEW g, g = MemberSums(c, s, G),
         SumIsRight(c, s, g, Len(members[c])), g[Len(members[c])].total >= 0
  PROVE  OwnBits(c, g[Len(members[c])].bits, konst) = g[Len(members[c])].total
<1> DEFINE n == Len(members[c])
           b == g[n].bits
           v == Values(c, b, konst)
           q == [i \in 0 .. n |-> g[i].total]
<1>1. n \in Nat
  BY ProgramTypes
<1>2. g[0] = Fail(s, 0) /\ \A i \in 0 .. n : g[i] \in Sizing
  BY MemberSumsAre
<1>3. /\ \A j \in 0 .. n : Extends(g[j], g[n])
      /\ \A j \in 1 .. n : Adds(c, g[j - 1], j, g[j])
  BY DEF SumIsRight
<1>4. konst \in Constants /\ n \in 0 .. n /\ 0 \in 0 .. n
  BY <1>1 DEF LabelTypes, Constants
<1>5. b \in [Class -> Size] /\ g[n].total \in Int
  BY <1>2, <1>4, SizingTypes
<1>6. /\ v \in [1 .. n -> Int]
      /\ \A i \in 1 .. n : members[c][i] \in Member /\ v[i] \in Int
                           /\ v[i] = ValueOf(members[c][i], b, konst)
      /\ OwnBits(c, b, konst) = OwnOf(c, v)
  BY <1>4, <1>5, ValuesType
<1>7. ASSUME NEW i \in 1 .. n
      PROVE  v[i] >= 0 /\ v[i] = ValueOf(members[c][i], g[i].bits, konst)
  <2>1. i \in 0 .. n /\ g[i] \in Sizing
    BY <1>1, <1>2
  <2>2. g[i].bits \in [Class -> Size] /\ Extends(g[i], g[n])
    BY <1>3, <2>1, SizingTypes
  <2>3. ValueOf(members[c][i], g[i].bits, konst) >= 0
    BY <1>3 DEF Adds
  <2>4. Grows(g[i].bits, konst, b, konst)
    <3>1. \A d \in Class : g[i].bits[d] \in Size
      BY <2>2
    <3> QED BY <2>2, <3>1, SizeFacts DEF Extends, Grows
  <2> HIDE DEF b, v
  <2> QED BY <1>4, <1>5, <1>6, <2>2, <2>3, <2>4, ValueIsStable
<1> HIDE DEF v, b
<1>8. /\ q \in [0 .. n -> Int] /\ q[0] = 0 /\ q[n] = g[n].total
      /\ \A i \in 1 .. n : q[i] = Joined(c, q[i - 1], v[i])
  <2>1. \A i \in 0 .. n : g[i].total \in Int
    BY <1>2, SizingTypes
  <2>2. g[0].total = 0
    BY <1>2, FailIs
  <2>3. ASSUME NEW i \in 1 .. n PROVE q[i] = Joined(c, q[i - 1], v[i])
    <3>1. i \in 0 .. n /\ i - 1 \in 0 .. n
      BY <1>1
    <3>2. g[i].total = Joined(c, g[i - 1].total, v[i])
      BY <1>3, <1>7 DEF Adds
    <3> QED BY <3>1, <3>2
  <2> QED BY <1>4, <2>1, <2>2, <2>3
<1> HIDE DEF q, n
<1>9. OwnOf(c, v) = IF c \in prog.unions THEN Max(Range(v)) ELSE SumFunction(v)
  BY <1>6, <1>7 DEF OwnOf, n
<1>10. CASE c \notin prog.unions
  <2>1. \A i \in 1 .. n : q[i] = q[i - 1] + v[i]
    BY <1>8, <1>10 DEF Joined
  <2>2. SumFunction(v) = q[n]
    BY <1>1, <1>6, <1>8, <2>1, SumOfSequence
  <2> QED BY <1>6, <1>8, <1>9, <1>10, <2>2 DEF b, n
<1>11. CASE c \in prog.unions
  <2>1. \A i \in 1 .. n : q[i] = IF v[i] > q[i - 1] THEN v[i] ELSE q[i - 1]
    BY <1>8, <1>11 DEF Joined
  <2>2. n \in Nat \ {0} /\ v \in [1 .. n -> Nat]
    BY <1>1, <1>6, <1>7, <1>11, ProgramTypes DEF n
  <2>3. Max(Range(v)) = q[n]
    BY <1>8, <2>1, <2>2, MaxOfSequence
  <2> QED BY <1>6, <1>8, <1>9, <1>11, <2>3 DEF b, n
<1> QED BY <1>10, <1>11

LEMMA SizeOfIsRight ==
  ASSUME LabelTypes, NEW c \in Class, NEW s \in Sizing, Begins(c, s),
         NEW G \in Tries, RightBelow(G, s), NEW r, r = SizeOf(c, s, G)
  PROVE  Settles(c, s, r)
<1> DEFINE n == Len(members[c])
           g == MemberSums(c, s, G)
           t == g[n]
<1>1. t \in Sizing
  <2>1. n \in 0 .. n
    BY ProgramTypes
  <2> QED BY <2>1, MemberSumsAre
<1>2. r = IF ~ Linked(c) THEN Fail(s, Unknown) ELSE IF t.total < 0 THEN t ELSE AddBases(c, t)
  BY DEF SizeOf, Linked
<1>3. SumIsRight(c, s, g, n)
  BY SumsAreRight
<1>4. t.total >= 0 => OwnBits(c, t.bits, konst) = t.total
  BY <1>3, LastSumIs
<1>5. /\ SizesRight(t.bits, t.base) /\ Extends(s, t)
      /\ t.total >= 0 => NewHaveSizes(s, t)
  BY <1>3 DEF SumIsRight
<1> HIDE DEF t, g, n
<1>6. t.total \in Int /\ r \in Sizing
  BY <1>1, SizingTypes, SizeOfType
<1>7. CASE ~ Linked(c)
  <2>1. r = Fail(s, Unknown)
    BY <1>2, <1>7
  <2>2. r.bits = s.bits /\ r.base = s.base /\ r.seen = s.seen /\ r.total = Unknown
    BY <2>1, FailIs, SizeFacts
  <2>3. Extends(s, r) /\ SizesRight(r.bits, r.base)
    BY <1>6, <2>2, ExtendsSame DEF Begins
  <2> QED BY <2>2, <2>3, SizeFacts DEF Settles
<1>8. CASE Linked(c) /\ t.total < 0
  BY <1>2, <1>5, <1>6, <1>8 DEF Settles
<1>9. CASE Linked(c) /\ t.total >= 0
  <2>1. r = AddBases(c, t)
    BY <1>2, <1>6, <1>9
  <2>2. /\ r.bits = t.bits /\ r.base = t.base /\ r.seen = t.seen
        /\ \/ r.total = Unknown
           \/ r.mine = t.total /\ r.total = t.total + BasesSum(c, t.base)
    BY <1>1, <2>1, AddBasesIs
  <2>3. Extends(s, r) /\ NewHaveSizes(s, r)
    BY <1>5, <1>9, <2>2 DEF Extends, NewHaveSizes
  <2>4. SizesRight(r.bits, r.base)
    BY <1>5, <2>2
  <2>5. CASE r.total = Unknown
    BY <2>3, <2>4, <2>5, SizeFacts DEF Settles
  <2>6. CASE r.mine = t.total /\ r.total = t.total + BasesSum(c, t.base)
    <3>1. OwnBits(c, t.bits, konst) = t.total /\ t.total # Unknown
      BY <1>4, <1>9, SizeFacts
    <3>2. t.bits \in [Class -> Size] /\ konst \in Constants
      BY <1>1, SizingTypes DEF LabelTypes, Constants
    <3>3. Grows(t.bits, konst, t.bits, konst)
      BY DEF Grows
    <3>4. WholeSize(c, t.bits, konst) = OwnBits(c, t.bits, konst) + BasesSum(c, t.base)
      BY <1>5, <1>9, <3>1, <3>2, <3>3, WholeIsStable
    <3> QED BY <1>9, <2>2, <2>3, <2>4, <2>6, <3>1, <3>4 DEF Settles
  <2> QED BY <2>2, <2>5, <2>6
<1> QED BY <1>6, <1>7, <1>8, <1>9

\* Every attempt is right, by induction on the classes it has not seen.
LEMMA TryIsRight ==
  ASSUME LabelTypes, NEW c \in Class, NEW s \in Sizing, Begins(c, s)
  PROVE  TrySetBitsize[<<c, s>>] \in Sizing /\ Settles(c, s, TrySetBitsize[<<c, s>>])
<1> DEFINE G == TrySetBitsize
           T == {n \in Nat : \A d \in Class : \A u \in Sizing :
                   Left(u) < n /\ Begins(d, u) => Settles(d, u, G[<<d, u>>])}
<1>1. G \in Tries
  BY TryUnfolds
<1>2. \A d \in Class : \A u \in Sizing : G[<<d, u>>] = SizeOf(d, u, G)
  BY TryUnfolds
<1>3. \A u \in Sizing : Left(u) \in Nat
  BY LeftIs
<1> HIDE DEF G
<1>4. 0 \in T
  BY <1>3
<1>5. ASSUME NEW n \in Nat, n \in T PROVE n + 1 \in T
  <2> SUFFICES ASSUME NEW d \in Class, NEW u \in Sizing, Left(u) < n + 1, Begins(d, u)
               PROVE  Settles(d, u, G[<<d, u>>])
    OBVIOUS
  <2>1. RightBelow(G, u)
    <3>1. \A w \in Sizing : Left(w) < Left(u) => Left(w) < n
      BY <1>3
    <3> QED BY <1>5, <3>1 DEF RightBelow
  <2> QED BY <1>1, <1>2, <2>1, SizeOfIsRight
<1>6. Nat \subseteq T
  <2> HIDE DEF T
  <2> QED BY <1>4, <1>5, NumberInduction
<1>7. Left(s) + 1 \in T /\ Left(s) < Left(s) + 1
  <2> HIDE DEF T
  <2>1. Left(s) \in Nat
    BY <1>3
  <2> QED BY <1>6, <2>1
<1>8. Settles(c, s, G[<<c, s>>])
  BY <1>7
<1>9. G[<<c, s>>] \in Sizing
  <2>1. <<c, s>> \in Class \X Sizing
    OBVIOUS
  <2> QED BY <1>1, <2>1 DEF Tries
<1> QED BY <1>8, <1>9 DEF G

-----------------------------------------------------------------------------
(***************************************************************************)
(* The inductive invariant of the rounds.                                  *)
(***************************************************************************)
RoundsInv ==
  /\ LabelTypes /\ errors \in Nat /\ at \in Nat /\ infcounter \in Nat
  /\ SizesRight(bits, base)

\* The operators depend on the state only through the program.
LEMMA SameProgram ==
  ASSUME prog' = prog
  PROVE  /\ bases' = bases /\ members' = members
         /\ \A c : BaseSet(c)' = BaseSet(c) /\ Closure(Holds, c)' = Closure(Holds, c)
                   /\ OwnBits(c, bits, konst)' = OwnBits(c, bits', konst')
                   /\ WholeSize(c, bits, konst)' = WholeSize(c, bits', konst')
<1>1. bases' = bases /\ members' = members
  BY DEF bases, members
<1>2. ASSUME NEW c PROVE BaseSet(c)' = BaseSet(c)
  BY DEF BaseSet, bases
<1>3. ASSUME NEW c PROVE Closure(Holds, c)' = Closure(Holds, c)
  BY DEF Closure, Holds, members
<1>4. ASSUME NEW c PROVE OwnBits(c, bits, konst)' = OwnBits(c, bits', konst')
  BY DEF OwnBits, members
<1>5. ASSUME NEW c PROVE WholeSize(c, bits, konst)' = WholeSize(c, bits', konst')
  <2>1. OwnOfAll(bits, konst)' = OwnOfAll(bits', konst')
    BY <1>4 DEF OwnOfAll
  <2>2. BasesSum(c, OwnOfAll(bits, konst))' = BasesSum(c, OwnOfAll(bits', konst'))
    BY <1>2, <2>1 DEF BasesSum
  <2> QED BY <1>4, <2>2 DEF WholeSize
<1> QED BY <1>1, <1>2, <1>3, <1>4, <1>5

LEMMA RightAfter ==
  ASSUME prog' = prog, bits' \in [Class -> Size], base' \in [Class -> Int],
         \A c \in Class :
           /\ bits'[c] >= 0 => /\ ToSet(bases[c]) \subseteq linked'[c]
                               /\ OwnBits(c, bits', konst') # Unknown
                               /\ bits'[c] = WholeSize(c, bits', konst')
                               /\ c \notin BaseSet(c)
           /\ base'[c] # Unknown => base'[c] = OwnBits(c, bits', konst')
           /\ bits'[c] = Cycle => c \in Closure(Holds, c)
           /\ \A d \in linked'[c] : bits'[d] >= 0 /\ base'[d] # Unknown
           /\ \A i \in 1 .. Len(members[c]) : i \in known'[c] =>
                /\ members[c][i].kind = "const" => konst'[members[c][i].of] # Unknown
                /\ members[c][i].kind \in {"sizeof", "array"} => bits'[members[c][i].of] >= 0
  PROVE  SizesRight(bits, base)'
<1>1. ASSUME NEW c \in Class PROVE RightFor(c, bits, base)'
  BY SameProgram DEF RightFor, Linked
<1> QED BY <1>1 DEF SizesRight

LEMMA RightKept ==
  ASSUME prog' = prog, UNCHANGED labels, SizesRight(bits', base')
  PROVE  SizesRight(bits, base)'
<1>1. linked' = linked /\ known' = known /\ konst' = konst
  BY DEF labels
<1> QED BY <1>1, RightAfter DEF SizesRight, RightFor, Linked

LEMMA RoundsInit == InitSizes => RoundsInv
<1> SUFFICES ASSUME InitSizes PROVE RoundsInv
  OBVIOUS
<1>1. /\ prog \in Programs /\ errors = 0 /\ at = 1 /\ infcounter = 0
      /\ bits = [c \in Class |-> Unknown] /\ base = bits
      /\ linked = [c \in Class |-> {}] /\ known = [c \in Class |-> {}]
      /\ konst = [c \in Class |-> Unknown]
  BY DEF InitSizes
<1>2. LabelTypes
  BY <1>1 DEF LabelTypes
<1>3. bits \in [Class -> Size] /\ base \in [Class -> Int]
  BY <1>1, SizeFacts DEF Size
<1>4. ASSUME NEW c \in Class PROVE RightFor(c, bits, base)
  <2>1. /\ bits[c] = Unknown /\ base[c] = Unknown /\ linked[c] = {} /\ known[c] = {}
    BY <1>1
  <2> QED BY <2>1, SizeFacts DEF RightFor
<1> QED BY <1>1, <1>2, <1>3, <1>4 DEF RoundsInv, SizesRight

\* A class is sized: the sizes are right, and those that were there remain.
LEMMA SetBitSizeIsRight ==
  ASSUME RoundsInv, NEW v \in Class, SetBitSize(v)
  PROVE  /\ prog' = prog /\ errors' \in Nat /\ SizesRight(bits', base')
         /\ \A x \in Class : bits[x] >= 0 =>
              /\ bits'[x] = bits[x]
              /\ base[x] # Unknown => base'[x] # Unknown
         /\ lost' # {} \/ (bits'[v] >= 0 /\ base'[v] # Unknown)
<1>1. LabelTypes /\ errors \in Nat /\ SizesRight(bits, base) /\ prog' = prog
  BY DEF RoundsInv, SetBitSize
<1>2. bits \in [Class -> Size] /\ base \in [Class -> Int]
  BY <1>1 DEF SizesRight
<1>3. CASE IsComplete(v)
  <2>1. bits' = bits /\ base' = base /\ errors' = errors
    BY <1>3 DEF SetBitSize
  <2> QED BY <1>1, <1>3, <2>1 DEF IsComplete
<1>4. CASE ~ IsComplete(v)
  <2> DEFINE s == [bits |-> bits, base |-> base, seen |-> {v}, errors |-> errors,
                   mine |-> 0, total |-> 0]
             r == TrySetBitsize[<<v, s>>]
  <2>1. /\ errors' = IF r.total = Cycle THEN r.errors + 1 ELSE r.errors
        /\ bits' = IF r.total < 0 THEN r.bits ELSE [r.bits EXCEPT ![v] = r.total]
        /\ base' = IF r.total < 0 THEN r.base ELSE [r.base EXCEPT ![v] = r.mine]
        /\ r.total < 0 => lost' = lost \cup {v}
    BY <1>4 DEF SetBitSize
  <2>2. s \in Sizing
    BY <1>1, <1>2 DEF Sizing, Size
  <2>3. s.bits = bits /\ s.base = base /\ s.seen = {v}
    OBVIOUS
  <2> HIDE DEF s
  <2>4. Begins(v, s)
    BY <1>1, <2>3 DEF Begins
  <2>5. r \in Sizing /\ Settles(v, s, r)
    BY <1>1, <2>2, <2>4, TryIsRight
  <2> HIDE DEF r
  <2>6. /\ r.bits \in [Class -> Size] /\ r.base \in [Class -> Int] /\ r.errors \in Nat
        /\ r.total \in Int /\ r.mine \in Int
    BY <2>5, SizingTypes
  <2>7. SizesRight(r.bits, r.base) /\ Extends(s, r)
    BY <2>5 DEF Settles
  <2>8. \A x \in Class : bits[x] >= 0 => r.bits[x] = bits[x] /\ r.base[x] = base[x]
    <3>1. \A x \in Class : bits[x] >= 0 => bits[x] # Unknown
      BY SizeFacts
    <3> QED BY <2>3, <2>7, <3>1 DEF Extends
  <2>9. errors' \in Nat
    BY <2>1, <2>6
  <2>10. CASE r.total < 0
    <3>1. bits' = r.bits /\ base' = r.base /\ lost' # {}
      BY <2>1, <2>10
    <3> QED BY <1>1, <2>7, <2>8, <2>9, <3>1
  <2>11. CASE r.total >= 0
    <3>1. bits' = [r.bits EXCEPT ![v] = r.total] /\ base' = [r.base EXCEPT ![v] = r.mine]
      BY <2>1, <2>6, <2>11
    <3>2. /\ Linked(v) /\ OwnBits(v, r.bits, konst) # Unknown
          /\ r.mine = OwnBits(v, r.bits, konst) /\ r.total = WholeSize(v, r.bits, konst)
      BY <2>5, <2>11 DEF Settles
    <3>3. bits' \in [Class -> Size] /\ base' \in [Class -> Int]
      BY <2>6, <2>11, <3>1 DEF Size
    <3>4. /\ \A x \in Class : x # v => bits'[x] = r.bits[x] /\ base'[x] = r.base[x]
          /\ bits'[v] = r.total /\ base'[v] = r.mine
      BY <2>6, <3>1
    <3>5. r.bits[v] >= 0 => r.bits[v] = r.total
      BY <2>7, <3>2 DEF SizesRight, RightFor
    <3>6. \A x \in Class : GrownFor(x, r.bits, r.base, bits', base')
      BY <3>2, <3>4, <3>5 DEF GrownFor
    <3>7. SizesRight(bits', base')
      BY <1>1, <2>7, <3>3, <3>6, GrownIsRight
    <3>8. ASSUME NEW x \in Class, bits[x] >= 0
          PROVE  bits'[x] = bits[x] /\ (base[x] # Unknown => base'[x] # Unknown)
      <4>1. r.bits[x] = bits[x] /\ r.base[x] = base[x]
        BY <2>8, <3>8
      <4> QED BY <3>2, <3>4, <3>5, <3>8, <4>1
    <3>9. bits'[v] >= 0 /\ base'[v] # Unknown
      BY <2>11, <3>2, <3>4
    <3> QED BY <1>1, <2>9, <3>7, <3>8, <3>9
  <2> QED BY <2>6, <2>10, <2>11
<1> QED BY <1>3, <1>4

\* A class is labelled: what it takes note of is there.
LEMMA LabelIsRight ==
  ASSUME RoundsInv, NEW v \in Class, NEW moreWaits \in Nat, NEW moreErrors \in Nat,
         Label(v, moreWaits, moreErrors)
  PROVE  /\ errors' \in Nat /\ LabelTypes' /\ SizesRight(bits, base)'
         /\ \A c \in Class : konst[c] # Unknown => konst'[c] = konst[c]
         /\ \A c \in Class : linked[c] \subseteq linked'[c]
<1> DEFINE k == ConstantOf(v)
           holders == ToSet(bases[v]) \ linked[v]
           incomplete == {b \in holders : ~ IsComplete(b)}
           hazy == DOMAIN members[v] \ KnownAfter(v)
           waits == Cardinality(incomplete) + Cardinality(hazy) + (IF k = Unknown THEN 1 ELSE 0)
                      + moreWaits
<1>1. /\ linked' = [linked EXCEPT ![v] = @ \cup (holders \ incomplete)]
      /\ konst' = [konst EXCEPT ![v] = k]
      /\ known' = [known EXCEPT ![v] = KnownAfter(v)]
      /\ errors' = errors + moreErrors + (IF waitMode THEN 0 ELSE waits)
      /\ prog' = prog /\ bits' = bits /\ base' = base
  BY DEF Label, sizes
<1>2. LabelTypes /\ errors \in Nat /\ SizesRight(bits, base)
  BY DEF RoundsInv
<1>3. /\ prog \in Programs /\ linked \in [Class -> SUBSET Class]
      /\ known \in [Class -> SUBSET Nat] /\ konst \in Constants
  BY <1>2 DEF LabelTypes, Constants
<1>4. holders \in SUBSET Class /\ IsFiniteSet(incomplete)
  <2>1. holders \in SUBSET Class /\ incomplete \in SUBSET Class /\ IsFiniteSet(Class)
    BY <1>2, ProgramTypes
  <2> HIDE DEF incomplete, holders
  <2> QED BY <2>1, FS_Subset
<1>5. DOMAIN members[v] = 1 .. Len(members[v]) /\ Len(members[v]) \in Nat
  BY <1>2, ProgramTypes
<1>6. IsFiniteSet(hazy)
  <2>1. IsFiniteSet(1 .. Len(members[v])) /\ hazy \in SUBSET (1 .. Len(members[v]))
    BY <1>5, FS_Interval
  <2> HIDE DEF hazy
  <2> QED BY <2>1, FS_Subset
<1>7. k \in Nat \cup {Unknown} /\ (konst[v] # Unknown => k = konst[v])
  <2>1. prog.konst[v] \in Constant
    BY <1>2, ProgramTypes
  <2>2. \/ prog.konst[v].kind = "literal" /\ prog.konst[v].n \in Nat
        \/ prog.konst[v].kind = "from" /\ prog.konst[v].of \in Class
    BY <2>1 DEF Constant
  <2>3. \A d \in Class : konst[d] \in Nat \cup {Unknown}
    BY <1>3 DEF Constants
  <2> QED BY <2>2, <2>3 DEF ConstantOf
<1>8. \A d \in holders \ incomplete : d \in Class /\ bits[d] >= 0 /\ base[d] # Unknown
  BY <1>4 DEF IsComplete
<1>9. \A i \in KnownAfter(v) \ known[v] :
        /\ i \in DOMAIN members[v]
        /\ members[v][i].kind = "const" => konst'[members[v][i].of] # Unknown
        /\ members[v][i].kind \in {"sizeof", "array"} => bits[members[v][i].of] >= 0
  <2> SUFFICES ASSUME NEW i \in KnownAfter(v) \ known[v]
               PROVE  /\ i \in DOMAIN members[v]
                      /\ members[v][i].kind = "const" => konst'[members[v][i].of] # Unknown
                      /\ members[v][i].kind \in {"sizeof", "array"} =>
                           bits[members[v][i].of] >= 0
    OBVIOUS
  <2>1. i \in Resolved(v, k)
    BY DEF KnownAfter
  <2> DEFINE m == members[v][i]
  <2>2. /\ i \in DOMAIN members[v]
        /\ \/ m.kind = "int"
           \/ m.kind \in {"sizeof", "array", "class"} /\ IsComplete(m.of)
           \/ m.kind = "const" /\ (IF m.of = v THEN k ELSE konst[m.of]) # Unknown
    BY <2>1 DEF Resolved
  <2>3. m \in Member
    BY <1>2, <1>5, <2>2, ProgramTypes
  <2> HIDE DEF m, k
  <2>4. m.kind = "const" => konst'[m.of] # Unknown
    <3>1. CASE m.kind = "const"
      <4>1. m.of \in Class
        BY <2>3, <3>1, MemberTypes
      <4>2. konst'[m.of] = IF m.of = v THEN k ELSE konst[m.of]
        BY <1>1, <1>3, <4>1 DEF Constants
      <4> QED BY <2>2, <3>1, <4>2
    <3> QED BY <3>1
  <2>5. m.kind \in {"sizeof", "array"} => bits[m.of] >= 0
    BY <2>2 DEF IsComplete
  <2> QED BY <2>2, <2>4, <2>5 DEF m
<1>10. KnownAfter(v) \in SUBSET Nat
  <2>1. known[v] \in SUBSET Nat
    BY <1>3
  <2> QED BY <1>5, <1>9, <2>1
<1>11. waits \in Nat
  <2>1. Cardinality(incomplete) \in Nat /\ Cardinality(hazy) \in Nat
    BY <1>4, <1>6, FS_CardinalityType
  <2> HIDE DEF incomplete, hazy, k
  <2> QED BY <2>1
<1> HIDE DEF waits, incomplete, holders, hazy, k
<1>12. errors' \in Nat
  BY <1>1, <1>2, <1>11
<1>13. konst' \in Constants /\ linked' \in [Class -> SUBSET Class]
       /\ known' \in [Class -> SUBSET Nat]
  BY <1>1, <1>3, <1>4, <1>7, <1>10 DEF Constants
<1>14. LabelTypes'
  BY <1>1, <1>3, <1>13 DEF LabelTypes, Constants
<1>15. \A c \in Class : konst[c] # Unknown => konst'[c] = konst[c]
  BY <1>1, <1>3, <1>7 DEF Constants
<1>16. \A c \in Class : linked[c] \subseteq linked'[c]
  BY <1>1, <1>3
<1>17. bits \in [Class -> Size] /\ base \in [Class -> Int]
  BY <1>2 DEF SizesRight
<1>18. Grows(bits, konst, bits, konst')
  BY <1>15 DEF Grows
<1>19. SizesRight(bits, base)'
  <2>0. bits' \in [Class -> Size] /\ base' \in [Class -> Int]
    BY <1>1, <1>17
  <2> SUFFICES ASSUME NEW c \in Class
        PROVE
           /\ bits'[c] >= 0 => /\ ToSet(bases[c]) \subseteq linked'[c]
                               /\ OwnBits(c, bits', konst') # Unknown
                               /\ bits'[c] = WholeSize(c, bits', konst')
                               /\ c \notin BaseSet(c)
           /\ base'[c] # Unknown => base'[c] = OwnBits(c, bits', konst')
           /\ bits'[c] = Cycle => c \in Closure(Holds, c)
           /\ \A d \in linked'[c] : bits'[d] >= 0 /\ base'[d] # Unknown
           /\ \A i \in 1 .. Len(members[c]) : i \in known'[c] =>
                /\ members[c][i].kind = "const" => konst'[members[c][i].of] # Unknown
                /\ members[c][i].kind \in {"sizeof", "array"} => bits'[members[c][i].of] >= 0
    BY <1>1, <2>0, RightAfter
  <2>1. RightFor(c, bits, base)
    BY <1>2 DEF SizesRight
  <2>2. ASSUME bits[c] >= 0
        PROVE  /\ ToSet(bases[c]) \subseteq linked'[c]
               /\ OwnBits(c, bits, konst') # Unknown
               /\ bits[c] = WholeSize(c, bits, konst') /\ c \notin BaseSet(c)
    <3>1. /\ Linked(c) /\ OwnBits(c, bits, konst) # Unknown
          /\ bits[c] = WholeSize(c, bits, konst) /\ c \notin BaseSet(c)
      BY <2>1, <2>2 DEF RightFor
    <3>2. /\ OwnBits(c, bits, konst') = OwnBits(c, bits, konst)
          /\ WholeSize(c, bits, konst') = WholeSize(c, bits, konst)
      BY <1>2, <1>13, <1>17, <1>18, <3>1, WholeIsStable
    <3> QED BY <1>16, <3>1, <3>2 DEF Linked
  <2>3. ASSUME base[c] # Unknown PROVE base[c] = OwnBits(c, bits, konst')
    <3>1. base[c] = OwnBits(c, bits, konst)
      BY <2>1, <2>3 DEF RightFor
    <3> QED BY <1>2, <1>3, <1>13, <1>17, <1>18, <2>3, <3>1, OwnIsStable
  <2>4. \A d \in linked'[c] : bits[d] >= 0 /\ base[d] # Unknown
    <3>1. linked'[c] = IF c = v THEN linked[c] \cup (holders \ incomplete) ELSE linked[c]
      BY <1>1, <1>3
    <3> QED BY <1>8, <2>1, <3>1 DEF RightFor
  <2>5. ASSUME NEW i \in 1 .. Len(members[c]), i \in known'[c]
        PROVE  /\ members[c][i].kind = "const" => konst'[members[c][i].of] # Unknown
               /\ members[c][i].kind \in {"sizeof", "array"} => bits[members[c][i].of] >= 0
    <3>1. CASE i \in known[c]
      <4>1. /\ members[c][i].kind = "const" => konst[members[c][i].of] # Unknown
            /\ members[c][i].kind \in {"sizeof", "array"} => bits[members[c][i].of] >= 0
        BY <2>1, <3>1 DEF RightFor
      <4>2. members[c][i].kind = "const" => members[c][i].of \in Class
        BY <1>2, ProgramTypes, MemberTypes
      <4> QED BY <1>15, <4>1, <4>2
    <3>2. CASE i \notin known[c]
      <4>1. c = v /\ i \in KnownAfter(v) \ known[v]
        BY <1>1, <1>3, <2>5, <3>2
      <4> QED BY <1>9, <4>1
    <3> QED BY <3>1, <3>2
  <2>6. bits[c] = Cycle => c \in Closure(Holds, c)
    BY <2>1 DEF RightFor
  <2> QED BY <1>1, <2>2, <2>3, <2>4, <2>5, <2>6
<1> QED BY <1>12, <1>14, <1>15, <1>16, <1>19

LEMMA RoundsNext == RoundsInv /\ [SizingNext]_vars => RoundsInv'
<1> SUFFICES ASSUME RoundsInv, [SizingNext]_vars PROVE RoundsInv'
  OBVIOUS
<1>1. /\ LabelTypes /\ errors \in Nat /\ at \in Nat /\ infcounter \in Nat
      /\ SizesRight(bits, base) /\ at + 1 \in Nat /\ infcounter + 1 \in Nat
  BY DEF RoundsInv

<1>2. ASSUME prog' = prog, bits' = bits, base' = base, UNCHANGED labels
      PROVE  LabelTypes' /\ SizesRight(bits, base)'
  <2>1. LabelTypes'
    BY <1>1, <1>2 DEF LabelTypes, labels
  <2>2. SizesRight(bits', base')
    BY <1>1, <1>2
  <2> QED BY <1>2, <2>1, <2>2, RightKept
<1>3. ASSUME NEW v \in Class, SetBitSize(v) PROVE RoundsInv'
  <2>1. errors' \in Nat /\ SizesRight(bits', base') /\ prog' = prog
    BY <1>3, SetBitSizeIsRight
  <2>2. UNCHANGED labels /\ infcounter' = infcounter /\ at' = at + 1
    BY <1>3 DEF SetBitSize
  <2>3. LabelTypes'
    BY <1>1, <2>1, <2>2 DEF LabelTypes, labels
  <2>4. SizesRight(bits, base)'
    BY <2>1, <2>2, RightKept
  <2> QED BY <1>1, <2>1, <2>2, <2>3, <2>4 DEF RoundsInv
<1>4. ASSUME NEW v \in Class, NEW moreWaits \in Nat, NEW moreErrors \in Nat,
             Label(v, moreWaits, moreErrors)
      PROVE  RoundsInv'
  <2>1. errors' \in Nat /\ LabelTypes' /\ SizesRight(bits, base)'
    BY <1>4, LabelIsRight
  <2>2. infcounter' = infcounter /\ at' = at + 1
    BY <1>4 DEF Label
  <2> QED BY <1>1, <2>1, <2>2 DEF RoundsInv
<1>5. CASE EndSizing
  BY <1>1, <1>2, <1>5 DEF EndSizing, sizes, RoundsInv
<1>6. CASE EndFirstLabelling
  BY <1>1, <1>2, <1>6 DEF EndFirstLabelling, StartRound, sizes, RoundsInv
<1>7. CASE EndRound
  <2>1. /\ infcounter' = infcounter + 1 /\ prog' = prog /\ UNCHANGED <<sizes, labels>>
        /\ \/ at' = 1 /\ errors' = 0
           \/ at' = at /\ errors' = errors
    BY <1>7 DEF EndRound, StartRound
  <2> QED BY <1>1, <1>2, <2>1 DEF sizes, RoundsInv
<1>8. ASSUME NEW waits \in Nat, NEW moreErrors \in Nat, EndPasses(waits, moreErrors)
      PROVE  RoundsInv'
  <2>1. moreErrors + (IF infcounter < prog.limit THEN 0 ELSE waits) \in Nat
    OBVIOUS
  <2>2. /\ infcounter' = infcounter /\ at' = at /\ prog' = prog /\ UNCHANGED <<sizes, labels>>
        /\ errors' \in Nat
    BY <1>1, <1>8, <2>1 DEF EndPasses
  <2> QED BY <1>1, <1>2, <2>2 DEF sizes, RoundsInv
<1>9. CASE UNCHANGED vars
  BY <1>1, <1>2, <1>9 DEF vars, loop, sizes, labels, RoundsInv
<1> QED BY <1>3, <1>4, <1>5, <1>6, <1>7, <1>8, <1>9 DEF SizingNext

\* Whatever the program and however many classes and rounds: the sizes that
\* the rounds have found so far are right.
THEOREM RoundsInvariance == SizingSpec => []RoundsInv
<1> QED BY RoundsInit, RoundsNext, PTL DEF SizingSpec

-----------------------------------------------------------------------------
\* A size is that of the data members, each once, and of the base classes,
\* each once on however many paths it is inherited, as getTotalSymbolSize and
\* determineSharedBasesAndTotalBitsize are meant to add them up, from the
\* moment that the class has a size.
THEOREM SizesAreRight == SizingSpec => []SizesAddUp
<1>1. RoundsInv => SizesAddUp
  <2> SUFFICES ASSUME RoundsInv, NEW c \in Class
               PROVE  /\ bits[c] >= 0 =>
                           /\ OwnBits(c, bits, konst) # Unknown
                           /\ bits[c] = OwnBits(c, bits, konst) +
                                SumFunction([b \in BaseSet(c) |-> OwnBits(b, bits, konst)])
                      /\ base[c] # Unknown => base[c] = OwnBits(c, bits, konst)
    BY DEF SizesAddUp
  <2>1. LabelTypes /\ RightFor(c, bits, base)
    BY DEF RoundsInv, SizesRight
  <2>2. BaseSet(c) \in SUBSET Class
    BY <2>1, BaseSetIs
  <2>3. [b \in BaseSet(c) |-> OwnOfAll(bits, konst)[b]]
          = [b \in BaseSet(c) |-> OwnBits(b, bits, konst)]
    BY <2>2 DEF OwnOfAll
  <2> QED BY <2>1, <2>3 DEF RightFor, WholeSize, BasesSum
<1> QED BY <1>1, RoundsInvariance, PTL

\* What determineSharedBasesAndTotalBitsize asserts of the shared base classes
\* holds: once a class is linked to its direct base classes, all of them are
\* complete, the ones further up too.
THEOREM BasesComplete == SizingSpec => []BasesAreComplete
<1>1. RoundsInv => BasesAreComplete
  <2> SUFFICES ASSUME RoundsInv, NEW c \in Class,
                      \A i \in DOMAIN bases[c] : bases[c][i] \in linked[c]
               PROVE  \A b \in BaseSet(c) : IsComplete(b)
    BY DEF BasesAreComplete
  <2>1. LabelTypes /\ SizesRight(bits, base)
    BY DEF RoundsInv
  <2>2. Linked(c)
    BY DEF Linked, ToSet
  <2>3. \A x \in BaseSet(c) : x \in Class /\ bits[x] >= 0 /\ base[x] # Unknown
    BY <2>1, <2>2, LinkedMeansComplete
  <2> QED BY <2>3 DEF IsComplete
<1> QED BY <1>1, RoundsInvariance, PTL

\* CYCLEFLAG is never set for a class that does not contain itself.
THEOREM FlagsAreTrue == SizingSpec => []CycleFlagsAreTrue
<1>1. RoundsInv => CycleFlagsAreTrue
  BY DEF RoundsInv, SizesRight, RightFor, CycleFlagsAreTrue
<1> QED BY <1>1, RoundsInvariance, PTL

\* What a pass has found, another class may have used: it never changes.
THEOREM NothingIsForgotten == SizingSpec => KnownStaysKnown
<1> DEFINE Kept == \A c \in Class : /\ bits[c] >= 0 => bits'[c] = bits[c]
                                    /\ IsComplete(c) => IsComplete(c)'
                                    /\ konst[c] # Unknown => konst'[c] = konst[c]
                                    /\ linked[c] \subseteq linked'[c]
<1>1. RoundsInv /\ [SizingNext]_vars => Kept
  <2> SUFFICES ASSUME RoundsInv, [SizingNext]_vars PROVE Kept
    OBVIOUS
  <2>1. ASSUME bits' = bits, base' = base, UNCHANGED labels PROVE Kept
    BY <2>1 DEF IsComplete, labels
  <2>2. ASSUME NEW v \in Class, SetBitSize(v) PROVE Kept
    <3>1. \A x \in Class : bits[x] >= 0 =>
            bits'[x] = bits[x] /\ (base[x] # Unknown => base'[x] # Unknown)
      BY <2>2, SetBitSizeIsRight
    <3>2. konst' = konst /\ linked' = linked
      BY <2>2 DEF SetBitSize, labels
    <3> QED BY <3>1, <3>2 DEF IsComplete
  <2>3. ASSUME NEW v \in Class, NEW moreWaits \in Nat, NEW moreErrors \in Nat,
               Label(v, moreWaits, moreErrors)
        PROVE  Kept
    <3>1. /\ \A c \in Class : konst[c] # Unknown => konst'[c] = konst[c]
          /\ \A c \in Class : linked[c] \subseteq linked'[c]
      BY <2>3, LabelIsRight
    <3>2. bits' = bits /\ base' = base
      BY <2>3 DEF Label, sizes
    <3> QED BY <3>1, <3>2 DEF IsComplete
  <2>4. CASE \/ EndSizing \/ EndFirstLabelling \/ EndRound
             \/ \E waits, moreErrors \in Nat : EndPasses(waits, moreErrors)
             \/ UNCHANGED vars
    <3>1. bits' = bits /\ base' = base /\ UNCHANGED labels
      BY <2>4 DEF EndSizing, EndFirstLabelling, EndRound, StartRound, EndPasses, vars, sizes
    <3> QED BY <2>1, <3>1
  <2> HIDE DEF Kept
  <2> QED BY <2>2, <2>3, <2>4 DEF SizingNext
<1>2. RoundsInv /\ [SizingNext]_vars => [Kept]_vars
  BY <1>1
<1> QED BY <1>2, RoundsInvariance, PTL DEF SizingSpec, KnownStaysKnown

-----------------------------------------------------------------------------
\* The base classes of a class are those of its base classes, too.
LEMMA BaseSetIsClosed ==
  ASSUME LabelTypes, NEW c \in Class
  PROVE  /\ ToSet(bases[c]) \subseteq BaseSet(c)
         /\ \A b \in BaseSet(c) : ToSet(bases[b]) \subseteq BaseSet(c)
         /\ \A b \in BaseSet(c) : BaseSet(b) \subseteq BaseSet(c)
<1> DEFINE g == CHOOSE f : Climbs(f, c)
           N == Cardinality(Class)
<1>1. Climbs(g, c)
  BY ClimbsExist
<1>2. BaseSet(c) = g[N]
  BY DEF BaseSet, Climbs
<1> HIDE DEF g
<1>3. /\ IsFiniteSet(Class) /\ N \in Nat
      /\ \A d \in Class : ToSet(bases[d]) \in SUBSET Class
  BY ProgramTypes, FS_CardinalityType
<1>4. g[0] = ToSet(bases[c])
  BY <1>1 DEF Climbs
<1>5. \A n \in Nat : g[n + 1] = UNION {{b} \cup ToSet(bases[b]) : b \in g[n]}
  <2> SUFFICES ASSUME NEW n \in Nat
               PROVE  g[n + 1] = UNION {{b} \cup ToSet(bases[b]) : b \in g[n]}
    OBVIOUS
  <2>1. n + 1 \in Nat /\ n + 1 # 0 /\ (n + 1) - 1 = n
    OBVIOUS
  <2> QED BY <1>1, <2>1 DEF Climbs
<1>6. \A n \in Nat : g[n] \in SUBSET Class /\ ToSet(bases[c]) \subseteq g[n]
  <2> DEFINE T == {n \in Nat : g[n] \in SUBSET Class /\ ToSet(bases[c]) \subseteq g[n]}
  <2>1. 0 \in T
    BY <1>3, <1>4
  <2>2. ASSUME NEW n \in Nat, n \in T PROVE n + 1 \in T
    BY <1>3, <1>5, <2>2
  <2>3. Nat \subseteq T
    <3> HIDE DEF T
    <3> QED BY <2>1, <2>2, NumberInduction
  <2> QED BY <2>3
<1>7. ASSUME NEW n \in Nat PROVE g[n] \subseteq g[n + 1]
  <2>1. g[n + 1] = UNION {{b} \cup ToSet(bases[b]) : b \in g[n]}
    BY <1>5
  <2> QED BY <2>1
<1>8. \A n \in Nat : IsFiniteSet(g[n]) /\ Cardinality(g[n]) \in Nat
  BY <1>3, <1>6, FS_Subset, FS_CardinalityType
<1> DEFINE T == {n \in Nat : g[n + 1] = g[n] \/ Cardinality(g[n]) >= n}
<1>9. 0 \in T
  BY <1>8
<1>10. ASSUME NEW n \in Nat, n \in T PROVE n + 1 \in T
  <2>1. n + 1 \in Nat
    OBVIOUS
  <2>2. CASE g[n + 1] = g[n]
    <3>1. g[(n + 1) + 1] = g[n + 1]
      BY <1>5, <2>1, <2>2
    <3> QED BY <2>1, <3>1
  <2>3. CASE g[n + 1] # g[n]
    <3>1. Cardinality(g[n]) >= n
      BY <1>10, <2>3
    <3>2. g[n] \in SUBSET g[n + 1]
      BY <1>7
    <3>3. Cardinality(g[n]) <= Cardinality(g[n + 1])
          /\ Cardinality(g[n + 1]) # Cardinality(g[n])
      BY <1>8, <2>1, <2>3, <3>2, FS_Subset
    <3>4. Cardinality(g[n]) \in Nat /\ Cardinality(g[n + 1]) \in Nat
      BY <1>8, <2>1
    <3>5. Cardinality(g[n + 1]) >= n + 1
      BY <3>1, <3>3, <3>4
    <3> QED BY <2>1, <3>5
  <2> QED BY <2>2, <2>3
<1>11. N \in T
  <2> HIDE DEF T
  <2> QED BY <1>3, <1>9, <1>10, NumberInduction
<1>12. \A b \in g[N] : ToSet(bases[b]) \subseteq g[N]
  <2>1. CASE g[N + 1] = g[N]
    BY <1>3, <1>5, <2>1
  <2>2. CASE Cardinality(g[N]) >= N
    <3>1. Cardinality(g[N]) <= N /\ (Cardinality(Class) = Cardinality(g[N]) => Class = g[N])
      BY <1>3, <1>6, FS_Subset
    <3>2. g[N] = Class
      BY <1>3, <1>8, <2>2, <3>1
    <3> QED BY <1>3, <3>2
  <2> QED BY <1>11, <2>1, <2>2
<1>13. /\ ToSet(bases[c]) \subseteq BaseSet(c)
       /\ \A b \in BaseSet(c) : ToSet(bases[b]) \subseteq BaseSet(c)
  BY <1>2, <1>3, <1>6, <1>12
<1>14. ASSUME NEW b \in BaseSet(c) PROVE BaseSet(b) \subseteq BaseSet(c)
  <2>1. BaseSet(c) \in SUBSET Class /\ b \in Class
    BY BaseSetIs
  <2>2. /\ ToSet(bases[b]) \subseteq BaseSet(c)
        /\ \A d \in BaseSet(c) : ToSet(bases[d]) \subseteq BaseSet(c)
    BY <1>13
  <2> QED BY <2>1, <2>2, BaseSetIs
<1> QED BY <1>13, <1>14

-----------------------------------------------------------------------------
\* A finite set of numbers is the range of one ascending sequence.
Ascends(s, S) ==
  /\ s \in [1 .. Cardinality(S) -> S]
  /\ \A i, j \in 1 .. Cardinality(S) : i < j => s[i] < s[j]

\* A finite set of integers has a greatest one.
LEMMA GreatestNumber ==
  ASSUME NEW S \in SUBSET Int, IsFiniteSet(S), S # {}
  PROVE  Max(S) \in S /\ \A x \in S : x <= Max(S)
<1> DEFINE T == {n \in Nat : \A U \in SUBSET S : Cardinality(U) = n /\ U # {} =>
                               \E x \in U : \A y \in U : x >= y}
<1>1. \A U \in SUBSET S : IsFiniteSet(U) /\ Cardinality(U) \in Nat
  BY FS_Subset, FS_CardinalityType
<1>2. 0 \in T
  <2>1. \A U \in SUBSET S : Cardinality(U) = 0 => U = {}
    BY <1>1, FS_EmptySet
  <2> QED BY <2>1
<1>3. ASSUME NEW n \in Nat, n \in T PROVE n + 1 \in T
  <2> SUFFICES ASSUME NEW U \in SUBSET S, Cardinality(U) = n + 1, U # {}
               PROVE  \E x \in U : \A y \in U : x >= y
    OBVIOUS
  <2>1. PICK z \in U : TRUE
    OBVIOUS
  <2>2. U \ {z} \in SUBSET S /\ Cardinality(U \ {z}) = n
    <3>1. IsFiniteSet(U)
      BY <1>1
    <3>2. Cardinality(U \ {z}) = Cardinality(U) - 1
      BY <2>1, <3>1, FS_RemoveElement
    <3> QED BY <3>2
  <2>3. CASE U \ {z} = {}
    BY <2>1, <2>3
  <2>4. CASE U \ {z} # {}
    <3>1. PICK x \in U \ {z} : \A y \in U \ {z} : x >= y
      BY <1>3, <2>2, <2>4
    <3>2. CASE z >= x
      <4>1. \A y \in U : z >= y
        BY <2>1, <3>1, <3>2
      <4> QED BY <4>1
    <3>3. CASE ~ (z >= x)
      <4>1. \A y \in U : x >= y
        BY <2>1, <3>1, <3>3
      <4> QED BY <4>1
    <3> QED BY <3>2, <3>3
  <2> QED BY <2>3, <2>4
<1>4. Nat \subseteq T
  <2> HIDE DEF T
  <2> QED BY <1>2, <1>3, NumberInduction
<1>5. \E x \in S : \A y \in S : x >= y
  BY <1>1, <1>4
<1>6. Max(S) \in S /\ \A y \in S : Max(S) >= y
  BY <1>5 DEF Max
<1> QED BY <1>6

\* A finite set of numbers can be put in order.
LEMMA AscendingExists ==
  ASSUME NEW S \in SUBSET Nat, IsFiniteSet(S)
  PROVE  \E s : Ascends(s, S)
<1> DEFINE T == {n \in Nat : \A U \in SUBSET S : Cardinality(U) = n => \E s : Ascends(s, U)}
<1>1. \A U \in SUBSET S : IsFiniteSet(U) /\ Cardinality(U) \in Nat
  BY FS_Subset, FS_CardinalityType
<1>2. 0 \in T
  <2> SUFFICES ASSUME NEW U \in SUBSET S, Cardinality(U) = 0 PROVE \E s : Ascends(s, U)
    OBVIOUS
  <2>1. U = {} /\ 1 .. 0 = {}
    BY <1>1, FS_EmptySet
  <2>2. Ascends([i \in 1 .. 0 |-> 0], U)
    BY <2>1 DEF Ascends
  <2> QED BY <2>2
<1>3. ASSUME NEW n \in Nat, n \in T PROVE n + 1 \in T
  <2> SUFFICES ASSUME NEW U \in SUBSET S, Cardinality(U) = n + 1 PROVE \E s : Ascends(s, U)
    OBVIOUS
  <2>1. U # {} /\ U \in SUBSET Int /\ IsFiniteSet(U)
    BY <1>1, FS_EmptySet
  <2> DEFINE m == Max(U)
             V == U \ {m}
  <2>2. m \in U /\ \A x \in U : x <= m
    BY <2>1, GreatestNumber, Zenon
  <2> HIDE DEF m
  <2>3. V \in SUBSET S /\ Cardinality(V) = n
    <3>1. Cardinality(V) = Cardinality(U) - 1
      BY <2>1, <2>2, FS_RemoveElement
    <3>2. V \in SUBSET S
      OBVIOUS
    <3> HIDE DEF V, T
    <3> QED BY <3>1, <3>2
  <2>4. \A x \in V : x < m
    BY <2>1, <2>2
  <2>5. PICK s : Ascends(s, V)
    BY <1>3, <2>3
  <2> DEFINE r == [i \in 1 .. n + 1 |-> IF i = n + 1 THEN m ELSE s[i]]
  <2>6. s \in [1 .. n -> V] /\ \A i, j \in 1 .. n : i < j => s[i] < s[j]
    BY <2>3, <2>5 DEF Ascends
  <2> HIDE DEF V
  <2>7. V \subseteq U
    BY DEF V
  <2>8. \A i \in 1 .. n + 1 : i \in 1 .. n \/ i = n + 1
    OBVIOUS
  <2>9. r \in [1 .. n + 1 -> U]
    BY <2>2, <2>6, <2>7, <2>8
  <2>10. ASSUME NEW i \in 1 .. n + 1, NEW j \in 1 .. n + 1, i < j PROVE r[i] < r[j]
    <3>1. i \in 1 .. n /\ i # n + 1
      BY <2>10
    <3>2. r[i] = s[i] /\ s[i] \in V
      BY <2>6, <3>1
    <3>3. CASE j = n + 1
      BY <2>4, <3>2, <3>3
    <3>4. CASE j # n + 1
      <4>1. j \in 1 .. n /\ r[j] = s[j]
        BY <3>4
      <4> QED BY <2>6, <2>10, <3>1, <3>2, <4>1
    <3> QED BY <3>3, <3>4
  <2> HIDE DEF r
  <2>11. Ascends(r, U)
    BY <2>9, <2>10 DEF Ascends
  <2> QED BY <2>11
<1>4. Nat \subseteq T
  <2> HIDE DEF T
  <2> QED BY <1>2, <1>3, NumberInduction
<1>5. S \in SUBSET S /\ Cardinality(S) \in Nat
  BY <1>1
<1> QED BY <1>4, <1>5

\* The order of a finite set has each of its members once.
LEMMA AscendingIs ==
  ASSUME NEW S \in SUBSET Nat, IsFiniteSet(S)
  PROVE  /\ Cardinality(S) \in Nat /\ Ascending(S) \in [1 .. Cardinality(S) -> S]
         /\ \A x \in S : \E i \in 1 .. Cardinality(S) : Ascending(S)[i] = x
         /\ \A i, j \in 1 .. Cardinality(S) : i # j => Ascending(S)[i] # Ascending(S)[j]
<1> DEFINE n == Cardinality(S)
           s == Ascending(S)
<1>1. n \in Nat
  BY FS_CardinalityType
<1>2. PICK r : Ascends(r, S)
  BY AscendingExists
<1>3. r \in [1 .. n -> S] /\ \A i, j \in DOMAIN r : i < j => r[i] < r[j]
  BY <1>2 DEF Ascends
<1>4. s \in [1 .. n -> S] /\ \A i, j \in DOMAIN s : i < j => s[i] < s[j]
  BY <1>3 DEF Ascending
<1> HIDE DEF s, n
<1>5. ASSUME NEW i \in 1 .. n, NEW j \in 1 .. n, i # j PROVE s[i] # s[j]
  <2>1. s[i] \in Nat /\ s[j] \in Nat
    BY <1>4
  <2>2. i < j \/ j < i
    BY <1>5
  <2> QED BY <1>4, <2>1, <2>2
<1>6. s \in Injection(1 .. n, S)
  BY <1>4, <1>5 DEF Injection, IsInjective
<1>7. Cardinality(1 .. n) = n
  BY <1>1, FS_Interval
<1>8. s \in Surjection(1 .. n, S)
  BY <1>6, <1>7, FS_Injection DEF n
<1>9. \A x \in S : \E i \in 1 .. n : s[i] = x
  BY <1>8 DEF Surjection
<1> QED BY <1>1, <1>4, <1>5, <1>9 DEF s, n

\* InOrder goes through the base classes.
LEMMA InOrderIs ==
  ASSUME LabelTypes, NEW c \in Class
  PROVE  /\ InOrder(c) \in Seq(Class) /\ Len(InOrder(c)) \in Nat
         /\ DOMAIN InOrder(c) = 1 .. Len(InOrder(c))
         /\ \A i \in 1 .. Len(InOrder(c)) : InOrder(c)[i] \in BaseSet(c)
         /\ \A b \in BaseSet(c) : \E i \in 1 .. Len(InOrder(c)) : InOrder(c)[i] = b
<1> DEFINE S == BaseSet(c) \ ToSet(bases[c])
           s == Ascending(S)
           n == Cardinality(S)
           m == Len(bases[c])
<1>1. Class \subseteq Nat
  BY ObjectsAssumption
<1>2. BaseSet(c) \in SUBSET Class /\ IsFiniteSet(BaseSet(c))
      /\ ToSet(bases[c]) \subseteq BaseSet(c)
  BY BaseSetIs, BaseSetIsClosed
<1>3. S \in SUBSET Nat /\ IsFiniteSet(S)
  BY <1>1, <1>2, FS_Subset
<1>4. /\ n \in Nat /\ s \in [1 .. n -> S] /\ \A x \in S : \E i \in 1 .. n : s[i] = x
  <2> HIDE DEF S
  <2> QED BY <1>3, AscendingIs
<1>5. bases[c] \in Seq(Class) /\ m \in Nat /\ DOMAIN bases[c] = 1 .. m
  BY ProgramTypes
<1>6. InOrder(c) = bases[c] \o s
  BY DEF InOrder
<1>7. \A i \in 1 .. m : bases[c][i] \in BaseSet(c)
  BY <1>2, <1>5 DEF ToSet
<1>8. \A b \in ToSet(bases[c]) : \E i \in 1 .. m : bases[c][i] = b
  BY <1>5 DEF ToSet
<1>9. S \subseteq Class /\ \A b \in BaseSet(c) : b \in ToSet(bases[c]) \/ b \in S
  BY <1>2
<1>11. \A i \in 1 .. n : s[i] \in BaseSet(c)
  BY <1>4
<1> HIDE DEF s, n, m, S
<1>10. s \in Seq(Class) /\ Len(s) = n
  BY <1>4, <1>9
<1> DEFINE r == bases[c] \o s
<1>12. r \in Seq(Class) /\ Len(r) = m + n /\ DOMAIN r = 1 .. m + n
  BY <1>4, <1>5, <1>10 DEF m
<1>13. \A i \in 1 .. m : r[i] = bases[c][i]
  BY <1>4, <1>5, <1>10 DEF m
<1>14. \A i \in 1 .. n : r[m + i] = s[i] /\ m + i \in 1 .. m + n
  BY <1>4, <1>5, <1>10 DEF m
<1>18. \A i \in 1 .. m : i \in 1 .. m + n
  BY <1>4, <1>5
<1> HIDE DEF r
<1>15. ASSUME NEW i \in 1 .. m + n PROVE r[i] \in BaseSet(c)
  <2>1. CASE i \in 1 .. m
    BY <1>7, <1>13, <2>1
  <2>2. CASE i \notin 1 .. m
    <3>1. i - m \in 1 .. n /\ m + (i - m) = i
      BY <1>4, <1>5, <2>2
    <3> QED BY <1>11, <1>14, <3>1
  <2> QED BY <2>1, <2>2
<1>16. ASSUME NEW b \in BaseSet(c) PROVE \E i \in 1 .. m + n : r[i] = b
  <2>1. CASE b \in ToSet(bases[c])
    BY <1>8, <1>13, <1>18, <2>1
  <2>2. CASE b \in S
    BY <1>4, <1>14, <2>2
  <2> QED BY <1>9, <2>1, <2>2
<1>17. InOrder(c) = r
  BY <1>6 DEF r
<1> QED BY <1>4, <1>5, <1>12, <1>15, <1>16, <1>17

-----------------------------------------------------------------------------
\* What the steps of InTurn keep, one after the other, it keeps.
LEMMA InTurnKeeps ==
  ASSUME NEW n \in Nat, NEW D, NEW t \in D, NEW step \in [(1 .. n) \X D -> D],
         NEW S, <<0, t>> \in S,
         \A i \in 1 .. n : \A u \in D : <<i - 1, u>> \in S => <<i, step[<<i, u>>]>> \in S
  PROVE  InTurn(step, t, n) \in D /\ <<n, InTurn(step, t, n)>> \in S
<1> DEFINE g == CHOOSE h : Recurs(h, n, t, step)
<1>1. Recurs(g, n, t, step)
  <2>1. \E h : Recurs(h, n, t, step)
    BY IntervalRecursion
  <2> QED BY <2>1
<1>2. InTurn(step, t, n) = g[n]
  BY DEF InTurn, Recurs
<1> HIDE DEF g
<1>3. g[0] = t /\ \A i \in 1 .. n : g[i] = step[<<i, g[i - 1]>>]
  BY <1>1 DEF Recurs
<1> DEFINE T == {i \in 0 .. n : g[i] \in D /\ <<i, g[i]>> \in S}
<1>4. 0 \in T
  BY <1>3
<1>5. ASSUME NEW i \in 0 .. n - 1, i \in T PROVE i + 1 \in T
  <2>1. i + 1 \in 1 .. n /\ (i + 1) - 1 = i /\ i + 1 \in 0 .. n
    OBVIOUS
  <2>2. g[i] \in D /\ <<i, g[i]>> \in S
    BY <1>5
  <2>3. g[i + 1] = step[<<i + 1, g[i]>>]
    BY <1>3, <2>1
  <2> QED BY <2>1, <2>2, <2>3
<1>6. 0 .. n \subseteq T
  <2> HIDE DEF T
  <2>1. 0 \in Nat
    OBVIOUS
  <2> QED BY <1>4, <1>5, <2>1, IntervalInduction
<1>7. n \in T
  <2> HIDE DEF T
  <2> QED BY <1>6
<1> QED BY <1>2, <1>7

\* Steps that are the same where they are taken lead to the same end.
SameSteps(F, H, n, D, P) ==
  /\ F \in [(1 .. n) \X D -> D]
  /\ \A i \in 1 .. n : \A u \in D :
       u \in P => F[<<i, u>>] \in P /\ F[<<i, u>>] = H[<<i, u>>]

\* Steps that do the same to what they are given leave the same.
LEMMA InTurnSame ==
  ASSUME NEW n \in Nat, NEW D, NEW t \in D, NEW P, t \in P, NEW F, NEW H, SameSteps(F, H, n, D, P)
  PROVE  InTurn(F, t, n) = InTurn(H, t, n)
<1> USE DEF SameSteps
<1> DEFINE f == CHOOSE g : Recurs(g, n, t, F)
           h == CHOOSE g : Recurs(g, n, t, H)
<1>1. Recurs(f, n, t, F)
  <2>1. \E g : Recurs(g, n, t, F)
    BY IntervalRecursion
  <2> QED BY <2>1
<1>2. InTurn(F, t, n) = f[n] /\ InTurn(H, t, n) = h[n]
  BY DEF InTurn, Recurs
<1> HIDE DEF f
<1>3. f[0] = t /\ \A i \in 1 .. n : f[i] = F[<<i, f[i - 1]>>]
  BY <1>1 DEF Recurs
<1> DEFINE T == {i \in 0 .. n : f[i] \in D /\ f[i] \in P}
<1>4. 0 \in T
  BY <1>3
<1>5. ASSUME NEW i \in 0 .. n - 1, i \in T PROVE i + 1 \in T
  <2>1. i + 1 \in 1 .. n /\ (i + 1) - 1 = i /\ i + 1 \in 0 .. n
    OBVIOUS
  <2>2. f[i] \in D /\ f[i] \in P
    BY <1>5
  <2>3. f[i + 1] = F[<<i + 1, f[i]>>]
    BY <1>3, <2>1
  <2>4. F[<<i + 1, f[i]>>] \in D
    BY <2>1, <2>2
  <2> QED BY <2>1, <2>2, <2>3, <2>4
<1>6. 0 .. n \subseteq T
  <2> HIDE DEF T
  <2>1. 0 \in Nat
    OBVIOUS
  <2> QED BY <1>4, <1>5, <2>1, IntervalInduction
<1>7. \A i \in 1 .. n : f[i - 1] \in D /\ f[i - 1] \in P
  <2>1. \A i \in 1 .. n : i - 1 \in 0 .. n
    OBVIOUS
  <2> QED BY <1>6, <2>1
<1> HIDE DEF T
<1>8. \A i \in 1 .. n : f[i] = H[<<i, f[i - 1]>>]
  BY <1>3, <1>7
<1>9. Recurs(f, n, t, H)
  <2> DEFINE R(i) == IF i = 0 THEN t ELSE H[<<i, f[i - 1]>>]
  <2>1. \A i \in 0 .. n : i # 0 => i \in 1 .. n
    OBVIOUS
  <2>2. \A i \in 0 .. n : f[i] = R(i)
    BY <1>3, <1>8, <2>1
  <2>3. DOMAIN f = 0 .. n /\ f = [i \in 0 .. n |-> f[i]]
    BY <1>1 DEF Recurs
  <2>4. f = [i \in 0 .. n |-> R(i)]
    <3> HIDE DEF R
    <3> QED BY <2>2, <2>3
  <2> QED BY <2>4 DEF Recurs
<1>10. Recurs(h, n, t, H)
  BY <1>9
<1> HIDE DEF h
<1>11. h[0] = t /\ \A i \in 1 .. n : h[i] = H[<<i, h[i - 1]>>]
  <2>1. 0 \in 0 .. n /\ \A i \in 1 .. n : i \in 0 .. n /\ i # 0
    OBVIOUS
  <2>2. h = [i \in 0 .. n |-> IF i = 0 THEN t ELSE H[<<i, h[i - 1]>>]]
    BY <1>10 DEF Recurs
  <2> QED BY <2>1, <2>2
<1> DEFINE U == {i \in 0 .. n : f[i] = h[i]}
<1>12. 0 \in U
  BY <1>3, <1>11
<1>13. ASSUME NEW i \in 0 .. n - 1, i \in U PROVE i + 1 \in U
  <2>1. i + 1 \in 1 .. n /\ (i + 1) - 1 = i /\ i + 1 \in 0 .. n
    OBVIOUS
  <2>2. f[i + 1] = H[<<i + 1, f[i]>>] /\ h[i + 1] = H[<<i + 1, h[i]>>]
    BY <1>8, <1>11, <2>1
  <2> QED BY <1>13, <2>1, <2>2
<1>14. 0 .. n \subseteq U
  <2> HIDE DEF U
  <2>1. 0 \in Nat
    OBVIOUS
  <2> QED BY <1>12, <1>13, <2>1, IntervalInduction
<1>15. n \in U
  <2> HIDE DEF U
  <2> QED BY <1>14
<1> QED BY <1>2, <1>15

-----------------------------------------------------------------------------
\* A sum over a set is that over the rest of it and one more.
LEMMA SumStep ==
  ASSUME NEW S, IsFiniteSet(S), NEW x, x \notin S, NEW f \in [S \cup {x} -> Int]
  PROVE  SumFunction(f) = f[x] + SumFunction([y \in S |-> f[y]])
<1> DEFINE U == S \cup {x}
           r == [y \in S |-> f[y]]
<1>1. IsFiniteSet(U) /\ f \in [U -> Int]
  BY FS_AddElement
<1>2. PICK g \in [SUBSET U -> Int] : SumFunction(f) = g[U] /\ AddsUp(g, U, f)
  <2> HIDE DEF U
  <2> QED BY <1>1, SumIs
<1>3. r \in [S -> Int] /\ \A y \in S : r[y] = f[y]
  OBVIOUS
<1> HIDE DEF r
<1>4. PICK h \in [SUBSET S -> Int] : SumFunction(r) = h[S] /\ AddsUp(h, S, r)
  BY <1>3, SumIs
<1> DEFINE T == {n \in Nat : \A s \in SUBSET S : Cardinality(s) = n => g[s] = h[s]}
<1>5. \A s \in SUBSET S : IsFiniteSet(s) /\ Cardinality(s) \in Nat
  BY FS_Subset, FS_CardinalityType
<1>6. 0 \in T
  <2>1. \A s \in SUBSET S : Cardinality(s) = 0 => s = {}
    BY <1>5, FS_EmptySet
  <2>2. g[{}] = 0 /\ h[{}] = 0
    BY <1>2, <1>4 DEF AddsUp
  <2> QED BY <2>1, <2>2
<1>7. ASSUME NEW n \in Nat, n \in T PROVE n + 1 \in T
  <2> SUFFICES ASSUME NEW s \in SUBSET S, Cardinality(s) = n + 1 PROVE g[s] = h[s]
    OBVIOUS
  <2>1. s # {} /\ IsFiniteSet(s)
    BY <1>5, FS_EmptySet
  <2>2. PICK y \in s : TRUE
    BY <2>1
  <2>3. Cardinality(s \ {y}) = n
    <3>1. Cardinality(s \ {y}) = Cardinality(s) - 1
      BY <2>1, <2>2, FS_RemoveElement
    <3> QED BY <3>1
  <2>4. s \ {y} \in SUBSET S /\ y \in S /\ s \in SUBSET U
    OBVIOUS
  <2>5. g[s \ {y}] = h[s \ {y}]
    BY <1>7, <2>3, <2>4
  <2>6. g[s] = f[y] + g[s \ {y}]
    BY <1>2, <2>2, <2>4 DEF AddsUp
  <2>7. h[s] = r[y] + h[s \ {y}]
    BY <1>4, <2>2 DEF AddsUp
  <2> QED BY <1>3, <2>4, <2>5, <2>6, <2>7
<1>8. Nat \subseteq T
  <2> HIDE DEF T
  <2> QED BY <1>6, <1>7, NumberInduction
<1>9. g[S] = h[S]
  BY <1>5, <1>8
<1>10. g[U] = f[x] + g[S]
  <2>1. U \ {x} = S /\ x \in U /\ U \in SUBSET U
    OBVIOUS
  <2>2. \A s \in SUBSET U : \A y \in s : g[s] = f[y] + g[s \ {y}]
    BY <1>2 DEF AddsUp
  <2> HIDE DEF U
  <2>3. g[U] = f[x] + g[U \ {x}]
    BY <2>1, <2>2
  <2> QED BY <2>1, <2>3
<1> QED BY <1>2, <1>4, <1>9, <1>10 DEF r

SumOver(v, S) == SumFunction([y \in S |-> v[y]])

\* One more number adds itself to a sum.
LEMMA SumOfOneMore ==
  ASSUME NEW T, IsFiniteSet(T), NEW v \in [T -> Nat], NEW S \in SUBSET T,
         NEW x \in T, x \notin S
  PROVE  SumOver(v, S \cup {x}) = v[x] + SumOver(v, S)
<1> DEFINE p == [y \in S \cup {x} |-> v[y]]
<1>1. p \in [S \cup {x} -> Int] /\ p[x] = v[x] /\ [y \in S |-> p[y]] = [y \in S |-> v[y]]
  OBVIOUS
<1>2. IsFiniteSet(S)
  BY FS_Subset
<1> HIDE DEF p
<1>3. SumFunction(p) = p[x] + SumFunction([y \in S |-> p[y]])
  BY <1>1, <1>2, SumStep
<1>4. SumFunction(p) = v[x] + SumFunction([y \in S |-> v[y]])
  BY <1>1, <1>3
<1> QED BY <1>4 DEF p, SumOver

\* The numbers up to n that are below k, and those together with k.
Below(n, k) == {j \in 1 .. n : j < k}
UpTo(n, k) == Below(n, k) \cup {k}

\* The sum of the first k numbers is that of those before, and number k.
LEMMA SumUpTo ==
  ASSUME NEW n, NEW v, NEW k, n \in Nat /\ v \in [1 .. n -> Nat] /\ k \in 1 .. n
  PROVE  SumOver(v, UpTo(n, k)) = v[k] + SumOver(v, Below(n, k))
<1>1. IsFiniteSet(1 .. n) /\ Below(n, k) \in SUBSET (1 .. n) /\ k \notin Below(n, k)
  BY FS_Interval DEF Below
<1> DEFINE T == 1 .. n
           S == Below(n, k)
<1>2. v \in [T -> Nat] /\ S \in SUBSET T /\ k \in T /\ IsFiniteSet(T) /\ k \notin S
  BY <1>1
<1> HIDE DEF T, S
<1>3. SumOver(v, S \cup {k}) = v[k] + SumOver(v, S)
  BY ONLY <1>2, SumOfOneMore
<1> QED BY <1>3 DEF S, UpTo

\* A part of the numbers has no larger sum than all of them.
LEMMA SumOfPart ==
  ASSUME NEW S, IsFiniteSet(S), NEW f \in [S -> Nat], NEW I \in SUBSET S
  PROVE  SumFunction([y \in I |-> f[y]]) <= SumFunction(f)
<1> DEFINE Part(U) == [y \in U |-> f[y]]
           T == {n \in Nat : \A U \in SUBSET S :
                   I \subseteq U /\ Cardinality(U \ I) = n
                   => SumFunction(Part(I)) <= SumFunction(Part(U))}
<1>1. ASSUME NEW U \in SUBSET S
      PROVE  /\ IsFiniteSet(U) /\ Part(U) \in [U -> Nat] /\ Part(U) \in [U -> Int]
             /\ SumFunction(Part(U)) \in Nat
             /\ IsFiniteSet(U \ I) /\ Cardinality(U \ I) \in Nat
  <2>1. IsFiniteSet(U) /\ U \ I \in SUBSET S
    BY FS_Subset
  <2>2. IsFiniteSet(U \ I) /\ Cardinality(U \ I) \in Nat
    BY <2>1, FS_Subset, FS_CardinalityType
  <2>3. Part(U) \in [U -> Nat] /\ Part(U) \in [U -> Int] /\ \A y \in U : Part(U)[y] \in Nat
    OBVIOUS
  <2> HIDE DEF Part
  <2>4. SumFunction(Part(U)) \in Nat
    BY <2>1, <2>3, SumType
  <2> QED BY <2>1, <2>2, <2>3, <2>4
<1>2. 0 \in T
  <2> SUFFICES ASSUME NEW U \in SUBSET S, I \subseteq U, Cardinality(U \ I) = 0
               PROVE  SumFunction(Part(I)) <= SumFunction(Part(U))
    OBVIOUS
  <2>1. U \ I = {}
    BY <1>1, FS_EmptySet
  <2>2. U = I
    BY <2>1
  <2>3. SumFunction(Part(I)) \in Nat
    BY <1>1
  <2> HIDE DEF Part
  <2> QED BY <2>2, <2>3
<1>3. ASSUME NEW n \in Nat, n \in T PROVE n + 1 \in T
  <2> SUFFICES ASSUME NEW U \in SUBSET S, I \subseteq U, Cardinality(U \ I) = n + 1
               PROVE  SumFunction(Part(I)) <= SumFunction(Part(U))
    OBVIOUS
  <2>1. U \ I # {} /\ IsFiniteSet(U \ I)
    <3>1. n + 1 # 0
      OBVIOUS
    <3> HIDE DEF T, Part
    <3>3. IsFiniteSet(U \ I)
      BY <1>1
    <3>2. U \ I = {} => Cardinality(U \ I) = 0
      BY FS_EmptySet
    <3> QED BY <3>1, <3>2, <3>3
  <2>2. PICK x \in U \ I : TRUE
    BY <2>1
  <2> DEFINE V == U \ {x}
  <2>3. V \in SUBSET S /\ I \subseteq V /\ x \notin V /\ V \cup {x} = U
        /\ V \ I = (U \ I) \ {x}
    BY <2>2
  <2>4. Cardinality((U \ I) \ {x}) = Cardinality(U \ I) - 1
    BY <2>1, <2>2, FS_RemoveElement
  <2>5. Cardinality(V \ I) = n
    <3> HIDE DEF V
    <3> QED BY <2>3, <2>4
  <2> HIDE DEF V
  <2>6. SumFunction(Part(I)) <= SumFunction(Part(V))
    BY <1>3, <2>3, <2>5
  <2> DEFINE p == Part(U)
  <2>7. p \in [V \cup {x} -> Int] /\ p[x] \in Nat /\ IsFiniteSet(V)
    BY <1>1, <2>2, <2>3
  <2>8. [y \in V |-> p[y]] = Part(V)
    BY <2>3
  <2> HIDE DEF p
  <2>9. SumFunction(p) = p[x] + SumFunction([y \in V |-> p[y]])
    BY <2>3, <2>7, SumStep
  <2>10. SumFunction(Part(V)) \in Nat /\ SumFunction(Part(I)) \in Nat
    BY <1>1, <2>3
  <2>11. SumFunction(p) = p[x] + SumFunction(Part(V))
    BY <2>8, <2>9
  <2> HIDE DEF Part
  <2>12. SumFunction(Part(I)) <= SumFunction(p)
    BY <2>6, <2>7, <2>10, <2>11
  <2> QED BY <2>12 DEF p
<1>4. Nat \subseteq T
  <2> HIDE DEF T
  <2> QED BY <1>2, <1>3, NumberInduction
<1>5. Cardinality(S \ I) \in Nat
  BY <1>1
<1>6. SumFunction(Part(I)) <= SumFunction(Part(S))
  <2> HIDE DEF Part
  <2> QED BY <1>4, <1>5
<1>7. Part(S) = f
  OBVIOUS
<1> QED BY <1>6, <1>7

-----------------------------------------------------------------------------
\* What the rounds have established of the sizes.
Sized == LabelTypes /\ SizesRight(bits, base)

\* The width of a member is an integer; the codes of a missing size are negative.
LEMMA WidthType ==
  ASSUME Sized, NEW m \in Member
  PROVE  Width(m) \in Int
<1>1. \A d \in Class : bits[d] \in Int /\ konst[d] \in Int
  BY DEF Sized, LabelTypes, SizesRight, Size, Unknown, Cycle
<1>2. CASE m.kind = "int"
  BY <1>2, MemberTypes DEF Width
<1>3. CASE m.kind = "const"
  BY <1>1, <1>3, MemberTypes DEF Width
<1>4. CASE m.kind = "array"
  <2>1. m.n \in Int /\ m.of \in Class /\ bits[m.of] \in Int
    BY <1>1, <1>4, MemberTypes
  <2>2. m.n * bits[m.of] \in Int
    BY <2>1
  <2> QED BY <1>4, <2>2 DEF Width
<1>5. CASE m.kind \in {"sizeof", "class"}
  BY <1>1, <1>5, MemberTypes DEF Width
<1> QED BY <1>2, <1>3, <1>4, <1>5, MemberTypes

\* The base classes of a complete class are complete, and none of them
\* inherits from itself.
LEMMA CompleteIs ==
  ASSUME Sized, NEW c \in Class, IsComplete(c)
  PROVE  /\ bits[c] \in Nat /\ base[c] \in Nat /\ base[c] = OwnBits(c, bits, konst)
         /\ bits[c] = base[c] + BasesSum(c, base) /\ base[c] <= bits[c]
         /\ \A b \in BaseSet(c) :
              /\ b \in Class /\ IsComplete(b) /\ base[b] \in Nat
              /\ Cardinality(BaseSet(b)) < Cardinality(BaseSet(c))
<1>1. /\ LabelTypes /\ bits \in [Class -> Size] /\ base \in [Class -> Int]
      /\ konst \in Constants /\ SizesRight(bits, base)
  BY DEF Sized, SizesRight, LabelTypes, Constants
<1>2. \A d \in Class : RightFor(d, bits, base)
  BY <1>1 DEF SizesRight
<1>3. ASSUME NEW d \in Class, IsComplete(d)
      PROVE  /\ bits[d] \in Nat /\ base[d] = OwnBits(d, bits, konst) /\ base[d] \in Nat
             /\ Linked(d) /\ bits[d] = WholeSize(d, bits, konst) /\ d \notin BaseSet(d)
  <2>1. bits[d] >= 0 /\ base[d] # Unknown /\ bits[d] \in Size
    BY <1>1, <1>3 DEF IsComplete
  <2>2. bits[d] \in Nat
    BY <2>1 DEF Size, Unknown, Cycle
  <2>3. OwnBits(d, bits, konst) \in Nat \cup {Unknown}
    BY <1>1, OwnType
  <2> QED BY <1>2, <2>1, <2>2, <2>3 DEF RightFor
<1>4. \A x \in BaseSet(c) : x \in Class /\ IsComplete(x)
  <2>1. Linked(c)
    BY <1>3
  <2>2. \A x \in BaseSet(c) : x \in Class /\ bits[x] >= 0 /\ base[x] # Unknown
    BY <1>1, <2>1, LinkedMeansComplete
  <2> QED BY <2>2 DEF IsComplete
<1>5. bits[c] = base[c] + BasesSum(c, base)
  <2>1. \A x \in BaseSet(c) : OwnOfAll(bits, konst)[x] = base[x]
    BY <1>3, <1>4 DEF OwnOfAll
  <2>2. BasesSum(c, OwnOfAll(bits, konst)) = BasesSum(c, base)
    BY <2>1, SameBasesSum
  <2> QED BY <1>3, <2>2 DEF WholeSize
<1>6. BasesSum(c, base) \in Nat
  BY <1>1, <1>3, <1>4, BasesSumType
<1>7. base[c] \in Nat /\ bits[c] \in Nat /\ base[c] <= bits[c]
  BY <1>3, <1>5, <1>6
<1>8. ASSUME NEW b \in BaseSet(c) PROVE Cardinality(BaseSet(b)) < Cardinality(BaseSet(c))
  <2>1. b \in Class /\ b \notin BaseSet(b)
    BY <1>3, <1>4
  <2>2. BaseSet(b) \in SUBSET BaseSet(c)
    BY <1>1, BaseSetIsClosed
  <2>3. IsFiniteSet(BaseSet(c)) /\ IsFiniteSet(BaseSet(b))
    BY <1>1, <2>1, BaseSetIs
  <2>4. Cardinality(BaseSet(b)) \in Nat /\ Cardinality(BaseSet(c)) \in Nat
    BY <2>3, FS_CardinalityType
  <2>5. BaseSet(b) # BaseSet(c)
    BY <2>1
  <2> QED BY <2>2, <2>3, <2>4, <2>5, FS_Subset
<1> QED BY <1>3, <1>4, <1>5, <1>7, <1>8

\* The members of a class that adds up to something have their widths.
LEMMA OwnWidthIs ==
  ASSUME Sized, NEW c \in Class, OwnBits(c, bits, konst) \in Nat
  PROVE  /\ Len(members[c]) \in Nat /\ DOMAIN members[c] = 1 .. Len(members[c])
         /\ \A i \in 1 .. Len(members[c]) :
              /\ members[c][i] \in Member
              /\ Width(members[c][i]) \in Nat
              /\ Width(members[c][i]) = Values(c, bits, konst)[i]
              /\ HoldsClass(members[c][i]) =>
                   members[c][i].of \in Class /\ bits[members[c][i].of] \in Nat
         /\ OwnBits(c, bits, konst) = OwnOf(c, Values(c, bits, konst))
         /\ Values(c, bits, konst) \in [1 .. Len(members[c]) -> Nat]
<1> DEFINE n == Len(members[c])
           v == Values(c, bits, konst)
<1>1. /\ LabelTypes /\ bits \in [Class -> Size] /\ konst \in Constants
  BY DEF Sized, SizesRight, LabelTypes, Constants
<1>2. /\ n \in Nat /\ v \in [1 .. n -> Int] /\ DOMAIN members[c] = 1 .. n
      /\ \A i \in 1 .. n : members[c][i] \in Member /\ v[i] = ValueOf(members[c][i], bits, konst)
      /\ OwnBits(c, bits, konst) = OwnOf(c, v)
  BY <1>1, ValuesType, ProgramTypes
<1>3. OwnOf(c, v) \in Nat
  BY <1>2
<1>4. \A i \in 1 .. n : v[i] >= 0
  BY <1>2, <1>3 DEF OwnOf, Unknown
<1> HIDE DEF n, v
<1>5. ASSUME NEW i \in 1 .. n
      PROVE  /\ Width(members[c][i]) \in Nat /\ Width(members[c][i]) = v[i]
             /\ HoldsClass(members[c][i]) =>
                  members[c][i].of \in Class /\ bits[members[c][i].of] \in Nat
  <2> DEFINE m == members[c][i]
  <2>1. m \in Member /\ v[i] = ValueOf(m, bits, konst) /\ v[i] \in Nat
    BY <1>2, <1>4
  <2> HIDE DEF m
  <2>2. \A d \in Class : bits[d] \in Size /\ konst[d] \in Int
    BY <1>1 DEF Constants, Unknown
  <2>3. \A x \in Size : x \in Int /\ (x >= 0 => x \in Nat)
    BY DEF Size, Unknown, Cycle
  <2>4. CASE m.kind = "int"
    BY <2>1, <2>4 DEF Width, ValueOf, HoldsClass, m
  <2>5. CASE m.kind = "const"
    BY <2>1, <2>5 DEF Width, ValueOf, HoldsClass, m
  <2>6. CASE m.kind = "array"
    <3>1. m.of \in Class /\ m.n \in Nat \ {0}
      BY <2>1, <2>6, MemberTypes
    <3>2. v[i] = IF bits[m.of] < 0 THEN Unknown ELSE m.n * bits[m.of]
      BY <2>1, <2>6 DEF ValueOf
    <3>3. ~ (bits[m.of] < 0)
      BY <2>1, <3>2 DEF Unknown
    <3>4. bits[m.of] \in Nat
      BY <2>2, <2>3, <3>1, <3>3
    <3>5. Width(m) = m.n * bits[m.of]
      BY <2>6 DEF Width
    <3> QED BY <2>1, <3>1, <3>2, <3>3, <3>4, <3>5 DEF m
  <2>7. CASE m.kind \in {"sizeof", "class"}
    <3>1. m.of \in Class /\ v[i] = bits[m.of] /\ Width(m) = bits[m.of]
      BY <2>1, <2>7, MemberTypes DEF ValueOf, Width
    <3> QED BY <2>1, <3>1 DEF m
  <2> QED BY <2>1, <2>4, <2>5, <2>6, <2>7, MemberTypes DEF m
<1>6. v \in [1 .. n -> Nat]
  BY <1>2, <1>4
<1> QED BY <1>2, <1>3, <1>5, <1>6 DEF n, v

\* The members of a complete class have their widths.
LEMMA WidthIs ==
  ASSUME Sized, NEW c \in Class, IsComplete(c)
  PROVE  /\ Len(members[c]) \in Nat /\ DOMAIN members[c] = 1 .. Len(members[c])
         /\ \A i \in 1 .. Len(members[c]) :
              /\ members[c][i] \in Member
              /\ Width(members[c][i]) \in Nat
              /\ Width(members[c][i]) = Values(c, bits, konst)[i]
              /\ HoldsClass(members[c][i]) =>
                   members[c][i].of \in Class /\ bits[members[c][i].of] \in Nat
         /\ base[c] = OwnOf(c, Values(c, bits, konst))
         /\ Values(c, bits, konst) \in [1 .. Len(members[c]) -> Nat]
BY CompleteIs, OwnWidthIs

\* The members of a part of a class, and where each begins.
LEMMA BitsOfType ==
  ASSUME Sized, NEW c \in Class, NEW I \in SUBSET (1 .. Len(members[c]))
  PROVE  BitsOf(c, I) \in Int
<1> DEFINE f == [i \in I |-> Width(members[c][i])]
<1>1. Len(members[c]) \in Nat /\ \A i \in 1 .. Len(members[c]) : members[c][i] \in Member
  BY ProgramTypes DEF Sized
<1>2. IsFiniteSet(I)
  <2>1. IsFiniteSet(1 .. Len(members[c]))
    BY <1>1, FS_Interval
  <2> QED BY <2>1, FS_Subset
<1>3. f \in [I -> Int]
  BY <1>1, WidthType
<1> HIDE DEF f
<1>4. SumFunction(f) \in Int
  BY <1>2, <1>3, SumType
<1> QED BY <1>4 DEF BitsOf, f

\* So is the position of a data member.
LEMMA OffsetType ==
  ASSUME Sized, NEW c \in Class, NEW i \in Int, NEW K \in SUBSET (1 .. Len(members[c]))
  PROVE  Offset(c, i, K) \in Int
<1>1. {j \in K : j < i} \in SUBSET (1 .. Len(members[c]))
  OBVIOUS
<1>2. BitsOf(c, {j \in K : j < i}) \in Int
  BY <1>1, BitsOfType
<1> QED BY <1>2 DEF Offset

\* So are the bits of some of the base classes.
LEMMA BaseBitsType ==
  ASSUME Sized, NEW c \in Class, NEW B \in SUBSET BaseSet(c)
  PROVE  BaseBits(B) \in Int
<1> DEFINE f == [b \in B |-> base[b]]
<1>1. IsFiniteSet(BaseSet(c)) /\ BaseSet(c) \in SUBSET Class
  BY BaseSetIs DEF Sized
<1>2. IsFiniteSet(B)
  BY <1>1, FS_Subset
<1>3. f \in [B -> Int]
  BY <1>1 DEF Sized, SizesRight
<1> HIDE DEF f
<1>4. SumFunction(f) \in Int
  BY <1>2, <1>3, SumType
<1> QED BY <1>4 DEF BaseBits, f

\* Once all the members are known, each lies inside the bits of its class, and
\* behind those before it.
LEMMA OffsetIs ==
  ASSUME Sized, NEW c \in Class, IsComplete(c), NEW i \in 1 .. Len(members[c])
  PROVE  LET K == 1 .. Len(members[c])
         IN  /\ Offset(c, i, K) \in Nat
             /\ Offset(c, i, K) + Width(members[c][i]) <= base[c]
             /\ \A j \in K : c \notin prog.unions /\ i < j =>
                  Offset(c, i, K) + Width(members[c][i]) <= Offset(c, j, K)
<1> DEFINE n == Len(members[c])
           v == Values(c, bits, konst)
           Low(k) == {j \in 1 .. n : j < k}
           Part(I) == [j \in I |-> v[j]]
<1>1. /\ n \in Nat /\ v \in [1 .. n -> Nat] /\ base[c] = OwnOf(c, v)
      /\ \A j \in 1 .. n : Width(members[c][j]) = v[j]
  BY WidthIs
<1>2. IsFiniteSet(1 .. n) /\ i \in 1 .. n
  BY <1>1, FS_Interval
<1>3. ASSUME NEW I \in SUBSET (1 .. n) PROVE BitsOf(c, I) = SumFunction(Part(I))
  <2>1. [j \in I |-> Width(members[c][j])] = [j \in I |-> v[j]]
    BY <1>1, <1>3
  <2> QED BY <2>1 DEF BitsOf
<1> HIDE DEF n, v
<1>4. ASSUME NEW k \in 1 .. n, c \notin prog.unions
      PROVE  Offset(c, k, 1 .. n) = SumFunction(Part(Low(k)))
  <2>1. Low(k) \in SUBSET (1 .. n)
    OBVIOUS
  <2>2. Offset(c, k, 1 .. n) = BitsOf(c, Low(k))
    BY <1>4 DEF Offset
  <2> HIDE DEF Low, Part
  <2> QED BY <1>3, <2>1, <2>2
<1>5. ASSUME NEW I \in SUBSET (1 .. n), NEW J \in SUBSET I
      PROVE  /\ SumFunction(Part(J)) \in Nat
             /\ SumFunction(Part(J)) <= SumFunction(Part(I))
  <2>1. IsFiniteSet(I) /\ IsFiniteSet(J) /\ J \in SUBSET (1 .. n)
    BY <1>2, FS_Subset
  <2>2. Part(I) \in [I -> Nat] /\ Part(J) \in [J -> Int] /\ \A x \in J : Part(J)[x] \in Nat
    BY <1>1, <2>1
  <2>3. [y \in J |-> Part(I)[y]] = Part(J)
    BY <2>1
  <2> DEFINE p == Part(I)
             q == Part(J)
  <2>4. p \in [I -> Nat] /\ q \in [J -> Int] /\ (\A x \in J : q[x] \in Nat)
        /\ [y \in J |-> p[y]] = q
    BY <2>2, <2>3
  <2> HIDE DEF p, q, Part
  <2>5. SumFunction(q) \in Nat
    BY <2>1, <2>4, SumType
  <2>6. SumFunction([y \in J |-> p[y]]) <= SumFunction(p)
    BY <2>1, <2>4, SumOfPart
  <2>7. SumFunction(q) <= SumFunction(p)
    BY <2>4, <2>6
  <2> QED BY <2>5, <2>7 DEF p, q
<1>6. CASE c \notin prog.unions
  <2> DEFINE I == Low(i) \cup {i}
  <2>1. SumFunction(Part(I)) = v[i] + SumFunction(Part(Low(i)))
    <3>1. SumOver(v, UpTo(n, i)) = v[i] + SumOver(v, Below(n, i))
      BY <1>1, <1>2, SumUpTo
    <3> QED BY <3>1 DEF SumOver, UpTo, Below
  <2>2. Low(i) \in SUBSET (1 .. n) /\ I \in SUBSET (1 .. n) /\ (1 .. n) \in SUBSET (1 .. n)
    BY <1>2
  <2>3. Offset(c, i, 1 .. n) = SumFunction(Part(Low(i))) /\ Offset(c, i, 1 .. n) \in Nat
    <3> HIDE DEF Low, Part
    <3>1. Low(i) \in SUBSET Low(i)
      OBVIOUS
    <3> QED BY <1>2, <1>4, <1>5, <1>6, <2>2, <3>1
  <2>4. base[c] = SumFunction(Part(1 .. n))
    <3>1. Part(1 .. n) = v
      BY <1>1
    <3>2. base[c] = SumFunction(v)
      <4>1. ~ \E j \in 1 .. n : v[j] < 0
        BY <1>1
      <4> QED BY <1>1, <1>6, <4>1 DEF OwnOf, n
    <3> HIDE DEF Part
    <3> QED BY <3>1, <3>2
  <2>5. Offset(c, i, 1 .. n) + v[i] <= base[c]
    <3> HIDE DEF I, Part
    <3>1. SumFunction(Part(I)) <= SumFunction(Part(1 .. n)) /\ SumFunction(Part(I)) \in Nat
      BY <1>5, <2>2
    <3>2. SumFunction(Part(I)) = v[i] + Offset(c, i, 1 .. n) /\ v[i] \in Nat
      BY <1>1, <1>2, <2>1, <2>3 DEF I
    <3> HIDE DEF Low
    <3> QED BY <2>3, <2>4, <3>1, <3>2
  <2>6. ASSUME NEW j \in 1 .. n, i < j
        PROVE  Offset(c, i, 1 .. n) + v[i] <= Offset(c, j, 1 .. n)
    <3>1. I \in SUBSET Low(j) /\ Low(j) \in SUBSET (1 .. n)
      BY <1>2, <2>6
    <3> HIDE DEF I, Part
    <3>2. SumFunction(Part(I)) <= SumFunction(Part(Low(j))) /\ SumFunction(Part(I)) \in Nat
      <4> HIDE DEF Low
      <4> QED BY <1>5, <3>1
    <3>3. SumFunction(Part(I)) = v[i] + Offset(c, i, 1 .. n) /\ v[i] \in Nat
      BY <1>1, <1>2, <2>1, <2>3 DEF I
    <3>4. Offset(c, j, 1 .. n) = SumFunction(Part(Low(j)))
      <4> HIDE DEF Low
      <4> QED BY <1>4, <1>6
    <3> HIDE DEF Low
    <3> QED BY <2>3, <3>2, <3>3, <3>4
  <2> QED BY <1>1, <1>2, <2>3, <2>5, <2>6 DEF n
<1>7. CASE c \in prog.unions
  <2>1. Offset(c, i, 1 .. n) = 0
    BY <1>7 DEF Offset
  <2>2. base[c] = Max(Range(v))
    <3>1. ~ \E j \in 1 .. n : v[j] < 0
      BY <1>1
    <3> QED BY <1>1, <1>7, <3>1 DEF OwnOf, n
  <2>3. v[i] <= Max(Range(v))
    <3>1. Range(v) \in SUBSET Int /\ v[i] \in Range(v)
      BY <1>1, <1>2 DEF Range
    <3>2. IsFiniteSet(Range(v))
      <4>1. v \in Surjection(1 .. n, Range(v))
        BY <1>1 DEF Surjection, Range
      <4> QED BY <1>2, <4>1, FS_Surjection
    <3> QED BY <3>1, <3>2, GreatestNumber
  <2> QED BY <1>1, <1>2, <1>7, <2>1, <2>2, <2>3 DEF n
<1> QED BY <1>6, <1>7

-----------------------------------------------------------------------------
(***************************************************************************)
(* A layout is settled if the positions, default values and constants that *)
(* are there are the right ones: a position follows from the sizes, and a  *)
(* default value is the one that would be put together now.                *)
(***************************************************************************)
\* The class that a data member holds has its value, if it has bits.
HeldIsReady(t, m) == HoldsClass(m) => bits[m.of] = 0 \/ m.of \in t.ready

\* Where the data members of b begin in class d, and where its member i does.
BaseStart(d, b) ==
  IF b = d THEN 0
  ELSE Offset(d, Len(members[d]) + 1, 1 .. Len(members[d])) + BaseBits(Before(d, b))

Start(d, b, i) == BaseStart(d, b) + Offset(b, i, 1 .. Len(members[b]))

PlacedRight(t, c) ==
  /\ IsComplete(c)
  /\ \A i \in 1 .. Len(members[c]) : t.pos[c][i] = Offset(c, i, 1 .. Len(members[c]))
  /\ \A b \in BaseSet(c) : t.rel[c][b] = BaseStart(c, b)

PlacesKnown(t) ==
  \A c \in Class : \A i \in 1 .. Len(members[c]) : Reliable(t, c, i) => i \in t.known[c]

PartsReady(t, d) ==
  /\ \A i \in 1 .. Len(members[d]) : HeldIsReady(t, members[d][i])
  /\ \A b \in BaseSet(d) : bits[b] = 0 \/ b \in t.ready

BuiltRight(t, d) ==
  /\ IsComplete(d)
  /\ bits[d] = 0 \/ (d \in t.packed /\ PartsReady(t, d) /\ t.value[d] = DefaultValue(t, d))

\* The bits w are those of v behind the first s.
Shows(v, s, w) == \A k \in DOMAIN w : v[s + k] = w[k]

Uncovered(c, b, i) ==
  \A e \in ToSet(prog.object[c].list) : ~ Covers(e, prog.object[c].of, b, i)

ListShown(t, c) ==
  LET list == prog.object[c].list
  IN  \A j \in 1 .. Len(list) :
        Shows(t.object[c][1], Start(prog.object[c].of, list[j][1], list[j][2]),
              [k \in 1 .. Width(members[list[j][1]][list[j][2]]) |-> <<c, 0 - j, k>>])

RestShown(t, c) ==
  LET d == prog.object[c].of
  IN  \A b \in Family(d) : \A i \in Distinct(b) :
        Uncovered(c, b, i) => Shows(t.object[c][1], Start(d, b, i), MemberValue(t, b, i))

FilledRight(t, c) ==
  LET d == prog.object[c].of
  IN  /\ HasObject(c)
      /\ \/ bits[d] = 0
         \/ d \in t.ready /\ Len(t.object[c][1]) = bits[d] /\ ListShown(t, c) /\ RestShown(t, c)

Settled(t) ==
  /\ \A c \in t.packed : PlacedRight(t, c)
  /\ PlacesKnown(t)
  /\ \A d \in t.ready : BuiltRight(t, d)
  /\ \A c \in Class : t.object[c] # << >> => FilledRight(t, c)

\* What is packed stays where it is, and what is built stays as it is.
Stays(t, u) ==
  /\ t.packed \subseteq u.packed /\ t.ready \subseteq u.ready
  /\ \A c \in t.packed : u.pos[c] = t.pos[c] /\ u.rel[c] = t.rel[c]
  /\ \A c \in t.ready : u.value[c] = t.value[c]

\* The parts of a layout.
LEMMA LayoutIsTyped ==
  ASSUME NEW t \in Layouts
  PROVE  /\ t.pos \in [Class -> Seq(Int)] /\ t.rel \in [Class -> [Class -> Int]]
         /\ t.packed \in SUBSET Class /\ t.ready \in SUBSET Class
         /\ t.value \in [Class -> Seq(Bit)] /\ t.object \in [Class -> Seq(Seq(Bit))]
         /\ t.known \in [Class -> SUBSET Nat] /\ t.folding \in Class \cup {0}
         /\ t.building \in SUBSET Class /\ t.waits \in Nat /\ t.errors \in Nat
         /\ t.ok \in BOOLEAN
         /\ \A c \in Class : /\ Len(t.pos[c]) = Len(members[c])
                             /\ t.known[c] \subseteq DOMAIN members[c]
                             /\ c \in t.ready => Len(t.value[c]) = bits[c]
BY DEF Layouts, Layout

\* A member that holds a class without bits has none.
LEMMA NoBitsHeld ==
  ASSUME NEW m \in Member, HoldsClass(m), bits[m.of] = 0
  PROVE  Width(m) = 0
<1>1. m.kind = "class" => Width(m) = 0
  BY DEF Width
<1>2. m.kind = "array" => Width(m) = m.n * 0 /\ m.n \in Nat
  BY MemberTypes DEF Width
<1>3. m.kind \in {"class", "array"}
  BY DEF HoldsClass
<1> QED BY <1>1, <1>2, <1>3

\* The value of a member stays as it is.
LEMMA SameMemberValue ==
  ASSUME NEW t, NEW u, NEW c \in Class, NEW i, members[c][i] \in Member,
         HeldIsReady(t, members[c][i]), Stays(t, u)
  PROVE  MemberValue(u, c, i) = MemberValue(t, c, i)
<1> DEFINE m == members[c][i]
           w == Width(m)
<1>1. CASE ~ HoldsClass(m)
  <2>1. MemberValue(t, c, i) = [k \in 1 .. w |-> <<c, i, k>>]
    BY <1>1 DEF MemberValue
  <2>2. MemberValue(u, c, i) = [k \in 1 .. w |-> <<c, i, k>>]
    BY <1>1 DEF MemberValue
  <2> QED BY <2>1, <2>2
<1>2. CASE HoldsClass(m)
  <2>1. MemberValue(t, c, i) = [k \in 1 .. w |-> t.value[m.of][1 + ((k - 1) % bits[m.of])]]
    BY <1>2 DEF MemberValue
  <2>2. MemberValue(u, c, i) = [k \in 1 .. w |-> u.value[m.of][1 + ((k - 1) % bits[m.of])]]
    BY <1>2 DEF MemberValue
  <2>3. CASE m.of \in t.ready
    <3>1. u.value[m.of] = t.value[m.of]
      BY <2>3 DEF Stays
    <3> QED BY <2>1, <2>2, <3>1
  <2>4. CASE bits[m.of] = 0
    <3>1. w = 0
      BY <1>2, <2>4, NoBitsHeld
    <3>2. \A k \in 1 .. w : FALSE
      BY <3>1
    <3> HIDE DEF w
    <3> QED BY <2>1, <2>2, <3>2
  <2> QED BY <1>2, <2>3, <2>4 DEF HeldIsReady
<1> QED BY <1>1, <1>2

\* A default value stays the one that would be put together.
LEMMA SameDefaultValue ==
  ASSUME Sized, NEW t \in Layouts, NEW u \in Layouts, NEW d \in Class, IsComplete(d),
         PartsReady(t, d), Stays(t, u), u.pos[d] = t.pos[d], u.rel[d] = t.rel[d]
  PROVE  DefaultValue(u, d) = DefaultValue(t, d)
<1> DEFINE m == Len(members[d])
           n == Len(InOrder(d))
           Own(s, i) == Patch(MemberValue(s, d, i), s.pos[d][i])
           Inherited(s, b) == Patch(SubSeq(s.value[b], 1, base[b]), s.rel[d][b])
           r(s) == [i \in 1 .. m |-> Own(s, i)]
           q(s) == [j \in 1 .. n |-> Inherited(s, InOrder(d)[j])]
           v == [k \in 1 .. bits[d] |-> << >>]
<1>1. /\ m \in Nat /\ DOMAIN members[d] = 1 .. m /\ n \in Nat /\ DOMAIN InOrder(d) = 1 .. n
      /\ \A i \in 1 .. n : InOrder(d)[i] \in BaseSet(d)
      /\ \A b \in BaseSet(d) : b \in Class /\ IsComplete(b)
      /\ \A i \in 1 .. m : members[d][i] \in Member
  BY ProgramTypes, InOrderIs, CompleteIs DEF Sized
<1>2. DefaultValue(t, d) = Patched(v, r(t) \o q(t)) /\ DefaultValue(u, d) = Patched(v, r(u) \o q(u))
  BY <1>1 DEF DefaultValue
<1>3. r(u) = r(t)
  <2>1. ASSUME NEW i \in 1 .. m PROVE Own(u, i) = Own(t, i)
    <3>1. MemberValue(u, d, i) = MemberValue(t, d, i)
      BY <1>1, SameMemberValue DEF PartsReady
    <3> QED BY <3>1
  <2> HIDE DEF Own
  <2> QED BY <2>1
<1>4. q(u) = q(t)
  <2>1. ASSUME NEW b \in BaseSet(d)
        PROVE  SubSeq(u.value[b], 1, base[b]) = SubSeq(t.value[b], 1, base[b])
    <3>1. CASE b \in t.ready
      BY <3>1 DEF Stays
    <3>2. CASE bits[b] = 0
      <4>1. base[b] = 0
        BY <1>1, <3>2, CompleteIs
      <4>2. \A x \in Seq(Bit) : SubSeq(x, 1, 0) = << >>
        <5> SUFFICES ASSUME NEW x \in Seq(Bit) PROVE SubSeq(x, 1, 0) = << >>
          OBVIOUS
        <5>1. SubSeq(x, 1, 0) \in Seq(Bit) /\ Len(SubSeq(x, 1, 0)) = 0
          BY SubSeqProperties
        <5> QED BY <5>1, EmptySeq
      <4>3. t.value[b] \in Seq(Bit) /\ u.value[b] \in Seq(Bit)
        BY <1>1, LayoutIsTyped
      <4> QED BY <4>1, <4>2, <4>3
    <3> QED BY <3>1, <3>2 DEF PartsReady
  <2>2. ASSUME NEW j \in 1 .. n PROVE Inherited(u, InOrder(d)[j]) = Inherited(t, InOrder(d)[j])
    <3>1. InOrder(d)[j] \in BaseSet(d)
      BY <1>1
    <3> QED BY <2>1, <3>1
  <2> HIDE DEF Inherited
  <2> QED BY <2>2
<1> HIDE DEF r, q, v
<1> QED BY <1>2, <1>3, <1>4

\* So a class that is built right stays so.
LEMMA BuiltStays ==
  ASSUME Sized, NEW t \in Layouts, NEW u \in Layouts, Stays(t, u), NEW d \in t.ready,
         BuiltRight(t, d)
  PROVE  BuiltRight(u, d)
<1>1. d \in Class /\ IsComplete(d)
  BY LayoutIsTyped DEF BuiltRight
<1>2. ASSUME d \in t.packed, PartsReady(t, d), t.value[d] = DefaultValue(t, d)
      PROVE  d \in u.packed /\ PartsReady(u, d) /\ u.value[d] = DefaultValue(u, d)
  <2>1. d \in u.packed /\ u.pos[d] = t.pos[d] /\ u.rel[d] = t.rel[d] /\ u.value[d] = t.value[d]
    BY <1>2 DEF Stays
  <2>2. DefaultValue(u, d) = DefaultValue(t, d)
    BY <1>1, <1>2, <2>1, SameDefaultValue
  <2>3. PartsReady(u, d)
    BY <1>2 DEF PartsReady, HeldIsReady, Stays
  <2> QED BY <1>2, <2>1, <2>2, <2>3
<1> QED BY <1>1, <1>2 DEF BuiltRight

-----------------------------------------------------------------------------
\* The members that nothing lies on top of are members.
LEMMA DistinctIs ==
  ASSUME LabelTypes, NEW b \in Class, NEW i \in Distinct(b)
  PROVE  i \in 1 .. Len(members[b])
<1>1. /\ Len(members[b]) \in Nat /\ DOMAIN members[b] = 1 .. Len(members[b])
      /\ b \in prog.unions => Len(members[b]) # 0
  BY ProgramTypes
<1> QED BY <1>1 DEF Distinct

\* A class without bits has no member with bits.
LEMMA NoBitsNoWidth ==
  ASSUME Sized, NEW c \in Class, IsComplete(c), bits[c] = 0, NEW i \in 1 .. Len(members[c])
  PROVE  Width(members[c][i]) = 0
<1>1. /\ Offset(c, i, 1 .. Len(members[c])) \in Nat /\ Width(members[c][i]) \in Nat
      /\ Offset(c, i, 1 .. Len(members[c])) + Width(members[c][i]) <= base[c]
  BY OffsetIs, WidthIs
<1>2. base[c] \in Nat /\ base[c] <= 0
  BY CompleteIs
<1> QED BY <1>1, <1>2

\* The default value of a member has its width.
\* The default value of a member has its width.
LEMMA MemberValueDomain ==
  ASSUME NEW t, NEW b, NEW i
  PROVE  DOMAIN MemberValue(t, b, i) = 1 .. Width(members[b][i])
BY DEF MemberValue

\* What a value shows of the classes that class d is built from stays so.
LEMMA ShownStays ==
  ASSUME Sized, NEW t \in Layouts, NEW u \in Layouts, Stays(t, u),
         \A e \in t.ready : BuiltRight(t, e), NEW d \in t.ready, bits[d] # 0,
         NEW b \in Family(d), NEW i \in Distinct(b), NEW v, NEW s,
         Shows(v, s, MemberValue(t, b, i))
  PROVE  Shows(v, s, MemberValue(u, b, i))
<1>1. d \in Class /\ IsComplete(d) /\ PartsReady(t, d)
  BY LayoutIsTyped DEF BuiltRight
<1>2. b \in Class /\ IsComplete(b)
  BY <1>1, CompleteIs DEF Family
<1>3. i \in 1 .. Len(members[b]) /\ members[b][i] \in Member
  BY <1>2, DistinctIs, WidthIs DEF Sized
<1>4. CASE bits[b] = 0
  <2>1. Width(members[b][i]) = 0
    BY <1>2, <1>3, <1>4, NoBitsNoWidth
  <2>2. DOMAIN MemberValue(u, b, i) = {}
    BY <2>1, MemberValueDomain
  <2> QED BY <2>2 DEF Shows
<1>5. CASE bits[b] # 0
  <2>1. PartsReady(t, b)
    <3>1. CASE b = d
      BY <1>1, <3>1
    <3>2. CASE b \in BaseSet(d)
      <4>1. b \in t.ready
        BY <1>1, <1>5, <3>2 DEF PartsReady
      <4> QED BY <1>5, <4>1 DEF BuiltRight
    <3> QED BY <3>1, <3>2 DEF Family
  <2>2. HeldIsReady(t, members[b][i])
    BY <1>3, <2>1 DEF PartsReady
  <2>3. MemberValue(u, b, i) = MemberValue(t, b, i)
    BY <1>2, <1>3, <2>2, SameMemberValue
  <2> QED BY <2>3
<1> QED BY <1>4, <1>5

\* So a constant stays as it was listed.
LEMMA FilledStays ==
  ASSUME Sized, NEW t \in Layouts, NEW u \in Layouts, Stays(t, u),
         \A e \in t.ready : BuiltRight(t, e), NEW c \in Class, FilledRight(t, c),
         u.object[c] = t.object[c]
  PROVE  FilledRight(u, c)
<1> DEFINE d == prog.object[c].of
<1>1. ASSUME bits[d] # 0
      PROVE  /\ d \in u.ready /\ Len(u.object[c][1]) = bits[d]
             /\ ListShown(u, c) /\ RestShown(u, c)
  <2>1. /\ d \in t.ready /\ Len(t.object[c][1]) = bits[d]
        /\ ListShown(t, c) /\ RestShown(t, c)
    BY <1>1 DEF FilledRight
  <2>2. d \in u.ready
    BY <2>1 DEF Stays
  <2>3. ListShown(u, c)
    BY <2>1 DEF ListShown
  <2>4. RestShown(u, c)
    <3> SUFFICES ASSUME NEW b \in Family(d), NEW i \in Distinct(b), Uncovered(c, b, i)
                 PROVE  Shows(u.object[c][1], Start(d, b, i), MemberValue(u, b, i))
      BY DEF RestShown
    <3>1. Shows(u.object[c][1], Start(d, b, i), MemberValue(t, b, i))
      BY <2>1 DEF RestShown
    <3> DEFINE v == u.object[c][1]
               s == Start(d, b, i)
    <3>2. Shows(v, s, MemberValue(t, b, i))
      BY <3>1
    <3> HIDE DEF v, s, d
    <3>3. Shows(v, s, MemberValue(u, b, i))
      BY <1>1, <2>1, <3>2, ShownStays
    <3> QED BY <3>3 DEF v, s
  <2> QED BY <2>1, <2>2, <2>3, <2>4
<1>2. HasObject(c)
  BY DEF FilledRight
<1> QED BY <1>1, <1>2 DEF FilledRight

\* A layout stays settled if what is added to it is right.
LEMMA SettledAdded ==
  ASSUME Sized, NEW t \in Layouts, NEW u \in Layouts, Stays(t, u), Settled(t),
         \A c \in u.packed : c \in t.packed \/ PlacedRight(u, c),
         PlacesKnown(u),
         \A d \in u.ready : d \in t.ready \/ BuiltRight(u, d),
         \A c \in Class : u.object[c] = t.object[c] \/ FilledRight(u, c)
  PROVE  Settled(u)
<1>1. \A e \in t.ready : BuiltRight(t, e)
  BY DEF Settled
<1>2. ASSUME NEW c \in u.packed PROVE PlacedRight(u, c)
  <2>1. CASE c \in t.packed
    <3>1. PlacedRight(t, c) /\ u.pos[c] = t.pos[c] /\ u.rel[c] = t.rel[c]
      BY <2>1 DEF Settled, Stays
    <3> QED BY <3>1 DEF PlacedRight
  <2> QED BY <2>1
<1>3. ASSUME NEW d \in u.ready PROVE BuiltRight(u, d)
  BY <1>1, BuiltStays
<1>4. ASSUME NEW c \in Class, u.object[c] # << >> PROVE FilledRight(u, c)
  <2>1. CASE u.object[c] = t.object[c]
    <3>1. FilledRight(t, c)
      BY <1>4, <2>1 DEF Settled
    <3> QED BY <1>1, <2>1, <3>1, FilledStays
  <2> QED BY <2>1
<1> QED BY <1>2, <1>3, <1>4 DEF Settled

\* Nothing changes in a layout of which only the report does.
LEMMA StaysIs ==
  ASSUME NEW t, NEW u, u.pos = t.pos, u.rel = t.rel, u.packed = t.packed, u.ready = t.ready,
         u.value = t.value
  PROVE  Stays(t, u)
BY DEF Stays

-----------------------------------------------------------------------------
\* The data members of the classes that are packed lie inside of them.
Inside(t) == \A c \in t.packed : \A i \in 1 .. Len(members[c]) : t.pos[c][i] <= bits[c]

\* What packing and building do to a layout: they add to it.
AddsTo(t, u) ==
  /\ u.known = t.known /\ u.folding = t.folding
  /\ t.packed \subseteq u.packed /\ t.ready \subseteq u.ready
  /\ \A c \in Class : t.object[c] # << >> => u.object[c] # << >>
  /\ t.waits <= u.waits /\ t.errors <= u.errors
  /\ Inside(t) => Inside(u)
  /\ Settled(t) => Settled(u)
  /\ \A c \in u.ready : c \in t.ready \/ IsComplete(c)
  /\ \A c \in u.packed : c \in t.packed \/ IsComplete(c)

Later(t, u) == AddsTo(t, u) /\ u.building = t.building

\* What is added to a layout that was added to is added to the first one.
LEMMA AddsToIsTransitive ==
  ASSUME NEW t \in Layouts, NEW u \in Layouts, NEW v \in Layouts, AddsTo(t, u), AddsTo(u, v)
  PROVE  AddsTo(t, v)
<1>1. t.waits \in Nat /\ u.waits \in Nat /\ v.waits \in Nat
      /\ t.errors \in Nat /\ u.errors \in Nat /\ v.errors \in Nat
  BY LayoutIsTyped
<1>3. Settled(t) => Settled(v)
  BY DEF AddsTo
<1>4. /\ v.known = t.known /\ v.folding = t.folding
      /\ t.packed \subseteq v.packed /\ t.ready \subseteq v.ready
      /\ \A c \in Class : t.object[c] # << >> => v.object[c] # << >>
      /\ t.waits <= v.waits /\ t.errors <= v.errors
      /\ Inside(t) => Inside(v)
      /\ \A c \in v.ready : c \in t.ready \/ IsComplete(c)
      /\ \A c \in v.packed : c \in t.packed \/ IsComplete(c)
  BY <1>1 DEF AddsTo
<1> QED BY <1>3, <1>4 DEF AddsTo

\* Only the outcome of t changes: whether it went well, and what was reported.
Outcome(t, u) ==
  /\ u \in Layouts /\ u.pos = t.pos /\ u.rel = t.rel /\ u.packed = t.packed
  /\ u.ready = t.ready /\ u.value = t.value /\ u.object = t.object
  /\ u.known = t.known /\ u.folding = t.folding /\ u.building = t.building

\* A layout stays settled if more of its classes are known.
LEMMA SettledMore ==
  ASSUME NEW t, NEW u, u.pos = t.pos, u.rel = t.rel, u.packed = t.packed, u.ready = t.ready,
         u.value = t.value, u.object = t.object, \A c \in Class : t.known[c] \subseteq u.known[c],
         Settled(t)
  PROVE  Settled(u)
<1>1. \A c \in u.packed : PlacedRight(u, c)
  BY DEF Settled, PlacedRight
<1>2. PlacesKnown(u)
  BY DEF Settled, PlacesKnown, Reliable
<1>3. \A c, i : MemberValue(u, c, i) = MemberValue(t, c, i)
  BY DEF MemberValue
<1>4. \A d : DefaultValue(u, d) = DefaultValue(t, d)
  BY <1>3 DEF DefaultValue
<1>5. \A d : PartsReady(t, d) => PartsReady(u, d)
  BY DEF PartsReady, HeldIsReady
<1>6. \A d \in u.ready : BuiltRight(u, d)
  BY <1>4, <1>5 DEF Settled, BuiltRight
<1>7. \A c : ListShown(t, c) => ListShown(u, c)
  BY DEF ListShown
<1>8. \A c : RestShown(t, c) => RestShown(u, c)
  BY <1>3 DEF RestShown
<1>9. \A c \in Class : u.object[c] # << >> => FilledRight(u, c)
  BY <1>7, <1>8 DEF Settled, FilledRight
<1> QED BY <1>1, <1>2, <1>6, <1>9 DEF Settled

\* A step that leaves the layout alone leaves it settled.
\* What is settled does not depend on it.
LEMMA SettledSame ==
  ASSUME NEW t, NEW u, u.pos = t.pos, u.rel = t.rel, u.packed = t.packed, u.ready = t.ready,
         u.value = t.value, u.object = t.object, u.known = t.known, Settled(t)
  PROVE  Settled(u)
BY SettledMore

\* A layout in which only the report differs is a later one.
LEMMA OutcomeIsLater ==
  ASSUME NEW t \in Layouts, NEW u, Outcome(t, u), t.waits <= u.waits, t.errors <= u.errors
  PROVE  u \in Layouts /\ Later(t, u)
<1>1. Settled(t) => Settled(u)
  BY SettledSame DEF Outcome
<1> QED BY <1>1 DEF Outcome, Later, AddsTo, Inside

Reporting(t, ok, w, e) == [t EXCEPT !.ok = ok, !.waits = w, !.errors = e]

\* A layout with another report.
LEMMA OutcomeIs ==
  ASSUME NEW t \in Layouts, NEW ok \in BOOLEAN, NEW w \in Nat, NEW e \in Nat
  PROVE  LET u == Reporting(t, ok, w, e)
         IN  Outcome(t, u) /\ u.ok = ok /\ u.waits = w /\ u.errors = e
<1> DEFINE u == Reporting(t, ok, w, e)
<1>1. t \in Layout
  BY DEF Layouts
<1>2. u \in Layout
  BY <1>1 DEF Layout, Reporting
<1>3. /\ u.pos = t.pos /\ u.rel = t.rel /\ u.packed = t.packed /\ u.ready = t.ready
      /\ u.value = t.value /\ u.object = t.object /\ u.known = t.known
      /\ u.folding = t.folding /\ u.building = t.building
      /\ u.ok = ok /\ u.waits = w /\ u.errors = e
  BY <1>1 DEF Layout, Reporting
<1> HIDE DEF u
<1>4. u \in Layouts
  BY <1>2, <1>3 DEF Layouts
<1> QED BY <1>3, <1>4 DEF Outcome, u

\* The reports that the operations give.
LEMMA OutcomesAre ==
  ASSUME NEW t \in Layouts
  PROVE  /\ Outcome(t, Good(t)) /\ Good(t).ok = TRUE
         /\ Good(t).waits = t.waits /\ Good(t).errors = t.errors
         /\ Outcome(t, NotReady(t)) /\ NotReady(t).ok = FALSE
         /\ NotReady(t).waits = t.waits /\ NotReady(t).errors = t.errors
         /\ Outcome(t, Wait(t)) /\ Wait(t).ok = FALSE
         /\ Wait(t).waits = t.waits + 1 /\ Wait(t).errors = t.errors
         /\ Outcome(t, Err(t)) /\ Err(t).ok = FALSE
         /\ Err(t).waits = t.waits /\ Err(t).errors = t.errors + 1
<1>1. t.waits \in Nat /\ t.errors \in Nat /\ t.waits + 1 \in Nat /\ t.errors + 1 \in Nat
  BY LayoutIsTyped
<1>2. t \in Layout
  BY DEF Layouts
<1> DEFINE yes == TRUE
           no == FALSE
<1>3. /\ Good(t) = Reporting(t, yes, t.waits, t.errors)
      /\ NotReady(t) = Reporting(t, no, t.waits, t.errors)
      /\ Wait(t) = Reporting(t, no, t.waits + 1, t.errors)
      /\ Err(t) = Reporting(t, no, t.waits, t.errors + 1)
  BY <1>2 DEF Good, NotReady, Wait, Err, Layout, Reporting
<1>4. yes \in BOOLEAN /\ no \in BOOLEAN
  OBVIOUS
<1> HIDE DEF yes, no
<1>5. /\ Outcome(t, Good(t)) /\ Good(t).ok = yes
      /\ Good(t).waits = t.waits /\ Good(t).errors = t.errors
  BY <1>1, <1>3, <1>4, OutcomeIs
<1>6. /\ Outcome(t, NotReady(t)) /\ NotReady(t).ok = no
      /\ NotReady(t).waits = t.waits /\ NotReady(t).errors = t.errors
  BY <1>1, <1>3, <1>4, OutcomeIs
<1>7. /\ Outcome(t, Wait(t)) /\ Wait(t).ok = no
      /\ Wait(t).waits = t.waits + 1 /\ Wait(t).errors = t.errors
  BY <1>1, <1>3, <1>4, OutcomeIs
<1>8. /\ Outcome(t, Err(t)) /\ Err(t).ok = no
      /\ Err(t).waits = t.waits /\ Err(t).errors = t.errors + 1
  BY <1>1, <1>3, <1>4, OutcomeIs
<1> QED BY <1>5, <1>6, <1>7, <1>8 DEF yes, no

\* All of them leave the layout as it is.
LEMMA LaterOutcomes ==
  ASSUME NEW t \in Layouts
  PROVE  /\ Good(t) \in Layouts /\ Later(t, Good(t))
         /\ NotReady(t) \in Layouts /\ Later(t, NotReady(t))
         /\ Wait(t) \in Layouts /\ Later(t, Wait(t))
         /\ Err(t) \in Layouts /\ Later(t, Err(t))
<1>1. t.waits \in Nat /\ t.errors \in Nat
  BY LayoutIsTyped
<1>2. /\ t.waits <= t.waits + 1 /\ t.errors <= t.errors + 1
      /\ t.waits <= t.waits /\ t.errors <= t.errors
  BY <1>1
<1> QED BY <1>2, OutcomesAre, OutcomeIsLater

\* And keeps the layout of the second part, and reports the failure of either.
LEMMA AndIs ==
  ASSUME NEW t \in Layouts, NEW u \in Layouts
  PROVE  /\ Outcome(u, And(t, u)) /\ And(t, u).ok = (u.ok /\ t.ok)
         /\ And(t, u).waits = u.waits /\ And(t, u).errors = u.errors
<1>1. u.waits \in Nat /\ u.errors \in Nat /\ u.ok \in BOOLEAN /\ t.ok \in BOOLEAN
  BY LayoutIsTyped
<1>2. u \in Layout
  BY DEF Layouts
<1> DEFINE ok == u.ok /\ t.ok
<1>3. And(t, u) = Reporting(u, ok, u.waits, u.errors)
  BY <1>2 DEF And, Layout, Reporting
<1>4. ok \in BOOLEAN
  OBVIOUS
<1> HIDE DEF ok
<1>5. /\ Outcome(u, And(t, u)) /\ And(t, u).ok = ok
      /\ And(t, u).waits = u.waits /\ And(t, u).errors = u.errors
  BY <1>1, <1>3, <1>4, OutcomeIs
<1> QED BY <1>5 DEF ok

\* Later than a later layout is later.
LEMMA LaterIsTransitive ==
  ASSUME NEW t \in Layouts, NEW u \in Layouts, NEW v \in Layouts, Later(t, u), Later(u, v)
  PROVE  Later(t, v)
BY AddsToIsTransitive DEF Later

\* Doing nothing adds to a layout.
LEMMA LaterIsReflexive ==
  ASSUME NEW t \in Layouts
  PROVE  Later(t, t)
BY LayoutIsTyped DEF Later, AddsTo

-----------------------------------------------------------------------------
\* The parts of a layout that packing gives to a class.
Positions(t, c) ==
  [i \in DOMAIN t.pos[c] |-> IF i \in t.known[c] THEN Offset(c, i, t.known[c]) ELSE t.pos[c][i]]

BasePositions(t, c) ==
  [b \in Class |-> IF b \in BaseSet(c)
                   THEN Offset(c, Len(members[c]) + 1, t.known[c]) + BaseBits(Before(c, b))
                   ELSE t.rel[c][b]]

\* Packing gives a position to every member that it had one for.
LEMMA PositionsType ==
  ASSUME Sized, NEW t \in Layouts, NEW c \in Class
  PROVE  /\ Positions(t, c) \in Seq(Int) /\ Len(Positions(t, c)) = Len(members[c])
         /\ BasePositions(t, c) \in [Class -> Int]
         /\ DOMAIN t.pos[c] = 1 .. Len(members[c])
<1> DEFINE n == Len(members[c])
           K == t.known[c]
<1>1. /\ LabelTypes /\ n \in Nat /\ DOMAIN members[c] = 1 .. n
  BY ProgramTypes DEF Sized
<1>2. /\ t.pos[c] \in Seq(Int) /\ Len(t.pos[c]) = n /\ K \subseteq 1 .. n
      /\ t.rel[c] \in [Class -> Int]
  BY <1>1, LayoutIsTyped
<1>3. DOMAIN t.pos[c] = 1 .. n /\ \A i \in 1 .. n : t.pos[c][i] \in Int
  BY <1>1, <1>2
<1>4. \A i \in 1 .. n + 1 : Offset(c, i, K) \in Int
  BY <1>2, OffsetType
<1>5. Positions(t, c) \in [1 .. n -> Int]
  BY <1>1, <1>3, <1>4 DEF Positions
<1>6. Positions(t, c) \in Seq(Int) /\ Len(Positions(t, c)) = n
  <2> DEFINE p == Positions(t, c)
  <2> HIDE DEF p, n
  <2>1. p \in [1 .. n -> Int] /\ n \in Nat
    BY <1>1, <1>5 DEF p
  <2>2. p \in Seq(Int) /\ Len(p) = n
    BY <2>1
  <2> QED BY <2>2 DEF p
<1>7. \A b \in Class : Before(c, b) \in SUBSET BaseSet(c)
  BY <1>1, InOrderIs DEF Before
<1>8. \A b \in Class : BaseBits(Before(c, b)) \in Int
  BY <1>7, BaseBitsType
<1>9. n + 1 \in 1 .. n + 1
  BY <1>1
<1>10. BasePositions(t, c) \in [Class -> Int]
  BY <1>2, <1>4, <1>8, <1>9 DEF BasePositions
<1> QED BY <1>3, <1>6, <1>10

\* A layout with other positions.
Moved(t, p, r, Q, ok) == [t EXCEPT !.pos = p, !.rel = r, !.packed = Q, !.ok = ok]

IsMoved(t, u, p, r, Q, ok) ==
  /\ u \in Layouts /\ u.pos = p /\ u.rel = r /\ u.packed = Q /\ u.ok = ok
  /\ u.ready = t.ready /\ u.value = t.value /\ u.object = t.object
  /\ u.known = t.known /\ u.folding = t.folding /\ u.building = t.building
  /\ u.waits = t.waits /\ u.errors = t.errors

\* A layout with other positions.
LEMMA MovedIs ==
  ASSUME NEW t \in Layouts, NEW p \in [Class -> Seq(Int)], NEW r \in [Class -> [Class -> Int]],
         NEW Q \in SUBSET Class, NEW ok \in BOOLEAN, \A c \in Class : Len(p[c]) = Len(members[c])
  PROVE  IsMoved(t, Moved(t, p, r, Q, ok), p, r, Q, ok)
<1> DEFINE u == Moved(t, p, r, Q, ok)
<1>1. t \in Layout
  BY DEF Layouts
<1>2. u \in Layout
  BY <1>1 DEF Layout, Moved
<1>3. /\ u.pos = p /\ u.rel = r /\ u.packed = Q /\ u.ok = ok
      /\ u.ready = t.ready /\ u.value = t.value /\ u.object = t.object
      /\ u.known = t.known /\ u.folding = t.folding /\ u.building = t.building
      /\ u.waits = t.waits /\ u.errors = t.errors
  BY <1>1 DEF Layout, Moved
<1> HIDE DEF u
<1>4. \A c \in Class : /\ Len(u.pos[c]) = Len(members[c])
                       /\ u.known[c] \subseteq DOMAIN members[c]
                       /\ c \in u.ready => Len(u.value[c]) = bits[c]
  BY <1>3, LayoutIsTyped
<1>5. u \in Layouts
  BY <1>2, <1>4 DEF Layouts
<1> QED BY <1>3, <1>5 DEF u, IsMoved

\* Layout u is t with class c packed, as far as its members have types.
PackedTo(t, u, c) ==
  /\ u.pos[c] = Positions(t, c) /\ u.rel[c] = BasePositions(t, c)
  /\ \A d \in Class : d # c => u.pos[d] = t.pos[d] /\ u.rel[d] = t.rel[d]
  /\ u.packed = IF t.known[c] = DOMAIN members[c] THEN t.packed \cup {c} ELSE t.packed
  /\ u.ready = t.ready /\ u.value = t.value /\ u.object = t.object /\ u.known = t.known

\* The class gets the right positions if they are all known, and moves nothing else.
LEMMA PackedToIs ==
  ASSUME Sized, NEW t \in Layouts, NEW u \in Layouts, NEW c \in Class, c \notin t.packed,
         IsComplete(c), PackedTo(t, u, c)
  PROVE  Stays(t, u) /\ (Settled(t) => Settled(u))
<1> DEFINE n == Len(members[c])
           all == t.known[c] = DOMAIN members[c]
<1>1. /\ n \in Nat /\ DOMAIN members[c] = 1 .. n
      /\ DOMAIN t.pos[c] = 1 .. n /\ u.packed \in SUBSET Class /\ t.packed \in SUBSET Class
  BY ProgramTypes, PositionsType, LayoutIsTyped DEF Sized
<1>2. \A d \in t.packed : d # c /\ d \in Class
  BY <1>1
<1>3. Stays(t, u)
  BY <1>2 DEF Stays, PackedTo
<1>4. ASSUME all PROVE PlacedRight(u, c)
  <2>1. ASSUME NEW i \in 1 .. n PROVE u.pos[c][i] = Offset(c, i, 1 .. n)
    BY <1>1, <1>4 DEF PackedTo, Positions
  <2>2. ASSUME NEW b \in BaseSet(c) PROVE u.rel[c][b] = BaseStart(c, b)
    <3>1. b \in Class /\ b # c
      <4>1. RightFor(c, bits, base) /\ bits[c] >= 0
        BY DEF Sized, SizesRight, IsComplete
      <4>2. c \notin BaseSet(c)
        BY <4>1 DEF RightFor
      <4> QED BY <4>2, CompleteIs
    <3> QED BY <1>1, <1>4, <3>1 DEF PackedTo, BasePositions, BaseStart
  <2> QED BY <2>1, <2>2 DEF PlacedRight
<1>5. ASSUME Settled(t) PROVE PlacesKnown(u)
  <2> SUFFICES ASSUME NEW d \in Class, NEW i \in 1 .. Len(members[d]), Reliable(u, d, i)
               PROVE  i \in u.known[d]
    BY DEF PlacesKnown
  <2>1. ASSUME d # c \/ i \notin t.known[c] PROVE Reliable(t, d, i)
    BY <1>1, <2>1 DEF Reliable, PackedTo, Positions
  <2> QED BY <1>5, <2>1 DEF Settled, PlacesKnown, PackedTo
<1>6. ASSUME Settled(t) PROVE Settled(u)
  <2>1. \A d \in u.packed : d \in t.packed \/ PlacedRight(u, d)
    BY <1>4 DEF PackedTo
  <2>2. /\ \A d \in u.ready : d \in t.ready \/ BuiltRight(u, d)
        /\ \A d \in Class : u.object[d] = t.object[d] \/ FilledRight(u, d)
    BY DEF PackedTo
  <2> QED BY <1>3, <1>5, <1>6, <2>1, <2>2, SettledAdded
<1> QED BY <1>3, <1>6

\* A class whose members all have types is packed, and the others stay as they are.
LEMMA PackBitsIs ==
  ASSUME Sized, NEW t \in Layouts, NEW c \in Class, c \notin t.packed, IsComplete(c)
  PROVE  LET u == PackBits(t, c)
         IN  /\ u \in Layouts /\ Later(t, u)
             /\ u.waits = t.waits /\ u.errors = t.errors
             /\ t.known[c] = DOMAIN members[c] => c \in u.packed
             /\ u.ok => c \in u.packed
<1> DEFINE u == PackBits(t, c)
           n == Len(members[c])
           all == t.known[c] = DOMAIN members[c]
           p == [t.pos EXCEPT ![c] = Positions(t, c)]
           r == [t.rel EXCEPT ![c] = BasePositions(t, c)]
           Q == IF all THEN t.packed \cup {c} ELSE t.packed
<1>1. t \in Layout
  BY DEF Layouts
<1>3. u = Moved(t, p, r, Q, all)
  BY <1>1 DEF PackBits, Layout, Positions, BasePositions, Moved
<1> HIDE DEF u
<1>4. /\ p \in [Class -> Seq(Int)] /\ \A d \in Class : Len(p[d]) = Len(members[d])
      /\ p[c] = Positions(t, c) /\ \A d \in Class : d # c => p[d] = t.pos[d]
  <2>1. t.pos \in [Class -> Seq(Int)] /\ \A d \in Class : Len(t.pos[d]) = Len(members[d])
    BY LayoutIsTyped
  <2>2. Positions(t, c) \in Seq(Int) /\ Len(Positions(t, c)) = Len(members[c])
    BY PositionsType
  <2> QED BY <2>1, <2>2
<1>6. r \in [Class -> [Class -> Int]] /\ Q \in SUBSET Class /\ all \in BOOLEAN
  BY PositionsType, LayoutIsTyped
<1>14. r[c] = BasePositions(t, c) /\ \A d \in Class : d # c => r[d] = t.rel[d]
  BY PositionsType, LayoutIsTyped
<1> HIDE DEF p, r, all
<1>9. Q = IF all THEN t.packed \cup {c} ELSE t.packed
  OBVIOUS
<1> HIDE DEF Q
<1>7. /\ u \in Layouts /\ u.pos = p /\ u.rel = r /\ u.packed = Q /\ u.ok = all
      /\ u.ready = t.ready /\ u.value = t.value /\ u.object = t.object
      /\ u.known = t.known /\ u.folding = t.folding /\ u.building = t.building
      /\ u.waits = t.waits /\ u.errors = t.errors
  <2>1. /\ p \in [Class -> Seq(Int)] /\ r \in [Class -> [Class -> Int]] /\ Q \in SUBSET Class
        /\ all \in BOOLEAN /\ \A d \in Class : Len(p[d]) = Len(members[d])
    BY <1>4, <1>6
  <2>2. IsMoved(t, Moved(t, p, r, Q, all), p, r, Q, all)
    BY ONLY t \in Layouts, <2>1, MovedIs
  <2> QED BY <1>3, <2>2 DEF IsMoved
<1>8. ASSUME Inside(t) PROVE Inside(u)
  <2> SUFFICES ASSUME NEW d \in u.packed, NEW i \in 1 .. Len(members[d])
               PROVE  u.pos[d][i] <= bits[d]
    BY DEF Inside
  <2>1. d \in Class
    BY <1>6, <1>7
  <2>2. CASE d # c
    <3>1. d \in t.packed /\ u.pos[d] = t.pos[d]
      BY <1>4, <1>7, <1>9, <2>1, <2>2
    <3> QED BY <1>8, <3>1 DEF Inside
  <2>3. CASE d = c
    <3>1. all
      BY <1>7, <1>9, <2>3
    <3>2. t.known[c] = 1 .. n /\ n \in Nat
      BY <3>1, ProgramTypes DEF all, Sized
    <3>3. u.pos[c] = Positions(t, c)
      BY <1>4, <1>7
    <3>4. Positions(t, c)[i] = Offset(c, i, 1 .. n)
      BY <2>3, <3>2, PositionsType DEF Positions
    <3>5. /\ Offset(c, i, 1 .. n) \in Nat
          /\ Offset(c, i, 1 .. n) + Width(members[c][i]) <= base[c]
      BY <2>3, OffsetIs
    <3>6. Width(members[c][i]) \in Nat /\ base[c] \in Nat /\ bits[c] \in Nat /\ base[c] <= bits[c]
      BY <2>3, WidthIs, CompleteIs
    <3> QED BY <2>3, <3>3, <3>4, <3>5, <3>6
  <2> QED BY <2>2, <2>3
<1>10. t.waits \in Nat /\ t.errors \in Nat
  BY LayoutIsTyped
<1>13. Stays(t, u) /\ (Settled(t) => Settled(u))
  <2>1. PackedTo(t, u, c)
    BY <1>4, <1>7, <1>9, <1>14 DEF PackedTo, all
  <2> QED BY <1>7, <2>1, PackedToIs
<1>11. Later(t, u)
  BY <1>7, <1>8, <1>9, <1>10, <1>13 DEF Later, AddsTo
<1>12. all => c \in u.packed
  BY <1>7, <1>9
<1> QED BY <1>7, <1>11, <1>12 DEF u, all

\* Packing goes on only for a class that is not packed yet and is complete.
LEMMA PackClassIs ==
  ASSUME Sized, NEW t \in Layouts, NEW c \in Class
  PROVE  LET u == PackClass(t, c)
         IN  /\ u \in Layouts /\ Later(t, u)
             /\ u.waits = t.waits /\ u.errors = t.errors
             /\ IsComplete(c) /\ t.known[c] = DOMAIN members[c] => c \in u.packed
             /\ c \in t.packed => u = Good(t)
             /\ c \notin t.packed /\ ~ IsComplete(c) => ~ u.ok
             /\ u.ok => c \in u.packed
<1>1. CASE c \in t.packed
  BY <1>1, LaterOutcomes, OutcomesAre DEF PackClass, Outcome
<1>2. CASE c \notin t.packed /\ ~ IsComplete(c)
  BY <1>2, LaterOutcomes, OutcomesAre DEF PackClass
<1>3. CASE c \notin t.packed /\ IsComplete(c)
  BY <1>3, PackBitsIs DEF PackClass
<1> QED BY <1>1, <1>2, <1>3

-----------------------------------------------------------------------------
\* Steps that add to the layout, one after the other, add to it.
LEMMA LaterInTurn ==
  ASSUME NEW n \in Nat, NEW t \in Layouts, NEW F \in [(1 .. n) \X Layouts -> Layouts],
         \A i \in 1 .. n : \A u \in Layouts : Later(u, F[<<i, u>>])
  PROVE  InTurn(F, t, n) \in Layouts /\ Later(t, InTurn(F, t, n))
<1> DEFINE S == {x \in (0 .. n) \X Layouts : Later(t, x[2])}
<1>1. <<0, t>> \in S
  BY LaterIsReflexive
<1>2. ASSUME NEW i \in 1 .. n, NEW u \in Layouts, <<i - 1, u>> \in S
      PROVE  <<i, F[<<i, u>>]>> \in S
  <2>1. Later(t, u) /\ Later(u, F[<<i, u>>]) /\ F[<<i, u>>] \in Layouts /\ i \in 0 .. n
    BY <1>2
  <2> QED BY <2>1, LaterIsTransitive
<1> HIDE DEF S
<1>3. InTurn(F, t, n) \in Layouts /\ <<n, InTurn(F, t, n)>> \in S
  BY <1>1, <1>2, InTurnKeeps
<1> QED BY <1>3 DEF S

-----------------------------------------------------------------------------
(***************************************************************************)
(* PackHierarchy calls itself for base classes of complete classes, which  *)
(* have fewer base classes.                                                *)
(***************************************************************************)
Calls == Class \X Layouts

Packs == {G \in [Calls -> Layouts] : \A x \in Calls : Later(x[2], G[x])}

\* What a function of the layout is asked for.
LEMMA CallIs ==
  ASSUME NEW c \in Class, NEW t \in Layouts
  PROVE  <<c, t>> \in Calls /\ <<c, t>>[1] = c /\ <<c, t>>[2] = t
BY DEF Calls

\* A function that packs leaves a later layout.
LEMMA PacksAre ==
  ASSUME NEW G \in Packs, NEW c \in Class, NEW t \in Layouts
  PROVE  G[<<c, t>>] \in Layouts /\ Later(t, G[<<c, t>>])
<1>1. G \in [Calls -> Layouts] /\ \A x \in Calls : Later(x[2], G[x])
  BY DEF Packs
<1> QED BY <1>1, CallIs

\* What a class is packed to before its base classes are.
PackedFirst(t, c) == IF t.ok /\ bits[c] # 0 THEN PackClass(t, c) ELSE t

\* So does the packing of the class itself, before its base classes.
LEMMA PackedFirstIs ==
  ASSUME Sized, NEW t \in Layouts, NEW c \in Class
  PROVE  PackedFirst(t, c) \in Layouts /\ Later(t, PackedFirst(t, c))
BY PackClassIs, LaterIsReflexive DEF PackedFirst

PackBases(c, G) == [x \in (DOMAIN bases[c]) \X Layouts |-> G[<<bases[c][x[1]], x[2]>>]]

\* The base classes are packed one after the other.
LEMMA PackBasesIs ==
  ASSUME LabelTypes, NEW c \in Class, NEW G \in Packs
  PROVE  /\ Len(bases[c]) \in Nat /\ DOMAIN bases[c] = 1 .. Len(bases[c])
         /\ \A i \in 1 .. Len(bases[c]) : bases[c][i] \in Class /\ bases[c][i] \in ToSet(bases[c])
         /\ PackBases(c, G) \in [(1 .. Len(bases[c])) \X Layouts -> Layouts]
         /\ \A i \in 1 .. Len(bases[c]) : \A u \in Layouts : Later(u, PackBases(c, G)[<<i, u>>])
<1> DEFINE n == Len(bases[c])
<1>1. n \in Nat /\ DOMAIN bases[c] = 1 .. n
      /\ \A i \in 1 .. n : bases[c][i] \in Class /\ bases[c][i] \in ToSet(bases[c])
  <2>1. bases[c] \in Seq(Class)
    BY ProgramTypes
  <2> QED BY <2>1 DEF ToSet
<1> HIDE DEF n
<1>2. ASSUME NEW i \in 1 .. n, NEW u \in Layouts
      PROVE  /\ <<i, u>> \in (1 .. n) \X Layouts
             /\ G[<<bases[c][i], u>>] \in Layouts /\ Later(u, G[<<bases[c][i], u>>])
  BY <1>1, PacksAre
<1>3. PackBases(c, G) = [x \in (1 .. n) \X Layouts |-> G[<<bases[c][x[1]], x[2]>>]]
  BY <1>1 DEF PackBases
<1>4. PackBases(c, G) \in [(1 .. n) \X Layouts -> Layouts]
  BY <1>2, <1>3
<1>5. \A i \in 1 .. n : \A u \in Layouts : PackBases(c, G)[<<i, u>>] = G[<<bases[c][i], u>>]
  BY <1>3
<1> QED BY <1>1, <1>2, <1>4, <1>5 DEF n

-----------------------------------------------------------------------------
\* A function that a recursive definition gives is the only one, if the body
\* applies it only where a number is less.
LEMMA MeasuredInduction ==
  ASSUME NEW X, NEW mu \in [X -> Nat], NEW f, NEW g,
         \A x \in X : (\A y \in X : mu[y] < mu[x] => f[y] = g[y]) => f[x] = g[x]
  PROVE  \A x \in X : f[x] = g[x]
<1> DEFINE T == {n \in Nat : \A x \in X : mu[x] < n => f[x] = g[x]}
<1>1. \A x \in X : mu[x] \in Nat
  OBVIOUS
<1>2. 0 \in T
  BY <1>1
<1>3. ASSUME NEW n \in Nat, n \in T PROVE n + 1 \in T
  <2> SUFFICES ASSUME NEW x \in X, mu[x] < n + 1 PROVE f[x] = g[x]
    OBVIOUS
  <2>1. \A y \in X : mu[y] < mu[x] => mu[y] < n
    BY <1>1
  <2>2. \A y \in X : mu[y] < mu[x] => f[y] = g[y]
    BY <1>3, <2>1
  <2> QED BY <2>2
<1>4. Nat \subseteq T
  <2> HIDE DEF T
  <2> QED BY <1>2, <1>3, NumberInduction
<1>5. \A x \in X : mu[x] + 1 \in Nat /\ mu[x] < mu[x] + 1
  BY <1>1
<1> QED BY <1>4, <1>5

BaseCount(c) == Cardinality(BaseSet(c))

\* There are not more base classes than classes.
LEMMA BaseCountIs ==
  ASSUME LabelTypes, NEW c \in Class
  PROVE  BaseCount(c) \in Nat /\ BaseCount(c) <= Cardinality(Class) /\ Cardinality(Class) \in Nat
<1>1. IsFiniteSet(Class) /\ BaseSet(c) \in SUBSET Class /\ IsFiniteSet(BaseSet(c))
  BY BaseSetIs, ProgramTypes
<1>2. Cardinality(BaseSet(c)) <= Cardinality(Class)
  BY <1>1, FS_Subset
<1> QED BY <1>1, <1>2, FS_CardinalityType DEF BaseCount

\* Packing a hierarchy leaves a later layout if packing those of the base classes does.
LEMMA HierarchyType ==
  ASSUME Sized, NEW c \in Class, NEW t \in Layouts, NEW G \in Packs
  PROVE  Hierarchy(t, c, G) \in Layouts /\ Later(t, Hierarchy(t, c, G))
<1> DEFINE n == Len(bases[c])
           s == PackedFirst(t, c)
           F == PackBases(c, G)
<1>1. CASE ~ IsComplete(c)
  BY <1>1, LaterOutcomes DEF Hierarchy
<1>2. CASE IsComplete(c)
  <2>1. s \in Layouts /\ Later(t, s)
    BY PackedFirstIs
  <2>2. n \in Nat /\ F \in [(1 .. n) \X Layouts -> Layouts]
        /\ \A i \in 1 .. n : \A u \in Layouts : Later(u, F[<<i, u>>])
    BY PackBasesIs DEF Sized
  <2>3. Hierarchy(t, c, G) = InTurn(F, s, n)
    BY <1>2 DEF Hierarchy, PackBases, PackedFirst
  <2> HIDE DEF n, s, F
  <2>4. InTurn(F, s, n) \in Layouts /\ Later(s, InTurn(F, s, n))
    BY <2>1, <2>2, LaterInTurn
  <2> QED BY <2>1, <2>3, <2>4, LaterIsTransitive
<1> QED BY <1>1, <1>2

\* It asks for nothing but the hierarchies of classes with fewer bases.
LEMMA SameHierarchy ==
  ASSUME Sized, NEW c \in Class, NEW t \in Layouts, NEW G \in Packs, NEW K,
         \A y \in Calls : BaseCount(y[1]) < BaseCount(c) => G[y] = K[y]
  PROVE  Hierarchy(t, c, G) = Hierarchy(t, c, K)
<1> DEFINE n == Len(bases[c])
           s == PackedFirst(t, c)
           F == PackBases(c, G)
           H == PackBases(c, K)
<1>1. CASE ~ IsComplete(c)
  BY <1>1 DEF Hierarchy
<1>2. CASE IsComplete(c)
  <2>1. s \in Layouts
    BY PackedFirstIs
  <2>2. /\ n \in Nat /\ DOMAIN bases[c] = 1 .. n
        /\ \A i \in 1 .. n : bases[c][i] \in Class /\ bases[c][i] \in ToSet(bases[c])
        /\ F \in [(1 .. n) \X Layouts -> Layouts]
    BY PackBasesIs DEF Sized
  <2>3. Hierarchy(t, c, G) = InTurn(F, s, n) /\ Hierarchy(t, c, K) = InTurn(H, s, n)
    BY <1>2 DEF Hierarchy, PackBases, PackedFirst
  <2>4. ToSet(bases[c]) \subseteq BaseSet(c)
        /\ \A b \in BaseSet(c) : BaseCount(b) < BaseCount(c)
    BY <1>2, CompleteIs, BaseSetIsClosed DEF Sized, BaseCount
  <2>5. ASSUME NEW i \in 1 .. n, NEW u \in Layouts PROVE F[<<i, u>>] = H[<<i, u>>]
    <3> DEFINE b == bases[c][i]
    <3>1. b \in Class /\ BaseCount(b) < BaseCount(c)
      BY <2>2, <2>4
    <3> HIDE DEF b
    <3>2. G[<<b, u>>] = K[<<b, u>>]
      BY <3>1, CallIs
    <3>3. F[<<i, u>>] = G[<<b, u>>] /\ H[<<i, u>>] = K[<<b, u>>]
      BY <2>2 DEF PackBases, b
    <3> QED BY <3>2, <3>3
  <2> HIDE DEF n, s, F, H
  <2>6. SameSteps(F, H, n, Layouts, Layouts)
    BY <2>2, <2>5 DEF SameSteps
  <2>7. InTurn(F, s, n) = InTurn(H, s, n)
    BY ONLY <2>1, <2>2, <2>6, InTurnSame
  <2> QED BY <2>3, <2>7
<1> QED BY <1>1, <1>2

\* PackHierarchy is the function that its definition says.
LEMMA PackHierarchyUnfolds ==
  ASSUME Sized
  PROVE  PackHierarchy \in Packs
<1> DEFINE X == Calls
           Body(G) == [x \in X |-> Hierarchy(x[2], x[1], G)]
           H == [G \in Packs |-> Body(G)]
           mu == [x \in X |-> BaseCount(x[1])]
           N == Cardinality(Class) + 1
<1>1. \A x \in X : x[1] \in Class /\ x[2] \in Layouts
  BY DEF Calls
<1>2. ASSUME NEW G \in Packs PROVE Body(G) \in Packs
  <2>1. ASSUME NEW x \in X
        PROVE  Hierarchy(x[2], x[1], G) \in Layouts /\ Later(x[2], Hierarchy(x[2], x[1], G))
    BY <1>1, HierarchyType
  <2> QED BY <2>1 DEF Packs
<1>3. H \in [Packs -> Packs]
  <2> HIDE DEF Body
  <2> QED BY <1>2
<1>4. mu \in [X -> Nat] /\ N \in Nat /\ Bounded(X, mu, N)
  <2>1. \A x \in X : BaseCount(x[1]) \in Nat /\ BaseCount(x[1]) < N
    BY <1>1, BaseCountIs DEF Sized
  <2>2. Cardinality(Class) \in Nat
    BY ProgramTypes, FS_CardinalityType DEF Sized
  <2> HIDE DEF X
  <2> QED BY <2>1, <2>2 DEF Bounded
<1>5. ASSUME NEW G \in Packs, NEW K, NEW x \in X,
             \A y \in X : mu[y] < mu[x] => G[y] = K[y]
      PROVE  Hierarchy(x[2], x[1], G) = Hierarchy(x[2], x[1], K)
  <2>1. \A y \in Calls : BaseCount(y[1]) < BaseCount(x[1]) => G[y] = K[y]
    BY <1>5
  <2> QED BY <1>1, <2>1, SameHierarchy
<1>6. Packs \in SUBSET [X -> Layouts] /\ Packs # {}
  <2>1. [x \in X |-> x[2]] \in Packs
    BY <1>1, LaterIsReflexive DEF Packs
  <2>2. Packs \subseteq [X -> Layouts]
    BY DEF Packs
  <2> QED BY <2>1, <2>2
<1>7. HasSolution(Packs, H)
  <2>2. ASSUME NEW G \in Packs, NEW K \in Packs, NEW x \in X,
               \A y \in X : mu[y] < mu[x] => G[y] = K[y]
        PROVE  H[G][x] = H[K][x]
    BY <1>5, <2>2
  <2> HIDE DEF H, mu, X, N
  <2>1. LooksBelow(X, Packs, H, mu)
    BY <2>2 DEF LooksBelow
  <2> QED BY <1>3, <1>4, <1>6, <2>1, MeasuredRecursion, Zenon
<1>8. PICK f \in Packs : f = H[f]
  BY <1>7 DEF HasSolution
<1>9. f = Body(f)
  <2> HIDE DEF Body
  <2> QED BY <1>8
<1>10. PackHierarchy = Body(PackHierarchy)
  BY <1>9, Zenon DEF PackHierarchy, Calls
<1>11. \A x \in X : PackHierarchy[x] = Hierarchy(x[2], x[1], PackHierarchy)
                    /\ f[x] = Hierarchy(x[2], x[1], f)
  BY <1>9, <1>10
<1>12. ASSUME NEW x \in X, \A y \in X : mu[y] < mu[x] => f[y] = PackHierarchy[y]
       PROVE  f[x] = PackHierarchy[x]
  BY <1>5, <1>11, <1>12
<1>13. \A x \in X : f[x] = PackHierarchy[x]
  <2> HIDE DEF mu, X
  <2> QED BY <1>4, <1>12, MeasuredInduction
<1>14. f = PackHierarchy
  <2>1. f = [x \in X |-> f[x]]
    BY <1>9
  <2>2. PackHierarchy = [x \in X |-> PackHierarchy[x]]
    BY <1>10
  <2> HIDE DEF X
  <2> QED BY <1>13, <2>1, <2>2
<1> QED BY <1>14

\* So there is a function that packs hierarchies, and it leaves a later layout.
LEMMA TryToPackIs ==
  ASSUME Sized, NEW t \in Layouts, NEW c \in Class
  PROVE  LET u == TryToPackAClassHierarchy(t, c)
         IN  u \in Layouts /\ Later(t, u)
<1> DEFINE g == Good(t)
           u == PackHierarchy[<<c, g>>]
<1>1. g \in Layouts /\ Later(t, g)
  BY LaterOutcomes
<1>2. u \in Layouts /\ Later(g, u)
  BY <1>1, PackHierarchyUnfolds, PacksAre
<1> HIDE DEF g, u
<1>3. Later(t, u)
  BY <1>1, <1>2, LaterIsTransitive
<1> QED BY <1>2, <1>3 DEF TryToPackAClassHierarchy, g, u

-----------------------------------------------------------------------------
\* A sequence behind another one.
LEMMA ConcatIs ==
  ASSUME NEW m \in Nat, NEW n \in Nat, NEW r, NEW s, NEW S,
         r \in [1 .. m -> S] /\ s \in [1 .. n -> S]
  PROVE  r \o s \in [1 .. m + n -> S]
<1>1. r \in Seq(S) /\ Len(r) = m /\ s \in Seq(S) /\ Len(s) = n
  OBVIOUS
<1>2. r \o s \in Seq(S) /\ Len(r \o s) = m + n
  BY <1>1
<1> DEFINE q == r \o s
<1>3. q \in Seq(S) /\ Len(q) = m + n
  BY <1>2
<1> HIDE DEF q
<1>4. q \in [1 .. m + n -> S]
  BY <1>3
<1> QED BY <1>4 DEF q

\* The patches whose bits are bits of values.
PatchSet == {p \in [bits : UNION {[1 .. n -> Bit] : n \in Int}, at : Int] : TRUE}

\* Bits at a position.
LEMMA PatchIs ==
  ASSUME NEW n \in Int, NEW w \in [1 .. n -> Bit], NEW a \in Int
  PROVE  Patch(w, a) \in PatchSet
BY DEF Patch, PatchSet

\* Patches leave a value as long as it was.
LEMMA PatchedType ==
  ASSUME NEW v \in Seq(Bit), NEW m \in Nat, NEW ps \in [1 .. m -> PatchSet]
  PROVE  Patched(v, ps) \in Seq(Bit) /\ Len(Patched(v, ps)) = Len(v)
<1> DEFINE n == Len(v)
           On(k) == {j \in DOMAIN ps : k - ps[j].at \in DOMAIN ps[j].bits}
           p == Patched(v, ps)
<1>1. n \in Nat /\ DOMAIN v = 1 .. n /\ \A k \in 1 .. n : v[k] \in Bit
  OBVIOUS
<1> HIDE DEF n
<1>2. ASSUME NEW k \in 1 .. n, On(k) # {}
      PROVE  ps[Max(On(k))].bits[k - ps[Max(On(k))].at] \in Bit
  <2> DEFINE j == Max(On(k))
  <2>1. On(k) \in SUBSET (1 .. m) /\ On(k) \in SUBSET Int
    OBVIOUS
  <2>2. IsFiniteSet(On(k))
    <3>1. IsFiniteSet(1 .. m)
      BY FS_Interval
    <3> HIDE DEF On
    <3> QED BY <2>1, <3>1, FS_Subset
  <2>3. j \in On(k)
    <3> HIDE DEF On
    <3> QED BY <1>2, <2>1, <2>2, GreatestNumber
  <2> HIDE DEF j
  <2>4. j \in 1 .. m /\ k - ps[j].at \in DOMAIN ps[j].bits
    BY <2>3
  <2>5. ps[j] \in PatchSet
    BY <2>4
  <2>6. PICK l \in Int : ps[j].bits \in [1 .. l -> Bit]
    BY <2>5 DEF PatchSet
  <2>7. ps[j].bits[k - ps[j].at] \in Bit
    BY <2>4, <2>6
  <2> QED BY <2>7 DEF j
<1>3. p = [k \in 1 .. n |-> IF On(k) = {} THEN v[k]
                            ELSE ps[Max(On(k))].bits[k - ps[Max(On(k))].at]]
  BY <1>1 DEF Patched
<1> HIDE DEF On, p
<1>4. p \in [1 .. n -> Bit]
  BY <1>1, <1>2, <1>3
<1>5. p \in Seq(Bit) /\ Len(p) = n
  BY <1>1, <1>4
<1> QED BY <1>5 DEF p, n

\* The bits that values have.
LEMMA BitIs ==
  ASSUME NEW c \in Class, NEW i \in Int, NEW k \in Int
  PROVE  <<c, i, k>> \in Bit
BY DEF Bit

\* The value of a member has its width, if the class that it holds has its default value.
LEMMA MemberValueType ==
  ASSUME Sized, NEW t \in Layouts, NEW c \in Class, IsComplete(c),
         NEW i \in 1 .. Len(members[c]), HeldIsReady(t, members[c][i])
  PROVE  MemberValue(t, c, i) \in [1 .. Width(members[c][i]) -> Bit]
<1> DEFINE m == members[c][i]
           w == Width(m)
<1>1. /\ m \in Member /\ w \in Nat
      /\ HoldsClass(m) => m.of \in Class /\ bits[m.of] \in Nat
  BY WidthIs
<1>2. i \in Int
  OBVIOUS
<1> HIDE DEF m
<1>3. CASE ~ HoldsClass(m)
  <2>1. MemberValue(t, c, i) = [k \in 1 .. w |-> <<c, i, k>>]
    BY <1>3 DEF MemberValue, m
  <2>2. \A k \in 1 .. w : <<c, i, k>> \in Bit
    BY <1>1, <1>2, BitIs
  <2> HIDE DEF w
  <2>3. MemberValue(t, c, i) \in [1 .. w -> Bit]
    BY <2>1, <2>2
  <2> QED BY <2>3 DEF w, m
<1>4. CASE HoldsClass(m)
  <2> DEFINE d == m.of
             b == bits[m.of]
             v == t.value[m.of]
  <2>1. d \in Class /\ b \in Nat /\ v \in Seq(Bit)
    BY <1>1, <1>4, LayoutIsTyped
  <2>2. MemberValue(t, c, i) = [k \in 1 .. w |-> v[1 + ((k - 1) % b)]]
    BY <1>4 DEF MemberValue, m
  <2>3. b = 0 => w = 0
    <3>1. m.kind = "class" => w = b
      BY DEF Width
    <3>2. m.kind = "array" => w = m.n * b /\ m.n \in Nat
      BY <1>1, MemberTypes DEF Width
    <3>3. m.kind \in {"class", "array"}
      BY <1>4 DEF HoldsClass
    <3> QED BY <3>1, <3>2, <3>3
  <2>4. b # 0 => Len(v) = b
    BY <1>4, <2>1, LayoutIsTyped DEF HeldIsReady, m
  <2> HIDE DEF v, b, w
  <2>5. ASSUME NEW k \in 1 .. w PROVE v[1 + ((k - 1) % b)] \in Bit
    <3>1. w # 0 /\ b # 0 /\ b \in Nat \ {0}
      BY <1>1, <2>1, <2>3
    <3> DEFINE l == k - 1
    <3>4. l \in Int
      BY <1>1
    <3> HIDE DEF l
    <3>5. l % b \in 0 .. b - 1
      BY <3>1, <3>4, Division
    <3>2. (k - 1) % b \in 0 .. b - 1
      BY <3>5 DEF l
    <3>3. 1 + ((k - 1) % b) \in 1 .. b
      BY <3>1, <3>2
    <3> HIDE DEF b
    <3> QED BY <2>1, <2>4, <3>1, <3>3
  <2>6. MemberValue(t, c, i) \in [1 .. w -> Bit]
    BY <2>2, <2>5
  <2> QED BY <2>6 DEF w, m
<1> QED BY <1>3, <1>4

\* What buildDefaultValue writes is there for every bit of the class.
LEMMA DefaultValueType ==
  ASSUME Sized, NEW t \in Layouts, NEW c \in Class, IsComplete(c),
         \A i \in 1 .. Len(members[c]) : HeldIsReady(t, members[c][i]),
         \A b \in BaseSet(c) : bits[b] = 0 \/ b \in t.ready
  PROVE  DefaultValue(t, c) \in Seq(Bit) /\ Len(DefaultValue(t, c)) = bits[c]
<1> DEFINE m == Len(members[c])
           n == Len(InOrder(c))
           Own(i) == Patch(MemberValue(t, c, i), t.pos[c][i])
           Inherited(b) == Patch(SubSeq(t.value[b], 1, base[b]), t.rel[c][b])
           r == [i \in 1 .. m |-> Own(i)]
           s == [j \in 1 .. n |-> Inherited(InOrder(c)[j])]
           v == [k \in 1 .. bits[c] |-> << >>]
<1>1. /\ m \in Nat /\ DOMAIN members[c] = 1 .. m /\ n \in Nat /\ DOMAIN InOrder(c) = 1 .. n
      /\ \A i \in 1 .. n : InOrder(c)[i] \in BaseSet(c)
      /\ bits[c] \in Nat
      /\ \A b \in BaseSet(c) : b \in Class /\ IsComplete(b)
  BY ProgramTypes, InOrderIs, CompleteIs DEF Sized
<1>2. DefaultValue(t, c) = Patched(v, r \o s)
  BY <1>1 DEF DefaultValue
<1>3. r \in [1 .. m -> PatchSet]
  <2> SUFFICES ASSUME NEW i \in 1 .. m PROVE Own(i) \in PatchSet
    OBVIOUS
  <2>1. MemberValue(t, c, i) \in [1 .. Width(members[c][i]) -> Bit]
    BY MemberValueType
  <2>2. Width(members[c][i]) \in Int
    BY WidthIs
  <2>3. t.pos[c][i] \in Int
    BY <1>1, LayoutIsTyped
  <2> QED BY <2>1, <2>2, <2>3, PatchIs
<1>4. s \in [1 .. n -> PatchSet]
  <2> SUFFICES ASSUME NEW j \in 1 .. n PROVE Inherited(InOrder(c)[j]) \in PatchSet
    OBVIOUS
  <2> DEFINE b == InOrder(c)[j]
             q == t.value[b]
             l == base[b]
  <2>1. b \in BaseSet(c) /\ b \in Class /\ IsComplete(b)
    BY <1>1
  <2> HIDE DEF b
  <2>2. q \in Seq(Bit) /\ l \in Nat /\ l <= bits[b] /\ t.rel[c][b] \in Int
    BY <2>1, CompleteIs, LayoutIsTyped
  <2>3. l = 0 \/ Len(q) = bits[b]
    <3>1. bits[b] = 0 => l = 0
      BY <2>2
    <3> QED BY <2>1, <3>1, LayoutIsTyped
  <2>4. \A i \in 1 .. l : i \in 1 .. Len(q)
    BY <2>2, <2>3
  <2> HIDE DEF q, l
  <2>5. SubSeq(q, 1, l) \in [1 .. l -> Bit]
    <3> DEFINE p == SubSeq(q, 1, l)
    <3>1. 1 \in Int /\ l \in Int /\ \A i \in 1 .. l : q[i] \in Bit
      BY <2>2, <2>4
    <3>2. p \in Seq(Bit) /\ Len(p) = IF 1 <= l THEN l - 1 + 1 ELSE 0
      BY <3>1, SubSeqProperties
    <3> HIDE DEF p
    <3>3. Len(p) = l
      BY <2>2, <3>2
    <3>4. p \in [1 .. l -> Bit]
      BY <3>2, <3>3
    <3> QED BY <3>4 DEF p
  <2>6. l \in Int
    BY <2>2
  <2>7. Patch(SubSeq(q, 1, l), t.rel[c][b]) \in PatchSet
    BY <2>2, <2>5, <2>6, PatchIs
  <2> QED BY <2>7 DEF q, l, b
<1>5. v \in Seq(Bit) /\ Len(v) = bits[c]
  <2>1. << >> \in Bit
    BY DEF Bit
  <2>2. v \in [1 .. bits[c] -> Bit]
    BY <2>1
  <2> HIDE DEF v
  <2> QED BY <1>1, <2>2
<1> HIDE DEF m, n, r, s, v
<1>6. r \o s \in [1 .. m + n -> PatchSet] /\ m + n \in Nat
  BY <1>1, <1>3, <1>4, ConcatIs
<1> DEFINE ps == r \o s
           l == m + n
<1>7. ps \in [1 .. l -> PatchSet] /\ l \in Nat
  BY <1>6
<1> HIDE DEF ps, l
<1>8. Patched(v, ps) \in Seq(Bit) /\ Len(Patched(v, ps)) = Len(v)
  BY <1>5, <1>7, PatchedType
<1> QED BY <1>2, <1>5, <1>8 DEF ps

-----------------------------------------------------------------------------
(***************************************************************************)
(* Once every class is complete and packed and every constant folded, a    *)
(* class cannot be built only if there is an error.                        *)
(***************************************************************************)
Calm(t) ==
  /\ \A c \in Class : /\ IsComplete(c) /\ bits[c] < UNRELIABLEPOS
                      /\ HasObject(c) => t.object[c] # << >>
  /\ t.packed = Class /\ Inside(t)

Advances(t, u) == Later(t, u) /\ (Calm(t) => u.ok \/ t.errors < u.errors)

\* Nothing that is added to a layout in which all is there takes it away.
LEMMA StaysCalm ==
  ASSUME NEW t \in Layouts, NEW u \in Layouts, AddsTo(t, u), Calm(t)
  PROVE  Calm(u)
<1>1. u.packed \subseteq Class
  BY LayoutIsTyped
<1> QED BY <1>1 DEF Calm, AddsTo

\* Two operations after each other.
LEMMA AdvancesFurther ==
  ASSUME NEW t \in Layouts, NEW u \in Layouts, NEW v \in Layouts, Later(t, u), Advances(u, v)
  PROVE  Advances(t, v)
<1>1. Later(t, v)
  BY LaterIsTransitive DEF Advances
<1>2. t.errors \in Nat /\ u.errors \in Nat /\ v.errors \in Nat /\ t.errors <= u.errors
  BY LayoutIsTyped DEF Later, AddsTo
<1>3. Calm(t) => Calm(u)
  BY StaysCalm DEF Later
<1> QED BY <1>1, <1>2, <1>3 DEF Advances

\* Two operations of which both must succeed.
LEMMA AdvancesBoth ==
  ASSUME NEW t \in Layouts, NEW u \in Layouts, NEW v \in Layouts, Advances(t, u), Advances(u, v)
  PROVE  /\ And(u, v) \in Layouts /\ Advances(t, And(u, v))
         /\ And(u, v).ok = (v.ok /\ u.ok) /\ And(u, v).ready = v.ready
         /\ And(u, v).building = t.building
<1> DEFINE w == And(u, v)
<1>1. /\ Outcome(v, w) /\ w.ok = (v.ok /\ u.ok) /\ w.waits = v.waits /\ w.errors = v.errors
  BY AndIs
<1> HIDE DEF w
<1>2. v.waits \in Nat /\ v.errors \in Nat
  BY LayoutIsTyped
<1>3. w \in Layouts /\ Later(v, w) /\ w.ready = v.ready
  BY <1>1, <1>2, OutcomeIsLater DEF Outcome
<1>4. Later(t, w)
  BY <1>3, LaterIsTransitive DEF Advances
<1>5. t.errors \in Nat /\ u.errors \in Nat /\ t.errors <= u.errors /\ u.errors <= v.errors
  BY LayoutIsTyped DEF Advances, Later, AddsTo
<1>6. Calm(t) => Calm(u)
  BY StaysCalm DEF Advances, Later
<1>7. Calm(t) => w.ok \/ t.errors < w.errors
  <2>1. Calm(t) => (u.ok \/ t.errors < u.errors) /\ (v.ok \/ u.errors < v.errors)
    BY <1>6 DEF Advances
  <2>2. v.ok /\ u.ok => w.ok
    BY <1>1
  <2>3. t.errors < u.errors \/ u.errors < v.errors => t.errors < w.errors
    BY <1>1, <1>2, <1>5
  <2> QED BY <2>1, <2>2, <2>3, Zenon
<1> QED BY <1>1, <1>3, <1>4, <1>7 DEF w, Advances, Later

\* The reports that may be given when nothing is missing.
LEMMA AdvancingOutcomes ==
  ASSUME NEW t \in Layouts
  PROVE  /\ Good(t) \in Layouts /\ Advances(t, Good(t)) /\ Good(t).ok
         /\ Err(t) \in Layouts /\ Advances(t, Err(t)) /\ ~ Err(t).ok
         /\ t.ok => Advances(t, t)
<1>1. t.errors \in Nat /\ t.errors < t.errors + 1
  BY LayoutIsTyped
<1>2. Good(t) \in Layouts /\ Later(t, Good(t)) /\ Good(t).ok
  BY LaterOutcomes, OutcomesAre
<1>3. Err(t) \in Layouts /\ Later(t, Err(t)) /\ ~ Err(t).ok /\ t.errors < Err(t).errors
  BY <1>1, LaterOutcomes, OutcomesAre
<1>4. Later(t, t)
  BY LaterIsReflexive
<1> QED BY <1>2, <1>3, <1>4, Zenon DEF Advances

\* The default value of a class, tried: it is there if that went well.
Gets ==
  {G \in [Calls -> Layouts] :
     \A x \in Calls : /\ Advances(x[2], G[x])
                      /\ G[x].ok => bits[x[1]] = 0 \/ x[1] \in G[x].ready}

\* A function that gets default values.
LEMMA GetsAre ==
  ASSUME NEW G \in Gets, NEW c \in Class, NEW t \in Layouts
  PROVE  /\ G[<<c, t>>] \in Layouts /\ Advances(t, G[<<c, t>>])
         /\ G[<<c, t>>].ok => bits[c] = 0 \/ c \in G[<<c, t>>].ready
<1>1. /\ G \in [Calls -> Layouts]
      /\ \A x \in Calls : /\ Advances(x[2], G[x])
                          /\ G[x].ok => bits[x[1]] = 0 \/ x[1] \in G[x].ready
  BY DEF Gets
<1> QED BY <1>1, CallIs

\* Looking for the position of a member leaves a later layout.
LEMMA PlaceIs ==
  ASSUME Sized, NEW t \in Layouts, NEW c, NEW i, NEW d \in Class
  PROVE  Place(t, c, i, d) \in Layouts /\ Later(t, Place(t, c, i, d))
BY TryToPackIs, LaterIsReflexive DEF Place

\* Where everything is packed, every data member has a position.
LEMMA CalmIsReliable ==
  ASSUME Sized, NEW t \in Layouts, Calm(t), NEW c \in Class, NEW i \in 1 .. Len(members[c])
  PROVE  Reliable(t, c, i)
<1>1. t.pos[c] \in Seq(Int) /\ Len(t.pos[c]) = Len(members[c]) /\ bits[c] \in Int
  BY LayoutIsTyped, CompleteIs DEF Calm
<1>2. t.pos[c][i] \in Int
  BY <1>1
<1>3. t.pos[c][i] <= bits[c] /\ bits[c] < UNRELIABLEPOS
  BY DEF Calm, Inside
<1> QED BY <1>1, <1>2, <1>3 DEF Reliable, UNRELIABLEPOS

\* A member that is built has a class that has its default value.
LEMMA BuildMemberIs ==
  ASSUME Sized, NEW t \in Layouts, NEW c \in Class, NEW i \in 1 .. Len(members[c]), NEW G \in Gets
  PROVE  LET u == BuildMember(t, c, i, G)
         IN  /\ u \in Layouts /\ Advances(t, u) /\ (u.ok => HeldIsReady(u, members[c][i]))
             /\ u.ok /\ Settled(t) => i \in t.known[c]
<1> DEFINE m == members[c][i]
           s1 == IF HoldsClass(m) THEN Place(t, c, i, m.of) ELSE t
           s == Place(s1, c, i, c)
           u == BuildMember(t, c, i, G)
<1>1. m \in Member /\ (HoldsClass(m) => m.of \in Class)
  BY ProgramTypes, MemberTypes DEF Sized, HoldsClass
<1> HIDE DEF m
<1>2. s1 \in Layouts /\ Later(t, s1)
  BY <1>1, PlaceIs, LaterIsReflexive
<1>3. u = IF ~ Reliable(s, c, i) THEN NotReady(s)
          ELSE IF HoldsClass(m) THEN G[<<m.of, s>>] ELSE Good(s)
  BY DEF BuildMember, m
<1> HIDE DEF s1
<1>4. s \in Layouts /\ Later(s1, s)
  BY <1>2, PlaceIs
<1> HIDE DEF s, u
<1>5. Later(t, s)
  BY <1>2, <1>4, LaterIsTransitive
<1>6. u \in Layouts /\ Advances(s, u) /\ (u.ok => HeldIsReady(u, m))
  <2>1. CASE ~ Reliable(s, c, i)
    <3>1. ~ Calm(s)
      BY <1>4, <2>1, CalmIsReliable
    <3> QED BY <1>3, <1>4, <2>1, <3>1, LaterOutcomes, OutcomesAre DEF Advances
  <2>2. CASE Reliable(s, c, i) /\ HoldsClass(m)
    <3>1. u = G[<<m.of, s>>] /\ m.of \in Class
      BY <1>1, <1>3, <2>2
    <3> QED BY <1>4, <3>1, GetsAre DEF HeldIsReady
  <2>3. CASE Reliable(s, c, i) /\ ~ HoldsClass(m)
    BY <1>3, <1>4, <2>3, AdvancingOutcomes DEF HeldIsReady
  <2> QED BY <2>1, <2>2, <2>3
<1>7. Advances(t, u)
  BY <1>4, <1>5, <1>6, AdvancesFurther
<1>8. ASSUME u.ok, Settled(t) PROVE i \in t.known[c]
  <2>1. Reliable(s, c, i)
    BY <1>3, <1>4, <1>8, OutcomesAre
  <2>2. PlacesKnown(s) /\ s.known = t.known
    BY <1>5, <1>8 DEF Later, AddsTo, Settled
  <2> QED BY <2>1, <2>2 DEF PlacesKnown
<1> QED BY <1>6, <1>7, <1>8 DEF u, m

-----------------------------------------------------------------------------
(***************************************************************************)
(* Where the parts of a class are: its own data members first, then those  *)
(* of its base classes, each in a block of its own.                        *)
(***************************************************************************)
\* The base classes before b are those in front of its first place.
FirstAt(c, b, a) ==
  /\ a \in 1 .. Len(InOrder(c)) /\ InOrder(c)[a] = b
  /\ Before(c, b) = {InOrder(c)[j] : j \in 1 .. a - 1} /\ b \notin Before(c, b)

\* Every base class has a first place in the order.
\* Every base class has a first place in the order.
LEMMA FirstPlace ==
  ASSUME LabelTypes, NEW c \in Class, NEW b \in BaseSet(c)
  PROVE  \E a \in 1 .. Len(InOrder(c)) : FirstAt(c, b, a)
<1> DEFINE n == Len(InOrder(c))
           s == InOrder(c)
           T == {j \in 1 .. n : s[j] = b}
<1>1. n \in Nat /\ DOMAIN s = 1 .. n /\ \E i \in 1 .. n : s[i] = b
  BY InOrderIs
<1> HIDE DEF n, s
<1>2. T \in SUBSET Nat /\ T # {}
  BY <1>1
<1>3. PICK a \in T : \A y \in T : a <= y
  <2> HIDE DEF T
  <2> QED BY <1>2, LeastNumber
<1>4. a \in 1 .. n /\ s[a] = b /\ \A k \in 1 .. a - 1 : s[k] # b
  BY <1>1, <1>3
<1>5. {j \in 1 .. n : \A k \in 1 .. j : s[k] # b} = 1 .. a - 1
  <2>1. ASSUME NEW j \in 1 .. n, \A k \in 1 .. j : s[k] # b PROVE j \in 1 .. a - 1
    BY <1>1, <1>4, <2>1
  <2>2. ASSUME NEW j \in 1 .. a - 1 PROVE j \in 1 .. n /\ \A k \in 1 .. j : s[k] # b
    BY <1>1, <1>4
  <2> QED BY <2>1, <2>2
<1>6. Before(c, b) = {s[j] : j \in 1 .. a - 1}
  BY <1>1, <1>5 DEF Before, s, n
<1>7. b \notin Before(c, b)
  BY <1>4, <1>6
<1> QED BY <1>4, <1>6, <1>7 DEF FirstAt, s, n

\* So the base classes are one after the other, in the same order for all of them.
\* So the base classes are one after the other, in the same order for all of them.
LEMMA BeforeIs ==
  ASSUME LabelTypes, NEW c \in Class, NEW a \in BaseSet(c), NEW b \in BaseSet(c)
  PROVE  /\ Before(c, b) \in SUBSET BaseSet(c) /\ b \notin Before(c, b)
         /\ a # b => a \in Before(c, b) \/ b \in Before(c, a)
         /\ a \in Before(c, b) => Before(c, a) \cup {a} \in SUBSET Before(c, b)
<1> DEFINE n == Len(InOrder(c))
           s == InOrder(c)
<1>1. n \in Nat /\ \A i \in 1 .. n : s[i] \in BaseSet(c)
  BY InOrderIs
<1>2. PICK x \in 1 .. n : FirstAt(c, a, x)
  BY FirstPlace
<1>3. PICK y \in 1 .. n : FirstAt(c, b, y)
  BY FirstPlace
<1> HIDE DEF n
<1>4. /\ s[x] = a /\ Before(c, a) = {s[j] : j \in 1 .. x - 1}
      /\ s[y] = b /\ Before(c, b) = {s[j] : j \in 1 .. y - 1} /\ b \notin Before(c, b)
      /\ a \notin Before(c, a)
  BY <1>2, <1>3 DEF FirstAt
<1> HIDE DEF s
<1>5. Before(c, b) \in SUBSET BaseSet(c)
  BY <1>1, <1>4
<1>6. a # b => a \in Before(c, b) \/ b \in Before(c, a)
  <2>1. CASE x < y
    <3>1. x \in 1 .. y - 1
      BY <1>1, <2>1
    <3> QED BY <1>4, <3>1
  <2>2. CASE y < x
    <3>1. y \in 1 .. x - 1
      BY <1>1, <2>2
    <3> QED BY <1>4, <3>1
  <2>3. CASE x = y
    BY <1>4, <2>3
  <2> QED BY <1>1, <2>1, <2>2, <2>3
<1>7. ASSUME a \in Before(c, b) PROVE Before(c, a) \cup {a} \in SUBSET Before(c, b)
  <2>1. PICK j \in 1 .. y - 1 : s[j] = a
    BY <1>4, <1>7
  <2>2. ~ (j < x)
    <3> SUFFICES ASSUME j < x PROVE FALSE
      OBVIOUS
    <3>1. j \in 1 .. x - 1
      BY <1>1, <2>1
    <3> QED BY <1>4, <2>1, <3>1
  <2>3. \A k \in 1 .. x - 1 : k \in 1 .. y - 1
    BY <1>1, <2>1, <2>2
  <2> QED BY <1>4, <1>7, <2>3
<1> QED BY <1>4, <1>5, <1>6, <1>7

\* A sum over a part of the base classes.
LEMMA SumOverPart ==
  ASSUME NEW T, IsFiniteSet(T), NEW v \in [T -> Nat], NEW S \in SUBSET T, NEW U \in SUBSET S
  PROVE  SumOver(v, U) \in Nat /\ SumOver(v, S) \in Nat /\ SumOver(v, U) <= SumOver(v, S)
<1> DEFINE p == [y \in S |-> v[y]]
           q == [y \in U |-> v[y]]
<1>1. IsFiniteSet(S) /\ IsFiniteSet(U)
  <2>1. U \in SUBSET T
    OBVIOUS
  <2> QED BY <2>1, FS_Subset
<1>2. /\ p \in [S -> Nat] /\ q \in [U -> Int] /\ p \in [S -> Int]
      /\ \A x \in S : p[x] \in Nat
      /\ \A x \in U : q[x] \in Nat
      /\ [y \in U |-> p[y]] = q
  OBVIOUS
<1> HIDE DEF p, q
<1>3. SumFunction(p) \in Nat /\ SumFunction(q) \in Nat
  BY <1>1, <1>2, SumType
<1>4. SumFunction([y \in U |-> p[y]]) <= SumFunction(p)
  BY <1>1, <1>2, SumOfPart
<1>5. SumFunction(q) <= SumFunction(p)
  BY <1>2, <1>4
<1> QED BY <1>3, <1>5 DEF SumOver, p, q

\* Each of them has room for its own bits before the next one begins.
\* Each of them has room for its own bits before the next one begins.
LEMMA BlocksAre ==
  ASSUME Sized, NEW d \in Class, IsComplete(d), NEW b \in BaseSet(d)
  PROVE  /\ BaseBits(Before(d, b)) \in Nat /\ base[b] \in Nat
         /\ base[d] + BaseBits(Before(d, b)) + base[b] <= bits[d]
         /\ \A a \in BaseSet(d) : a \in Before(d, b) =>
              BaseBits(Before(d, a)) + base[a] <= BaseBits(Before(d, b))
<1> DEFINE T == BaseSet(d)
           v == [x \in T |-> base[x]]
<1>1. /\ LabelTypes /\ IsFiniteSet(T)
      /\ bits[d] = base[d] + BasesSum(d, base) /\ bits[d] \in Nat /\ base[d] \in Nat
      /\ \A x \in T : base[x] \in Nat
  BY BaseSetIs, CompleteIs DEF Sized
<1>2. \A S \in SUBSET T : BaseBits(S) = SumOver(v, S)
  <2> SUFFICES ASSUME NEW S \in SUBSET T PROVE BaseBits(S) = SumOver(v, S)
    OBVIOUS
  <2>1. [x \in S |-> base[x]] = [x \in S |-> v[x]]
    OBVIOUS
  <2> HIDE DEF v
  <2> QED BY <2>1 DEF BaseBits, SumOver
<1>3. BasesSum(d, base) = SumOver(v, T)
  <2>1. [x \in T |-> v[x]] = v
    OBVIOUS
  <2> QED BY <2>1 DEF BasesSum, SumOver
<1>4. v \in [T -> Nat] /\ \A x \in T : v[x] = base[x]
  BY <1>1
<1> HIDE DEF v
<1>5. ASSUME NEW x \in T
      PROVE  /\ Before(d, x) \in SUBSET T /\ Before(d, x) \cup {x} \in SUBSET T
             /\ SumOver(v, Before(d, x) \cup {x}) = base[x] + SumOver(v, Before(d, x))
  <2>1. Before(d, x) \in SUBSET T /\ x \notin Before(d, x)
    BY <1>1, BeforeIs
  <2> DEFINE S == Before(d, x)
  <2> HIDE DEF S, T
  <2>2. S \in SUBSET T /\ x \notin S
    BY <2>1 DEF S
  <2>3. SumOver(v, S \cup {x}) = v[x] + SumOver(v, S)
    BY <1>1, <1>4, <2>2, SumOfOneMore
  <2> QED BY <1>4, <2>2, <2>3 DEF S
<1>6. \A S \in SUBSET T : \A U \in SUBSET S :
        SumOver(v, U) \in Nat /\ SumOver(v, S) \in Nat /\ SumOver(v, U) <= SumOver(v, S)
  <2> HIDE DEF T
  <2> QED BY <1>1, <1>4, SumOverPart
<1>7. BaseBits(Before(d, b)) \in Nat
  <2>1. Before(d, b) \in SUBSET Before(d, b)
    OBVIOUS
  <2> QED BY <1>2, <1>5, <1>6, <2>1
<1>8. base[d] + BaseBits(Before(d, b)) + base[b] <= bits[d]
  <2>1. T \in SUBSET T
    OBVIOUS
  <2>2. SumOver(v, Before(d, b) \cup {b}) <= SumOver(v, T) /\ SumOver(v, T) \in Nat
    BY <1>5, <1>6, <2>1
  <2>3. base[b] + BaseBits(Before(d, b)) <= BasesSum(d, base) /\ BasesSum(d, base) \in Nat
    BY <1>2, <1>3, <1>5, <2>2
  <2> QED BY <1>1, <1>7, <2>3
<1>9. ASSUME NEW a \in T, a \in Before(d, b)
      PROVE  BaseBits(Before(d, a)) + base[a] <= BaseBits(Before(d, b))
  <2>1. Before(d, a) \cup {a} \in SUBSET Before(d, b) /\ Before(d, a) \in SUBSET Before(d, a)
    BY <1>1, <1>9, BeforeIs
  <2>2. /\ SumOver(v, Before(d, a) \cup {a}) <= SumOver(v, Before(d, b))
        /\ SumOver(v, Before(d, a)) \in Nat
    BY <1>5, <1>6, <2>1
  <2>3. base[a] + SumOver(v, Before(d, a)) <= SumOver(v, Before(d, b))
    BY <1>5, <2>2
  <2>4. BaseBits(Before(d, a)) = SumOver(v, Before(d, a))
        /\ BaseBits(Before(d, b)) = SumOver(v, Before(d, b))
    BY <1>2, <1>5
  <2>5. base[a] \in Nat
    BY <1>1
  <2> HIDE DEF T
  <2> QED BY <2>2, <2>3, <2>4, <2>5
<1> QED BY <1>1, <1>7, <1>8, <1>9

\* The data members of a class end where the first base class begins; those of
\* a union lie under it.
LEMMA OwnEnd ==
  ASSUME Sized, NEW c \in Class, IsComplete(c)
  PROVE  Offset(c, Len(members[c]) + 1, 1 .. Len(members[c])) =
           IF c \in prog.unions THEN 0 ELSE base[c]
<1> DEFINE n == Len(members[c])
           v == Values(c, bits, konst)
<1>1. /\ n \in Nat /\ v \in [1 .. n -> Nat] /\ base[c] = OwnOf(c, v)
      /\ \A j \in 1 .. n : Width(members[c][j]) = v[j]
  BY WidthIs
<1>2. {j \in 1 .. n : j < n + 1} = 1 .. n
  BY <1>1
<1>3. Offset(c, n + 1, 1 .. n) = IF c \in prog.unions THEN 0 ELSE BitsOf(c, 1 .. n)
  BY <1>2 DEF Offset
<1>4. ASSUME c \notin prog.unions PROVE BitsOf(c, 1 .. n) = base[c]
  <2>1. ~ \E j \in 1 .. n : v[j] < 0
    BY <1>1
  <2>2. base[c] = SumFunction(v)
    BY <1>1, <1>4, <2>1 DEF OwnOf
  <2> HIDE DEF v, n
  <2>3. [i \in 1 .. n |-> Width(members[c][i])] = v
    BY <1>1
  <2> QED BY <2>2, <2>3 DEF BitsOf
<1> QED BY <1>3, <1>4

\* Their blocks lie behind the members of the class, and apart from each other.
\* Their blocks lie behind the members of the class, and apart from each other.
LEMMA BaseStartIs ==
  ASSUME Sized, NEW d \in Class, IsComplete(d), NEW b \in BaseSet(d)
  PROVE  /\ b \in Class /\ b # d /\ base[b] \in Nat /\ base[d] \in Nat /\ bits[d] \in Nat
         /\ BaseStart(d, b) \in Nat /\ BaseStart(d, b) + base[b] <= bits[d]
         /\ d \notin prog.unions => base[d] <= BaseStart(d, b)
         /\ \A a \in BaseSet(d) : a # b =>
              \/ BaseStart(d, a) + base[a] <= BaseStart(d, b)
              \/ BaseStart(d, b) + base[b] <= BaseStart(d, a)
<1> DEFINE e == Offset(d, Len(members[d]) + 1, 1 .. Len(members[d]))
<1>1. /\ e = IF d \in prog.unions THEN 0 ELSE base[d]
      /\ base[d] \in Nat /\ bits[d] \in Nat /\ LabelTypes
      /\ \A a \in BaseSet(d) : a \in Class /\ base[a] \in Nat
  BY OwnEnd, CompleteIs DEF Sized
<1>2. d \notin BaseSet(d)
  <2>1. RightFor(d, bits, base) /\ bits[d] >= 0
    BY DEF Sized, SizesRight, IsComplete
  <2> QED BY <2>1 DEF RightFor
<1>3. \A a \in BaseSet(d) : a # d /\ BaseStart(d, a) = e + BaseBits(Before(d, a))
  BY <1>2 DEF BaseStart
<1> HIDE DEF e
<1>4. \A a \in BaseSet(d) :
        /\ BaseBits(Before(d, a)) \in Nat /\ base[d] + BaseBits(Before(d, a)) + base[a] <= bits[d]
        /\ \A x \in BaseSet(d) : x \in Before(d, a) =>
             BaseBits(Before(d, x)) + base[x] <= BaseBits(Before(d, a))
  BY BlocksAre
<1>5. \A a \in BaseSet(d) : a # b => a \in Before(d, b) \/ b \in Before(d, a)
  BY <1>1, BeforeIs
<1>6. e \in Nat /\ e <= base[d]
  BY <1>1
<1>7. ASSUME NEW a \in BaseSet(d), a # b
      PROVE  \/ BaseStart(d, a) + base[a] <= BaseStart(d, b)
             \/ BaseStart(d, b) + base[b] <= BaseStart(d, a)
  <2>1. CASE a \in Before(d, b)
    <3>1. BaseBits(Before(d, a)) + base[a] <= BaseBits(Before(d, b))
      BY <1>4, <2>1
    <3> QED BY <1>1, <1>3, <1>4, <1>6, <3>1
  <2>2. CASE b \in Before(d, a)
    <3>1. BaseBits(Before(d, b)) + base[b] <= BaseBits(Before(d, a))
      BY <1>4, <2>2
    <3> QED BY <1>1, <1>3, <1>4, <1>6, <3>1
  <2> QED BY <1>5, <1>7, <2>1, <2>2
<1>8. BaseStart(d, b) \in Nat /\ BaseStart(d, b) + base[b] <= bits[d]
      /\ (d \notin prog.unions => base[d] <= BaseStart(d, b))
  BY <1>1, <1>3, <1>4, <1>6
<1> QED BY <1>1, <1>3, <1>7, <1>8

\* Each data member of a class or of its bases lies in the block of its class.
LEMMA StartIs ==
  ASSUME Sized, NEW d \in Class, IsComplete(d), NEW b \in Family(d),
         NEW i \in 1 .. Len(members[b])
  PROVE  /\ b \in Class /\ IsComplete(b) /\ Width(members[b][i]) \in Nat
         /\ Start(d, b, i) \in Nat /\ BaseStart(d, b) \in Nat /\ base[b] \in Nat
         /\ Start(d, b, i) = BaseStart(d, b) + Offset(b, i, 1 .. Len(members[b]))
         /\ BaseStart(d, b) <= Start(d, b, i)
         /\ Start(d, b, i) + Width(members[b][i]) <= BaseStart(d, b) + base[b]
         /\ BaseStart(d, b) + base[b] <= bits[d] /\ bits[d] \in Nat
         /\ b = d => BaseStart(d, b) = 0
<1>1. b \in Class /\ IsComplete(b)
  BY CompleteIs DEF Family
<1>2. /\ Offset(b, i, 1 .. Len(members[b])) \in Nat /\ Width(members[b][i]) \in Nat
      /\ Offset(b, i, 1 .. Len(members[b])) + Width(members[b][i]) <= base[b]
  BY <1>1, OffsetIs, WidthIs
<1>3. BaseStart(d, b) \in Nat /\ BaseStart(d, b) + base[b] <= bits[d]
      /\ base[b] \in Nat /\ bits[d] \in Nat
  <2>1. CASE b = d
    <3>1. base[d] \in Nat /\ bits[d] \in Nat /\ base[d] <= bits[d]
      BY CompleteIs
    <3> QED BY <2>1, <3>1 DEF BaseStart
  <2>2. CASE b \in BaseSet(d)
    BY <2>2, BaseStartIs
  <2> QED BY <2>1, <2>2 DEF Family
<1>4. b = d => BaseStart(d, b) = 0
  BY DEF BaseStart
<1>5. Start(d, b, i) = BaseStart(d, b) + Offset(b, i, 1 .. Len(members[b]))
  BY DEF Start
<1> QED BY <1>1, <1>2, <1>3, <1>4, <1>5

\* What a class and its bases have of data members lies apart, except where
\* there are unions.
Beside(d, b, i, c, j) ==
  \/ Start(d, b, i) + Width(members[b][i]) <= Start(d, c, j)
  \/ Start(d, c, j) + Width(members[c][j]) <= Start(d, b, i)

\* Two members lie apart, unless one is the other or lies in a union with it.
\* Two members lie apart, unless one is the other or lies in a union with it.
LEMMA MembersApart ==
  ASSUME Sized, NEW d \in Class, IsComplete(d),
         NEW b \in Family(d), NEW i \in 1 .. Len(members[b]),
         NEW c \in Family(d), NEW j \in 1 .. Len(members[c]),
         b # c \/ i # j, b = c => b \notin prog.unions,
         b # c => d \notin {b, c} \/ d \notin prog.unions
  PROVE  Beside(d, b, i, c, j)
<1>1. /\ Start(d, b, i) \in Nat /\ Width(members[b][i]) \in Nat
      /\ BaseStart(d, b) \in Nat /\ base[b] \in Nat /\ BaseStart(d, b) <= Start(d, b, i)
      /\ Start(d, b, i) + Width(members[b][i]) <= BaseStart(d, b) + base[b]
      /\ Start(d, b, i) = BaseStart(d, b) + Offset(b, i, 1 .. Len(members[b]))
      /\ b \in Class /\ IsComplete(b) /\ (b = d => BaseStart(d, b) = 0)
  BY StartIs
<1>2. /\ Start(d, c, j) \in Nat /\ Width(members[c][j]) \in Nat
      /\ BaseStart(d, c) \in Nat /\ base[c] \in Nat /\ BaseStart(d, c) <= Start(d, c, j)
      /\ Start(d, c, j) + Width(members[c][j]) <= BaseStart(d, c) + base[c]
      /\ Start(d, c, j) = BaseStart(d, c) + Offset(c, j, 1 .. Len(members[c]))
      /\ (c = d => BaseStart(d, c) = 0)
  BY StartIs
<1>3. CASE b = c
  <2> DEFINE K == 1 .. Len(members[b])
  <2>1. /\ Offset(b, i, K) \in Nat /\ Offset(b, j, K) \in Nat /\ i \in Int /\ j \in Int
        /\ i < j => Offset(b, i, K) + Width(members[b][i]) <= Offset(b, j, K)
        /\ j < i => Offset(b, j, K) + Width(members[b][j]) <= Offset(b, i, K)
    BY <1>1, <1>3, OffsetIs
  <2> HIDE DEF K
  <2>2. i < j \/ j < i
    BY <1>3, <2>1
  <2>3. Start(d, b, i) = BaseStart(d, b) + Offset(b, i, K)
        /\ Start(d, b, j) = BaseStart(d, b) + Offset(b, j, K)
    BY <1>1, <1>2, <1>3 DEF K
  <2>4. Width(members[b][i]) \in Nat /\ Width(members[b][j]) \in Nat /\ BaseStart(d, b) \in Nat
    BY <1>1, <1>2, <1>3
  <2>5. Beside(d, b, i, b, j)
    BY <2>1, <2>2, <2>3, <2>4 DEF Beside
  <2> QED BY <1>3, <2>5
<1>4. CASE b # c /\ b \in BaseSet(d) /\ c \in BaseSet(d)
  <2>1. \/ BaseStart(d, b) + base[b] <= BaseStart(d, c)
        \/ BaseStart(d, c) + base[c] <= BaseStart(d, b)
    BY <1>4, BaseStartIs
  <2> QED BY <1>1, <1>2, <2>1 DEF Beside
<1>5. CASE b # c /\ b = d /\ c \in BaseSet(d)
  <2>1. base[d] <= BaseStart(d, c)
    BY <1>5, BaseStartIs
  <2> QED BY <1>1, <1>2, <1>5, <2>1 DEF Beside
<1>6. CASE b # c /\ c = d /\ b \in BaseSet(d)
  <2>1. base[d] <= BaseStart(d, b)
    BY <1>6, BaseStartIs
  <2> QED BY <1>1, <1>2, <1>6, <2>1 DEF Beside
<1> QED BY <1>3, <1>4, <1>5, <1>6 DEF Family

-----------------------------------------------------------------------------
(***************************************************************************)
(* What is read from a default value.                                      *)
(***************************************************************************)
Lies(p, k) == k - p.at \in DOMAIN p.bits
BitAt(p, k) == p.bits[k - p.at]

Fills(p, a, n) == p.at = a /\ DOMAIN p.bits = 1 .. n

\* A patch lies on the bits that it fills, and gives them their values.
\* A patch lies on the bits that it fills, and gives them their values.
LEMMA LiesIs ==
  ASSUME NEW p, NEW k \in Nat, NEW a \in Nat, NEW n \in Nat, Fills(p, a, n)
  PROVE  (Lies(p, k) <=> k - a \in 1 .. n) /\ BitAt(p, k) = p.bits[k - a]
BY DEF Lies, BitAt, Fills

\* The last patch on a bit gives its value, if there is one.
Counts(ps, m) == m \in Nat /\ DOMAIN ps = 1 .. m

NoneOn(ps, m, k) == \A j \in 1 .. m : ~ Lies(ps[j], k)

LastOn(ps, m, k, j, x) ==
  /\ j \in 1 .. m /\ Lies(ps[j], k)
  /\ \A l \in 1 .. m : l >= j /\ Lies(ps[l], k) => BitAt(ps[l], k) = x

\* A bit has the value that the last patch on it gives, or the one it had.
\* A bit has the value that the last patch on it gives, or the one it had.
LEMMA PatchedAt ==
  ASSUME NEW v, NEW ps, NEW m, Counts(ps, m), NEW k \in DOMAIN v
  PROVE  /\ NoneOn(ps, m, k) => Patched(v, ps)[k] = v[k]
         /\ \A j, x : LastOn(ps, m, k, j, x) => Patched(v, ps)[k] = x
<1> DEFINE S == {j \in 1 .. m : Lies(ps[j], k)}
           j0 == Max(S)
<1>0. m \in Nat /\ DOMAIN ps = 1 .. m
  BY DEF Counts
<1>1. Patched(v, ps)[k] = IF S = {} THEN v[k] ELSE BitAt(ps[j0], k)
  BY <1>0 DEF Patched, Lies, BitAt
<1>2. S \in SUBSET (1 .. m) /\ S \in SUBSET Int /\ IsFiniteSet(1 .. m)
  BY <1>0, FS_Interval
<1>3. IsFiniteSet(S)
  <2> HIDE DEF S
  <2> QED BY <1>2, FS_Subset
<1>4. ASSUME NEW j, NEW x, LastOn(ps, m, k, j, x)
      PROVE  Patched(v, ps)[k] = x
  <2>1. j \in S /\ j \in 1 .. m
    BY <1>4 DEF LastOn
  <2>2. j0 \in S /\ j <= j0
    <3> HIDE DEF S
    <3> QED BY <1>2, <1>3, <2>1, GreatestNumber
  <2>3. S # {}
    BY <2>1
  <2> HIDE DEF j0
  <2>4. j0 \in 1 .. m /\ j0 >= j /\ Lies(ps[j0], k)
    BY <2>1, <2>2
  <2> HIDE DEF S
  <2>5. BitAt(ps[j0], k) = x
    BY <1>4, <2>4 DEF LastOn
  <2> QED BY <1>1, <2>3, <2>5
<1>5. NoneOn(ps, m, k) => Patched(v, ps)[k] = v[k]
  BY <1>1 DEF NoneOn
<1> QED BY <1>4, <1>5

OwnPatch(t, d, i) == Patch(MemberValue(t, d, i), t.pos[d][i])
BasePatch(t, d, b) == Patch(SubSeq(t.value[b], 1, base[b]), t.rel[d][b])

\* The patch of a member of the class begins where the member does.
\* The patch of a member of the class begins where the member does.
LEMMA OwnPatchIs ==
  ASSUME NEW t, NEW d, NEW i \in 1 .. Len(members[d]), PlacedRight(t, d)
  PROVE  /\ OwnPatch(t, d, i).at = Offset(d, i, 1 .. Len(members[d]))
         /\ OwnPatch(t, d, i).bits = MemberValue(t, d, i)
         /\ DOMAIN OwnPatch(t, d, i).bits = 1 .. Width(members[d][i])
BY MemberValueDomain DEF OwnPatch, Patch, PlacedRight

\* That of a base class begins where its block does, and has its own bits.
\* That of a base class begins where its block does, and has its own bits.
LEMMA BasePatchIs ==
  ASSUME Sized, NEW t \in Layouts, NEW d \in Class, PlacedRight(t, d), PartsReady(t, d),
         NEW b \in BaseSet(d)
  PROVE  /\ BasePatch(t, d, b).at = BaseStart(d, b)
         /\ DOMAIN BasePatch(t, d, b).bits = 1 .. base[b]
         /\ \A k \in 1 .. base[b] : BasePatch(t, d, b).bits[k] = t.value[b][k]
<1> DEFINE x == t.value[b]
           n == base[b]
           w == SubSeq(x, 1, n)
<1>1. BasePatch(t, d, b).at = BaseStart(d, b) /\ BasePatch(t, d, b).bits = w
  BY DEF BasePatch, Patch, PlacedRight
<1>2. b \in Class /\ IsComplete(b) /\ n \in Nat
  BY CompleteIs DEF PlacedRight
<1>3. x \in Seq(Bit) /\ Len(x) \in Nat /\ n <= Len(x)
  <2>1. x \in Seq(Bit) /\ (b \in t.ready => Len(x) = bits[b])
    BY <1>2, LayoutIsTyped
  <2>2. bits[b] \in Nat /\ n <= bits[b]
    BY <1>2, CompleteIs
  <2>3. bits[b] = 0 \/ b \in t.ready
    BY DEF PartsReady
  <2> HIDE DEF x, n
  <2>4. Len(x) \in Nat
    BY <2>1
  <2> QED BY <1>2, <2>1, <2>2, <2>3, <2>4 DEF n
<1> HIDE DEF x, n
<1>4. w \in Seq(Bit) /\ Len(w) = n /\ \A k \in 1 .. n : w[k] = x[k]
  <2>1. 1 \in Int /\ n \in Int /\ n - 1 + 1 = n /\ (n < 1 => n = 0)
        /\ \A i \in 1 .. n : x[i] \in Bit
    <3>1. \A i \in 1 .. Len(x) : x[i] \in Bit
      BY <1>3
    <3> QED BY <1>2, <1>3, <3>1
  <2>2. /\ w \in Seq(Bit) /\ Len(w) = (IF 1 <= n THEN n - 1 + 1 ELSE 0)
        /\ \A k \in 1 .. n - 1 + 1 : w[k] = x[1 + k - 1]
    BY <2>1, SubSeqProperties
  <2>3. \A k \in 1 .. n : 1 + k - 1 = k
    BY <1>2
  <2> QED BY <2>1, <2>2, <2>3
<1> HIDE DEF w
<1>5. DOMAIN w = 1 .. n
  BY <1>4
<1> QED BY <1>1, <1>4, <1>5 DEF n, x

\* A default value is patched together from these.
Patches(t, d) ==
  [i \in 1 .. Len(members[d]) |-> OwnPatch(t, d, i)]
    \o [j \in 1 .. Len(InOrder(d)) |-> BasePatch(t, d, InOrder(d)[j])]

AllPatches(t, d) ==
  {OwnPatch(t, d, i) : i \in 1 .. Len(members[d])} \cup {BasePatch(t, d, b) : b \in BaseSet(d)}

\* The default value of a class is put together from these.
\* The default value of a class is put together from these.
LEMMA PatchesAre ==
  ASSUME LabelTypes, NEW t, NEW d \in Class
  PROVE  LET m == Len(members[d])
             n == Len(InOrder(d))
         IN  /\ m \in Nat /\ n \in Nat
             /\ Patches(t, d) \in [1 .. m + n -> AllPatches(t, d)]
             /\ \A i \in 1 .. m : Patches(t, d)[i] = OwnPatch(t, d, i)
             /\ \A j \in 1 .. n : Patches(t, d)[m + j] = BasePatch(t, d, InOrder(d)[j])
             /\ DefaultValue(t, d) = Patched([k \in 1 .. bits[d] |-> << >>], Patches(t, d))
<1> DEFINE m == Len(members[d])
           n == Len(InOrder(d))
           S == AllPatches(t, d)
           r == [i \in 1 .. m |-> OwnPatch(t, d, i)]
           q == [j \in 1 .. n |-> BasePatch(t, d, InOrder(d)[j])]
           p == r \o q
<1>1. /\ m \in Nat /\ n \in Nat /\ DOMAIN members[d] = 1 .. m /\ DOMAIN InOrder(d) = 1 .. n
      /\ \A j \in 1 .. n : InOrder(d)[j] \in BaseSet(d)
  BY ProgramTypes, InOrderIs
<1>2. DefaultValue(t, d) = Patched([k \in 1 .. bits[d] |-> << >>], p)
  BY <1>1 DEF DefaultValue, OwnPatch, BasePatch
<1>3. r \in [1 .. m -> S] /\ q \in [1 .. n -> S]
  BY <1>1 DEF AllPatches
<1>4. /\ \A i \in 1 .. m : r[i] = OwnPatch(t, d, i)
      /\ \A j \in 1 .. n : q[j] = BasePatch(t, d, InOrder(d)[j])
  OBVIOUS
<1>5. p = Patches(t, d)
  BY DEF Patches
<1> HIDE DEF r, q, m, n, S
<1>6. p \in [1 .. m + n -> S]
  BY <1>1, <1>3, ConcatIs
<1>7. r \in Seq(S) /\ Len(r) = m /\ q \in Seq(S) /\ Len(q) = n
  BY <1>1, <1>3
<1>8. /\ \A i \in 1 .. m : p[i] = r[i]
      /\ \A j \in 1 .. n : p[m + j] = q[j]
  BY <1>1, <1>7, ConcatProperties
<1> HIDE DEF p
<1> QED BY <1>1, <1>2, <1>4, <1>5, <1>6, <1>8 DEF m, n, S

\* A class without base classes has none further up.
\* A class without base classes has none further up.
LEMMA NoBases ==
  ASSUME LabelTypes, NEW c \in Class, bases[c] = << >>
  PROVE  BaseSet(c) = {}
<1>1. ToSet(bases[c]) = {} /\ {} \in SUBSET Class
  BY DEF ToSet
<1>2. BaseSet(c) \subseteq {}
  BY <1>1, BaseSetIs
<1> QED BY <1>2

\* The members of a union that nothing lies on top of have no base class there.
LEMMA DistinctInUnion ==
  ASSUME LabelTypes, NEW c \in Class, NEW i \in Distinct(c), c \in prog.unions
  PROVE  i = Len(members[c]) /\ BaseSet(c) = {}
BY NoBases DEF Distinct

\* Each data member of a class is read back from its default value.
LEMMA OwnIsShown ==
  ASSUME Sized, NEW t \in Layouts, NEW d \in Class, PlacedRight(t, d), PartsReady(t, d),
         NEW i \in Distinct(d)
  PROVE  Shows(DefaultValue(t, d), Start(d, d, i), MemberValue(t, d, i))
<1> DEFINE m == Len(members[d])
           n == Len(InOrder(d))
           ps == Patches(t, d)
           v == [k \in 1 .. bits[d] |-> << >>]
           w == MemberValue(t, d, i)
           s == Start(d, d, i)
           O(j) == Offset(d, j, 1 .. m)
           W(j) == Width(members[d][j])
<1>1. LabelTypes /\ IsComplete(d) /\ d \in Family(d)
  BY DEF Sized, PlacedRight, Family
<1>2. i \in 1 .. m /\ m \in Nat /\ n \in Nat
  BY <1>1, DistinctIs, PatchesAre
<1>3. /\ s \in Nat /\ W(i) \in Nat /\ s = O(i) /\ base[d] \in Nat /\ bits[d] \in Nat
      /\ s + W(i) <= base[d] /\ base[d] <= bits[d]
  BY <1>1, <1>2, StartIs, OffsetIs
<1>4. DOMAIN w = 1 .. W(i)
  BY MemberValueDomain
<1>5. /\ ps \in [1 .. m + n -> AllPatches(t, d)]
      /\ \A j \in 1 .. m : ps[j] = OwnPatch(t, d, j)
      /\ \A j \in 1 .. n : ps[m + j] = BasePatch(t, d, InOrder(d)[j])
      /\ DefaultValue(t, d) = Patched(v, ps)
  BY <1>1, PatchesAre
<1>6. \A j \in 1 .. m : /\ O(j) \in Nat /\ W(j) \in Nat
                        /\ i < j /\ d \notin prog.unions => s + W(i) <= O(j)
  BY <1>1, <1>2, <1>3, OffsetIs, WidthIs
<1>7. \A j \in 1 .. m : /\ Fills(OwnPatch(t, d, j), O(j), W(j))
                        /\ OwnPatch(t, d, j).bits = MemberValue(t, d, j)
  BY OwnPatchIs DEF Fills
<1>8. \A b \in BaseSet(d) :
        /\ Fills(BasePatch(t, d, b), BaseStart(d, b), base[b])
        /\ BaseStart(d, b) \in Nat /\ base[b] \in Nat
        /\ d \notin prog.unions => base[d] <= BaseStart(d, b)
  BY <1>1, BasePatchIs, BaseStartIs DEF Fills
<1>9. d \in prog.unions => i = m /\ BaseSet(d) = {}
  BY <1>1, DistinctInUnion
<1>10. \A j \in 1 .. n : InOrder(d)[j] \in BaseSet(d)
  BY <1>1, InOrderIs
<1> HIDE DEF ps, v, w, s, O, W, m, n
<1>11. ASSUME NEW k \in 1 .. W(i) PROVE Patched(v, ps)[s + k] = w[k]
  <2>1. s + k \in Nat /\ s + k <= base[d] /\ s + k \in 1 .. bits[d] /\ k \in Nat /\ k >= 1
    BY <1>3
  <2>2. s + k \in DOMAIN v
    BY <2>1 DEF v
  <2>3. i \in 1 .. m + n
    BY <1>2
  <2>4. Lies(ps[i], s + k) /\ BitAt(ps[i], s + k) = w[k]
    <3>1. (s + k) - O(i) = k
      BY <1>3, <2>1
    <3>2. ps[i].bits = w /\ Fills(ps[i], O(i), W(i))
      BY <1>2, <1>5, <1>7 DEF w
    <3>3. Lies(ps[i], s + k) /\ BitAt(ps[i], s + k) = ps[i].bits[k]
      BY <1>2, <1>6, <2>1, <3>1, <3>2, LiesIs
    <3> QED BY <3>2, <3>3, Zenon
  <2>5. ASSUME NEW l \in 1 .. m + n, l >= i, Lies(ps[l], s + k) PROVE BitAt(ps[l], s + k) = w[k]
    <3>1. CASE l = i
      BY <2>4, <3>1
    <3>2. CASE l # i /\ l <= m
      <4>1. l \in 1 .. m /\ i < l /\ d \notin prog.unions
        BY <1>2, <1>9, <2>5, <3>2
      <4>2. ps[l] = OwnPatch(t, d, l) /\ O(l) \in Nat /\ W(l) \in Nat /\ s + W(i) <= O(l)
        BY <1>5, <1>6, <4>1
      <4>3. (s + k) - O(l) \in 1 .. W(l)
        <5>1. Fills(ps[l], O(l), W(l))
          BY <1>7, <4>1, <4>2
        <5> QED BY <2>1, <2>5, <4>2, <5>1, LiesIs
      <4> QED BY <1>3, <2>1, <4>2, <4>3
    <3>3. CASE l > m
      <4> DEFINE j == l - m
                 b == InOrder(d)[j]
      <4>1. j \in 1 .. n /\ l = m + j
        BY <1>2, <3>3
      <4>2. ps[l] = BasePatch(t, d, b) /\ b \in BaseSet(d)
        BY <1>5, <1>10, <4>1
      <4> HIDE DEF b
      <4>3. d \notin prog.unions
        BY <1>9, <4>2
      <4>4. (s + k) - BaseStart(d, b) \in 1 .. base[b]
        <5>1. Fills(ps[l], BaseStart(d, b), base[b])
          BY <1>8, <4>2
        <5>2. BaseStart(d, b) \in Nat /\ base[b] \in Nat
          BY <1>8, <4>2
        <5> QED BY <2>1, <2>5, <5>1, <5>2, LiesIs
      <4>5. BaseStart(d, b) \in Nat /\ base[b] \in Nat /\ base[d] <= BaseStart(d, b)
        BY <1>8, <4>2, <4>3
      <4> QED BY <1>3, <2>1, <4>4, <4>5
    <3> QED BY <1>2, <3>1, <3>2, <3>3
  <2>6. m + n \in Nat
    BY <1>2
  <2>7. LastOn(ps, m + n, s + k, i, w[k])
    BY <2>3, <2>4, <2>5, Zenon DEF LastOn
  <2>8. Counts(ps, m + n)
    BY <1>5, <2>6 DEF Counts
  <2> QED BY <1>5, <2>2, <2>7, <2>8, PatchedAt
<1> QED BY <1>4, <1>5, <1>11 DEF Shows, w, s, W

\* And what it has of its base classes is what their default values have.
LEMMA InheritedIsShown ==
  ASSUME Sized, NEW t \in Layouts, NEW d \in Class, PlacedRight(t, d), PartsReady(t, d),
         NEW b \in BaseSet(d), NEW k \in 1 .. base[b]
  PROVE  DefaultValue(t, d)[BaseStart(d, b) + k] = t.value[b][k]
<1> DEFINE m == Len(members[d])
           n == Len(InOrder(d))
           ps == Patches(t, d)
           v == [h \in 1 .. bits[d] |-> << >>]
           s == BaseStart(d, b)
<1>1. LabelTypes /\ IsComplete(d)
  BY DEF Sized, PlacedRight
<1>2. /\ m \in Nat /\ n \in Nat /\ ps \in [1 .. m + n -> AllPatches(t, d)]
      /\ \A j \in 1 .. m : ps[j] = OwnPatch(t, d, j)
      /\ \A j \in 1 .. n : ps[m + j] = BasePatch(t, d, InOrder(d)[j])
      /\ DefaultValue(t, d) = Patched(v, ps)
  BY <1>1, PatchesAre
<1>3. \A a \in BaseSet(d) :
        /\ Fills(BasePatch(t, d, a), BaseStart(d, a), base[a])
        /\ BaseStart(d, a) \in Nat /\ base[a] \in Nat
        /\ a # b => \/ BaseStart(d, a) + base[a] <= s
                    \/ s + base[b] <= BaseStart(d, a)
  BY <1>1, BasePatchIs, BaseStartIs DEF Fills
<1>4. BasePatch(t, d, b).bits[k] = t.value[b][k]
  BY BasePatchIs
<1>5. s \in Nat /\ base[b] \in Nat /\ bits[d] \in Nat /\ s + base[b] <= bits[d]
  BY <1>1, BaseStartIs
<1>6. PICK j \in 1 .. n : InOrder(d)[j] = b
  BY <1>1, InOrderIs
<1>7. \A l \in 1 .. n : InOrder(d)[l] \in BaseSet(d)
  BY <1>1, InOrderIs
<1> HIDE DEF ps, v, s, m, n
<1>8. s + k \in Nat /\ s + k \in DOMAIN v /\ k \in Nat /\ k >= 1 /\ k <= base[b] /\ (s + k) - s = k
  BY <1>5 DEF v
<1>9. m + j \in 1 .. m + n /\ ps[m + j] = BasePatch(t, d, b)
  BY <1>2, <1>6
<1>10. Lies(BasePatch(t, d, b), s + k) /\ BitAt(BasePatch(t, d, b), s + k) = t.value[b][k]
  <2>1. Fills(BasePatch(t, d, b), s, base[b])
    BY <1>3 DEF s
  <2>2. /\ Lies(BasePatch(t, d, b), s + k)
        /\ BitAt(BasePatch(t, d, b), s + k) = BasePatch(t, d, b).bits[k]
    BY <1>5, <1>8, <2>1, LiesIs
  <2> QED BY <1>4, <2>2, Zenon
<1>11. ASSUME NEW l \in 1 .. m + n, l >= m + j, Lies(ps[l], s + k)
       PROVE  BitAt(ps[l], s + k) = t.value[b][k]
  <2> DEFINE h == l - m
             a == InOrder(d)[h]
  <2>1. h \in 1 .. n /\ l = m + h
    BY <1>2, <1>11
  <2>2. ps[l] = BasePatch(t, d, a) /\ a \in BaseSet(d)
    BY <1>2, <1>7, <2>1
  <2> HIDE DEF a
  <2>3. CASE a = b
    BY <1>10, <2>2, <2>3
  <2>4. CASE a # b
    <3>1. (s + k) - BaseStart(d, a) \in 1 .. base[a]
      <4>1. Fills(ps[l], BaseStart(d, a), base[a])
        BY <1>3, <2>2
      <4>2. BaseStart(d, a) \in Nat /\ base[a] \in Nat
        BY <1>3, <2>2
      <4> QED BY <1>8, <1>11, <4>1, <4>2, LiesIs
    <3>2. /\ BaseStart(d, a) \in Nat /\ base[a] \in Nat
          /\ \/ BaseStart(d, a) + base[a] <= s
             \/ s + base[b] <= BaseStart(d, a)
      BY <1>3, <2>2, <2>4
    <3> QED BY <1>5, <1>8, <3>1, <3>2
  <2> QED BY <2>3, <2>4
<1>12. m + n \in Nat
  BY <1>2
<1>13. Patched(v, ps)[s + k] = t.value[b][k]
  <2>1. LastOn(ps, m + n, s + k, m + j, t.value[b][k])
    BY <1>9, <1>10, <1>11, Zenon DEF LastOn
  <2>2. Counts(ps, m + n)
    BY <1>2, <1>12 DEF Counts
  <2> QED BY <1>8, <2>1, <2>2, PatchedAt
<1> QED BY <1>2, <1>13 DEF s

\* A layout whose positions and default values are right.
Sound(t) == (\A c \in t.packed : PlacedRight(t, c)) /\ \A d \in t.ready : BuiltRight(t, d)

\* So is each data member of a class and of its bases.
LEMMA ReadBack ==
  ASSUME Sized, NEW t \in Layouts, Sound(t), NEW d \in t.ready, bits[d] # 0,
         NEW b \in Family(d), NEW i \in Distinct(b)
  PROVE  Shows(t.value[d], Start(d, b, i), MemberValue(t, b, i))
<1>1. /\ d \in Class /\ PlacedRight(t, d) /\ PartsReady(t, d) /\ t.value[d] = DefaultValue(t, d)
      /\ IsComplete(d) /\ LabelTypes
  BY LayoutIsTyped DEF Sound, BuiltRight, Sized
<1>2. CASE b = d
  BY <1>1, <1>2, OwnIsShown
<1>3. CASE b \in BaseSet(d) /\ bits[b] = 0
  <2>1. b \in Class /\ IsComplete(b)
    BY <1>1, <1>3, CompleteIs
  <2>2. i \in 1 .. Len(members[b])
    BY <1>1, <2>1, DistinctIs
  <2>3. Width(members[b][i]) = 0
    BY <1>3, <2>1, <2>2, NoBitsNoWidth
  <2>4. DOMAIN MemberValue(t, b, i) = {}
    BY <2>3, MemberValueDomain
  <2> QED BY <2>4 DEF Shows
<1>4. CASE b \in BaseSet(d) /\ bits[b] # 0
  <2>1. /\ b \in Class /\ b \in t.ready /\ b # d
    BY <1>1, <1>4, BaseStartIs DEF PartsReady
  <2>2. PlacedRight(t, b) /\ PartsReady(t, b) /\ t.value[b] = DefaultValue(t, b) /\ IsComplete(b)
    BY <1>4, <2>1 DEF Sound, BuiltRight
  <2> DEFINE w == MemberValue(t, b, i)
             s == Offset(b, i, 1 .. Len(members[b]))
             W == Width(members[b][i])
  <2>3. i \in 1 .. Len(members[b])
    BY <1>1, <2>1, DistinctIs
  <2>4. s \in Nat /\ W \in Nat /\ s + W <= base[b] /\ base[b] \in Nat
    BY <2>1, <2>2, <2>3, OffsetIs, WidthIs, CompleteIs
  <2>5. Start(b, b, i) = s /\ Start(d, b, i) = BaseStart(d, b) + s
        /\ BaseStart(d, b) \in Nat
    <3>1. BaseStart(b, b) = 0
      BY DEF BaseStart
    <3>2. Start(b, b, i) = 0 + s /\ Start(d, b, i) = BaseStart(d, b) + s
      BY <3>1 DEF Start
    <3>3. BaseStart(d, b) \in Nat
      BY <1>1, <1>4, BaseStartIs
    <3> QED BY <2>4, <3>2, <3>3
  <2>6. DOMAIN w = 1 .. W
    BY MemberValueDomain
  <2>7. Shows(t.value[b], Start(b, b, i), w)
    BY <2>1, <2>2, OwnIsShown
  <2> HIDE DEF w, s, W
  <2>8. ASSUME NEW k \in 1 .. W PROVE t.value[d][Start(d, b, i) + k] = w[k]
    <3>1. s + k \in 1 .. base[b] /\ BaseStart(d, b) + (s + k) = Start(d, b, i) + k
      BY <2>4, <2>5
    <3>2. DefaultValue(t, d)[BaseStart(d, b) + (s + k)] = t.value[b][s + k]
      BY <1>1, <1>4, <3>1, InheritedIsShown
    <3>3. t.value[b][s + k] = w[k]
      BY <2>5, <2>6, <2>7 DEF Shows
    <3> QED BY <1>1, <3>1, <3>2, <3>3
  <2> QED BY <2>6, <2>8 DEF Shows, w
<1> QED BY <1>2, <1>3, <1>4 DEF Family

-----------------------------------------------------------------------------
\* A layout with other objects, and one with other default values.
WithObjects(t, o) == [t EXCEPT !.object = o, !.ok = TRUE]
WithValues(t, R, w) == [t EXCEPT !.ready = R, !.value = w]

HasObjects(t, u, o) ==
  /\ u \in Layouts /\ u.object = o /\ u.ok
  /\ u.pos = t.pos /\ u.rel = t.rel /\ u.packed = t.packed /\ u.ready = t.ready
  /\ u.value = t.value /\ u.known = t.known /\ u.folding = t.folding
  /\ u.building = t.building /\ u.waits = t.waits /\ u.errors = t.errors

HasValues(t, u, R, w) ==
  /\ u \in Layouts /\ u.ready = R /\ u.value = w
  /\ u.pos = t.pos /\ u.rel = t.rel /\ u.packed = t.packed /\ u.object = t.object
  /\ u.known = t.known /\ u.folding = t.folding /\ u.building = t.building
  /\ u.waits = t.waits /\ u.errors = t.errors /\ u.ok = t.ok

\* A layout with other constants.
LEMMA WithObjectsIs ==
  ASSUME NEW t \in Layouts, NEW o \in [Class -> Seq(Seq(Bit))]
  PROVE  HasObjects(t, WithObjects(t, o), o)
<1> DEFINE u == WithObjects(t, o)
<1>1. t \in Layout
  BY DEF Layouts
<1>2. u \in Layout
  BY <1>1 DEF Layout, WithObjects
<1>3. /\ u.object = o /\ u.ok
      /\ u.pos = t.pos /\ u.rel = t.rel /\ u.packed = t.packed /\ u.ready = t.ready
      /\ u.value = t.value /\ u.known = t.known /\ u.folding = t.folding
      /\ u.building = t.building /\ u.waits = t.waits /\ u.errors = t.errors
  BY <1>1 DEF Layout, WithObjects
<1> HIDE DEF u
<1>4. \A c \in Class : /\ Len(u.pos[c]) = Len(members[c])
                       /\ u.known[c] \subseteq DOMAIN members[c]
                       /\ c \in u.ready => Len(u.value[c]) = bits[c]
  BY <1>3, LayoutIsTyped
<1>5. u \in Layouts
  BY <1>2, <1>4 DEF Layouts
<1> QED BY <1>3, <1>5 DEF u, HasObjects

\* A layout with other default values.
LEMMA WithValuesIs ==
  ASSUME NEW t \in Layouts, NEW R \in SUBSET Class, NEW w \in [Class -> Seq(Bit)],
         \A c \in R : Len(w[c]) = bits[c]
  PROVE  HasValues(t, WithValues(t, R, w), R, w)
<1> DEFINE u == WithValues(t, R, w)
<1>1. t \in Layout
  BY DEF Layouts
<1>2. u \in Layout
  BY <1>1 DEF Layout, WithValues
<1>3. /\ u.ready = R /\ u.value = w
      /\ u.pos = t.pos /\ u.rel = t.rel /\ u.packed = t.packed /\ u.object = t.object
      /\ u.known = t.known /\ u.folding = t.folding /\ u.building = t.building
      /\ u.waits = t.waits /\ u.errors = t.errors /\ u.ok = t.ok
  BY <1>1 DEF Layout, WithValues
<1> HIDE DEF u
<1>4. \A c \in Class : /\ Len(u.pos[c]) = Len(members[c])
                       /\ u.known[c] \subseteq DOMAIN members[c]
                       /\ c \in u.ready => Len(u.value[c]) = bits[c]
  BY <1>3, LayoutIsTyped
<1>5. u \in Layouts
  BY <1>2, <1>4 DEF Layouts
<1> QED BY <1>3, <1>5 DEF u, HasValues

-----------------------------------------------------------------------------
\* The constant of a class, and its list.
LEMMA ObjectIs ==
  ASSUME LabelTypes, NEW c \in Class, HasObject(c)
  PROVE  /\ prog.object[c].of \in Class
         /\ prog.object[c].list \in Seq(Class \X Nat)
         /\ Len(prog.object[c].list) \in Nat
         /\ DOMAIN prog.object[c].list = 1 .. Len(prog.object[c].list)
         /\ \A j \in 1 .. Len(prog.object[c].list) :
              LET e == prog.object[c].list[j]
              IN  /\ e[1] \in Class /\ e[2] \in 1 .. Len(members[e[1]])
                  /\ Inherits(prog, prog.object[c].of, e[1])
                  /\ members[e[1]][e[2]].kind \in {"int", "sizeof", "const"}
<1> DEFINE list == prog.object[c].list
<1>1. /\ prog.object[c].of \in Class /\ list \in Seq(Class \X Nat)
      /\ \A e \in ToSet(list) : Lists(prog, c, e)
  BY ObjectsAssumption DEF LabelTypes, HasObject
<1>2. Len(list) \in Nat /\ DOMAIN list = 1 .. Len(list)
  BY <1>1
<1>3. ASSUME NEW j \in 1 .. Len(list)
      PROVE  LET e == list[j]
             IN  /\ e[1] \in Class /\ e[2] \in 1 .. Len(members[e[1]])
                 /\ Inherits(prog, prog.object[c].of, e[1])
                 /\ members[e[1]][e[2]].kind \in {"int", "sizeof", "const"}
  <2> DEFINE e == list[j]
  <2>1. e \in ToSet(list)
    BY <1>2 DEF ToSet
  <2> HIDE DEF e
  <2>2. Lists(prog, c, e)
    BY <1>1, <2>1
  <2>3. \A d \in Class : DOMAIN members[d] = 1 .. Len(members[d])
    BY ProgramTypes
  <2>4. e[1] \in Class /\ e[2] \in 1 .. Len(members[e[1]])
        /\ Inherits(prog, prog.object[c].of, e[1])
        /\ members[e[1]][e[2]].kind \in {"int", "sizeof", "const"}
    BY <2>2, <2>3, Zenon DEF Lists, members
  <2> QED BY <2>4 DEF e
<1> QED BY <1>1, <1>2, <1>3

Listed(t, c, j) ==
  LET e == prog.object[c].list[j]
  IN  Patch([k \in 1 .. Width(members[e[1]][e[2]]) |-> <<c, 0 - j, k>>],
            PositionIn(t, prog.object[c].of, e))

\* An entry of a list gives bits to a member.
LEMMA ListedType ==
  ASSUME Sized, NEW t \in Layouts, NEW c \in Class, HasObject(c),
         NEW j \in 1 .. Len(prog.object[c].list)
  PROVE  Listed(t, c, j) \in PatchSet
<1> DEFINE e == prog.object[c].list[j]
           d == prog.object[c].of
           n == Width(members[e[1]][e[2]])
           w == [k \in 1 .. n |-> <<c, 0 - j, k>>]
           a == PositionIn(t, d, e)
<1>0. LabelTypes
  BY DEF Sized
<1>1. d \in Class /\ e[1] \in Class /\ e[2] \in 1 .. Len(members[e[1]]) /\ j \in Nat
  <2>1. d \in Class /\ Len(prog.object[c].list) \in Nat
    BY <1>0, ObjectIs
  <2>2. e[1] \in Class /\ e[2] \in 1 .. Len(members[e[1]])
    BY <1>0, ObjectIs
  <2> QED BY <2>1, <2>2
<1> HIDE DEF e, d
<1>2. n \in Int
  BY <1>1, ProgramTypes, WidthType DEF Sized
<1>3. a \in Int
  <2>1. t.pos[e[1]] \in Seq(Int) /\ Len(t.pos[e[1]]) = Len(members[e[1]])
        /\ t.rel[d][e[1]] \in Int
    BY <1>1, LayoutIsTyped
  <2>2. t.pos[e[1]][e[2]] \in Int
    BY <1>1, <2>1
  <2> QED BY <2>1, <2>2 DEF PositionIn
<1> HIDE DEF n
<1>4. w \in [1 .. n -> Bit]
  <2>1. 0 - j \in Int /\ \A k \in 1 .. n : k \in Int
    BY <1>1, <1>2
  <2>2. \A k \in 1 .. n : <<c, 0 - j, k>> \in Bit
    BY <2>1, BitIs
  <2> QED BY <2>2
<1>5. Listed(t, c, j) = Patch(w, a)
  BY DEF Listed, n, e, d
<1> HIDE DEF w, a
<1> QED BY <1>2, <1>3, <1>4, <1>5, PatchIs

\* A class from which another inherits is of its family.
\* A class from which another inherits is of its family.
LEMMA InheritsIs ==
  ASSUME LabelTypes, NEW d \in Class, NEW b, Inherits(prog, d, b)
  PROVE  b \in Family(d)
<1>1. BaseSet(d) \in SUBSET Class /\ Family(d) \in SUBSET Class /\ d \in Family(d)
  BY BaseSetIs DEF Family
<1>2. \A a \in Family(d) : ToSet(prog.bases[a]) \subseteq Family(d)
  BY BaseSetIsClosed DEF Family, bases
<1> HIDE DEF Family
<1> QED BY <1>1, <1>2 DEF Inherits

\* A data member with bits is looked for where it begins.
LEMMA PlacesAre ==
  ASSUME Sized, NEW t \in Layouts, Sound(t), NEW d \in t.ready, bits[d] # 0,
         NEW b \in Family(d), NEW i \in 1 .. Len(members[b]), Width(members[b][i]) # 0
  PROVE  /\ t.pos[b][i] + (IF b = d THEN 0 ELSE t.rel[d][b]) = Start(d, b, i)
         /\ b # d => t.rel[d][b] # Unknown
<1>1. /\ d \in Class /\ d \in t.packed /\ PlacedRight(t, d) /\ PartsReady(t, d)
      /\ IsComplete(d) /\ LabelTypes
  BY LayoutIsTyped DEF Sound, BuiltRight, Sized
<1>2. /\ b \in Class /\ IsComplete(b) /\ BaseStart(d, b) \in Nat
      /\ Start(d, b, i) = BaseStart(d, b) + Offset(b, i, 1 .. Len(members[b]))
      /\ b = d => BaseStart(d, b) = 0
  BY <1>1, StartIs
<1>3. bits[b] # 0
  BY <1>2, NoBitsNoWidth
<1>4. b \in t.packed
  <2>1. CASE b = d
    BY <1>1, <2>1
  <2>2. CASE b \in BaseSet(d)
    <3>1. b \in t.ready
      BY <1>1, <1>3, <2>2 DEF PartsReady
    <3> QED BY <1>3, <3>1 DEF Sound, BuiltRight
  <2> QED BY <2>1, <2>2 DEF Family
<1>5. t.pos[b][i] = Offset(b, i, 1 .. Len(members[b])) /\ t.pos[b][i] \in Nat
  <2>1. PlacedRight(t, b)
    BY <1>4 DEF Sound
  <2>2. t.pos[b][i] = Offset(b, i, 1 .. Len(members[b]))
    BY <2>1 DEF PlacedRight
  <2>3. Offset(b, i, 1 .. Len(members[b])) \in Nat
    BY <1>2, OffsetIs
  <2> QED BY <2>2, <2>3
<1>6. b # d => t.rel[d][b] = BaseStart(d, b)
  BY <1>1 DEF PlacedRight, Family
<1>7. \A n \in Nat : n # Unknown
  BY DEF Unknown
<1>8. CASE b = d
  BY <1>2, <1>5, <1>8
<1>9. CASE b # d
  BY <1>2, <1>5, <1>6, <1>7, <1>9
<1> QED BY <1>8, <1>9

\* So an entry of a list goes there too.
LEMMA InPlace ==
  ASSUME Sized, NEW t \in Layouts, Sound(t), NEW d \in t.ready, bits[d] # 0,
         NEW b \in Family(d), NEW i \in 1 .. Len(members[b]), NEW e, e = <<b, i>>,
         Width(members[b][i]) # 0
  PROVE  PositionIn(t, d, e) = Start(d, b, i)
<1>1. PositionIn(t, d, e) =
        t.pos[b][i] + (IF b = d \/ t.rel[d][b] = Unknown THEN 0 ELSE t.rel[d][b])
  BY DEF PositionIn
<1>2. /\ t.pos[b][i] + (IF b = d THEN 0 ELSE t.rel[d][b]) = Start(d, b, i)
      /\ b # d => t.rel[d][b] # Unknown
  BY PlacesAre
<1> QED BY <1>1, <1>2

\* The patches of a list, none of them on top of another.
ListedPatches(t, c) == [j \in 1 .. Len(prog.object[c].list) |-> Listed(t, c, j)]

ListedRoom(t, c, j) ==
  LET e == prog.object[c].list[j]
      before == PositionIn(t, prog.object[c].of, e)
  IN  before + 1 .. before + Width(members[e[1]][e[2]])

RoomsApart(t, c) ==
  LET list == prog.object[c].list
  IN  \A i, j \in 1 .. Len(list) : i < j => ListedRoom(t, c, i) \cap ListedRoom(t, c, j) = {}

\* The bits that entry j of a list is for, and what its patch says of them.
SlotMember(c, j) == prog.object[c].list[j]
SlotWidth(c, j) == Width(members[SlotMember(c, j)[1]][SlotMember(c, j)[2]])
SlotStart(c, j) == Start(prog.object[c].of, SlotMember(c, j)[1], SlotMember(c, j)[2])

SlotIsListed(c, j) ==
  LET e == SlotMember(c, j)
  IN  /\ e[1] \in Family(prog.object[c].of) /\ e[2] \in 1 .. Len(members[e[1]])
      /\ e = <<e[1], e[2]>> /\ e \in ToSet(prog.object[c].list)

SlotFits(c, j) ==
  /\ SlotWidth(c, j) \in Nat /\ SlotStart(c, j) \in Nat
  /\ SlotStart(c, j) + SlotWidth(c, j) <= bits[prog.object[c].of]
  /\ bits[prog.object[c].of] \in Nat

SlotIsSaid(t, c, j) ==
  LET p == ListedPatches(t, c)[j]
  IN  /\ DOMAIN p.bits = 1 .. SlotWidth(c, j)
      /\ \A k \in 1 .. SlotWidth(c, j) : p.bits[k] = <<c, 0 - j, k>>
      /\ SlotWidth(c, j) # 0 =>
           /\ Fills(p, SlotStart(c, j), SlotWidth(c, j))
           /\ ListedRoom(t, c, j) =
                SlotStart(c, j) + 1 .. SlotStart(c, j) + SlotWidth(c, j)

\* An entry of a list is for a member that lies in the object, and so is its patch.
\* An entry of a list is for a member that lies in the object, and so is its patch.
LEMMA SlotIs ==
  ASSUME Sized, NEW t \in Layouts, Sound(t), NEW c \in Class, HasObject(c),
         prog.object[c].of \in t.ready, bits[prog.object[c].of] # 0,
         NEW j \in 1 .. Len(prog.object[c].list)
  PROVE  SlotIsListed(c, j) /\ SlotFits(c, j) /\ SlotIsSaid(t, c, j)
<1> DEFINE d == prog.object[c].of
           list == prog.object[c].list
           e == SlotMember(c, j)
           W == SlotWidth(c, j)
           S == SlotStart(c, j)
           p == ListedPatches(t, c)[j]
           a == PositionIn(t, d, e)
<1>1. /\ d \in Class /\ IsComplete(d) /\ LabelTypes
  BY LayoutIsTyped DEF Sound, BuiltRight, Sized
<1>2. /\ list \in Seq(Class \X Nat) /\ DOMAIN list = 1 .. Len(list)
      /\ e[2] \in 1 .. Len(members[e[1]]) /\ Inherits(prog, d, e[1])
  <2>1. list \in Seq(Class \X Nat) /\ DOMAIN list = 1 .. Len(list)
    BY <1>1, ObjectIs
  <2>2. e[2] \in 1 .. Len(members[e[1]]) /\ Inherits(prog, d, e[1])
    BY <1>1, ObjectIs DEF SlotMember
  <2> QED BY <2>1, <2>2
<1>3. e = <<e[1], e[2]>> /\ e \in ToSet(list)
  <2>1. e \in Class \X Nat
    BY <1>2 DEF SlotMember
  <2>2. e \in ToSet(list)
    BY <1>2 DEF ToSet, SlotMember
  <2> QED BY <2>1, <2>2
<1>4. p = Patch([k \in 1 .. W |-> <<c, 0 - j, k>>], a)
  BY DEF ListedPatches, Listed, SlotWidth, SlotMember
<1>5. ListedRoom(t, c, j) = a + 1 .. a + W
  BY DEF ListedRoom, SlotWidth, SlotMember
<1>6. W = Width(members[e[1]][e[2]]) /\ S = Start(d, e[1], e[2])
  BY DEF SlotStart, SlotWidth
<1> HIDE DEF e, p, a, W, S, list
<1>7. e[1] \in Family(d)
  BY <1>1, <1>2, InheritsIs
<1>8. /\ W \in Nat /\ S \in Nat /\ BaseStart(d, e[1]) \in Nat
      /\ base[e[1]] \in Nat /\ S + W <= BaseStart(d, e[1]) + base[e[1]]
      /\ BaseStart(d, e[1]) + base[e[1]] <= bits[d] /\ bits[d] \in Nat
  BY <1>1, <1>2, <1>6, <1>7, StartIs
<1>9. W # 0 => a = S
  BY <1>2, <1>3, <1>6, <1>7, InPlace DEF a
<1> HIDE DEF d
<1>10. S + W <= bits[d]
  BY <1>8
<1>11. DOMAIN p.bits = 1 .. W /\ p.at = a /\ \A k \in 1 .. W : p.bits[k] = <<c, 0 - j, k>>
  BY <1>4 DEF Patch
<1>12. W # 0 => Fills(p, S, W) /\ ListedRoom(t, c, j) = S + 1 .. S + W
  BY <1>5, <1>9, <1>11 DEF Fills
<1>13. SlotIsListed(c, j)
  BY <1>2, <1>3, <1>7 DEF SlotIsListed, e, d, list
<1>14. SlotFits(c, j)
  BY <1>8, <1>10 DEF SlotFits, W, S, d
<1>15. SlotIsSaid(t, c, j)
  BY <1>11, <1>12 DEF SlotIsSaid, p, W, S
<1> QED BY <1>13, <1>14, <1>15

\* So the list is shown, and what it leaves alone is what it was.
FilledWith(t, u, c) ==
  /\ u.value = t.value /\ u.ready = t.ready
  /\ u.object[c] = <<Patched(t.value[prog.object[c].of], ListedPatches(t, c))>>

\* Every entry of a list can be read in the object.
\* Every entry of a list can be read in the object.
LEMMA ListIsShown ==
  ASSUME Sized, NEW t \in Layouts, Sound(t), NEW u, NEW c \in Class, HasObject(c),
         prog.object[c].of \in t.ready, bits[prog.object[c].of] # 0, RoomsApart(t, c),
         FilledWith(t, u, c)
  PROVE  ListShown(u, c)
<1> DEFINE d == prog.object[c].of
           list == prog.object[c].list
           m == Len(list)
           v == t.value[d]
           ps == ListedPatches(t, c)
           W(j) == SlotWidth(c, j)
           S(j) == SlotStart(c, j)
           x(j, k) == <<c, 0 - j, k>>
<1>1. d \in Class /\ m \in Nat /\ v \in Seq(Bit) /\ Len(v) = bits[d]
  BY ObjectIs, LayoutIsTyped DEF Sized
<1>2. Counts(ps, m)
  BY <1>1 DEF ListedPatches, Counts
<1>3. \A j \in 1 .. m :
        /\ W(j) \in Nat /\ S(j) \in Nat /\ S(j) + W(j) <= bits[d] /\ bits[d] \in Nat
        /\ DOMAIN ps[j].bits = 1 .. W(j) /\ \A k \in 1 .. W(j) : ps[j].bits[k] = x(j, k)
        /\ W(j) # 0 => Fills(ps[j], S(j), W(j)) /\ ListedRoom(t, c, j) = S(j) + 1 .. S(j) + W(j)
  <2> SUFFICES ASSUME NEW j \in 1 .. m
      PROVE  /\ W(j) \in Nat /\ S(j) \in Nat /\ S(j) + W(j) <= bits[d] /\ bits[d] \in Nat
             /\ DOMAIN ps[j].bits = 1 .. W(j) /\ \A k \in 1 .. W(j) : ps[j].bits[k] = x(j, k)
             /\ W(j) # 0 => /\ Fills(ps[j], S(j), W(j))
                            /\ ListedRoom(t, c, j) = S(j) + 1 .. S(j) + W(j)
    OBVIOUS
  <2>1. SlotFits(c, j) /\ SlotIsSaid(t, c, j)
    BY SlotIs
  <2> QED BY <2>1 DEF SlotFits, SlotIsSaid
<1>4. \A i, j \in 1 .. m : i < j => ListedRoom(t, c, i) \cap ListedRoom(t, c, j) = {}
  BY DEF RoomsApart
<1>5. u.object[c][1] = Patched(v, ps)
  BY DEF FilledWith
<1> HIDE DEF ps, v, m, d, W, S, x
<1>6. ASSUME NEW j \in 1 .. m, NEW k \in 1 .. W(j) PROVE Patched(v, ps)[S(j) + k] = x(j, k)
  <2>1. /\ W(j) \in Nat /\ S(j) \in Nat /\ S(j) + W(j) <= bits[d] /\ bits[d] \in Nat
        /\ W(j) # 0 /\ k \in Nat /\ k >= 1 /\ k <= W(j)
    BY <1>3
  <2>2. /\ Fills(ps[j], S(j), W(j)) /\ ListedRoom(t, c, j) = S(j) + 1 .. S(j) + W(j)
        /\ ps[j].bits[k] = x(j, k)
    BY <1>3, <2>1
  <2>3. S(j) + k \in DOMAIN v /\ S(j) + k \in Nat /\ (S(j) + k) - S(j) = k
    BY <1>1, <2>1
  <2>4. Lies(ps[j], S(j) + k) /\ BitAt(ps[j], S(j) + k) = x(j, k)
    <3>1. Lies(ps[j], S(j) + k) /\ BitAt(ps[j], S(j) + k) = ps[j].bits[k]
      BY <2>1, <2>2, <2>3, LiesIs
    <3> QED BY <2>2, <3>1, Zenon
  <2>5. ASSUME NEW l \in 1 .. m, l >= j, Lies(ps[l], S(j) + k)
        PROVE  BitAt(ps[l], S(j) + k) = x(j, k)
    <3>1. CASE l = j
      BY <2>4, <3>1
    <3>2. CASE l # j
      <4>1. j < l
        BY <1>1, <2>5, <3>2
      <4>2. W(l) \in Nat /\ W(l) # 0
        <5>1. W(l) \in Nat /\ DOMAIN ps[l].bits = 1 .. W(l) /\ DOMAIN ps[l].bits # {}
          BY <1>3, <2>5 DEF Lies
        <5> QED BY <5>1
      <4>3. /\ Fills(ps[l], S(l), W(l)) /\ S(l) \in Nat
            /\ ListedRoom(t, c, l) = S(l) + 1 .. S(l) + W(l)
        BY <1>3, <4>2
      <4>4. (S(j) + k) - S(l) \in 1 .. W(l)
        <5> DEFINE y == S(j) + k
                   a == S(l)
                   n == W(l)
        <5>1. y \in Nat /\ a \in Nat /\ n \in Nat /\ Fills(ps[l], a, n) /\ Lies(ps[l], y)
          BY <2>3, <2>5, <4>2, <4>3
        <5> HIDE DEF y, a, n
        <5>2. y - a \in 1 .. n
          BY <5>1, LiesIs
        <5> QED BY <5>2 DEF y, a, n
      <4>5. S(j) + k \in ListedRoom(t, c, l)
        BY <2>3, <4>2, <4>3, <4>4
      <4>6. S(j) + k \in ListedRoom(t, c, j)
        BY <2>1, <2>2
      <4> QED BY <1>4, <4>1, <4>5, <4>6
    <3> QED BY <3>1, <3>2
  <2>6. LastOn(ps, m, S(j) + k, j, x(j, k))
    BY <2>4, <2>5, Zenon DEF LastOn
  <2> QED BY <1>2, <2>3, <2>6, PatchedAt
<1>7. ASSUME NEW j \in 1 .. m
      PROVE  Shows(u.object[c][1], S(j), [k \in 1 .. W(j) |-> x(j, k)])
  BY <1>5, <1>6 DEF Shows
<1> QED BY <1>7 DEF ListShown, S, W, x, m, d, SlotStart, SlotWidth, SlotMember

\* A member that no entry covers has its default value in the object.
\* A member that no entry covers has its default value in the object.
LEMMA RestIsShown ==
  ASSUME Sized, NEW t \in Layouts, Sound(t), NEW u, NEW c \in Class, HasObject(c),
         prog.object[c].of \in t.ready, bits[prog.object[c].of] # 0,
         FilledWith(t, u, c)
  PROVE  RestShown(u, c)
<1> DEFINE d == prog.object[c].of
           list == prog.object[c].list
           m == Len(list)
           v == t.value[d]
           ps == ListedPatches(t, c)
<1>1. /\ d \in Class /\ m \in Nat /\ v \in Seq(Bit) /\ Len(v) = bits[d]
      /\ IsComplete(d) /\ LabelTypes
  BY ObjectIs, LayoutIsTyped DEF Sized, Sound, BuiltRight
<1>2. Counts(ps, m)
  BY <1>1 DEF ListedPatches, Counts
<1>3. u.object[c][1] = Patched(v, ps)
  BY DEF FilledWith
<1>4. ASSUME NEW b \in Family(d), NEW i \in Distinct(b), Uncovered(c, b, i)
      PROVE  Shows(u.object[c][1], Start(d, b, i), MemberValue(t, b, i))
  <2> DEFINE s == Start(d, b, i)
             W == Width(members[b][i])
             w == MemberValue(t, b, i)
  <2>1. b \in Class /\ i \in 1 .. Len(members[b])
    <3>1. b \in Class
      BY <1>1, CompleteIs DEF Family
    <3> QED BY <1>1, <3>1, DistinctIs
  <2>2. /\ s \in Nat /\ W \in Nat /\ BaseStart(d, b) \in Nat /\ base[b] \in Nat
        /\ s + W <= BaseStart(d, b) + base[b] /\ BaseStart(d, b) + base[b] <= bits[d]
        /\ bits[d] \in Nat
    BY <1>1, <2>1, StartIs
  <2>3. Shows(v, s, w) /\ DOMAIN w = 1 .. W
    BY ReadBack, MemberValueDomain
  <2>4. ASSUME NEW l \in 1 .. m, NEW k \in 1 .. W, Lies(ps[l], s + k) PROVE FALSE
    <3> DEFINE e == SlotMember(c, l)
               S == SlotStart(c, l)
               X == SlotWidth(c, l)
    <3>0. SlotIsListed(c, l) /\ SlotFits(c, l) /\ SlotIsSaid(t, c, l)
      BY SlotIs
    <3>1. /\ e[1] \in Family(d) /\ e[2] \in 1 .. Len(members[e[1]]) /\ e = <<e[1], e[2]>>
          /\ e \in ToSet(list) /\ X \in Nat /\ S \in Nat
          /\ DOMAIN ps[l].bits = 1 .. X
          /\ X # 0 => Fills(ps[l], S, X)
      BY <3>0 DEF SlotIsListed, SlotFits, SlotIsSaid
    <3>2. ~ Covers(e, d, b, i)
      <4>1. \A f \in ToSet(list) : ~ Covers(f, d, b, i)
        BY <1>4 DEF Uncovered
      <4> HIDE DEF e, list, d
      <4> QED BY <3>1, <4>1
    <3> HIDE DEF e, S, X, s, W
    <3>3. (s + k) - S \in 1 .. X
      <4>1. X # 0
        <5>1. DOMAIN ps[l].bits # {}
          BY <2>4 DEF Lies
        <5> QED BY <3>1, <5>1
      <4>2. s + k \in Nat
        BY <2>2
      <4> QED BY <2>4, <3>1, <4>1, <4>2, LiesIs
    <3>4. b # e[1] \/ i # e[2]
      BY <3>1, <3>2 DEF Covers
    <3>5. b = e[1] => b \notin prog.unions
      BY <3>2 DEF Covers
    <3>6. b # e[1] => d \notin {b, e[1]} \/ d \notin prog.unions
      <4>1. ASSUME b # e[1], d = b, d \in prog.unions PROVE FALSE
        <5>1. BaseSet(d) = {}
          BY <1>1, <4>1, DistinctInUnion
        <5> QED BY <3>1, <4>1, <5>1 DEF Family
      <4>2. ASSUME d = e[1], d \in prog.unions PROVE FALSE
        BY <3>2, <4>2 DEF Covers
      <4> QED BY <4>1, <4>2
    <3>7. Beside(d, b, i, e[1], e[2])
      BY <1>1, <2>1, <3>1, <3>4, <3>5, <3>6, MembersApart
    <3>8. s + W <= S \/ S + X <= s
      BY <3>7 DEF Beside, s, W, S, X, e, SlotStart, SlotWidth
    <3> QED BY <2>2, <3>1, <3>3, <3>8 DEF s, W
  <2> HIDE DEF s, W, w, ps, v
  <2>5. ASSUME NEW k \in 1 .. W PROVE Patched(v, ps)[s + k] = w[k]
    <3>1. s + k \in DOMAIN v
      <4>1. s \in Nat /\ W \in Nat /\ s + W <= bits[d] /\ bits[d] \in Nat
        BY <2>2 DEF s, W
      <4>2. DOMAIN v = 1 .. bits[d]
        BY <1>1 DEF v
      <4> QED BY <4>1, <4>2
    <3>2. \A l \in 1 .. m : ~ Lies(ps[l], s + k)
      BY <2>4
    <3>3. Patched(v, ps)[s + k] = v[s + k]
      <4>1. NoneOn(ps, m, s + k)
        BY <3>2 DEF NoneOn
      <4> QED BY <1>2, <3>1, <4>1, PatchedAt
    <3> QED BY <2>3, <3>3 DEF Shows
  <2>6. Shows(u.object[c][1], s, w)
    BY <1>3, <2>3, <2>5 DEF Shows
  <2> QED BY <2>6 DEF s, w
<1>5. \A b, i : MemberValue(u, b, i) = MemberValue(t, b, i)
  BY DEF MemberValue, FilledWith
<1> QED BY <1>4, <1>5 DEF RestShown

\* So the constant has the value that its list and its class say.
\* So the constant has the value that its list and its class say.
LEMMA FilledIs ==
  ASSUME Sized, NEW t \in Layouts, Settled(t), NEW u \in Layouts, NEW c \in Class, HasObject(c),
         bits[prog.object[c].of] = 0 \/ prog.object[c].of \in t.ready, RoomsApart(t, c),
         FilledWith(t, u, c)
  PROVE  FilledRight(u, c)
<1> DEFINE d == prog.object[c].of
<1>1. Sound(t)
  BY DEF Settled, Sound
<1>2. CASE bits[d] = 0
  BY <1>2 DEF FilledRight
<1>3. CASE bits[d] # 0
  <2>1. d \in t.ready /\ d \in u.ready
    BY <1>3 DEF FilledWith
  <2>2. ListShown(u, c) /\ RestShown(u, c)
    BY <1>1, <1>3, <2>1, ListIsShown, RestIsShown
  <2>3. Len(u.object[c][1]) = bits[d]
    <3> DEFINE v == t.value[d]
               ps == ListedPatches(t, c)
               m == Len(prog.object[c].list)
    <3>1. v \in Seq(Bit) /\ Len(v) = bits[d] /\ m \in Nat
      BY <2>1, ObjectIs, LayoutIsTyped DEF Sized
    <3>2. ps \in [1 .. m -> PatchSet]
      BY ListedType DEF ListedPatches
    <3>3. u.object[c][1] = Patched(v, ps)
      BY DEF FilledWith
    <3> HIDE DEF v, ps, m
    <3>4. Len(Patched(v, ps)) = Len(v)
      BY <3>1, <3>2, PatchedType
    <3> QED BY <3>1, <3>3, <3>4
  <2> QED BY <1>3, <2>1, <2>2, <2>3 DEF FilledRight
<1> QED BY <1>2, <1>3

\* A list that is read gives the constant its value.
LEMMA InitDataMembersIs ==
  ASSUME Sized, NEW t \in Layouts, NEW c \in Class, HasObject(c),
         bits[prog.object[c].of] = 0 \/ prog.object[c].of \in t.ready
  PROVE  LET u == InitDataMembers(t, c)
         IN  u \in Layouts /\ Later(t, u) /\ (u.ok => u.object[c] # << >>)
<1> DEFINE d == prog.object[c].of
           list == prog.object[c].list
           m == Len(list)
           ps == ListedPatches(t, c)
           v == Patched(t.value[d], ps)
           o == [t.object EXCEPT ![c] = << v >>]
           u == InitDataMembers(t, c)
<1>1. d \in Class /\ m \in Nat /\ DOMAIN list = 1 .. m
  BY ObjectIs DEF Sized
<1>2. v \in Seq(Bit)
  <2>1. ps \in [1 .. m -> PatchSet] /\ t.value[d] \in Seq(Bit)
    BY <1>1, ListedType, LayoutIsTyped DEF ListedPatches
  <2> HIDE DEF ps
  <2> QED BY <1>1, <2>1, PatchedType
<1>3. \/ u = NotReady(t) \/ u = Err(t)
      \/ u = WithObjects(t, o) /\ RoomsApart(t, c)
  <2>1. t \in Layout
    BY DEF Layouts
  <2>2. [t EXCEPT !.object[c] = << v >>, !.ok = TRUE] = WithObjects(t, o)
    BY <2>1 DEF Layout, WithObjects
  <2>3. ps = [j \in DOMAIN list |->
                Patch([k \in 1 .. Width(members[list[j][1]][list[j][2]]) |-> <<c, 0 - j, k>>],
                      PositionIn(t, d, list[j]))]
    BY <1>1 DEF ListedPatches, Listed
  <2> DEFINE On(j) == PositionIn(t, d, list[j]) + 1 ..
                        PositionIn(t, d, list[j]) + Width(members[list[j][1]][list[j][2]])
             Twice == \E i, j \in DOMAIN list : i < j /\ On(i) \cap On(j) # {}
  <2>4. ~ Twice => RoomsApart(t, c)
    <3>1. \A j : ListedRoom(t, c, j) = On(j)
      BY DEF ListedRoom
    <3> HIDE DEF On
    <3> QED BY <1>1, <3>1 DEF RoomsApart
  <2>5. \/ u = NotReady(t)
        \/ u = IF Twice THEN Err(t) ELSE [t EXCEPT !.object[c] = << v >>, !.ok = TRUE]
    BY <2>3 DEF InitDataMembers
  <2> QED BY <2>2, <2>4, <2>5
<1> HIDE DEF u, v
<1>4. /\ o \in [Class -> Seq(Seq(Bit))] /\ o[c] # << >> /\ o[c] = << v >>
      /\ \A b \in Class : b # c => o[b] = t.object[b]
  <2>1. << v >> \in Seq(Seq(Bit)) /\ << v >> # << >>
    BY <1>2
  <2>2. t.object \in [Class -> Seq(Seq(Bit))]
    BY LayoutIsTyped
  <2> QED BY <2>1, <2>2
<1> HIDE DEF o
<1>5. ASSUME u = WithObjects(t, o), RoomsApart(t, c)
      PROVE  u \in Layouts /\ Later(t, u) /\ (u.ok => u.object[c] # << >>)
  <2>1. HasObjects(t, u, o)
    BY <1>4, <1>5, WithObjectsIs
  <2>2. t.waits \in Nat /\ t.errors \in Nat
    BY LayoutIsTyped
  <2>3. u \in Layouts /\ u.object = o /\ u.ok
    BY <2>1 DEF HasObjects
  <2>4. \A b \in Class : t.object[b] # << >> => u.object[b] # << >>
    BY <1>4, <2>3
  <2>6. ASSUME Settled(t) PROVE Settled(u)
    <3>1. FilledWith(t, u, c)
      <4>1. u.object[c] = << v >>
        BY <1>4, <2>3
      <4>2. u.value = t.value /\ u.ready = t.ready
        BY <2>1 DEF HasObjects
      <4> QED BY <4>1, <4>2 DEF FilledWith, v
    <3>2. FilledRight(u, c)
      BY <1>5, <2>3, <2>6, <3>1, FilledIs
    <3>3. Stays(t, u) /\ u.packed = t.packed /\ u.ready = t.ready
          /\ u.pos = t.pos /\ u.known = t.known
      BY <2>1, StaysIs DEF HasObjects
    <3>4. PlacesKnown(u)
      BY <2>6, <3>3 DEF Settled, PlacesKnown, Reliable
    <3>5. \A b \in Class : u.object[b] = t.object[b] \/ FilledRight(u, b)
      BY <1>4, <2>3, <3>2
    <3> QED BY <2>3, <2>6, <3>3, <3>4, <3>5, SettledAdded
  <2>5. Later(t, u)
    BY <2>1, <2>2, <2>4, <2>6 DEF HasObjects, Later, AddsTo, Inside
  <2> QED BY <1>4, <2>3, <2>5
<1>6. ASSUME u = NotReady(t) \/ u = Err(t)
      PROVE  u \in Layouts /\ Later(t, u) /\ (u.ok => u.object[c] # << >>)
  <2>1. u \in Layouts /\ Later(t, u)
    BY <1>6, LaterOutcomes
  <2>2. ~ u.ok
    BY <1>6, OutcomesAre
  <2> QED BY <2>1, <2>2
<1>7. u \in Layouts /\ Later(t, u) /\ (u.ok => u.object[c] # << >>)
  BY <1>3, <1>5, <1>6
<1> QED BY <1>7 DEF u

-----------------------------------------------------------------------------
\* A constant that is built has a value.
LEMMA BuildConstantIs ==
  ASSUME Sized, NEW t \in Layouts, NEW c \in Class, HasObject(c), NEW G \in Gets
  PROVE  LET u == BuildConstant(t, c, G)
         IN  u \in Layouts /\ Advances(t, u) /\ (u.ok => u.object[c] # << >>)
<1> DEFINE d == prog.object[c].of
           g == G[<<d, t>>]
           u == BuildConstant(t, c, G)
<1>1. d \in Class
  BY ObjectIs DEF Sized
<1>2. g \in Layouts /\ Advances(t, g)
  BY <1>1, GetsAre
<1> HIDE DEF d
<1>3. CASE t.object[c] # << >>
  <2>1. u = Good(t)
    BY <1>3 DEF BuildConstant
  <2>2. Good(t).object = t.object
    BY OutcomesAre DEF Outcome
  <2> QED BY <1>3, <2>1, <2>2, AdvancingOutcomes
<1>4. CASE t.object[c] = << >> /\ ~ g.ok
  <2>1. u = g
    BY <1>4 DEF BuildConstant, d
  <2> QED BY <1>2, <1>4, <2>1
<1>5. CASE t.object[c] = << >> /\ g.ok
  <2> DEFINE v == InitDataMembers(g, c)
  <2>1. u = v
    BY <1>5 DEF BuildConstant, d
  <2>0. bits[prog.object[c].of] = 0 \/ prog.object[c].of \in g.ready
    BY <1>1, <1>5, GetsAre DEF d
  <2> HIDE DEF g
  <2>2. v \in Layouts /\ Later(g, v) /\ (v.ok => v.object[c] # << >>)
    BY <1>2, <2>0, InitDataMembersIs
  <2>3. ~ Calm(t)
    BY <1>5 DEF Calm
  <2> HIDE DEF v, u
  <2>4. Later(t, v)
    BY <1>2, <2>2, LaterIsTransitive DEF Advances
  <2>5. Advances(t, v)
    BY <2>3, <2>4 DEF Advances
  <2> QED BY <2>1, <2>2, <2>5 DEF u
<1> QED BY <1>3, <1>4, <1>5

\* Also when it is built as a part of the default value of its class.
LEMMA BuildMemberConstantIs ==
  ASSUME Sized, NEW t \in Layouts, NEW c \in Class, NEW G \in Gets
  PROVE  LET v == BuildMemberConstant(t, c, G)
         IN  v \in Layouts /\ Advances(t, v)
<1> DEFINE u == BuildConstant(t, c, G)
           v == BuildMemberConstant(t, c, G)
<1>1. CASE ~ HasObject(c)
  BY <1>1, AdvancingOutcomes DEF BuildMemberConstant
<1>2. CASE HasObject(c) /\ t.object[c] = << >> /\ c # t.folding
  <2>1. v = Wait(t)
    BY <1>2 DEF BuildMemberConstant
  <2>2. ~ Calm(t)
    BY <1>2 DEF Calm
  <2> QED BY <2>1, <2>2, LaterOutcomes DEF Advances
<1>3. CASE HasObject(c) /\ ~ (t.object[c] = << >> /\ c # t.folding)
  <2>1. v = IF u.ok THEN u ELSE Err(u)
    BY <1>3 DEF BuildMemberConstant
  <2>2. u \in Layouts /\ Advances(t, u)
    BY <1>3, BuildConstantIs
  <2> HIDE DEF u
  <2>3. Later(t, u) /\ Err(u) \in Layouts /\ Advances(u, Err(u))
    BY <2>2, AdvancingOutcomes DEF Advances
  <2>4. Advances(t, Err(u))
    BY <2>2, <2>3, AdvancesFurther
  <2> QED BY <2>1, <2>2, <2>3, <2>4
<1> QED BY <1>1, <1>2, <1>3

-----------------------------------------------------------------------------
\* One data member after the other, or one base class after the other: all the
\* parts tried are there if all went well.  Parts are what is had by then.
TriedMember(c, G, t, i) == And(t, BuildMember(t, c, i, G))

\* When all the members are built, all the classes that they hold have default values.
LEMMA BuildMembersIs ==
  ASSUME Sized, NEW t \in Layouts, t.ok, NEW c \in Class, NEW G \in Gets
  PROVE  LET u == BuildMembers(t, c, G)
         IN  /\ u \in Layouts /\ Advances(t, u)
             /\ u.ok => \A i \in 1 .. Len(members[c]) : HeldIsReady(u, members[c][i])
             /\ u.ok /\ Settled(t) => \A i \in 1 .. Len(members[c]) : i \in t.known[c]
<1> DEFINE n == Len(members[c])
           F == [x \in (DOMAIN members[c]) \X Layouts |-> TriedMember(c, G, x[2], x[1])]
           Had(u, i) == u.ok => \A j \in 1 .. i : HeldIsReady(u, members[c][j])
           Known(u, i) == u.ok /\ Settled(t) => \A j \in 1 .. i : j \in t.known[c]
           S == {x \in (0 .. n) \X Layouts :
                   Advances(t, x[2]) /\ Had(x[2], x[1]) /\ Known(x[2], x[1])}
<1>1. n \in Nat /\ DOMAIN members[c] = 1 .. n
  BY ProgramTypes DEF Sized
<1>2. BuildMembers(t, c, G) = InTurn(F, t, n)
  BY DEF BuildMembers, TriedMember
<1>3. \A i \in 1 .. n : \A u \in Layouts : F[<<i, u>>] = TriedMember(c, G, u, i)
  BY <1>1
<1>4. ASSUME NEW i \in 1 .. n, NEW u \in Layouts
      PROVE  LET v == BuildMember(u, c, i, G)
             IN  /\ v \in Layouts /\ Advances(u, v) /\ (v.ok => HeldIsReady(v, members[c][i]))
                 /\ v.ok /\ Settled(u) => i \in u.known[c]
  BY BuildMemberIs
<1>5. F \in [(1 .. n) \X Layouts -> Layouts]
  <2>1. ASSUME NEW x \in (1 .. n) \X Layouts PROVE TriedMember(c, G, x[2], x[1]) \in Layouts
    <3>1. x[1] \in 1 .. n /\ x[2] \in Layouts
      OBVIOUS
    <3>2. BuildMember(x[2], c, x[1], G) \in Layouts
      BY <1>4, <3>1
    <3> QED BY <3>1, <3>2, AndIs DEF TriedMember, Outcome
  <2> QED BY <1>1, <2>1
<1>6. <<0, t>> \in S
  <2>1. Advances(t, t)
    BY AdvancingOutcomes
  <2> QED BY <1>1, <2>1
<1>7. ASSUME NEW i \in 1 .. n, NEW u \in Layouts, <<i - 1, u>> \in S
      PROVE  <<i, F[<<i, u>>]>> \in S
  <2> DEFINE v == BuildMember(u, c, i, G)
             w == And(u, v)
  <2>1. Advances(t, u) /\ Had(u, i - 1) /\ Known(u, i - 1)
    BY <1>7
  <2>2. /\ v \in Layouts /\ Advances(u, v) /\ (v.ok => HeldIsReady(v, members[c][i]))
        /\ v.ok /\ Settled(u) => i \in u.known[c]
    BY <1>4
  <2>3. F[<<i, u>>] = w
    BY <1>3 DEF TriedMember
  <2> HIDE DEF v
  <2>4. w \in Layouts /\ Advances(t, w) /\ w.ok = (v.ok /\ u.ok) /\ w.ready = v.ready
    BY <2>1, <2>2, AdvancesBoth
  <2> HIDE DEF w
  <2>5. u.ready \subseteq w.ready
    BY <2>2, <2>4 DEF Advances, Later, AddsTo
  <2>6. ASSUME w.ok, NEW j \in 1 .. i PROVE HeldIsReady(w, members[c][j])
    <3>1. v.ok /\ u.ok
      BY <2>4, <2>6
    <3>2. CASE j = i
      BY <2>2, <2>4, <3>1, <3>2 DEF HeldIsReady
    <3>3. CASE j # i
      <4>1. j \in 1 .. i - 1
        BY <3>3
      <4>2. HeldIsReady(u, members[c][j])
        BY <2>1, <3>1, <4>1
      <4> QED BY <2>5, <4>2 DEF HeldIsReady
    <3> QED BY <3>2, <3>3
  <2>7. i \in 0 .. n
    BY <1>1
  <2>8. u.known = t.known /\ (Settled(t) => Settled(u))
    BY <2>1 DEF Advances, Later, AddsTo
  <2>9. ASSUME w.ok, Settled(t), NEW j \in 1 .. i PROVE j \in t.known[c]
    <3>1. v.ok /\ u.ok
      BY <2>4, <2>9
    <3>2. CASE j = i
      BY <2>2, <2>8, <2>9, <3>1, <3>2
    <3>3. CASE j # i
      <4>1. j \in 1 .. i - 1
        BY <3>3
      <4> QED BY <2>1, <2>9, <3>1, <4>1
    <3> QED BY <3>2, <3>3
  <2>10. Had(w, i) /\ Known(w, i)
    BY <2>6, <2>9
  <2> HIDE DEF F, Had, Known
  <2> QED BY <2>3, <2>4, <2>7, <2>10
<1> HIDE DEF F, S, n
<1>8. InTurn(F, t, n) \in Layouts /\ <<n, InTurn(F, t, n)>> \in S
  BY <1>1, <1>5, <1>6, <1>7, InTurnKeeps
<1> HIDE DEF Had, Known
<1>9. Advances(t, InTurn(F, t, n)) /\ Had(InTurn(F, t, n), n) /\ Known(InTurn(F, t, n), n)
  BY <1>8 DEF S
<1> QED BY <1>2, <1>8, <1>9 DEF Had, Known, n

-----------------------------------------------------------------------------
TriedBase(c, G, t, j) == And(t, G[<<InOrder(c)[j], t>>])

\* When all the base classes are built, they have default values.
LEMMA BuildBasesIs ==
  ASSUME Sized, NEW t \in Layouts, t.ok, NEW c \in Class, NEW G \in Gets
  PROVE  LET u == BuildBases(t, c, G)
         IN  /\ u \in Layouts /\ Advances(t, u)
             /\ u.ok => \A b \in BaseSet(c) : bits[b] = 0 \/ b \in u.ready
<1> DEFINE bs == InOrder(c)
           n == Len(bs)
           F == [x \in (DOMAIN bs) \X Layouts |-> TriedBase(c, G, x[2], x[1])]
           Had(u, i) == u.ok => \A j \in 1 .. i : bits[bs[j]] = 0 \/ bs[j] \in u.ready
           S == {x \in (0 .. n) \X Layouts : Advances(t, x[2]) /\ Had(x[2], x[1])}
<1>1. /\ n \in Nat /\ DOMAIN bs = 1 .. n /\ bs \in Seq(Class)
      /\ \A b \in BaseSet(c) : \E i \in 1 .. n : bs[i] = b
  BY InOrderIs DEF Sized
<1>2. BuildBases(t, c, G) = InTurn(F, t, n)
  BY DEF BuildBases, TriedBase
<1>3. \A i \in 1 .. n : \A u \in Layouts : F[<<i, u>>] = TriedBase(c, G, u, i)
  BY <1>1
<1>4. ASSUME NEW i \in 1 .. n, NEW u \in Layouts
      PROVE  LET v == G[<<bs[i], u>>]
             IN  v \in Layouts /\ Advances(u, v) /\ (v.ok => bits[bs[i]] = 0 \/ bs[i] \in v.ready)
  <2>1. bs[i] \in Class
    BY <1>1
  <2> HIDE DEF bs
  <2> QED BY <2>1, GetsAre
<1>5. F \in [(1 .. n) \X Layouts -> Layouts]
  <2>1. ASSUME NEW x \in (1 .. n) \X Layouts PROVE TriedBase(c, G, x[2], x[1]) \in Layouts
    <3>1. x[1] \in 1 .. n /\ x[2] \in Layouts
      OBVIOUS
    <3>2. G[<<bs[x[1]], x[2]>>] \in Layouts
      BY <1>4, <3>1
    <3> QED BY <3>1, <3>2, AndIs DEF TriedBase, Outcome
  <2> QED BY <1>1, <2>1
<1>6. <<0, t>> \in S
  <2>1. Advances(t, t)
    BY AdvancingOutcomes
  <2> QED BY <1>1, <2>1
<1>7. ASSUME NEW i \in 1 .. n, NEW u \in Layouts, <<i - 1, u>> \in S
      PROVE  <<i, F[<<i, u>>]>> \in S
  <2> DEFINE v == G[<<bs[i], u>>]
             w == And(u, v)
  <2>1. Advances(t, u) /\ Had(u, i - 1)
    BY <1>7
  <2>2. v \in Layouts /\ Advances(u, v) /\ (v.ok => bits[bs[i]] = 0 \/ bs[i] \in v.ready)
    BY <1>4
  <2>3. F[<<i, u>>] = w
    BY <1>3 DEF TriedBase
  <2> HIDE DEF v
  <2>4. w \in Layouts /\ Advances(t, w) /\ w.ok = (v.ok /\ u.ok) /\ w.ready = v.ready
    BY <2>1, <2>2, AdvancesBoth
  <2> HIDE DEF w
  <2>5. u.ready \subseteq w.ready
    BY <2>2, <2>4 DEF Advances, Later, AddsTo
  <2>6. ASSUME w.ok, NEW j \in 1 .. i PROVE bits[bs[j]] = 0 \/ bs[j] \in w.ready
    <3>1. v.ok /\ u.ok
      BY <2>4, <2>6
    <3>2. CASE j = i
      BY <2>2, <2>4, <3>1, <3>2
    <3>3. CASE j # i
      <4>1. j \in 1 .. i - 1
        BY <3>3
      <4>2. bits[bs[j]] = 0 \/ bs[j] \in u.ready
        BY <2>1, <3>1, <4>1
      <4> QED BY <2>5, <4>2
    <3> QED BY <3>2, <3>3
  <2>7. i \in 0 .. n
    BY <1>1
  <2> HIDE DEF F
  <2> QED BY <2>3, <2>4, <2>6, <2>7
<1> HIDE DEF F, S
<1>8. InTurn(F, t, n) \in Layouts /\ <<n, InTurn(F, t, n)>> \in S
  <2> HIDE DEF n
  <2> QED BY <1>1, <1>5, <1>6, <1>7, InTurnKeeps
<1>9. Advances(t, InTurn(F, t, n)) /\ Had(InTurn(F, t, n), n)
  BY <1>8 DEF S
<1> HIDE DEF bs
<1> QED BY <1>1, <1>2, <1>8, <1>9

-----------------------------------------------------------------------------
\* A layout with other classes being built.
WithBuilding(t, B) == [t EXCEPT !.building = B]

HasBuilding(t, u, B) ==
  /\ u \in Layouts /\ u.building = B
  /\ u.pos = t.pos /\ u.rel = t.rel /\ u.packed = t.packed /\ u.ready = t.ready
  /\ u.value = t.value /\ u.object = t.object /\ u.known = t.known /\ u.folding = t.folding
  /\ u.waits = t.waits /\ u.errors = t.errors /\ u.ok = t.ok

\* A layout in which other classes are being built.
LEMMA WithBuildingIs ==
  ASSUME NEW t \in Layouts, NEW B \in SUBSET Class
  PROVE  HasBuilding(t, WithBuilding(t, B), B) /\ AddsTo(t, WithBuilding(t, B))
<1> DEFINE u == WithBuilding(t, B)
<1>1. t \in Layout
  BY DEF Layouts
<1>2. u \in Layout
  BY <1>1 DEF Layout, WithBuilding
<1>3. /\ u.building = B
      /\ u.pos = t.pos /\ u.rel = t.rel /\ u.packed = t.packed /\ u.ready = t.ready
      /\ u.value = t.value /\ u.object = t.object /\ u.known = t.known /\ u.folding = t.folding
      /\ u.waits = t.waits /\ u.errors = t.errors /\ u.ok = t.ok
  BY <1>1 DEF Layout, WithBuilding
<1> HIDE DEF u
<1>4. \A c \in Class : /\ Len(u.pos[c]) = Len(members[c])
                       /\ u.known[c] \subseteq DOMAIN members[c]
                       /\ c \in u.ready => Len(u.value[c]) = bits[c]
  BY <1>3, LayoutIsTyped
<1>5. u \in Layouts
  BY <1>2, <1>4 DEF Layouts
<1>6. t.waits \in Nat /\ t.errors \in Nat
  BY LayoutIsTyped
<1>7. AddsTo(t, u)
  <2>1. Settled(t) => Settled(u)
    BY <1>3, SettledSame
  <2> QED BY <1>3, <1>6, <2>1 DEF AddsTo, Inside
<1> QED BY <1>3, <1>5, <1>7 DEF u, HasBuilding

\* When a class is built, all that its default value is put together from is there.
LEMMA BuildDefaultValueIs ==
  ASSUME Sized, NEW t \in Layouts, NEW c \in Class, NEW G \in Gets
  PROVE  LET u == BuildDefaultValue(t, c, G)
         IN  /\ u \in Layouts /\ Advances(t, u)
             /\ u.ok => /\ \A i \in 1 .. Len(members[c]) : HeldIsReady(u, members[c][i])
                        /\ \A b \in BaseSet(c) : bits[b] = 0 \/ b \in u.ready
             /\ u.ok /\ Settled(t) => t.known[c] = DOMAIN members[c]
<1> DEFINE g == Good(t)
           s == WithBuilding(g, t.building \cup {c})
           inside == BuildMembers(s, c, G)
           k == BuildMemberConstant(inside, c, G)
           a == And(inside, k)
           outside == WithBuilding(a, t.building)
           b == BuildBases(outside, c, G)
           u == BuildDefaultValue(t, c, G)
<1>1. CASE c \in t.building
  <2>1. u = Err(t) /\ ~ Err(t).ok
    BY <1>1, OutcomesAre DEF BuildDefaultValue
  <2> QED BY <2>1, AdvancingOutcomes
<1>2. CASE c \notin t.building
  <2>1. /\ g \in Layouts /\ Outcome(t, g) /\ g.ok /\ AddsTo(t, g)
        /\ g.building = t.building /\ g.errors = t.errors
    BY AdvancingOutcomes, OutcomesAre DEF Outcome, Advances, Later
  <2> HIDE DEF g
  <2>2. /\ s \in Layouts /\ AddsTo(g, s) /\ s.ok /\ s.building = t.building \cup {c}
        /\ s.errors = t.errors
    <3>1. t.building \cup {c} \in SUBSET Class
      BY LayoutIsTyped
    <3>2. HasBuilding(g, s, t.building \cup {c}) /\ AddsTo(g, s)
      BY <2>1, <3>1, WithBuildingIs
    <3> QED BY <2>1, <3>2 DEF HasBuilding
  <2>3. AddsTo(t, s)
    BY <2>1, <2>2, AddsToIsTransitive
  <2>4. s = [Good(t) EXCEPT !.building = @ \cup {c}]
    BY <2>1 DEF WithBuilding, g
  <2> HIDE DEF s
  <2>5. /\ inside \in Layouts /\ Advances(s, inside)
        /\ inside.ok => \A i \in 1 .. Len(members[c]) : HeldIsReady(inside, members[c][i])
        /\ inside.ok /\ Settled(s) => \A i \in 1 .. Len(members[c]) : i \in s.known[c]
    BY <2>2, BuildMembersIs
  <2>6. inside = BuildMembers([Good(t) EXCEPT !.building = @ \cup {c}], c, G)
    BY <2>4
  <2> HIDE DEF inside
  <2>7. k \in Layouts /\ Advances(inside, k)
    BY <2>5, BuildMemberConstantIs
  <2>8. k = BuildMemberConstant(inside, c, G)
    OBVIOUS
  <2> HIDE DEF k
  <2>9. /\ a \in Layouts /\ Advances(s, a) /\ a.ok = (k.ok /\ inside.ok)
        /\ a.ready = k.ready /\ a.building = s.building
    BY <2>2, <2>5, <2>7, AdvancesBoth
  <2>10. a = And(inside, k)
    OBVIOUS
  <2> HIDE DEF a
  <2>11. /\ outside \in Layouts /\ AddsTo(a, outside) /\ outside.ok = a.ok
         /\ outside.building = t.building /\ outside.errors = a.errors
         /\ outside.ready = a.ready
    <3>1. t.building \in SUBSET Class
      BY LayoutIsTyped
    <3>2. HasBuilding(a, outside, t.building) /\ AddsTo(a, outside)
      BY <2>9, <3>1, WithBuildingIs
    <3> QED BY <3>2 DEF HasBuilding
  <2>12. outside = [And(inside, BuildMemberConstant(inside, c, G)) EXCEPT !.building = @ \ {c}]
    <3>1. a.building \ {c} = t.building
      BY <1>2, <2>2, <2>9
    <3> QED BY <2>8, <2>10, <3>1 DEF WithBuilding
  <2> HIDE DEF outside
  <2>13. u = IF outside.ok THEN b ELSE Wait(outside)
    BY <1>2, <2>6, <2>12, Zenon DEF BuildDefaultValue
  <2>14. AddsTo(s, a)
    BY <2>9 DEF Advances, Later
  <2>15. Advances(t, outside)
    <3>1. AddsTo(s, outside)
      BY <2>2, <2>9, <2>11, <2>14, AddsToIsTransitive
    <3>2. AddsTo(t, outside)
      BY <2>2, <2>3, <2>11, <3>1, AddsToIsTransitive
    <3>3. Calm(t) => Calm(s)
      BY <2>2, <2>3, StaysCalm
    <3>4. Calm(s) => a.ok \/ s.errors < a.errors
      BY <2>9 DEF Advances
    <3> QED BY <2>2, <2>11, <3>2, <3>3, <3>4 DEF Advances, Later
  <2>16. outside.ok => \A i \in 1 .. Len(members[c]) : HeldIsReady(outside, members[c][i])
    <3>1. inside.ready \subseteq outside.ready
      BY <2>7, <2>9, <2>11 DEF Advances, Later, AddsTo
    <3> QED BY <2>5, <2>9, <2>11, <3>1 DEF HeldIsReady
  <2>19. outside.ok /\ Settled(t) => t.known[c] = DOMAIN members[c]
    <3>1. s.known = t.known /\ (Settled(t) => Settled(s))
      BY <2>3 DEF AddsTo
    <3>2. t.known[c] \subseteq DOMAIN members[c] /\ DOMAIN members[c] = 1 .. Len(members[c])
      BY LayoutIsTyped, ProgramTypes DEF Sized
    <3> QED BY <2>5, <2>9, <2>11, <3>1, <3>2
  <2>17. CASE ~ outside.ok
    <3> DEFINE w == Wait(outside)
    <3>1. w \in Layouts /\ Later(outside, w) /\ ~ w.ok /\ w.errors = outside.errors
      BY <2>11, LaterOutcomes, OutcomesAre
    <3>2. u = w
      BY <2>13, <2>17
    <3> HIDE DEF w, u
    <3>3. Later(t, w)
      BY <2>11, <2>15, <3>1, LaterIsTransitive DEF Advances
    <3>4. Advances(t, w)
      BY <2>15, <2>17, <3>1, <3>3 DEF Advances
    <3> QED BY <3>1, <3>2, <3>4 DEF u
  <2>18. CASE outside.ok
    <3>1. /\ b \in Layouts /\ Advances(outside, b)
          /\ b.ok => \A d \in BaseSet(c) : bits[d] = 0 \/ d \in b.ready
      BY <2>11, <2>18, BuildBasesIs
    <3>2. u = b
      BY <2>13, <2>18
    <3> HIDE DEF b, u
    <3>3. Later(t, outside)
      BY <2>15 DEF Advances
    <3>4. Advances(t, b)
      BY <2>11, <3>1, <3>3, AdvancesFurther
    <3>5. outside.ready \subseteq b.ready
      BY <3>1 DEF Advances, Later, AddsTo
    <3>6. \A i \in 1 .. Len(members[c]) : HeldIsReady(b, members[c][i])
      BY <2>16, <2>18, <3>5 DEF HeldIsReady
    <3> QED BY <2>18, <2>19, <3>1, <3>2, <3>4, <3>6 DEF u
  <2> QED BY <2>17, <2>18
<1> QED BY <1>1, <1>2

-----------------------------------------------------------------------------
\* What is had once the default value of a class has been asked for.
Had(t, u, c) == u \in Layouts /\ Advances(t, u) /\ (u.ok => bits[c] = 0 \/ c \in u.ready)

\* A class whose members are all known has been packed, if it is complete.
PackedIfKnown(t, c) == IsComplete(c) /\ t.known[c] = DOMAIN members[c] => c \in t.packed

\* Class c has got its default value.
GotValue(u, w, c) ==
  /\ w.pos = u.pos /\ w.rel = u.rel /\ w.packed = u.packed /\ w.object = u.object
  /\ w.known = u.known /\ w.ready = u.ready \cup {c}
  /\ w.value[c] = DefaultValue(u, c)
  /\ \A b \in Class : b # c => w.value[b] = u.value[b]

\* The layout stays settled when a class gets its default value.
\* The layout stays settled when a class gets its default value.
LEMMA GotValueIs ==
  ASSUME Sized, NEW u \in Layouts, NEW w \in Layouts, NEW c \in Class, IsComplete(c),
         GotValue(u, w, c), bits[c] # 0 => c \in u.packed /\ PartsReady(u, c),
         bits[c] = 0 => c \notin u.ready, Settled(u)
  PROVE  Settled(w)
<1>1. ASSUME NEW d \in u.ready PROVE w.value[d] = u.value[d]
  <2>1. CASE d # c
    BY <2>1, LayoutIsTyped DEF GotValue
  <2>2. CASE d = c
    <3>1. BuiltRight(u, c) /\ bits[c] # 0
      BY <2>2 DEF Settled
    <3>2. u.value[c] = DefaultValue(u, c)
      BY <3>1 DEF BuiltRight
    <3> QED BY <2>2, <3>2 DEF GotValue
  <2> QED BY <2>1, <2>2
<1>2. Stays(u, w)
  BY <1>1 DEF Stays, GotValue
<1>3. BuiltRight(w, c)
  <2>1. ASSUME bits[c] # 0
        PROVE  c \in w.packed /\ PartsReady(w, c) /\ w.value[c] = DefaultValue(w, c)
    <3>1. PartsReady(u, c) /\ c \in w.packed
      BY <2>1 DEF GotValue
    <3>2. w.pos[c] = u.pos[c] /\ w.rel[c] = u.rel[c] /\ u.ready \subseteq w.ready
      BY DEF GotValue
    <3>3. DefaultValue(w, c) = DefaultValue(u, c)
      BY <1>2, <3>1, <3>2, SameDefaultValue
    <3>4. PartsReady(w, c)
      BY <3>1, <3>2 DEF PartsReady, HeldIsReady
    <3> QED BY <3>1, <3>3, <3>4 DEF GotValue
  <2> QED BY <2>1 DEF BuiltRight
<1>4. PlacesKnown(w)
  BY DEF Settled, PlacesKnown, Reliable, GotValue
<1>5. /\ \A b \in w.packed : b \in u.packed \/ PlacedRight(w, b)
      /\ \A d \in w.ready : d \in u.ready \/ BuiltRight(w, d)
      /\ \A b \in Class : w.object[b] = u.object[b] \/ FilledRight(w, b)
  BY <1>3 DEF GotValue
<1> QED BY <1>2, <1>4, <1>5, SettledAdded

\* A class whose default value is had, has it.
LEMMA GetDefaultValueIs ==
  ASSUME Sized, NEW t \in Layouts, NEW c \in Class, NEW G \in Gets
  PROVE  LET w == GetDefaultValue(t, c, G)
         IN  /\ w \in Layouts
             /\ PackedIfKnown(t, c) => Advances(t, w) /\ (w.ok => c \in w.ready)
<1> DEFINE u == IF bits[c] = 0 THEN Good(t) ELSE BuildDefaultValue(t, c, G)
           w == GetDefaultValue(t, c, G)
<1>1. CASE c \in t.ready
  <2>1. w = Good(t) /\ Good(t).ready = t.ready
    BY <1>1, OutcomesAre DEF GetDefaultValue, Outcome
  <2> QED BY <1>1, <2>1, AdvancingOutcomes
<1>2. CASE c \notin t.ready /\ ~ IsComplete(c)
  <2>1. w = Wait(t) /\ ~ Wait(t).ok
    BY <1>2, OutcomesAre DEF GetDefaultValue
  <2>2. ~ Calm(t)
    BY <1>2 DEF Calm
  <2> QED BY <2>1, <2>2, LaterOutcomes DEF Advances
<1>3. CASE c \notin t.ready /\ IsComplete(c)
  <2> DEFINE R == u.ready \cup {c}
             x == DefaultValue(u, c)
             v == [u.value EXCEPT ![c] = x]
  <2>1. w = IF u.ok THEN [u EXCEPT !.ready = @ \cup {c}, !.value[c] = DefaultValue(u, c)] ELSE u
    BY <1>3 DEF GetDefaultValue
  <2>2. /\ u \in Layouts /\ Advances(t, u)
        /\ u.ok /\ bits[c] # 0 =>
             /\ \A i \in 1 .. Len(members[c]) : HeldIsReady(u, members[c][i])
             /\ \A b \in BaseSet(c) : bits[b] = 0 \/ b \in u.ready
    BY BuildDefaultValueIs, AdvancingOutcomes
  <2>5. u.ok /\ bits[c] # 0 /\ Settled(t) => t.known[c] = DOMAIN members[c]
    BY BuildDefaultValueIs
  <2>6. bits[c] = 0 => u.ready = t.ready
    BY OutcomesAre DEF Outcome
  <2> HIDE DEF u
  <2>3. CASE ~ u.ok
    BY <2>1, <2>2, <2>3
  <2>4. CASE u.ok
    <3>1. x \in Seq(Bit) /\ Len(x) = bits[c]
      <4>1. CASE bits[c] # 0
        BY <1>3, <2>2, <2>4, <4>1, DefaultValueType
      <4>2. CASE bits[c] = 0
        <5> DEFINE ps == [i \in DOMAIN members[c] |->
                            Patch(MemberValue(u, c, i), u.pos[c][i])]
                         \o [j \in DOMAIN InOrder(c) |->
                              Patch(SubSeq(u.value[InOrder(c)[j]], 1, base[InOrder(c)[j]]),
                                    u.rel[c][InOrder(c)[j]])]
        <5>1. x = Patched([k \in 1 .. bits[c] |-> << >>], ps)
          BY DEF DefaultValue
        <5> HIDE DEF ps
        <5>2. [k \in 1 .. bits[c] |-> << >>] = << >>
          BY <4>2
        <5>3. x = << >>
          BY <5>1, <5>2 DEF Patched
        <5> QED BY <4>2, <5>3
      <4> QED BY <4>1, <4>2
    <3> HIDE DEF x
    <3>2. u.value \in [Class -> Seq(Bit)] /\ u.ready \in SUBSET Class
          /\ \A b \in Class : b \in u.ready => Len(u.value[b]) = bits[b]
      BY <2>2, LayoutIsTyped
    <3>3. v \in [Class -> Seq(Bit)] /\ v[c] = x /\ \A b \in Class : b # c => v[b] = u.value[b]
      BY <3>1, <3>2
    <3>4. R \in SUBSET Class /\ \A b \in R : Len(v[b]) = bits[b]
      BY <3>1, <3>2, <3>3
    <3>5. w = WithValues(u, R, v)
      <4>1. u \in Layout
        BY <2>2 DEF Layouts
      <4> QED BY <2>1, <2>4, <4>1 DEF WithValues, Layout, x
    <3>7. c \in R /\ u.ready \subseteq R /\ \A b \in R : b \in u.ready \/ IsComplete(b)
      BY <1>3
    <3> HIDE DEF v, R
    <3>6. HasValues(u, WithValues(u, R, v), R, v)
      BY <2>2, <3>3, <3>4, WithValuesIs
    <3> HIDE DEF w
    <3>8. HasValues(u, w, R, v)
      BY <3>5, <3>6
    <3>9. u.waits \in Nat /\ u.errors \in Nat
      BY <2>2, LayoutIsTyped
    <3>10. w \in Layouts /\ w.ok /\ c \in w.ready
      BY <2>4, <3>7, <3>8 DEF HasValues
    <3>11. GotValue(u, w, c)
      BY <3>3, <3>8 DEF HasValues, GotValue, x, R
    <3>12. ASSUME PackedIfKnown(t, c), Settled(t) PROVE Settled(w)
      <4>1. Settled(u) /\ t.packed \subseteq u.packed
        BY <2>2, <3>12 DEF Advances, Later, AddsTo
      <4>2. bits[c] # 0 => c \in u.packed /\ PartsReady(u, c)
        BY <1>3, <2>2, <2>4, <2>5, <3>12, <4>1 DEF PackedIfKnown, PartsReady
      <4>3. bits[c] = 0 => c \notin u.ready
        BY <1>3, <2>6
      <4> QED BY <1>3, <2>2, <3>10, <3>11, <4>1, <4>2, <4>3, GotValueIs
    <3>13. ASSUME PackedIfKnown(t, c) PROVE Later(t, w)
      <4>1. /\ t.waits <= u.waits /\ t.errors <= u.errors /\ t.known = u.known
            /\ t.folding = u.folding /\ t.packed \subseteq u.packed
            /\ t.ready \subseteq u.ready /\ u.building = t.building
            /\ \A b \in Class : t.object[b] # << >> => u.object[b] # << >>
            /\ \A b \in u.ready : b \in t.ready \/ IsComplete(b)
            /\ \A b \in u.packed : b \in t.packed \/ IsComplete(b)
            /\ Inside(t) => Inside(u)
        BY <2>2 DEF Advances, Later, AddsTo
      <4>2. /\ w.waits = u.waits /\ w.errors = u.errors /\ w.known = u.known
            /\ w.folding = u.folding /\ w.packed = u.packed /\ w.ready = R
            /\ w.building = u.building /\ w.object = u.object /\ w.pos = u.pos
        BY <3>8 DEF HasValues
      <4>3. Inside(u) => Inside(w)
        BY <4>2 DEF Inside
      <4> QED BY <3>7, <3>12, <3>13, <4>1, <4>2, <4>3 DEF Later, AddsTo
    <3> QED BY <3>10, <3>13 DEF Advances, w
  <2> QED BY <2>3, <2>4
<1> QED BY <1>1, <1>2, <1>3

\* So has a class that is packed and built on the way.
LEMMA ClassValueIs ==
  ASSUME Sized, NEW t \in Layouts, NEW c \in Class, NEW G \in Gets
  PROVE  Had(t, ClassValue(t, c, G), c)
<1> DEFINE u == PackClass(t, c)
           g == GetDefaultValue(u, c, G)
           w == ClassValue(t, c, G)
<1>1. w = IF bits[c] = 0 THEN Good(t) ELSE IF u.ok THEN g ELSE u
  BY DEF ClassValue
<1>2. /\ u \in Layouts /\ Later(t, u) /\ (c \in t.packed => u = Good(t))
      /\ u.ok => c \in u.packed
  BY PackClassIs
<1> HIDE DEF u
<1>3. u.ok => g \in Layouts /\ Advances(u, g) /\ (g.ok => c \in g.ready)
  BY <1>2, GetDefaultValueIs DEF PackedIfKnown
<1> HIDE DEF g, w
<1>4. CASE bits[c] = 0
  BY <1>1, <1>4, AdvancingOutcomes DEF Had, w
<1>5. CASE bits[c] # 0 /\ u.ok
  <2>1. Advances(t, g)
    BY <1>2, <1>3, <1>5, AdvancesFurther
  <2> QED BY <1>1, <1>3, <1>5, <2>1 DEF Had, w
<1>6. CASE bits[c] # 0 /\ ~ u.ok
  <2>1. ~ Calm(t)
    <3>1. c \notin t.packed
      BY <1>2, <1>6, OutcomesAre
    <3> QED BY <3>1 DEF Calm
  <2> QED BY <1>1, <1>2, <1>6, <2>1 DEF Had, Advances, w
<1> QED BY <1>4, <1>5, <1>6

-----------------------------------------------------------------------------
(***************************************************************************)
(* What a class has its default value from is asked for while the class is *)
(* being built, its base classes when that is over.                        *)
(***************************************************************************)
Agree(G, K, D, B) == \A d \in D : \A u \in Layouts : u.building = B => G[<<d, u>>] = K[<<d, u>>]

\* A member is built from default values had while its class is being built.
LEMMA SameBuildMember ==
  ASSUME Sized, NEW t \in Layouts, NEW c \in Class, NEW i \in 1 .. Len(members[c]),
         NEW G, NEW K, Agree(G, K, Class, t.building)
  PROVE  BuildMember(t, c, i, G) = BuildMember(t, c, i, K)
<1> DEFINE m == members[c][i]
           s1 == IF HoldsClass(m) THEN Place(t, c, i, m.of) ELSE t
           s == Place(s1, c, i, c)
<1>1. m \in Member /\ (HoldsClass(m) => m.of \in Class)
  BY ProgramTypes, MemberTypes DEF Sized, HoldsClass
<1> HIDE DEF m
<1>2. s1 \in Layouts /\ Later(t, s1)
  BY <1>1, PlaceIs, LaterIsReflexive
<1>3. /\ BuildMember(t, c, i, G) = IF ~ Reliable(s, c, i) THEN NotReady(s)
                                   ELSE IF HoldsClass(m) THEN G[<<m.of, s>>] ELSE Good(s)
      /\ BuildMember(t, c, i, K) = IF ~ Reliable(s, c, i) THEN NotReady(s)
                                   ELSE IF HoldsClass(m) THEN K[<<m.of, s>>] ELSE Good(s)
  BY DEF BuildMember, m
<1> HIDE DEF s1
<1>4. s \in Layouts /\ Later(s1, s)
  BY <1>2, PlaceIs
<1> HIDE DEF s
<1>5. s.building = t.building
  BY <1>2, <1>4 DEF Later
<1>6. HoldsClass(m) => G[<<m.of, s>>] = K[<<m.of, s>>]
  BY <1>1, <1>4, <1>5 DEF Agree
<1> QED BY <1>3, <1>6

\* So is a constant.
LEMMA SameBuildMemberConstant ==
  ASSUME Sized, NEW t \in Layouts, NEW c \in Class, NEW G, NEW K, Agree(G, K, Class, t.building)
  PROVE  /\ HasObject(c) => BuildConstant(t, c, G) = BuildConstant(t, c, K)
         /\ BuildMemberConstant(t, c, G) = BuildMemberConstant(t, c, K)
<1>1. HasObject(c) => G[<<prog.object[c].of, t>>] = K[<<prog.object[c].of, t>>]
  BY ObjectIs DEF Sized, Agree
<1>2. HasObject(c) => BuildConstant(t, c, G) = BuildConstant(t, c, K)
  BY <1>1 DEF BuildConstant
<1> QED BY <1>2 DEF BuildMemberConstant

\* The layouts while the classes in B are being built.
During(B) == {u \in Layouts : u.building = B}

\* So are all the members.
LEMMA SameBuildMembers ==
  ASSUME Sized, NEW t \in Layouts, NEW c \in Class, NEW G \in Gets, NEW K,
         Agree(G, K, Class, t.building)
  PROVE  BuildMembers(t, c, G) = BuildMembers(t, c, K)
<1> DEFINE n == Len(members[c])
           P == During(t.building)
           F == [x \in (DOMAIN members[c]) \X Layouts |-> TriedMember(c, G, x[2], x[1])]
           H == [x \in (DOMAIN members[c]) \X Layouts |-> TriedMember(c, K, x[2], x[1])]
<1>1. n \in Nat /\ DOMAIN members[c] = 1 .. n
  BY ProgramTypes DEF Sized
<1>2. BuildMembers(t, c, G) = InTurn(F, t, n) /\ BuildMembers(t, c, K) = InTurn(H, t, n)
  BY DEF BuildMembers, TriedMember
<1>3. \A i \in 1 .. n : \A u \in Layouts :
        F[<<i, u>>] = TriedMember(c, G, u, i) /\ H[<<i, u>>] = TriedMember(c, K, u, i)
  BY <1>1
<1>4. ASSUME NEW i \in 1 .. n, NEW u \in Layouts
      PROVE  TriedMember(c, G, u, i) \in Layouts /\ TriedMember(c, G, u, i).building = u.building
  <2> DEFINE v == BuildMember(u, c, i, G)
  <2>1. v \in Layouts /\ v.building = u.building
    BY BuildMemberIs DEF Advances, Later
  <2> HIDE DEF v
  <2>2. Outcome(v, And(u, v))
    BY <2>1, AndIs
  <2> QED BY <2>1, <2>2 DEF Outcome, TriedMember, v
<1>5. F \in [(1 .. n) \X Layouts -> Layouts]
  <2>1. ASSUME NEW x \in (1 .. n) \X Layouts PROVE TriedMember(c, G, x[2], x[1]) \in Layouts
    <3>1. x[1] \in 1 .. n /\ x[2] \in Layouts
      OBVIOUS
    <3> QED BY <1>4, <3>1
  <2> QED BY <1>1, <2>1
<1>6. ASSUME NEW i \in 1 .. n, NEW u \in Layouts, u \in P
      PROVE  F[<<i, u>>] \in P /\ F[<<i, u>>] = H[<<i, u>>]
  <2>1. u.building = t.building
    BY <1>6 DEF During
  <2>2. BuildMember(u, c, i, G) = BuildMember(u, c, i, K)
    BY <2>1, SameBuildMember
  <2>3. TriedMember(c, G, u, i) = TriedMember(c, K, u, i)
    BY <2>2 DEF TriedMember
  <2>4. TriedMember(c, G, u, i) \in P
    BY <1>4, <2>1 DEF During
  <2> HIDE DEF F, H, P
  <2> QED BY <1>3, <2>3, <2>4
<1>7. t \in P
  BY DEF During
<1> HIDE DEF F, H, P, n
<1>8. SameSteps(F, H, n, Layouts, P)
  BY <1>5, <1>6 DEF SameSteps
<1>9. InTurn(F, t, n) = InTurn(H, t, n)
  BY ONLY <1>1, <1>7, <1>8, InTurnSame, t \in Layouts
<1> QED BY <1>2, <1>9

\* The base classes are built one after the other, when the class is not being built any more.
LEMMA SameBuildBases ==
  ASSUME Sized, NEW t \in Layouts, NEW c \in Class, NEW G \in Gets, NEW K,
         Agree(G, K, BaseSet(c), t.building)
  PROVE  BuildBases(t, c, G) = BuildBases(t, c, K)
<1> DEFINE bs == InOrder(c)
           n == Len(bs)
           P == During(t.building)
           F == [x \in (DOMAIN bs) \X Layouts |-> TriedBase(c, G, x[2], x[1])]
           H == [x \in (DOMAIN bs) \X Layouts |-> TriedBase(c, K, x[2], x[1])]
<1>1. n \in Nat /\ DOMAIN bs = 1 .. n /\ bs \in Seq(Class)
      /\ \A i \in 1 .. n : bs[i] \in BaseSet(c)
  BY InOrderIs DEF Sized
<1>2. BuildBases(t, c, G) = InTurn(F, t, n) /\ BuildBases(t, c, K) = InTurn(H, t, n)
  BY DEF BuildBases, TriedBase
<1>3. \A i \in 1 .. n : \A u \in Layouts :
        F[<<i, u>>] = TriedBase(c, G, u, i) /\ H[<<i, u>>] = TriedBase(c, K, u, i)
  BY <1>1
<1>4. ASSUME NEW i \in 1 .. n, NEW u \in Layouts
      PROVE  TriedBase(c, G, u, i) \in Layouts /\ TriedBase(c, G, u, i).building = u.building
  <2> DEFINE v == G[<<bs[i], u>>]
  <2>0. bs[i] \in Class
    BY <1>1
  <2>1. v \in Layouts /\ v.building = u.building
    <3> HIDE DEF bs
    <3> QED BY <2>0, GetsAre DEF Advances, Later
  <2> HIDE DEF v
  <2>2. Outcome(v, And(u, v))
    BY <2>1, AndIs
  <2> QED BY <2>1, <2>2 DEF Outcome, TriedBase, v
<1>5. F \in [(1 .. n) \X Layouts -> Layouts]
  <2>1. ASSUME NEW x \in (1 .. n) \X Layouts PROVE TriedBase(c, G, x[2], x[1]) \in Layouts
    <3>1. x[1] \in 1 .. n /\ x[2] \in Layouts
      OBVIOUS
    <3> QED BY <1>4, <3>1
  <2> QED BY <1>1, <2>1
<1>6. ASSUME NEW i \in 1 .. n, NEW u \in Layouts, u \in P
      PROVE  F[<<i, u>>] \in P /\ F[<<i, u>>] = H[<<i, u>>]
  <2>1. u.building = t.building
    BY <1>6 DEF During
  <2>2. G[<<bs[i], u>>] = K[<<bs[i], u>>]
    <3>1. bs[i] \in BaseSet(c)
      BY <1>1
    <3> HIDE DEF bs
    <3> QED BY <2>1, <3>1 DEF Agree
  <2>3. TriedBase(c, G, u, i) = TriedBase(c, K, u, i)
    BY <2>2 DEF TriedBase
  <2>4. TriedBase(c, G, u, i) \in P
    BY <1>4, <2>1 DEF During
  <2> HIDE DEF F, H, P
  <2> QED BY <1>3, <2>3, <2>4
<1>7. t \in P
  BY DEF During
<1> HIDE DEF F, H, P, n
<1>8. SameSteps(F, H, n, Layouts, P)
  BY <1>5, <1>6 DEF SameSteps
<1>9. InTurn(F, t, n) = InTurn(H, t, n)
  BY ONLY <1>1, <1>7, <1>8, InTurnSame, t \in Layouts
<1> QED BY <1>2, <1>9

-----------------------------------------------------------------------------
\* A class is built from default values had while it is being built, and from its bases.
LEMMA SameBuildDefaultValue ==
  ASSUME Sized, NEW t \in Layouts, NEW c \in Class, NEW G \in Gets, NEW K,
         c \notin t.building => /\ Agree(G, K, Class, t.building \cup {c})
                                /\ Agree(G, K, BaseSet(c), t.building)
  PROVE  BuildDefaultValue(t, c, G) = BuildDefaultValue(t, c, K)
<1>1. CASE c \in t.building
  BY <1>1 DEF BuildDefaultValue
<1>2. CASE c \notin t.building
  <2> DEFINE g == Good(t)
             s == WithBuilding(g, t.building \cup {c})
             inside == BuildMembers(s, c, G)
             k == BuildMemberConstant(inside, c, G)
             a == And(inside, k)
             outside == WithBuilding(a, t.building)
  <2>1. /\ g \in Layouts /\ g.ok /\ g.building = t.building
    BY AdvancingOutcomes, OutcomesAre DEF Outcome
  <2> HIDE DEF g
  <2>2. s \in Layouts /\ s.ok /\ s.building = t.building \cup {c}
    <3>1. t.building \cup {c} \in SUBSET Class
      BY LayoutIsTyped
    <3>2. HasBuilding(g, s, t.building \cup {c})
      BY <2>1, <3>1, WithBuildingIs
    <3> QED BY <2>1, <3>2 DEF HasBuilding
  <2>3. s = [Good(t) EXCEPT !.building = @ \cup {c}]
    BY <2>1 DEF WithBuilding, g
  <2> HIDE DEF s
  <2>4. inside \in Layouts /\ inside.building = s.building
    BY <2>2, BuildMembersIs DEF Advances, Later
  <2>5. /\ inside = BuildMembers([Good(t) EXCEPT !.building = @ \cup {c}], c, G)
        /\ inside = BuildMembers([Good(t) EXCEPT !.building = @ \cup {c}], c, K)
    <3>1. Agree(G, K, Class, s.building)
      BY <1>2, <2>2
    <3>2. BuildMembers(s, c, G) = BuildMembers(s, c, K)
      BY <2>2, <3>1, SameBuildMembers
    <3> QED BY <2>3, <3>2
  <2> HIDE DEF inside
  <2>6. k \in Layouts /\ k.building = s.building
    BY <2>4, BuildMemberConstantIs DEF Advances, Later
  <2>7. k = BuildMemberConstant(inside, c, G) /\ k = BuildMemberConstant(inside, c, K)
    <3>1. Agree(G, K, Class, inside.building)
      BY <1>2, <2>2, <2>4
    <3> QED BY <2>4, <3>1, SameBuildMemberConstant
  <2> HIDE DEF k
  <2>8. a \in Layouts /\ a.building = s.building
    BY <2>4, <2>6, AndIs DEF Outcome
  <2>9. a = And(inside, k)
    OBVIOUS
  <2> HIDE DEF a
  <2>10. outside \in Layouts /\ outside.building = t.building
    <3>1. t.building \in SUBSET Class
      BY LayoutIsTyped
    <3>2. HasBuilding(a, outside, t.building)
      BY <2>8, <3>1, WithBuildingIs
    <3> QED BY <3>2 DEF HasBuilding
  <2>11. outside = [And(inside, k) EXCEPT !.building = @ \ {c}]
    <3>1. a.building \ {c} = t.building
      BY <1>2, <2>2, <2>8
    <3> QED BY <2>9, <3>1 DEF WithBuilding
  <2> HIDE DEF outside
  <2>12. BuildBases(outside, c, G) = BuildBases(outside, c, K)
    <3>1. Agree(G, K, BaseSet(c), outside.building)
      BY <1>2, <2>10
    <3> QED BY <2>10, <3>1, SameBuildBases
  <2>13. BuildDefaultValue(t, c, G)
           = IF outside.ok THEN BuildBases(outside, c, G) ELSE Wait(outside)
    BY <1>2, <2>5, <2>7, <2>11, Zenon DEF BuildDefaultValue
  <2>14. BuildDefaultValue(t, c, K)
           = IF outside.ok THEN BuildBases(outside, c, K) ELSE Wait(outside)
    BY <1>2, <2>5, <2>7, <2>11, Zenon DEF BuildDefaultValue
  <2> QED BY <2>12, <2>13, <2>14
<1> QED BY <1>1, <1>2

-----------------------------------------------------------------------------
\* How deep the calls can go: a class that is being built is not built again,
\* and a complete class has more base classes than each of its base classes.
Rank(c, t) ==
  Cardinality(Class \ t.building) * (Cardinality(Class) + 1) + BaseCount(c)

RankBound == Cardinality(Class) * (Cardinality(Class) + 1) + Cardinality(Class) + 1

\* The rank is less while one more class is being built, and for a base class.
LEMMA RankIs ==
  ASSUME LabelTypes, NEW t \in Layouts, NEW c \in Class
  PROVE  /\ Rank(c, t) \in Nat /\ RankBound \in Nat /\ Rank(c, t) < RankBound
         /\ \A u \in Layouts : \A d \in Class :
              c \notin t.building /\ u.building = t.building \cup {c} => Rank(d, u) < Rank(c, t)
         /\ \A u \in Layouts : \A d \in Class :
              u.building = t.building /\ BaseCount(d) < BaseCount(c) => Rank(d, u) < Rank(c, t)
<1> DEFINE N == Cardinality(Class)
           m == Cardinality(Class \ t.building)
<1>1. IsFiniteSet(Class) /\ N \in Nat
  BY ProgramTypes, FS_CardinalityType
<1>2. \A d \in Class : BaseCount(d) \in Nat /\ BaseCount(d) <= N
  BY BaseCountIs
<1>3. /\ IsFiniteSet(Class \ t.building) /\ m \in Nat /\ m <= N
  <2>1. Class \ t.building \in SUBSET Class
    OBVIOUS
  <2>2. IsFiniteSet(Class \ t.building) /\ m <= N
    BY <1>1, <2>1, FS_Subset
  <2> QED BY <2>2, FS_CardinalityType
<1>4. ASSUME NEW u \in Layouts, NEW d \in Class, c \notin t.building,
             u.building = t.building \cup {c}
      PROVE  Rank(d, u) < Rank(c, t)
  <2> DEFINE k == Cardinality(Class \ u.building)
  <2>1. Class \ u.building = (Class \ t.building) \ {c} /\ c \in Class \ t.building
    BY <1>4
  <2>2. k = m - 1 /\ k \in Nat
    <3> DEFINE V == Class \ t.building
    <3>1. IsFiniteSet(V) /\ c \in V /\ Class \ u.building = V \ {c}
      BY <1>3, <2>1
    <3> HIDE DEF V
    <3>2. IsFiniteSet(V \ {c}) /\ Cardinality(V \ {c}) = Cardinality(V) - 1
      BY <3>1, FS_RemoveElement
    <3>3. k = m - 1
      BY <3>1, <3>2 DEF V
    <3> QED BY <3>1, <3>2, <3>3, FS_CardinalityType
  <2>3. Rank(d, u) = k * (N + 1) + BaseCount(d) /\ Rank(c, t) = m * (N + 1) + BaseCount(c)
    BY DEF Rank
  <2> HIDE DEF k, m, N
  <2>4. BaseCount(d) < N + 1 /\ BaseCount(c) >= 0
    BY <1>1, <1>2
  <2>5. m * (N + 1) = k * (N + 1) + (N + 1)
    BY <1>1, <1>3, <2>2
  <2>6. k * (N + 1) \in Nat
    BY <1>1, <2>2
  <2> QED BY <1>1, <1>2, <2>3, <2>4, <2>5, <2>6
<1>5. ASSUME NEW u \in Layouts, NEW d \in Class, u.building = t.building,
             BaseCount(d) < BaseCount(c)
      PROVE  Rank(d, u) < Rank(c, t)
  <2>1. Rank(d, u) = m * (N + 1) + BaseCount(d) /\ Rank(c, t) = m * (N + 1) + BaseCount(c)
    BY <1>5 DEF Rank
  <2>2. m * (N + 1) \in Nat
    BY <1>1, <1>3
  <2> HIDE DEF m, N
  <2> QED BY <1>2, <1>5, <2>1, <2>2
<1>6. Rank(c, t) \in Nat /\ RankBound \in Nat /\ Rank(c, t) < RankBound
  <2>1. Rank(c, t) = m * (N + 1) + BaseCount(c) /\ RankBound = N * (N + 1) + N + 1
    BY DEF Rank, RankBound
  <2> HIDE DEF m, N
  <2>2. m * (N + 1) \in Nat /\ N * (N + 1) \in Nat /\ m * (N + 1) <= N * (N + 1)
    BY <1>1, <1>3
  <2> QED BY <1>1, <1>2, <2>1, <2>2
<1> QED BY <1>4, <1>5, <1>6

-----------------------------------------------------------------------------
\* The functions G and K are the same for the calls that a call makes.
AgreeBelow(G, K, c, t) ==
  \A d \in Class : \A u \in Layouts : Rank(d, u) < Rank(c, t) => G[<<d, u>>] = K[<<d, u>>]

\* What is had for a class depends only on what is had at lesser ranks.
LEMMA SameClassValue ==
  ASSUME Sized, NEW t \in Layouts, NEW c \in Class, NEW G \in Gets, NEW K, AgreeBelow(G, K, c, t)
  PROVE  ClassValue(t, c, G) = ClassValue(t, c, K)
<1> DEFINE u == PackClass(t, c)
<1>1. u \in Layouts /\ u.building = t.building
  BY PackClassIs DEF Later
<1>2. /\ ClassValue(t, c, G) = IF bits[c] = 0 THEN Good(t)
                               ELSE IF u.ok THEN GetDefaultValue(u, c, G) ELSE u
      /\ ClassValue(t, c, K) = IF bits[c] = 0 THEN Good(t)
                               ELSE IF u.ok THEN GetDefaultValue(u, c, K) ELSE u
  BY DEF ClassValue
<1> HIDE DEF u
<1>3. ASSUME IsComplete(c)
      PROVE  BuildDefaultValue(u, c, G) = BuildDefaultValue(u, c, K)
  <2>1. ASSUME c \notin u.building PROVE Agree(G, K, Class, u.building \cup {c})
    <3>1. ASSUME NEW d \in Class, NEW v \in Layouts, v.building = u.building \cup {c}
          PROVE  G[<<d, v>>] = K[<<d, v>>]
      <4>1. Rank(d, v) < Rank(c, t)
        BY <1>1, <2>1, <3>1, RankIs DEF Sized
      <4> QED BY <4>1 DEF AgreeBelow
    <3> QED BY <3>1 DEF Agree
  <2>2. Agree(G, K, BaseSet(c), u.building)
    <3>1. ASSUME NEW d \in BaseSet(c), NEW v \in Layouts, v.building = u.building
          PROVE  G[<<d, v>>] = K[<<d, v>>]
      <4>1. d \in Class /\ BaseCount(d) < BaseCount(c)
        BY <1>3, CompleteIs DEF BaseCount
      <4>2. Rank(d, v) < Rank(c, t)
        BY <1>1, <3>1, <4>1, RankIs DEF Sized
      <4> QED BY <4>1, <4>2 DEF AgreeBelow
    <3> QED BY <3>1 DEF Agree
  <2> QED BY <1>1, <2>1, <2>2, SameBuildDefaultValue
<1>4. GetDefaultValue(u, c, G) = GetDefaultValue(u, c, K)
  BY <1>3 DEF GetDefaultValue
<1> QED BY <1>2, <1>4

\* GetDefaultClassValue is the function that its definition says.
LEMMA GetDefaultClassValueUnfolds ==
  ASSUME Sized
  PROVE  GetDefaultClassValue \in Gets
<1> DEFINE X == Calls
           Body(G) == [x \in X |-> ClassValue(x[2], x[1], G)]
           H == [G \in Gets |-> Body(G)]
           mu == [x \in X |-> Rank(x[1], x[2])]
           N == RankBound
<1>1. \A x \in X : x[1] \in Class /\ x[2] \in Layouts
  BY DEF Calls
<1>2. ASSUME NEW G \in Gets PROVE Body(G) \in Gets
  <2>1. ASSUME NEW x \in X
        PROVE  LET v == ClassValue(x[2], x[1], G)
               IN  /\ v \in Layouts /\ Advances(x[2], v)
                   /\ v.ok => bits[x[1]] = 0 \/ x[1] \in v.ready
    <3>1. Had(x[2], ClassValue(x[2], x[1], G), x[1])
      BY <1>1, ClassValueIs
    <3> QED BY <3>1 DEF Had
  <2> QED BY <2>1 DEF Gets
<1>3. H \in [Gets -> Gets]
  <2> HIDE DEF Body
  <2> QED BY <1>2
<1>4. mu \in [X -> Nat] /\ N \in Nat /\ Bounded(X, mu, N)
  <2>1. \A x \in X : Rank(x[1], x[2]) \in Nat /\ N \in Nat /\ Rank(x[1], x[2]) < N
    BY <1>1, RankIs DEF Sized
  <2>2. N \in Nat
    <3>1. Cardinality(Class) \in Nat
      BY ProgramTypes, FS_CardinalityType DEF Sized
    <3> QED BY <3>1 DEF RankBound
  <2> HIDE DEF X, N
  <2> QED BY <2>1, <2>2 DEF Bounded
<1>5. ASSUME NEW G \in Gets, NEW K, NEW x \in X,
             \A y \in X : mu[y] < mu[x] => G[y] = K[y]
      PROVE  ClassValue(x[2], x[1], G) = ClassValue(x[2], x[1], K)
  <2>1. ASSUME NEW d \in Class, NEW u \in Layouts, Rank(d, u) < Rank(x[1], x[2])
        PROVE  G[<<d, u>>] = K[<<d, u>>]
    <3>1. <<d, u>> \in X /\ mu[<<d, u>>] = Rank(d, u) /\ mu[x] = Rank(x[1], x[2])
      BY CallIs
    <3> HIDE DEF mu, X
    <3> QED BY <1>5, <2>1, <3>1
  <2>2. AgreeBelow(G, K, x[1], x[2])
    BY <2>1 DEF AgreeBelow
  <2> QED BY <1>1, <2>2, SameClassValue
<1>6. Gets \in SUBSET [X -> Layouts] /\ Gets # {}
  <2>1. ASSUME NEW x \in X
        PROVE  Err(x[2]) \in Layouts /\ Advances(x[2], Err(x[2])) /\ ~ Err(x[2]).ok
    BY <1>1, AdvancingOutcomes
  <2>2. [x \in X |-> Err(x[2])] \in Gets
    BY <2>1 DEF Gets
  <2>3. Gets \subseteq [X -> Layouts]
    BY DEF Gets
  <2> QED BY <2>2, <2>3
<1>7. HasSolution(Gets, H)
  <2>2. ASSUME NEW G \in Gets, NEW K \in Gets, NEW x \in X,
               \A y \in X : mu[y] < mu[x] => G[y] = K[y]
        PROVE  H[G][x] = H[K][x]
    BY <1>5, <2>2
  <2> HIDE DEF H, mu, X, N
  <2>1. LooksBelow(X, Gets, H, mu)
    BY <2>2 DEF LooksBelow
  <2> QED BY <1>3, <1>4, <1>6, <2>1, MeasuredRecursion, Zenon
<1>8. PICK f \in Gets : f = H[f]
  BY <1>7 DEF HasSolution
<1>9. f = Body(f)
  <2> HIDE DEF Body
  <2> QED BY <1>8
<1>10. GetDefaultClassValue = Body(GetDefaultClassValue)
  BY <1>9, Zenon DEF GetDefaultClassValue, Calls
<1>11. \A x \in X : /\ GetDefaultClassValue[x] = ClassValue(x[2], x[1], GetDefaultClassValue)
                    /\ f[x] = ClassValue(x[2], x[1], f)
  BY <1>9, <1>10
<1>12. ASSUME NEW x \in X, \A y \in X : mu[y] < mu[x] => f[y] = GetDefaultClassValue[y]
       PROVE  f[x] = GetDefaultClassValue[x]
  BY <1>5, <1>11, <1>12
<1>13. \A x \in X : f[x] = GetDefaultClassValue[x]
  <2> HIDE DEF mu, X
  <2> QED BY <1>4, <1>12, MeasuredInduction
<1>14. f = GetDefaultClassValue
  <2>1. f = [x \in X |-> f[x]]
    BY <1>9
  <2>2. GetDefaultClassValue = [x \in X |-> GetDefaultClassValue[x]]
    BY <1>10
  <2> HIDE DEF X
  <2> QED BY <1>13, <2>1, <2>2
<1> QED BY <1>14

-----------------------------------------------------------------------------
\* A constant that is folded has a value, or there is a WAIT message.
LEMMA FoldConstantIs ==
  ASSUME Sized, NEW t \in Layouts, NEW c \in Class
  PROVE  LET w == FoldConstant(t, c)
         IN  /\ w \in Layouts /\ Later(t, w)
             /\ HasObject(c) => w.object[c] # << >> \/ t.waits < w.waits
<1> DEFINE d == prog.object[c].of
           s == IF prog.object[c].list # << >> THEN TryToPackAClassHierarchy(t, d) ELSE t
           u == BuildConstant(s, c, GetDefaultClassValue)
           w == FoldConstant(t, c)
<1>1. CASE ~ HasObject(c) \/ t.object[c] # << >>
  <2>1. w = t
    BY <1>1 DEF FoldConstant
  <2> QED BY <1>1, <2>1, LaterIsReflexive
<1>2. CASE HasObject(c) /\ t.object[c] = << >> /\ ~ IsComplete(d)
  <2>1. w = Wait(t)
    BY <1>2 DEF FoldConstant
  <2>2. Wait(t) \in Layouts /\ Later(t, Wait(t)) /\ t.waits < Wait(t).waits
    <3>1. Wait(t) \in Layouts /\ Later(t, Wait(t))
      BY LaterOutcomes
    <3>2. t.waits \in Nat /\ Wait(t).waits = t.waits + 1
      BY OutcomesAre, LayoutIsTyped
    <3> QED BY <3>1, <3>2
  <2> QED BY <2>1, <2>2
<1>3. CASE HasObject(c) /\ t.object[c] = << >> /\ IsComplete(d)
  <2>1. w = IF u.ok THEN u ELSE Wait(u)
    BY <1>3 DEF FoldConstant
  <2>2. d \in Class
    BY <1>3, ObjectIs DEF Sized
  <2> HIDE DEF d
  <2>3. s \in Layouts /\ Later(t, s)
    BY <2>2, TryToPackIs, LaterIsReflexive
  <2> HIDE DEF s
  <2>4. u \in Layouts /\ Advances(s, u) /\ (u.ok => u.object[c] # << >>)
    BY <1>3, <2>3, GetDefaultClassValueUnfolds, BuildConstantIs
  <2> HIDE DEF u, w
  <2>5. Later(t, u)
    BY <2>3, <2>4, LaterIsTransitive DEF Advances
  <2>6. CASE u.ok
    BY <2>1, <2>4, <2>5, <2>6 DEF w
  <2>7. CASE ~ u.ok
    <3> DEFINE x == Wait(u)
    <3>1. x \in Layouts /\ Later(u, x) /\ x.waits = u.waits + 1
      BY <2>4, LaterOutcomes, OutcomesAre
    <3>2. w = x
      BY <2>1, <2>7
    <3> HIDE DEF x
    <3>3. Later(t, x)
      BY <2>4, <2>5, <3>1, LaterIsTransitive
    <3>4. t.waits < x.waits
      BY <2>4, <2>5, <3>1, LayoutIsTyped DEF Later, AddsTo
    <3> QED BY <3>1, <3>2, <3>3, <3>4 DEF w
  <2> QED BY <2>6, <2>7
<1> QED BY <1>1, <1>2, <1>3

-----------------------------------------------------------------------------
\* The order in which the passes visit the classes.
LEMMA OrderIs ==
  ASSUME LabelTypes
  PROVE  /\ Len(prog.order) \in Nat /\ DOMAIN prog.order = 1 .. Len(prog.order)
         /\ \A i \in 1 .. Len(prog.order) : prog.order[i] \in Class
         /\ \A c \in Class : \E i \in 1 .. Len(prog.order) : prog.order[i] = c
<1>1. prog.order \in Seq(Class) /\ ToSet(prog.order) = Class
  BY ProgramsAssumption DEF LabelTypes
<1> QED BY <1>1 DEF ToSet

\* The pass that packs all the classes.
LEMMA PackAllIs ==
  ASSUME Sized, NEW t \in Layouts
  PROVE  /\ PackAll(t) \in Layouts /\ Later(t, PackAll(t))
         /\ PackAll(t).waits = t.waits /\ PackAll(t).errors = t.errors
         /\ \A c \in Class : PackedIfKnown(PackAll(t), c)
         /\ (\A c \in Class : IsComplete(c) /\ t.known[c] = DOMAIN members[c])
              => PackAll(t).packed = Class
<1> DEFINE n == Len(prog.order)
           order == prog.order
           F == [x \in (DOMAIN order) \X Layouts |-> PackClass(x[2], order[x[1]])]
           all == \A c \in Class : IsComplete(c) /\ t.known[c] = DOMAIN members[c]
           Keeps(u, i) == /\ Later(t, u) /\ u.waits = t.waits /\ u.errors = t.errors
                          /\ \A j \in 1 .. i : PackedIfKnown(u, order[j])
           S == {x \in (0 .. n) \X Layouts : Keeps(x[2], x[1])}
<1>1. /\ n \in Nat /\ DOMAIN order = 1 .. n /\ \A i \in 1 .. n : order[i] \in Class
      /\ \A c \in Class : \E i \in 1 .. n : order[i] = c
  BY OrderIs DEF Sized
<1>2. PackAll(t) = InTurn(F, t, n)
  BY DEF PackAll
<1> HIDE DEF order, n
<1>3. \A i \in 1 .. n : \A u \in Layouts : F[<<i, u>>] = PackClass(u, order[i])
  BY <1>1
<1>4. F \in [(1 .. n) \X Layouts -> Layouts]
  <2>1. ASSUME NEW x \in (1 .. n) \X Layouts PROVE PackClass(x[2], order[x[1]]) \in Layouts
    <3>1. order[x[1]] \in Class /\ x[2] \in Layouts
      BY <1>1
    <3> QED BY <3>1, PackClassIs
  <2> QED BY <1>1, <2>1
<1>5. <<0, t>> \in S
  BY <1>1, LaterIsReflexive
<1>6. ASSUME NEW i \in 1 .. n, NEW u \in Layouts, <<i - 1, u>> \in S
      PROVE  <<i, F[<<i, u>>]>> \in S
  <2> DEFINE v == PackClass(u, order[i])
  <2>1. Keeps(u, i - 1)
    BY <1>6
  <2>2. order[i] \in Class
    BY <1>1
  <2>3. F[<<i, u>>] = v
    BY <1>3
  <2>4. /\ v \in Layouts /\ Later(u, v) /\ v.waits = u.waits /\ v.errors = u.errors
        /\ IsComplete(order[i]) /\ u.known[order[i]] = DOMAIN members[order[i]]
             => order[i] \in v.packed
    BY <2>2, PackClassIs
  <2> HIDE DEF v
  <2>5. Later(t, v)
    BY <2>1, <2>4, LaterIsTransitive
  <2>6. u.known = t.known /\ u.packed \subseteq v.packed
    BY <2>1, <2>4 DEF Later, AddsTo
  <2>7. ASSUME NEW j \in 1 .. i PROVE PackedIfKnown(v, order[j])
    <3>0. v.known = u.known
      BY <2>4 DEF Later, AddsTo
    <3>1. CASE j = i
      BY <2>4, <3>0, <3>1 DEF PackedIfKnown
    <3>2. CASE j # i
      <4>1. j \in 1 .. i - 1
        BY <3>2
      <4>2. PackedIfKnown(u, order[j])
        BY <2>1, <4>1
      <4> QED BY <2>6, <3>0, <4>2 DEF PackedIfKnown
    <3> QED BY <3>1, <3>2
  <2>8. i \in 0 .. n
    BY <1>1
  <2>9. Keeps(v, i)
    BY <2>1, <2>4, <2>5, <2>7
  <2> HIDE DEF F, Keeps
  <2> QED BY <2>3, <2>4, <2>8, <2>9
<1> HIDE DEF F, S
<1>7. InTurn(F, t, n) \in Layouts /\ <<n, InTurn(F, t, n)>> \in S
  BY <1>1, <1>4, <1>5, <1>6, InTurnKeeps
<1>8. Keeps(PackAll(t), n)
  BY <1>2, <1>7 DEF S
<1>9. PackAll(t) \in Layouts
  BY <1>2, <1>7
<1>11. ASSUME NEW c \in Class PROVE PackedIfKnown(PackAll(t), c)
  BY <1>1, <1>8
<1>10. ASSUME all PROVE PackAll(t).packed = Class
  <2> DEFINE w == PackAll(t)
  <2>1. \A c \in Class : c \in w.packed
    BY <1>8, <1>10, <1>11 DEF PackedIfKnown, Later, AddsTo
  <2>2. w \in Layouts
    BY <1>9
  <2> HIDE DEF w
  <2>3. w.packed \subseteq Class
    BY <2>2, LayoutIsTyped
  <2>4. w.packed = Class
    BY <1>1, <2>1, <2>3
  <2> QED BY <2>4 DEF w
<1> QED BY <1>8, <1>9, <1>10, <1>11

\* The pass that builds all the default values: a class that is not complete
\* is waited for, and where the layout is calm all are built or there is an
\* error.
LEMMA BuildAllIs ==
  ASSUME Sized, NEW t \in Layouts, \A c \in t.ready : IsComplete(c),
         \A c \in Class : PackedIfKnown(t, c)
  PROVE  /\ BuildAll(t) \in Layouts /\ Later(t, BuildAll(t))
         /\ (\E c \in Class : ~ IsComplete(c)) => t.waits < BuildAll(t).waits
         /\ Calm(t) => BuildAll(t).ready = Class \/ t.errors < BuildAll(t).errors
<1> DEFINE n == Len(prog.order)
           order == prog.order
           G == GetDefaultClassValue
           F == [x \in (DOMAIN order) \X Layouts |-> GetDefaultValue(x[2], order[x[1]], G)]
           Keeps(u, i) == /\ Later(t, u)
                          /\ (\E j \in 1 .. i : ~ IsComplete(order[j])) => t.waits < u.waits
                          /\ Calm(t) => \/ \A j \in 1 .. i : order[j] \in u.ready
                                        \/ t.errors < u.errors
           S == {x \in (0 .. n) \X Layouts : Keeps(x[2], x[1])}
<1>1. /\ n \in Nat /\ DOMAIN order = 1 .. n /\ \A i \in 1 .. n : order[i] \in Class
      /\ \A c \in Class : \E i \in 1 .. n : order[i] = c
  BY OrderIs DEF Sized
<1>2. BuildAll(t) = InTurn(F, t, n)
  BY DEF BuildAll
<1>0. G \in Gets
  BY GetDefaultClassValueUnfolds
<1> HIDE DEF order, n, G
<1>3. \A i \in 1 .. n : \A u \in Layouts : F[<<i, u>>] = GetDefaultValue(u, order[i], G)
  BY <1>1
<1>4. F \in [(1 .. n) \X Layouts -> Layouts]
  <2>1. ASSUME NEW x \in (1 .. n) \X Layouts
        PROVE  GetDefaultValue(x[2], order[x[1]], G) \in Layouts
    <3>1. order[x[1]] \in Class /\ x[2] \in Layouts
      BY <1>1
    <3> QED BY <1>0, <3>1, GetDefaultValueIs
  <2> QED BY <1>1, <2>1
<1>5. <<0, t>> \in S
  BY <1>1, LaterIsReflexive
<1>6. ASSUME NEW i \in 1 .. n, NEW u \in Layouts, <<i - 1, u>> \in S
      PROVE  <<i, F[<<i, u>>]>> \in S
  <2> DEFINE v == GetDefaultValue(u, order[i], G)
  <2>1. Keeps(u, i - 1)
    BY <1>6
  <2>2. order[i] \in Class
    BY <1>1
  <2>3. F[<<i, u>>] = v
    BY <1>3
  <2>13. PackedIfKnown(u, order[i])
    <3>1. u.known = t.known /\ t.packed \subseteq u.packed
      BY <2>1 DEF Later, AddsTo
    <3> QED BY <2>2, <3>1 DEF PackedIfKnown
  <2>4. v \in Layouts /\ Advances(u, v) /\ (v.ok => order[i] \in v.ready)
    BY <1>0, <2>2, <2>13, GetDefaultValueIs
  <2>5. ~ IsComplete(order[i]) => v.waits = u.waits + 1
    <3>1. ASSUME ~ IsComplete(order[i]) PROVE order[i] \notin u.ready
      BY <2>1, <3>1 DEF Later, AddsTo
    <3>2. ~ IsComplete(order[i]) => v = Wait(u)
      BY <3>1 DEF GetDefaultValue
    <3> QED BY <3>2, OutcomesAre
  <2> HIDE DEF v
  <2>6. /\ t.waits \in Nat /\ u.waits \in Nat /\ v.waits \in Nat /\ t.waits <= u.waits
        /\ u.waits <= v.waits /\ t.errors \in Nat /\ u.errors \in Nat /\ v.errors \in Nat
        /\ t.errors <= u.errors /\ u.errors <= v.errors /\ u.ready \subseteq v.ready
    BY <2>1, <2>4, LayoutIsTyped DEF Advances, Later, AddsTo
  <2>7. Later(t, v)
    BY <2>1, <2>4, LaterIsTransitive DEF Advances
  <2>8. ASSUME NEW j \in 1 .. i PROVE j = i \/ j \in 1 .. i - 1
    OBVIOUS
  <2>9. ASSUME NEW j \in 1 .. i, ~ IsComplete(order[j]) PROVE t.waits < v.waits
    <3>1. CASE j = i
      BY <2>5, <2>6, <2>9, <3>1
    <3>2. CASE j \in 1 .. i - 1
      <4>1. t.waits < u.waits
        BY <2>1, <2>9, <3>2
      <4> QED BY <2>6, <4>1
    <3> QED BY <2>8, <3>1, <3>2
  <2>10. ASSUME Calm(t), ~ (t.errors < v.errors), NEW j \in 1 .. i PROVE order[j] \in v.ready
    <3>1. Calm(u)
      BY <2>1, <2>10, StaysCalm DEF Later
    <3>2. ~ (t.errors < u.errors) /\ ~ (u.errors < v.errors)
      BY <2>6, <2>10
    <3>3. CASE j = i
      BY <2>4, <3>1, <3>2, <3>3 DEF Advances
    <3>4. CASE j \in 1 .. i - 1
      BY <2>1, <2>6, <2>10, <3>2, <3>4
    <3> QED BY <2>8, <3>3, <3>4
  <2>11. Keeps(v, i)
    BY <2>7, <2>9, <2>10
  <2>12. i \in 0 .. n
    BY <1>1
  <2> HIDE DEF F, Keeps
  <2> QED BY <2>3, <2>4, <2>11, <2>12
<1> HIDE DEF F, S
<1>7. InTurn(F, t, n) \in Layouts /\ <<n, InTurn(F, t, n)>> \in S
  BY <1>1, <1>4, <1>5, <1>6, InTurnKeeps
<1> DEFINE w == BuildAll(t)
<1>8. w \in Layouts /\ Keeps(w, n)
  BY <1>2, <1>7 DEF S
<1> HIDE DEF w
<1>9. w.ready \subseteq Class
  BY <1>8, LayoutIsTyped
<1>10. (\E c \in Class : ~ IsComplete(c)) => t.waits < w.waits
  BY <1>1, <1>8
<1>11. Calm(t) => w.ready = Class \/ t.errors < w.errors
  BY <1>1, <1>8, <1>9
<1> QED BY <1>8, <1>10, <1>11 DEF w

-----------------------------------------------------------------------------
(***************************************************************************)
(* The inductive invariant of the layout: what is packed or built belongs  *)
(* to complete classes, whose sizes do not change any more.                *)
(***************************************************************************)
LayoutTypes ==
  /\ pos \in [Class -> Seq(Int)] /\ rel \in [Class -> [Class -> Int]]
  /\ packed \in SUBSET Class /\ ready \in SUBSET Class
  /\ value \in [Class -> Seq(Bit)] /\ object \in [Class -> Seq(Seq(Bit))]

LaidOutFor(c) ==
  /\ Len(pos[c]) = Len(members[c]) /\ known[c] \subseteq DOMAIN members[c]
  /\ c \in ready => IsComplete(c) /\ Len(value[c]) = bits[c]
  /\ c \in packed => IsComplete(c) /\ \A i \in 1 .. Len(members[c]) : pos[c][i] <= bits[c]

LaidOut == LayoutTypes /\ \A c \in Class : LaidOutFor(c)

LayoutInv == RoundsInv /\ LaidOut

\* What the proofs about layouts need to know of the sizes.
LEMMA SizedNow == RoundsInv => Sized
BY DEF RoundsInv, Sized

\* Packing and building begin with the layout as it is.
Begun(t, k, f) ==
  /\ t \in Layouts /\ Inside(t)
  /\ t.pos = pos /\ t.rel = rel /\ t.packed = packed /\ t.ready = ready /\ t.value = value
  /\ t.object = object /\ t.known = k /\ t.folding = f /\ t.building = {}
  /\ t.waits = 0 /\ t.errors = 0 /\ t.ok

\* The layout that a step begins with.
LEMMA LayoutNowIs ==
  ASSUME LaidOut, NEW k \in [Class -> SUBSET Nat], NEW f \in Class \cup {0},
         \A c \in Class : k[c] \subseteq DOMAIN members[c]
  PROVE  Begun(LayoutNow(k, f), k, f)
<1> DEFINE t == LayoutNow(k, f)
<1>1. /\ t.pos = pos /\ t.rel = rel /\ t.packed = packed /\ t.ready = ready /\ t.value = value
      /\ t.object = object /\ t.known = k /\ t.folding = f /\ t.building = {}
      /\ t.waits = 0 /\ t.errors = 0 /\ t.ok
  BY DEF LayoutNow
<1>2. t \in Layout
  BY DEF LaidOut, LayoutTypes, LayoutNow, Layout
<1> HIDE DEF t
<1>3. t \in Layouts
  BY <1>1, <1>2 DEF Layouts, LaidOut, LaidOutFor
<1>4. Inside(t)
  BY <1>1 DEF Inside, LaidOut, LayoutTypes, LaidOutFor
<1> QED BY <1>1, <1>3, <1>4 DEF Begun, t

\* What is later than the layout as it is may take its place.
LEMMA LaidOutAfter ==
  ASSUME LaidOut, prog' = prog, UNCHANGED sizes, NEW k, NEW f, NEW t, Begun(t, k, f),
         NEW u \in Layouts, Later(t, u), LayoutIs(u),
         \A c \in Class : known'[c] \subseteq DOMAIN members[c]
  PROVE  LaidOut'
<1>1. /\ pos' = u.pos /\ rel' = u.rel /\ packed' = u.packed
      /\ ready' = u.ready /\ value' = u.value /\ object' = u.object
  BY DEF LayoutIs
<1>2. LayoutTypes'
  BY <1>1, LayoutIsTyped DEF LayoutTypes
<1>3. members' = members /\ bits' = bits /\ base' = base
  BY DEF members, sizes
<1>4. \A c : IsComplete(c)' = IsComplete(c)
  BY <1>3 DEF IsComplete
<1>5. ASSUME NEW c \in Class PROVE LaidOutFor(c)'
  <2>1. Len(u.pos[c]) = Len(members[c]) /\ (c \in u.ready => Len(u.value[c]) = bits[c])
    BY LayoutIsTyped
  <2>2. c \in u.ready => IsComplete(c)
    BY DEF Begun, LaidOut, LaidOutFor, Later, AddsTo
  <2>3. c \in u.packed => IsComplete(c)
    BY DEF Begun, LaidOut, LaidOutFor, Later, AddsTo
  <2>4. Inside(u)
    BY DEF Begun, Later, AddsTo
  <2>5. c \in u.packed => \A i \in 1 .. Len(members[c]) : u.pos[c][i] <= bits[c]
    BY <2>4 DEF Inside
  <2> QED BY <1>1, <1>3, <1>4, <2>1, <2>2, <2>3, <2>5 DEF LaidOutFor
<1> QED BY <1>2, <1>5 DEF LaidOut

\* The layout stays right when classes are given their sizes.
LEMMA LaidOutKept ==
  ASSUME LaidOut, prog' = prog, UNCHANGED layout, known' = known,
         \A c \in Class : IsComplete(c) => IsComplete(c)' /\ bits'[c] = bits[c]
  PROVE  LaidOut'
<1>1. /\ pos' = pos /\ rel' = rel /\ packed' = packed
      /\ ready' = ready /\ value' = value /\ object' = object
  BY DEF layout
<1>2. members' = members
  BY DEF members
<1>3. LayoutTypes'
  BY <1>1 DEF LaidOut, LayoutTypes
<1>4. ASSUME NEW c \in Class PROVE LaidOutFor(c)'
  <2>1. LaidOutFor(c)
    BY DEF LaidOut
  <2> QED BY <1>1, <1>2, <2>1 DEF LaidOutFor
<1> QED BY <1>3, <1>4 DEF LaidOut

\* Before the first round nothing is laid out.
LEMMA LaidOutInit == Init => LayoutInv
<1> SUFFICES ASSUME Init PROVE LayoutInv
  OBVIOUS
<1>1. InitSizes /\ RoundsInv
  BY RoundsInit DEF Init
<1>2. /\ pos = [c \in Class |-> [i \in DOMAIN members[c] |-> UNRELIABLEPOS]]
      /\ rel = [c \in Class |-> [b \in Class |-> Unknown]]
      /\ packed = {} /\ ready = {}
      /\ value = [c \in Class |-> << >>] /\ object = [c \in Class |-> << >>]
  BY DEF Init
<1>3. known = [c \in Class |-> {}]
  BY <1>1 DEF InitSizes
<1>4. \A c \in Class : Len(members[c]) \in Nat /\ DOMAIN members[c] = 1 .. Len(members[c])
  BY <1>1, ProgramTypes DEF RoundsInv
<1>5. \A c \in Class : pos[c] \in Seq(Int) /\ Len(pos[c]) = Len(members[c])
  BY <1>2, <1>4 DEF UNRELIABLEPOS
<1>6. LayoutTypes
  <2>1. Unknown \in Int
    BY DEF Unknown
  <2>2. pos \in [Class -> Seq(Int)]
    BY <1>2, <1>5
  <2>3. << >> \in Seq(Bit) /\ << >> \in Seq(Seq(Bit))
    OBVIOUS
  <2> QED BY <1>2, <2>1, <2>2, <2>3 DEF LayoutTypes
<1>7. \A c \in Class : LaidOutFor(c)
  BY <1>2, <1>3, <1>5 DEF LaidOutFor
<1> QED BY <1>1, <1>6, <1>7 DEF LayoutInv, LaidOut

-----------------------------------------------------------------------------
\* What is known of the classes once c is labelled.
KnownThen(c) == [known EXCEPT ![c] = KnownAfter(c)]

\* The members that have types when the constant of a class is folded.
LEMMA KnownThenIs ==
  ASSUME LayoutInv, NEW c \in Class
  PROVE  /\ KnownThen(c) \in [Class -> SUBSET Nat]
         /\ \A d \in Class : /\ KnownThen(c)[d] \subseteq DOMAIN members[d]
                             /\ known[d] \subseteq KnownThen(c)[d]
         /\ KnownThen(c)[c] = KnownAfter(c)
<1>1. known \in [Class -> SUBSET Nat]
  BY DEF LayoutInv, RoundsInv, LabelTypes
<1>2. \A d \in Class : known[d] \subseteq DOMAIN members[d]
  BY DEF LayoutInv, LaidOut, LaidOutFor
<1>3. DOMAIN members[c] \subseteq Nat
  BY ProgramTypes DEF LayoutInv, RoundsInv
<1>4. KnownAfter(c) \subseteq DOMAIN members[c] /\ known[c] \subseteq KnownAfter(c)
  BY <1>2 DEF KnownAfter, Resolved
<1> QED BY <1>1, <1>2, <1>3, <1>4 DEF KnownThen

\* The step that labels class c.
LEMMA CheckAndLabelIs ==
  ASSUME LayoutInv, NEW c \in Class, CheckAndLabel(c)
  PROVE  \E t, u \in Layouts :
           /\ Begun(t, KnownThen(c), c) /\ Later(t, u)
           /\ u.waits \in Nat /\ u.errors \in Nat
           /\ Label(c, u.waits, u.errors) /\ LayoutIs(u)
           /\ HasObject(c) => u.object[c] # << >> \/ 0 < u.waits
<1> DEFINE k == KnownThen(c)
           t == LayoutNow(k, c)
           u == FoldConstant(t, c)
<1>1. Label(c, u.waits, u.errors) /\ LayoutIs(u)
  BY DEF CheckAndLabel, KnownThen
<1>2. Sized /\ LaidOut
  BY SizedNow DEF LayoutInv
<1>3. Begun(t, k, c)
  <2>1. k \in [Class -> SUBSET Nat] /\ \A d \in Class : k[d] \subseteq DOMAIN members[d]
    BY KnownThenIs
  <2> HIDE DEF k
  <2> QED BY <1>2, <2>1, LayoutNowIs
<1>4. t \in Layouts /\ t.waits = 0
  BY <1>3 DEF Begun
<1> HIDE DEF t
<1>5. u \in Layouts /\ Later(t, u) /\ (HasObject(c) => u.object[c] # << >> \/ t.waits < u.waits)
  BY <1>2, <1>4, FoldConstantIs
<1>6. u.waits \in Nat /\ u.errors \in Nat
  BY <1>5, LayoutIsTyped
<1> HIDE DEF u
<1> QED BY <1>1, <1>3, <1>4, <1>5, <1>6

\* The step that packs and builds what is left.
LEMMA PackAndBuildIs ==
  ASSUME LayoutInv, PackAndBuild
  PROVE  \E t, u, w \in Layouts :
           /\ Begun(t, known, 0) /\ Later(t, u) /\ Later(u, w) /\ Later(t, w)
           /\ u.waits = 0 /\ u.errors = 0
           /\ (\A c \in Class : IsComplete(c) /\ known[c] = DOMAIN members[c])
                => u.packed = Class
           /\ (\E c \in Class : ~ IsComplete(c)) => 0 < w.waits
           /\ Calm(u) => w.ready = Class \/ 0 < w.errors
           /\ w.waits \in Nat /\ w.errors \in Nat
           /\ EndPasses(w.waits, w.errors)
           /\ IF errors = 0 THEN LayoutIs(w) ELSE UNCHANGED layout
<1> DEFINE t == LayoutNow(known, 0)
           u == PackAll(t)
           w == BuildAll(u)
<1>1. EndPasses(w.waits, w.errors) /\ IF errors = 0 THEN LayoutIs(w) ELSE UNCHANGED layout
  BY DEF PackAndBuild
<1>2. Sized /\ LaidOut
  BY SizedNow DEF LayoutInv
<1>3. Begun(t, known, 0)
  <2>1. known \in [Class -> SUBSET Nat] /\ \A d \in Class : known[d] \subseteq DOMAIN members[d]
    BY DEF LayoutInv, RoundsInv, LabelTypes, LaidOut, LaidOutFor
  <2> QED BY <1>2, <2>1, LayoutNowIs
<1>4. t \in Layouts /\ t.waits = 0 /\ t.errors = 0 /\ t.known = known /\ t.ready = ready
  BY <1>3 DEF Begun
<1> HIDE DEF t
<1>5. /\ u \in Layouts /\ Later(t, u) /\ u.waits = 0 /\ u.errors = 0
      /\ \A c \in Class : PackedIfKnown(u, c)
      /\ (\A c \in Class : IsComplete(c) /\ known[c] = DOMAIN members[c]) => u.packed = Class
  BY <1>2, <1>4, PackAllIs
<1> HIDE DEF u
<1>6. \A c \in u.ready : IsComplete(c)
  BY <1>2, <1>4, <1>5 DEF LaidOut, LaidOutFor, Later, AddsTo, LayoutTypes
<1>7. /\ w \in Layouts /\ Later(u, w)
      /\ (\E c \in Class : ~ IsComplete(c)) => 0 < w.waits
      /\ Calm(u) => w.ready = Class \/ 0 < w.errors
  BY <1>2, <1>5, <1>6, BuildAllIs
<1>8. w.waits \in Nat /\ w.errors \in Nat
  BY <1>7, LayoutIsTyped
<1> HIDE DEF w
<1>9. Later(t, w)
  BY <1>4, <1>5, <1>7, LaterIsTransitive
<1> QED BY <1>1, <1>3, <1>4, <1>5, <1>7, <1>8, <1>9

-----------------------------------------------------------------------------
\* A step of the layout is a step of the rounds, or leaves the rounds alone.
LEMMA SizingStep ==
  ASSUME LayoutInv, Next
  PROVE  SizingNext \/ UNCHANGED vars
<1>1. ASSUME NEW c \in Class, CheckAndLabel(c) PROVE SizingNext
  <2>1. PICK u \in Layouts : u.waits \in Nat /\ u.errors \in Nat /\ Label(c, u.waits, u.errors)
    BY <1>1, CheckAndLabelIs
  <2> QED BY <2>1 DEF SizingNext
<1>2. ASSUME PackAndBuild PROVE SizingNext
  <2>1. PICK w \in Layouts :
          w.waits \in Nat /\ w.errors \in Nat /\ EndPasses(w.waits, w.errors)
    BY <1>2, PackAndBuildIs
  <2> QED BY <2>1 DEF SizingNext
<1>3. ASSUME Done PROVE UNCHANGED vars
  BY <1>3 DEF Done, allvars
<1> QED BY <1>1, <1>2, <1>3 DEF Next, SizingNext

\* The invariant is kept by every step.
LEMMA LayoutNext == LayoutInv /\ [Next]_allvars => LayoutInv'
<1> SUFFICES ASSUME LayoutInv, [Next]_allvars PROVE LayoutInv'
  OBVIOUS
<1>1. SizingNext \/ UNCHANGED vars
  BY SizingStep DEF allvars
<1>2. RoundsInv'
  BY <1>1, RoundsNext DEF LayoutInv
<1>3. LaidOut /\ RoundsInv
  BY DEF LayoutInv
<1>4. ASSUME prog' = prog, UNCHANGED <<sizes, labels, layout>> PROVE LaidOut'
  <2>1. known' = known /\ \A c : IsComplete(c)' = IsComplete(c)
    BY <1>4 DEF labels, sizes, IsComplete
  <2>2. \A c \in Class : bits'[c] = bits[c]
    BY <1>4 DEF sizes
  <2> QED BY <1>3, <1>4, <2>1, <2>2, LaidOutKept
<1>5. ASSUME NEW c \in Class, SetBitSize(c), UNCHANGED layout PROVE LaidOut'
  <2>1. /\ prog' = prog /\ known' = known
        /\ \A x \in Class : bits[x] >= 0 =>
             bits'[x] = bits[x] /\ (base[x] # Unknown => base'[x] # Unknown)
    BY <1>3, <1>5, SetBitSizeIsRight DEF SetBitSize, labels
  <2>2. \A x \in Class : IsComplete(x) => IsComplete(x)' /\ bits'[x] = bits[x]
    BY <2>1 DEF IsComplete
  <2> QED BY <1>3, <1>5, <2>1, <2>2, LaidOutKept
<1>6. ASSUME NEW c \in Class, CheckAndLabel(c) PROVE LaidOut'
  <2>1. PICK t, u \in Layouts :
           /\ Begun(t, KnownThen(c), c) /\ Later(t, u)
           /\ Label(c, u.waits, u.errors) /\ LayoutIs(u)
    BY <1>6, CheckAndLabelIs
  <2>2. prog' = prog /\ UNCHANGED sizes /\ known' = KnownThen(c)
    BY <2>1 DEF Label, KnownThen
  <2>3. \A d \in Class : known'[d] \subseteq DOMAIN members[d]
    BY <2>2, KnownThenIs
  <2> QED BY <1>3, <2>1, <2>2, <2>3, LaidOutAfter
<1>7. ASSUME PackAndBuild PROVE LaidOut'
  <2>1. PICK t, w \in Layouts :
           /\ Begun(t, known, 0) /\ Later(t, w) /\ EndPasses(w.waits, w.errors)
           /\ IF errors = 0 THEN LayoutIs(w) ELSE UNCHANGED layout
    BY <1>7, PackAndBuildIs
  <2>2. prog' = prog /\ UNCHANGED <<sizes, labels>> /\ known' = known
    BY <2>1 DEF EndPasses, labels
  <2>3. \A d \in Class : known'[d] \subseteq DOMAIN members[d]
    BY <1>3, <2>2 DEF LaidOut, LaidOutFor
  <2>4. CASE LayoutIs(w)
    BY <1>3, <2>1, <2>2, <2>3, <2>4, LaidOutAfter
  <2>5. CASE UNCHANGED layout
    BY <1>4, <2>2, <2>5
  <2> QED BY <2>1, <2>4, <2>5
<1>8. ASSUME EndSizing \/ EndFirstLabelling \/ EndRound, UNCHANGED layout PROVE LaidOut'
  <2>1. prog' = prog /\ UNCHANGED <<sizes, labels>>
    BY <1>8 DEF EndSizing, EndFirstLabelling, EndRound
  <2> QED BY <1>4, <1>8, <2>1
<1>9. ASSUME UNCHANGED allvars PROVE LaidOut'
  BY <1>4, <1>9 DEF allvars, vars
<1>10. LaidOut'
  BY <1>5, <1>6, <1>7, <1>8, <1>9 DEF Next, Done
<1> QED BY <1>2, <1>10 DEF LayoutInv

\* Every step of the two components is one of the rounds, or leaves them alone.
THEOREM RoundsRefined == Spec => SizingSpec
<1>1. Init => LayoutInv /\ InitSizes
  BY LaidOutInit DEF Init
<1>2. LayoutInv /\ [Next]_allvars => LayoutInv'
  BY LayoutNext
<1>3. LayoutInv /\ [Next]_allvars => [SizingNext]_vars
  BY SizingStep DEF allvars
<1> QED BY <1>1, <1>2, <1>3, PTL DEF Spec, SizingSpec

\* The sizes, positions and default values keep their types; a class is packed and
\* built only when it is complete, and its data members then lie inside of it.
THEOREM LayoutInvariance == Spec => []LayoutInv
<1> QED BY LaidOutInit, LayoutNext, PTL DEF Spec

-----------------------------------------------------------------------------
(***************************************************************************)
(* What the passes behind the loop find.  A round goes on to the last      *)
(* class; a class that it leaves without a size is lost, one that it leaves *)
(* without all its types or its constant's value asks for another round    *)
(* as long as WAIT messages are no errors, and is an error after that.     *)
(***************************************************************************)
Labelled(c) == known[c] = DOMAIN members[c] /\ (HasObject(c) => object[c] # << >>)

Visited == {prog.order[j] : j \in {j \in DOMAIN prog.order : j < at}}

AllComplete == \A c \in Class : IsComplete(c)

AcceptInv ==
  /\ goAgain \in BOOLEAN /\ waitMode \in BOOLEAN
  /\ infcounter >= prog.limit => ~ waitMode
  /\ phase = "sizing" => (\A c \in Visited : IsComplete(c)) \/ lost # {}
  /\ phase = "labelling" =>
       /\ AllComplete \/ lost # {}
       /\ (\A c \in Visited : Labelled(c)) \/ (goAgain /\ waitMode) \/ errors > 0
  /\ phase = "defaults" /\ errors = 0 =>
       /\ \A c \in Class : Labelled(c)
       /\ AllComplete \/ infcounter >= prog.limit
  /\ AcceptedMeansPacked

\* The classes that the round has visited.
LEMMA VisitedIs ==
  ASSUME LabelTypes, at \in Nat
  PROVE  /\ Visited \subseteq Class
         /\ at > Len(prog.order) => Visited = Class
         /\ at = 1 => Visited = {}
<1>1. /\ Len(prog.order) \in Nat /\ DOMAIN prog.order = 1 .. Len(prog.order)
      /\ \A i \in 1 .. Len(prog.order) : prog.order[i] \in Class
      /\ \A c \in Class : \E i \in 1 .. Len(prog.order) : prog.order[i] = c
  BY OrderIs
<1>2. ASSUME at > Len(prog.order) PROVE Class \subseteq Visited
  <2>1. \A j \in 1 .. Len(prog.order) : j < at
    BY <1>1, <1>2
  <2> QED BY <1>1, <2>1 DEF Visited
<1> QED BY <1>1, <1>2 DEF Visited

\* A step of the round visits one more.
LEMMA VisitedNext ==
  ASSUME LabelTypes, at \in Nat, NEW c, Visit(c), prog' = prog, at' = at + 1
  PROVE  Visited' \subseteq Visited \cup {c}
<1>1. DOMAIN prog.order = 1 .. Len(prog.order) /\ Len(prog.order) \in Nat
  BY OrderIs
<1>2. Visited' = {prog.order[j] : j \in {j \in 1 .. Len(prog.order) : j < at + 1}}
  BY <1>1 DEF Visited
<1>3. \A j \in 1 .. Len(prog.order) : j < at + 1 => j < at \/ j = at
  OBVIOUS
<1>4. c = prog.order[at]
  BY DEF Visit
<1> QED BY <1>1, <1>2, <1>3, <1>4 DEF Visited

\* A class that is labelled stays so.
LEMMA LabelledStays ==
  ASSUME LayoutInv, LaidOut', prog' = prog, NEW c \in Class, Labelled(c),
         known[c] \subseteq known'[c], object[c] # << >> => object'[c] # << >>
  PROVE  Labelled(c)'
<1>1. members' = members /\ HasObject(c)' = HasObject(c)
  BY DEF members, HasObject
<1>2. known'[c] \subseteq DOMAIN members'[c]
  BY DEF LaidOut, LaidOutFor
<1> QED BY <1>1, <1>2 DEF Labelled

\* A class is labelled, or waits for something.
LEMMA CheckAndLabelEnds ==
  ASSUME LayoutInv, NEW c \in Class, CheckAndLabel(c)
  PROVE  /\ prog' = prog /\ at' = at + 1 /\ infcounter' = infcounter /\ phase' = phase
         /\ Visit(c) /\ UNCHANGED sizes /\ lost' = lost /\ waitMode' = waitMode
         /\ goAgain \in BOOLEAN => goAgain' \in BOOLEAN
         /\ (goAgain => goAgain') /\ errors <= errors'
         /\ \A d \in Class : /\ known[d] \subseteq known'[d]
                             /\ object[d] # << >> => object'[d] # << >>
         /\ Labelled(c)' \/ (goAgain' /\ waitMode') \/ errors' > 0
<1>1. PICK t, u \in Layouts :
           /\ Begun(t, KnownThen(c), c) /\ Later(t, u)
           /\ u.waits \in Nat /\ u.errors \in Nat
           /\ Label(c, u.waits, u.errors) /\ LayoutIs(u)
           /\ HasObject(c) => u.object[c] # << >> \/ 0 < u.waits
  BY CheckAndLabelIs
<1> DEFINE holders == ToSet(bases[c]) \ linked[c]
           incomplete == {b \in holders : ~ IsComplete(b)}
           hazy == DOMAIN members[c] \ KnownAfter(c)
           one == IF ConstantOf(c) = Unknown THEN 1 ELSE 0
           waits == Cardinality(incomplete) + Cardinality(hazy) + one + u.waits
<1>2. /\ prog' = prog /\ at' = at + 1 /\ infcounter' = infcounter /\ phase' = phase
      /\ Visit(c) /\ UNCHANGED sizes /\ lost' = lost /\ waitMode' = waitMode
      /\ known' = KnownThen(c)
      /\ goAgain' = (goAgain \/ holders # {} \/ hazy # {} \/ ConstantOf(c) = Unknown
                       \/ u.waits > 0)
      /\ errors' = errors + u.errors + (IF waitMode THEN 0 ELSE waits)
  BY <1>1 DEF Label, KnownThen
<1>3. LabelTypes /\ errors \in Nat
  BY DEF LayoutInv, RoundsInv
<1>4. Cardinality(incomplete) \in Nat
  <2>1. incomplete \in SUBSET Class /\ IsFiniteSet(Class)
    BY <1>3, ProgramTypes
  <2> HIDE DEF incomplete
  <2> QED BY <2>1, FS_Subset, FS_CardinalityType
<1>5. Cardinality(hazy) \in Nat /\ (hazy # {} => Cardinality(hazy) # 0)
  <2>1. IsFiniteSet(1 .. Len(members[c])) /\ hazy \in SUBSET (1 .. Len(members[c]))
    <3>1. DOMAIN members[c] = 1 .. Len(members[c]) /\ Len(members[c]) \in Nat
      BY <1>3, ProgramTypes
    <3>2. IsFiniteSet(1 .. Len(members[c]))
      <4> DEFINE n == Len(members[c])
      <4>1. n \in Int /\ 1 \in Int
        BY <3>1
      <4> HIDE DEF n
      <4>2. IsFiniteSet(1 .. n)
        BY <4>1, FS_Interval
      <4> QED BY <4>2 DEF n
    <3>3. hazy \in SUBSET (1 .. Len(members[c]))
      BY <3>1
    <3> QED BY <3>2, <3>3
  <2> HIDE DEF hazy
  <2>2. IsFiniteSet(hazy)
    BY <2>1, FS_Subset
  <2> QED BY <2>2, FS_CardinalityType, FS_EmptySet
<1>6. one \in Nat
  OBVIOUS
<1> HIDE DEF hazy, incomplete, holders, one
<1>7. waits \in Nat /\ (hazy # {} \/ u.waits > 0 => waits > 0)
  BY <1>1, <1>4, <1>5, <1>6
<1> HIDE DEF waits
<1>8. \A d \in Class : known[d] \subseteq known'[d]
  BY <1>2, KnownThenIs
<1>9. \A d \in Class : object[d] # << >> => object'[d] # << >>
  BY <1>1 DEF Begun, Later, AddsTo, LayoutIs
<1>10. errors <= errors'
  BY <1>1, <1>2, <1>3, <1>7
<1>11. CASE hazy = {} /\ ~ (u.waits > 0)
  <2>1. known'[c] = DOMAIN members'[c]
    <3>1. known'[c] = KnownAfter(c) /\ KnownAfter(c) \subseteq DOMAIN members[c]
      BY <1>2, KnownThenIs
    <3>2. members' = members
      BY <1>2 DEF members
    <3> QED BY <1>11, <3>1, <3>2 DEF hazy
  <2>2. HasObject(c)' => object'[c] # << >>
    <3>1. HasObject(c)' = HasObject(c)
      BY <1>2 DEF HasObject
    <3> QED BY <1>1, <1>11, <3>1 DEF LayoutIs
  <2>3. Labelled(c)'
    BY <2>1, <2>2 DEF Labelled
  <2> QED BY <1>2, <1>8, <1>9, <1>10, <2>3
<1>12. CASE hazy # {} \/ u.waits > 0
  <2>1. goAgain' /\ waits > 0
    BY <1>2, <1>7, <1>12
  <2>2. ~ waitMode => errors' > 0
    BY <1>1, <1>2, <1>3, <1>7, <2>1
  <2> QED BY <1>2, <1>8, <1>9, <1>10, <2>1, <2>2
<1> QED BY <1>11, <1>12

-----------------------------------------------------------------------------
\* The first round has labelled nothing.
LEMMA AcceptInit == Init => AcceptInv
<1> SUFFICES ASSUME Init PROVE AcceptInv
  OBVIOUS
<1>1. /\ prog \in Programs /\ phase = "first" /\ infcounter = 0 /\ goAgain = FALSE
      /\ waitMode = TRUE
  BY DEF Init, InitSizes
<1>2. ~ (infcounter >= prog.limit)
  BY <1>1, ProgramsAssumption
<1>3. goAgain \in BOOLEAN /\ waitMode \in BOOLEAN
  BY <1>1
<1>4. phase # "sizing" /\ phase # "labelling" /\ phase # "defaults" /\ phase # "done"
  BY <1>1
<1> QED BY <1>2, <1>3, <1>4, Zenon DEF AcceptInv, AcceptedMeansPacked, Accepted

\* Packing and building leave a program accepted only if all is there.
LEMMA AcceptedAfter ==
  ASSUME LayoutInv, AcceptInv, PackAndBuild
  PROVE  AcceptedMeansPacked'
<1> SUFFICES ASSUME errors' = 0, \A c \in Class : bits'[c] < UNRELIABLEPOS
             PROVE  /\ \A c \in Class : IsComplete(c)' /\ (HasObject(c)' => object'[c] # << >>)
                    /\ packed' = Class /\ ready' = Class
  BY DEF AcceptedMeansPacked, Accepted
<1>1. PICK t, u, w \in Layouts :
           /\ Begun(t, known, 0) /\ Later(t, u) /\ Later(u, w) /\ Later(t, w)
           /\ u.waits = 0 /\ u.errors = 0
           /\ (\A c \in Class : IsComplete(c) /\ known[c] = DOMAIN members[c])
                => u.packed = Class
           /\ (\E c \in Class : ~ IsComplete(c)) => 0 < w.waits
           /\ Calm(u) => w.ready = Class \/ 0 < w.errors
           /\ w.waits \in Nat /\ w.errors \in Nat
           /\ EndPasses(w.waits, w.errors)
           /\ IF errors = 0 THEN LayoutIs(w) ELSE UNCHANGED layout
  BY PackAndBuildIs
<1>2. /\ phase = "defaults" /\ prog' = prog /\ bits' = bits /\ base' = base
      /\ errors' = IF errors > 0 THEN errors
                   ELSE w.errors + (IF infcounter < prog.limit THEN 0 ELSE w.waits)
  BY <1>1 DEF EndPasses, sizes
<1>3. errors \in Nat /\ infcounter \in Nat /\ prog.limit \in Nat
  BY ProgramsAssumption DEF LayoutInv, RoundsInv, LabelTypes
<1>4. /\ errors = 0 /\ w.errors = 0 /\ (infcounter >= prog.limit => w.waits = 0)
  BY <1>1, <1>2, <1>3
<1>5. (\A c \in Class : Labelled(c)) /\ (AllComplete \/ infcounter >= prog.limit)
  BY <1>2, <1>4 DEF AcceptInv
<1>6. AllComplete
  BY <1>1, <1>4, <1>5 DEF AllComplete
<1>7. u.packed = Class
  BY <1>1, <1>5, <1>6 DEF AllComplete, Labelled
<1>8. \A c \in Class : HasObject(c) => u.object[c] # << >> /\ w.object[c] # << >>
  BY <1>1, <1>5 DEF Labelled, Begun, Later, AddsTo
<1>9. Calm(u)
  <2>1. Inside(u)
    BY <1>1 DEF Begun, Later, AddsTo
  <2> QED BY <1>2, <1>6, <1>7, <1>8, <2>1 DEF Calm, AllComplete
<1>10. w.ready = Class
  BY <1>1, <1>4, <1>9
<1>11. w.packed = Class
  <2>1. w.packed \subseteq Class
    BY LayoutIsTyped
  <2>2. u.packed \subseteq w.packed
    BY <1>1 DEF Later, AddsTo
  <2> QED BY <1>7, <2>1, <2>2
<1>12. packed' = w.packed /\ ready' = w.ready /\ object' = w.object
  BY <1>1, <1>4 DEF LayoutIs
<1>13. \A c \in Class : IsComplete(c)' /\ HasObject(c)' = HasObject(c)
  BY <1>2, <1>6 DEF AllComplete, IsComplete, HasObject
<1> QED BY <1>8, <1>10, <1>11, <1>12, <1>13

\* The invariant is kept by every step.
LEMMA AcceptNext == LayoutInv /\ LayoutInv' /\ AcceptInv /\ [Next]_allvars => AcceptInv'
<1> SUFFICES ASSUME LayoutInv, LayoutInv', AcceptInv, [Next]_allvars PROVE AcceptInv'
  OBVIOUS
<1>1. /\ LabelTypes /\ RoundsInv /\ errors \in Nat /\ at \in Nat /\ infcounter \in Nat
      /\ at' \in Nat /\ errors' \in Nat
  BY DEF LayoutInv, RoundsInv
<1>2. prog.limit \in Nat
  BY <1>1, ProgramsAssumption DEF LabelTypes
<1>3. /\ goAgain \in BOOLEAN /\ waitMode \in BOOLEAN
      /\ infcounter >= prog.limit => ~ waitMode
  BY DEF AcceptInv
<1>4. ASSUME NEW c \in Class, SetBitSize(c), UNCHANGED layout PROVE AcceptInv'
  <2>1. /\ phase = "sizing" /\ phase' = "sizing" /\ prog' = prog /\ at' = at + 1 /\ Visit(c)
        /\ UNCHANGED <<infcounter, goAgain, waitMode>>
    BY <1>4 DEF SetBitSize
  <2>2. /\ \A x \in Class : bits[x] >= 0 =>
             bits'[x] = bits[x] /\ (base[x] # Unknown => base'[x] # Unknown)
        /\ lost' # {} \/ (bits'[c] >= 0 /\ base'[c] # Unknown)
    BY <1>1, <1>4, SetBitSizeIsRight
  <2>3. \A x \in Class : IsComplete(x) => IsComplete(x)'
    BY <2>2 DEF IsComplete
  <2>4. lost' # {} \/ IsComplete(c)'
    BY <2>2 DEF IsComplete
  <2>5. lost # {} => lost' # {}
    BY <1>4 DEF SetBitSize
  <2>6. Visited' \subseteq Visited \cup {c} /\ Visited \subseteq Class
    BY <1>1, <2>1, VisitedNext, VisitedIs
  <2>7. (\A x \in Visited : IsComplete(x)) \/ lost # {}
    BY <2>1 DEF AcceptInv
  <2>8. (\A x \in Visited' : IsComplete(x)') \/ lost' # {}
    BY <2>3, <2>4, <2>5, <2>6, <2>7
  <2> QED BY <1>3, <2>1, <2>8 DEF AcceptInv, AcceptedMeansPacked, Accepted
<1>5. ASSUME NEW c \in Class, CheckAndLabel(c) PROVE AcceptInv'
  <2>1. /\ prog' = prog /\ at' = at + 1 /\ infcounter' = infcounter /\ phase' = phase
        /\ Visit(c) /\ UNCHANGED sizes /\ lost' = lost /\ waitMode' = waitMode
        /\ goAgain' \in BOOLEAN
        /\ (goAgain => goAgain') /\ errors <= errors'
        /\ \A d \in Class : /\ known[d] \subseteq known'[d]
                            /\ object[d] # << >> => object'[d] # << >>
        /\ Labelled(c)' \/ (goAgain' /\ waitMode') \/ errors' > 0
    BY <1>3, <1>5, CheckAndLabelEnds
  <2>2. phase \in {"first", "labelling"}
    BY <1>5 DEF CheckAndLabel, Label
  <2>3. CASE phase = "first"
    BY <1>3, <2>1, <2>3 DEF AcceptInv, AcceptedMeansPacked, Accepted
  <2>4. CASE phase = "labelling"
    <3>1. /\ AllComplete \/ lost # {}
          /\ (\A x \in Visited : Labelled(x)) \/ (goAgain /\ waitMode) \/ errors > 0
      BY <2>4 DEF AcceptInv
    <3>2. AllComplete' \/ lost' # {}
      BY <2>1, <3>1 DEF AllComplete, IsComplete, sizes
    <3>3. Visited' \subseteq Visited \cup {c} /\ Visited \subseteq Class
      BY <1>1, <2>1, VisitedNext, VisitedIs
    <3>4. \A d \in Class : Labelled(d) => Labelled(d)'
      BY <2>1, LabelledStays DEF LayoutInv
    <3>5. errors > 0 => errors' > 0
      BY <1>1, <2>1
    <3>6. (\A x \in Visited' : Labelled(x)') \/ (goAgain' /\ waitMode') \/ errors' > 0
      BY <2>1, <3>1, <3>3, <3>4, <3>5
    <3> QED BY <1>3, <2>1, <2>4, <3>2, <3>6 DEF AcceptInv, AcceptedMeansPacked, Accepted
  <2> QED BY <2>2, <2>3, <2>4
<1>6. ASSUME EndSizing, UNCHANGED layout PROVE AcceptInv'
  <2>1. /\ phase = "sizing" /\ phase' = "labelling" /\ at' = 1 /\ goAgain' = FALSE
        /\ at > Len(prog.order)
        /\ UNCHANGED <<prog, infcounter, lost, waitMode, errors, sizes, labels>>
    BY <1>6 DEF EndSizing
  <2>2. AllComplete \/ lost # {}
    BY <1>1, <2>1, VisitedIs DEF AcceptInv, AllComplete
  <2>3. AllComplete' \/ lost' # {}
    BY <2>1, <2>2 DEF AllComplete, IsComplete, sizes
  <2>4. LabelTypes' /\ at' \in Nat
    BY DEF LayoutInv, RoundsInv
  <2>5. Visited' = {}
    <3>1. DOMAIN prog.order = 1 .. Len(prog.order) /\ Len(prog.order) \in Nat
      BY <1>1, OrderIs
    <3> QED BY <2>1, <3>1 DEF Visited
  <2> QED BY <1>3, <2>1, <2>3, <2>5 DEF AcceptInv, AcceptedMeansPacked, Accepted
<1>7. ASSUME phase' = "sizing", at' = 1, prog' = prog, goAgain' = goAgain, waitMode' \in BOOLEAN,
             infcounter' >= prog.limit => ~ waitMode'
      PROVE  AcceptInv'
  <2>1. Visited' = {}
    <3>1. DOMAIN prog.order = 1 .. Len(prog.order) /\ Len(prog.order) \in Nat
      BY <1>1, OrderIs
    <3> QED BY <1>7, <3>1 DEF Visited
  <2> QED BY <1>3, <1>7, <2>1 DEF AcceptInv, AcceptedMeansPacked, Accepted
<1>8. ASSUME EndFirstLabelling, UNCHANGED layout PROVE AcceptInv'
  BY <1>3, <1>7, <1>8 DEF EndFirstLabelling, StartRound
<1>9. ASSUME EndRound, UNCHANGED layout PROVE AcceptInv'
  <2>1. /\ phase = "labelling" /\ at > Len(prog.order) /\ infcounter' = infcounter + 1
        /\ waitMode' = (waitMode /\ infcounter' # prog.limit)
        /\ UNCHANGED <<prog, goAgain, sizes, labels>>
        /\ IF (lost # {} \/ goAgain) /\ infcounter' <= prog.limit /\ errors = 0
           THEN StartRound
           ELSE phase' = "defaults" /\ UNCHANGED <<at, lost, errors>>
    BY <1>9 DEF EndRound
  <2>2. waitMode' \in BOOLEAN /\ (infcounter' >= prog.limit => ~ waitMode')
    <3>1. waitMode' \in BOOLEAN
      BY <2>1, Zenon
    <3>2. waitMode' => waitMode /\ infcounter' # prog.limit
      BY <2>1, Zenon
    <3>3. ASSUME infcounter' >= prog.limit, waitMode' PROVE FALSE
      <4>1. infcounter >= prog.limit
        BY <1>1, <1>2, <2>1, <3>2, <3>3
      <4> QED BY <1>3, <3>2, <3>3, <4>1
    <3> QED BY <3>1, <3>3
  <2>3. CASE (lost # {} \/ goAgain) /\ infcounter' <= prog.limit /\ errors = 0
    BY <1>7, <2>1, <2>2, <2>3 DEF StartRound
  <2>4. CASE ~ ((lost # {} \/ goAgain) /\ infcounter' <= prog.limit /\ errors = 0)
    <3>1. phase' = "defaults" /\ errors' = errors
      BY <2>1, <2>4
    <3>2. Visited = Class
      BY <1>1, <2>1, VisitedIs
    <3>3. /\ AllComplete \/ lost # {}
          /\ (\A x \in Class : Labelled(x)) \/ (goAgain /\ waitMode) \/ errors > 0
      BY <2>1, <3>2 DEF AcceptInv
    <3>4. ASSUME errors = 0
          PROVE  /\ \A x \in Class : Labelled(x)
                 /\ AllComplete \/ infcounter' >= prog.limit
      <4>1. CASE lost = {} /\ ~ goAgain
        BY <3>3, <3>4, <4>1
      <4>2. CASE ~ (infcounter' <= prog.limit)
        <5>1. ~ waitMode /\ infcounter' >= prog.limit
          BY <1>1, <1>2, <1>3, <2>1, <4>2
        <5> QED BY <3>3, <3>4, <5>1
      <4> QED BY <2>4, <3>4, <4>1, <4>2
    <3>5. \A x \in Class : Labelled(x) => Labelled(x)'
      <4>1. LaidOut' /\ known' = known /\ object' = object
        BY <1>9, <2>1 DEF LayoutInv, labels, layout
      <4> QED BY <2>1, <4>1, LabelledStays
    <3>6. AllComplete => AllComplete'
      BY <2>1 DEF AllComplete, IsComplete, sizes
    <3>7. errors' = 0 => /\ \A x \in Class : Labelled(x)'
                         /\ AllComplete' \/ infcounter' >= prog'.limit
      BY <2>1, <3>1, <3>4, <3>5, <3>6
    <3> QED BY <1>3, <2>1, <2>2, <3>1, <3>7 DEF AcceptInv, AcceptedMeansPacked, Accepted
  <2> QED BY <2>3, <2>4
<1>10. ASSUME PackAndBuild PROVE AcceptInv'
  <2>1. AcceptedMeansPacked'
    BY <1>10, AcceptedAfter
  <2>2. phase' = "done" /\ UNCHANGED <<prog, infcounter, goAgain, waitMode>>
    BY <1>10 DEF PackAndBuild, EndPasses
  <2> QED BY <1>3, <2>1, <2>2 DEF AcceptInv
<1>11. ASSUME UNCHANGED allvars PROVE AcceptInv'
  BY <1>11 DEF AcceptInv, AcceptedMeansPacked, Accepted, Visited, AllComplete, Labelled, IsComplete,
               HasObject, members, allvars, vars, loop, sizes, labels, layout
<1> QED BY <1>4, <1>5, <1>6, <1>8, <1>9, <1>10, <1>11 DEF Next, Done

\* A program that is accepted has all its classes packed and all their default
\* values built, and all its constants have values (checkAndLabelPassForLocals to
\* the passes behind the loop of Compiler), for any classes, order and limit.
THEOREM AcceptedIsPacked == Spec => []AcceptedMeansPacked
<1>1. Init => LayoutInv /\ AcceptInv
  BY LaidOutInit, AcceptInit
<1>2. LayoutInv /\ AcceptInv /\ [Next]_allvars => LayoutInv' /\ AcceptInv'
  BY LayoutNext, AcceptNext
<1>3. AcceptInv => AcceptedMeansPacked
  BY DEF AcceptInv
<1> QED BY <1>1, <1>2, <1>3, PTL DEF Spec

-----------------------------------------------------------------------------
(***************************************************************************)
(* The sizes may go on growing while a layout stays settled.               *)
(***************************************************************************)
SizesStay ==
  /\ prog' = prog
  /\ \A x \in Class : /\ bits[x] >= 0 => bits'[x] = bits[x]
                      /\ IsComplete(x) => IsComplete(x)' /\ base'[x] = base[x]
                      /\ konst[x] # Unknown => konst'[x] = konst[x]

\* A member that had a width keeps it when other classes get their sizes.
\* A member that had a width keeps it when other classes get their sizes.
LEMMA WidthStays ==
  ASSUME Sized, SizesStay, NEW c \in Class, IsComplete(c), NEW i \in 1 .. Len(members[c])
  PROVE  /\ Width(members[c][i])' = Width(members[c][i])
         /\ HoldsClass(members[c][i]) => /\ bits'[members[c][i].of] = bits[members[c][i].of]
                                         /\ bits[members[c][i].of] \in Nat
<1> DEFINE m == members[c][i]
<1>1. /\ m \in Member /\ Width(m) \in Nat /\ Width(m) = Values(c, bits, konst)[i]
      /\ HoldsClass(m) => m.of \in Class /\ bits[m.of] \in Nat
      /\ Len(members[c]) \in Nat
  BY WidthIs
<1>2. /\ \A x \in Class : /\ bits[x] >= 0 => bits'[x] = bits[x]
                          /\ konst[x] # Unknown => konst'[x] = konst[x]
      /\ members' = members
  BY DEF SizesStay, members
<1>3. HoldsClass(m) => bits'[m.of] = bits[m.of]
  BY <1>1, <1>2
<1>4. ASSUME NEW x, x = m, NEW y, y = Width(x) PROVE Width(x)' = y
  <2>1. x \in Member /\ y \in Nat
    BY <1>1, <1>4
  <2>2. CASE x.kind = "int"
    BY <1>4, <2>2 DEF Width
  <2>3. CASE x.kind = "const"
    <3>1. x.of \in Class /\ y = konst[x.of]
      BY <1>4, <2>1, <2>3, MemberTypes DEF Width
    <3>2. konst[x.of] # Unknown
      BY <2>1, <3>1 DEF Unknown
    <3>3. konst'[x.of] = konst[x.of]
      BY <1>2, <3>1, <3>2
    <3> QED BY <2>3, <3>1, <3>3 DEF Width
  <2>4. CASE x.kind = "array"
    <3>1. HoldsClass(x)
      BY <2>4 DEF HoldsClass
    <3>2. bits'[x.of] = bits[x.of]
      BY <1>3, <1>4, <3>1
    <3> QED BY <1>4, <2>4, <3>2 DEF Width
  <2>5. CASE x.kind \in {"sizeof", "class"}
    <3>1. x.of \in Class /\ y = bits[x.of]
      BY <1>4, <2>1, <2>5, MemberTypes DEF Width
    <3>2. bits'[x.of] = bits[x.of]
      BY <1>2, <2>1, <3>1
    <3> QED BY <2>5, <3>1, <3>2 DEF Width
  <2> QED BY <2>1, <2>2, <2>3, <2>4, <2>5, MemberTypes
<1>5. Width(members[c][i])' = Width(members[c][i])
  <2>1. \A x : x = m => Width(x)' = Width(x)
    BY <1>4
  <2>2. \A x : x = m' => Width(x)' = Width(m)'
    OBVIOUS
  <2> QED BY <1>2, <2>1, <2>2
<1> QED BY <1>1, <1>3, <1>5

\* What depends on the program alone is the same.
LEMMA ProgramStays ==
  ASSUME prog' = prog
  PROVE  /\ members' = members /\ bases' = bases
         /\ \A c : /\ BaseSet(c)' = BaseSet(c) /\ InOrder(c)' = InOrder(c)
                   /\ Family(c)' = Family(c) /\ Distinct(c)' = Distinct(c)
                   /\ HasObject(c)' = HasObject(c)
         /\ \A c, b : Before(c, b)' = Before(c, b)
         /\ \A c, b, i : Uncovered(c, b, i)' = Uncovered(c, b, i)
<1>1. members' = members /\ bases' = bases
  BY DEF members, bases
<1>2. ASSUME NEW c PROVE BaseSet(c)' = BaseSet(c)
  BY SameProgram
<1>3. ASSUME NEW c PROVE InOrder(c)' = InOrder(c)
  BY <1>1, <1>2 DEF InOrder
<1>4. ASSUME NEW c PROVE Family(c)' = Family(c)
  BY <1>2 DEF Family
<1>5. ASSUME NEW c PROVE Distinct(c)' = Distinct(c)
  BY <1>1 DEF Distinct
<1>6. ASSUME NEW c PROVE HasObject(c)' = HasObject(c)
  BY DEF HasObject
<1>7. ASSUME NEW c, NEW b PROVE Before(c, b)' = Before(c, b)
  BY <1>3 DEF Before
<1>8. ASSUME NEW c, NEW b, NEW i PROVE Uncovered(c, b, i)' = Uncovered(c, b, i)
  BY DEF Uncovered, Covers
<1> QED BY <1>1, <1>2, <1>3, <1>4, <1>5, <1>6, <1>7, <1>8

\* So it stays at the same place in its class.
\* So it stays at the same place in its class.
LEMMA OffsetStays ==
  ASSUME Sized, SizesStay, NEW c \in Class, IsComplete(c), NEW j
  PROVE  Offset(c, j, 1 .. Len(members[c]))' = Offset(c, j, 1 .. Len(members[c]))
<1> DEFINE I == {k \in 1 .. Len(members[c]) : k < j}
           f == [i \in I |-> Width(members[c][i])]
<1>1. members' = members /\ prog' = prog
  BY ProgramStays DEF SizesStay
<1>2. \A i \in 1 .. Len(members[c]) : Width(members[c][i])' = Width(members[c][i])
  BY WidthStays
<1>3. I' = I
  BY <1>1
<1>4. f' = f
  BY <1>2, <1>3
<1>5. BitsOf(c, I)' = BitsOf(c, I)
  BY <1>4 DEF BitsOf
<1> QED BY <1>1, <1>5 DEF Offset

\* The blocks of the base classes stay where they are.
\* The blocks of the base classes stay where they are.
LEMMA BaseStartStays ==
  ASSUME Sized, SizesStay, NEW d \in Class, IsComplete(d), NEW b \in Family(d)
  PROVE  BaseStart(d, b)' = BaseStart(d, b)
<1> DEFINE B == Before(d, b)
           f == [a \in B |-> base[a]]
           e == Offset(d, Len(members[d]) + 1, 1 .. Len(members[d]))
<1>1. prog' = prog /\ members' = members /\ B' = B
  BY ProgramStays DEF SizesStay
<1>2. CASE b = d
  BY <1>2 DEF BaseStart
<1>3. CASE b \in BaseSet(d)
  <2>1. B \in SUBSET BaseSet(d)
    BY <1>3, BeforeIs DEF Sized
  <2>2. \A a \in BaseSet(d) : a \in Class /\ IsComplete(a)
    BY CompleteIs
  <2>3. \A a \in B : base'[a] = base[a]
    BY <2>1, <2>2 DEF SizesStay
  <2>4. f' = f
    BY <1>1, <2>3
  <2>5. BaseBits(B)' = BaseBits(B)
    BY <2>4 DEF BaseBits
  <2>6. e' = e
    <3> DEFINE n == Len(members[d]) + 1
    <3>1. \A j : Offset(d, j, 1 .. Len(members[d]))' = Offset(d, j, 1 .. Len(members[d]))
      BY OffsetStays
    <3> QED BY <1>1, <3>1
  <2> QED BY <2>5, <2>6 DEF BaseStart
<1> QED BY <1>2, <1>3 DEF Family

\* So do the members in them.
\* So do the members in them.
LEMMA StartStays ==
  ASSUME Sized, SizesStay, NEW d \in Class, IsComplete(d), NEW b \in Family(d), NEW i
  PROVE  Start(d, b, i)' = Start(d, b, i)
<1>1. b \in Class /\ IsComplete(b)
  BY CompleteIs DEF Family
<1>2. BaseStart(d, b)' = BaseStart(d, b)
  BY BaseStartStays
<1>3. Offset(b, i, 1 .. Len(members[b]))' = Offset(b, i, 1 .. Len(members[b]))
  BY <1>1, OffsetStays
<1> QED BY <1>2, <1>3 DEF Start

\* The default value of a member stays the same.
\* The default value of a member stays the same.
LEMMA MemberValueStays ==
  ASSUME Sized, SizesStay, NEW t, NEW c \in Class, IsComplete(c), NEW i \in 1 .. Len(members[c])
  PROVE  MemberValue(t, c, i)' = MemberValue(t, c, i)
<1>1. members' = members
  BY ProgramStays DEF SizesStay
<1>2. /\ Width(members[c][i])' = Width(members[c][i])
      /\ HoldsClass(members[c][i]) => bits'[members[c][i].of] = bits[members[c][i].of]
  BY WidthStays
<1>3. CASE HoldsClass(members[c][i])
  <2>1. bits'[members[c][i].of] = bits[members[c][i].of]
    BY <1>2, <1>3
  <2> QED BY <1>1, <1>2, <1>3, <2>1 DEF MemberValue, HoldsClass
<1>4. CASE ~ HoldsClass(members[c][i])
  BY <1>1, <1>2, <1>4 DEF MemberValue, HoldsClass
<1> QED BY <1>3, <1>4

\* So does what would be put together for the class.
\* So does what would be put together for the class.
LEMMA DefaultValueStays ==
  ASSUME Sized, SizesStay, NEW t, NEW d \in Class, IsComplete(d)
  PROVE  DefaultValue(t, d)' = DefaultValue(t, d)
<1> DEFINE r == [i \in DOMAIN members[d] |-> Patch(MemberValue(t, d, i), t.pos[d][i])]
           q == [j \in DOMAIN InOrder(d) |->
                   Patch(SubSeq(t.value[InOrder(d)[j]], 1, base[InOrder(d)[j]]),
                         t.rel[d][InOrder(d)[j]])]
           v == [k \in 1 .. bits[d] |-> << >>]
<1>1. prog' = prog /\ members' = members /\ InOrder(d)' = InOrder(d)
  BY ProgramStays DEF SizesStay
<1>2. DOMAIN members[d] = 1 .. Len(members[d]) /\ bits[d] \in Nat
  BY WidthIs, CompleteIs
<1>3. v' = v
  BY <1>2 DEF SizesStay
<1>4. r' = r
  <2>1. \A i \in DOMAIN members[d] : MemberValue(t, d, i)' = MemberValue(t, d, i)
    BY <1>2, MemberValueStays
  <2> QED BY <1>1, <2>1 DEF Patch
<1>5. q' = q
  <2>1. \A j \in DOMAIN InOrder(d) : InOrder(d)[j] \in BaseSet(d)
    BY InOrderIs DEF Sized
  <2>2. \A a \in BaseSet(d) : a \in Class /\ IsComplete(a)
    BY CompleteIs
  <2>3. \A j \in DOMAIN InOrder(d) : base'[InOrder(d)[j]] = base[InOrder(d)[j]]
    BY <2>1, <2>2 DEF SizesStay
  <2> QED BY <1>1, <2>3 DEF Patch
<1>6. Patched(v, r \o q)' = Patched(v, r \o q)
  BY <1>3, <1>4, <1>5 DEF Patched
<1> QED BY <1>6 DEF DefaultValue

\* A class that is placed where it should be stays so.
\* A class that is placed where it should be stays so.
LEMMA PlacedStays ==
  ASSUME Sized, SizesStay, NEW t, NEW c \in Class, PlacedRight(t, c)
  PROVE  PlacedRight(t, c)'
<1>1. IsComplete(c) /\ members' = members /\ BaseSet(c)' = BaseSet(c) /\ IsComplete(c)'
  <2>1. IsComplete(c)
    BY DEF PlacedRight
  <2> QED BY <2>1, ProgramStays DEF SizesStay
<1>2. \A i : Offset(c, i, 1 .. Len(members[c]))' = Offset(c, i, 1 .. Len(members[c]))
  BY <1>1, OffsetStays
<1>3. \A b \in BaseSet(c) : BaseStart(c, b)' = BaseStart(c, b)
  BY <1>1, BaseStartStays DEF Family
<1> QED BY <1>1, <1>2, <1>3 DEF PlacedRight

\* A default value that is the right one stays so.
\* A default value that is the right one stays so.
LEMMA BuiltStaysRight ==
  ASSUME Sized, SizesStay, NEW t, NEW d \in Class, BuiltRight(t, d)
  PROVE  BuiltRight(t, d)'
<1>1. IsComplete(d) /\ IsComplete(d)' /\ bits'[d] = bits[d] /\ bits[d] \in Nat
  <2>1. IsComplete(d)
    BY DEF BuiltRight
  <2>2. bits[d] \in Nat
    BY <2>1, CompleteIs
  <2> QED BY <2>1, <2>2 DEF SizesStay
<1>2. members' = members /\ BaseSet(d)' = BaseSet(d)
  BY ProgramStays DEF SizesStay
<1>3. ASSUME PartsReady(t, d) PROVE PartsReady(t, d)'
  <2>1. ASSUME NEW i \in 1 .. Len(members[d]) PROVE HeldIsReady(t, members[d][i])'
    <3>1. HeldIsReady(t, members[d][i])
      BY <1>3 DEF PartsReady
    <3>2. HoldsClass(members[d][i]) => bits'[members[d][i].of] = bits[members[d][i].of]
      BY <1>1, WidthStays
    <3> QED BY <1>2, <3>1, <3>2 DEF HeldIsReady, HoldsClass
  <2>2. ASSUME NEW b \in BaseSet(d) PROVE bits'[b] = 0 \/ b \in t.ready
    <3>1. bits[b] = 0 \/ b \in t.ready
      BY <1>3 DEF PartsReady
    <3>2. b \in Class /\ IsComplete(b)
      BY <1>1, CompleteIs
    <3>3. bits'[b] = bits[b]
      <4>1. bits[b] \in Nat
        BY <3>2, CompleteIs
      <4> QED BY <3>2, <4>1 DEF SizesStay
    <3> QED BY <3>1, <3>3
  <2> QED BY <1>2, <2>1, <2>2 DEF PartsReady
<1>4. DefaultValue(t, d)' = DefaultValue(t, d)
  BY <1>1, DefaultValueStays
<1> QED BY <1>1, <1>3, <1>4 DEF BuiltRight

\* So does the value of a constant.
\* So does the value of a constant.
LEMMA FilledStaysRight ==
  ASSUME Sized, SizesStay, NEW t, \A e \in t.ready : BuiltRight(t, e), NEW c \in Class,
         FilledRight(t, c)
  PROVE  FilledRight(t, c)'
<1> DEFINE d == prog.object[c].of
           list == prog.object[c].list
<1>1. prog' = prog /\ members' = members /\ HasObject(c) /\ HasObject(c)'
      /\ \A x : Family(x)' = Family(x) /\ Distinct(x)' = Distinct(x)
  BY ProgramStays DEF SizesStay, FilledRight
<1>2. d \in Class
  BY <1>1, ObjectIs DEF Sized
<1>3. CASE bits[d] = 0
  <2>1. bits'[d] = bits[d]
    BY <1>2, <1>3 DEF SizesStay
  <2> QED BY <1>1, <1>3, <2>1 DEF FilledRight
<1>4. CASE bits[d] # 0
  <2>1. d \in t.ready /\ Len(t.object[c][1]) = bits[d] /\ ListShown(t, c) /\ RestShown(t, c)
    BY <1>4 DEF FilledRight
  <2>2. IsComplete(d)
    BY <2>1 DEF BuiltRight
  <2>3. bits'[d] = bits[d]
    <3>1. bits[d] \in Nat
      BY <1>2, <2>2, CompleteIs
    <3> QED BY <1>2, <3>1 DEF SizesStay
  <2>4. ListShown(t, c)'
    <3>1. ASSUME NEW j \in 1 .. Len(list)
          PROVE  /\ Width(members[list[j][1]][list[j][2]])' = Width(members[list[j][1]][list[j][2]])
                 /\ Start(d, list[j][1], list[j][2])' = Start(d, list[j][1], list[j][2])
      <4> DEFINE b == list[j][1]
                 i == list[j][2]
      <4>1. b \in Class /\ i \in 1 .. Len(members[b]) /\ Inherits(prog, d, b)
        BY <1>1, ObjectIs DEF Sized
      <4>2. b \in Family(d)
        BY <1>2, <4>1, InheritsIs DEF Sized
      <4>3. IsComplete(b)
        BY <1>2, <2>2, <4>2, CompleteIs DEF Family
      <4>4. ASSUME NEW x, x = b, NEW y, y = i, NEW z, z = d
            PROVE  Width(members[x][y])' = Width(members[x][y]) /\ Start(z, x, y)' = Start(z, x, y)
        BY <1>2, <2>2, <4>1, <4>2, <4>3, <4>4, WidthStays, StartStays
      <4> QED BY <1>1, <4>4
    <3> DEFINE w(j) == [k \in 1 .. Width(members[list[j][1]][list[j][2]]) |-> <<c, 0 - j, k>>]
               s(j) == Start(d, list[j][1], list[j][2])
    <3>2. \A j \in 1 .. Len(list) : w(j)' = w(j) /\ s(j)' = s(j)
      BY <1>1, <3>1
    <3>3. \A j \in 1 .. Len(list) : Shows(t.object[c][1], s(j), w(j))
      BY <2>1 DEF ListShown
    <3> HIDE DEF w, s
    <3>4. \A j \in 1 .. Len(list) : Shows(t.object[c][1], s(j), w(j))'
      BY <3>2, <3>3 DEF Shows
    <3> QED BY <1>1, <3>4 DEF ListShown, w, s
  <2>5. RestShown(t, c)'
    <3>1. ASSUME NEW x, x = d, NEW b \in Family(x), NEW i \in Distinct(b)
          PROVE  /\ Start(x, b, i)' = Start(x, b, i)
                 /\ MemberValue(t, b, i)' = MemberValue(t, b, i)
                 /\ Uncovered(c, b, i)' = Uncovered(c, b, i)
      <4>1. b \in Class /\ IsComplete(b)
        BY <1>2, <2>2, <3>1, CompleteIs DEF Family
      <4>2. i \in 1 .. Len(members[b])
        BY <4>1, DistinctIs DEF Sized
      <4> QED BY <1>1, <1>2, <2>2, <3>1, <4>1, <4>2, ProgramStays, StartStays, MemberValueStays
    <3> QED BY <1>1, <2>1, <3>1 DEF RestShown, Shows
  <2> QED BY <1>1, <2>1, <2>3, <2>4, <2>5 DEF FilledRight
<1> QED BY <1>3, <1>4

\* What was settled stays so, whatever else becomes known.
LEMMA SettledStays ==
  ASSUME Sized, SizesStay, NEW t, t.packed \subseteq Class, t.ready \subseteq Class, Settled(t)
  PROVE  Settled(t)'
<1>1. \A c \in t.packed : PlacedRight(t, c)'
  BY PlacedStays DEF Settled
<1>2. PlacesKnown(t)'
  BY ProgramStays DEF Settled, PlacesKnown, SizesStay, Reliable
<1>3. \A d \in t.ready : BuiltRight(t, d)'
  BY BuiltStaysRight DEF Settled
<1>4. \A c \in Class : t.object[c] # << >> => FilledRight(t, c)'
  BY FilledStaysRight DEF Settled
<1> QED BY <1>1, <1>2, <1>3, <1>4 DEF Settled

-----------------------------------------------------------------------------
(***************************************************************************)
(* The inductive invariant of the values: the layout is a settled one.     *)
(***************************************************************************)
IsNow(t) ==
  /\ t.pos = pos /\ t.rel = rel /\ t.packed = packed /\ t.ready = ready /\ t.value = value
  /\ t.object = object /\ t.known = known

SettledNow == \E t : IsNow(t) /\ Settled(t)

\* A layout stays settled if more of its classes are known.
\* A step that leaves the layout alone leaves it settled.
LEMMA SettledKept ==
  ASSUME LayoutInv, SettledNow, SizesStay, UNCHANGED layout, known' = known
  PROVE  SettledNow'
<1>1. PICK t : IsNow(t) /\ Settled(t)
  BY DEF SettledNow
<1>2. t.packed \subseteq Class /\ t.ready \subseteq Class
  BY <1>1 DEF IsNow, LayoutInv, LaidOut, LayoutTypes
<1>3. Settled(t)'
  BY <1>1, <1>2, SettledStays, SizedNow DEF LayoutInv
<1>4. IsNow(t)'
  BY <1>1 DEF IsNow, layout
<1> QED BY <1>3, <1>4 DEF SettledNow

\* So does one that works on the layout while it labels a class.
\* So does one that works on the layout while it labels a class.
LEMMA SettledAfter ==
  ASSUME LayoutInv, SettledNow, SizesStay, NEW k, \A d \in Class : known[d] \subseteq k[d],
         NEW f, NEW t, Begun(t, k, f), NEW u \in Layouts, Later(t, u), LayoutIs(u), known' = k
  PROVE  SettledNow'
<1>1. PICK s : IsNow(s) /\ Settled(s)
  BY DEF SettledNow
<1>2. Settled(t)
  <2>1. /\ t.pos = s.pos /\ t.rel = s.rel /\ t.packed = s.packed /\ t.ready = s.ready
        /\ t.value = s.value /\ t.object = s.object
        /\ \A c \in Class : s.known[c] \subseteq t.known[c]
    BY <1>1 DEF IsNow, Begun
  <2> QED BY <1>1, <2>1, SettledMore
<1>3. Settled(u) /\ u.known = k
  BY <1>2 DEF Later, AddsTo, Begun
<1>4. Settled(u)'
  BY <1>3, LayoutIsTyped, SettledStays, SizedNow DEF LayoutInv
<1>5. IsNow(u)'
  BY <1>3 DEF IsNow, LayoutIs
<1> QED BY <1>4, <1>5 DEF SettledNow

\* At the beginning nothing is placed, and nothing built.
\* At the beginning nothing is placed, and nothing built.
LEMMA SettledInit == Init => SettledNow
<1> SUFFICES ASSUME Init PROVE SettledNow
  OBVIOUS
<1> DEFINE t == LayoutNow(known, 0)
<1>1. /\ pos = [c \in Class |-> [i \in DOMAIN members[c] |-> UNRELIABLEPOS]]
      /\ packed = {} /\ ready = {} /\ object = [c \in Class |-> << >>]
  BY DEF Init
<1>2. IsNow(t)
  BY DEF IsNow, LayoutNow
<1>3. /\ t.packed = {} /\ t.ready = {} /\ \A c \in Class : t.object[c] = << >>
      /\ t.pos = pos
  BY <1>1 DEF LayoutNow
<1>4. \A c \in Class : DOMAIN members[c] = 1 .. Len(members[c])
  <2>1. LabelTypes
    BY LaidOutInit DEF LayoutInv, RoundsInv
  <2> QED BY <2>1, ProgramTypes
<1>5. \A c \in Class : \A i \in 1 .. Len(members[c]) : t.pos[c][i] = UNRELIABLEPOS
  BY <1>1, <1>3, <1>4
<1> HIDE DEF t
<1>6. PlacesKnown(t)
  BY <1>5 DEF PlacesKnown, Reliable
<1>7. Settled(t)
  BY <1>3, <1>6 DEF Settled
<1> QED BY <1>2, <1>7 DEF SettledNow

\* The layout is settled after every step.
\* The layout is settled after every step.
LEMMA SettledNext == LayoutInv /\ SettledNow /\ [Next]_allvars => SettledNow'
<1> SUFFICES ASSUME LayoutInv, SettledNow, [Next]_allvars PROVE SettledNow'
  OBVIOUS
<1>1. RoundsInv /\ LabelTypes /\ bits \in [Class -> Size] /\ konst \in Constants
      /\ SizesRight(bits, base)
  BY DEF LayoutInv, RoundsInv, SizesRight, LabelTypes, Constants
<1>2. ASSUME prog' = prog, UNCHANGED sizes,
             \A c \in Class : konst[c] # Unknown => konst'[c] = konst[c]
      PROVE  SizesStay
  <2>1. \A c : IsComplete(c)' = IsComplete(c)
    BY <1>2 DEF sizes, IsComplete
  <2> QED BY <1>2, <2>1 DEF SizesStay, sizes
<1>3. ASSUME NEW c \in Class, SetBitSize(c), UNCHANGED layout PROVE SettledNow'
  <2>1. /\ prog' = prog /\ SizesRight(bits', base') /\ konst' = konst /\ known' = known
        /\ \A x \in Class : bits[x] >= 0 =>
             bits'[x] = bits[x] /\ (base[x] # Unknown => base'[x] # Unknown)
    BY <1>1, <1>3, SetBitSizeIsRight DEF SetBitSize, labels
  <2>2. ASSUME NEW x \in Class, IsComplete(x) PROVE IsComplete(x)' /\ base'[x] = base[x]
    <3>1. bits[x] >= 0 /\ base[x] # Unknown /\ bits'[x] = bits[x] /\ base'[x] # Unknown
      BY <2>1, <2>2 DEF IsComplete
    <3>2. /\ base[x] = OwnBits(x, bits, konst) /\ base'[x] = OwnBits(x, bits', konst)
          /\ bits' \in [Class -> Size]
      BY <1>1, <2>1, <3>1 DEF SizesRight, RightFor
    <3>3. Grows(bits, konst, bits', konst)
      BY <2>1 DEF Grows
    <3>4. OwnBits(x, bits', konst) = OwnBits(x, bits, konst)
      BY <1>1, <3>1, <3>2, <3>3, OwnIsStable
    <3> QED BY <3>1, <3>2, <3>4 DEF IsComplete
  <2>3. SizesStay
    BY <2>1, <2>2 DEF SizesStay
  <2> QED BY <1>3, <2>1, <2>3, SettledKept
<1>4. ASSUME NEW c \in Class, CheckAndLabel(c) PROVE SettledNow'
  <2>1. PICK t, u \in Layouts :
           /\ Begun(t, KnownThen(c), c) /\ Later(t, u)
           /\ Label(c, u.waits, u.errors) /\ LayoutIs(u)
    BY <1>4, CheckAndLabelIs
  <2>2. prog' = prog /\ UNCHANGED sizes /\ known' = KnownThen(c)
        /\ konst' = [konst EXCEPT ![c] = ConstantOf(c)]
    BY <2>1 DEF Label, KnownThen
  <2>3. \A d \in Class : known[d] \subseteq KnownThen(c)[d]
    BY KnownThenIs
  <2>4. \A d \in Class : konst[d] # Unknown => konst'[d] = konst[d]
    <3>1. konst[c] # Unknown => ConstantOf(c) = konst[c]
      BY DEF ConstantOf
    <3> QED BY <1>1, <2>2, <3>1 DEF Constants
  <2>5. SizesStay
    BY <1>2, <2>2, <2>4
  <2> DEFINE k == KnownThen(c)
  <2> QED BY <2>1, <2>2, <2>3, <2>5, SettledAfter
<1>5. ASSUME prog' = prog, UNCHANGED <<sizes, labels, layout>> PROVE SettledNow'
  <2>1. SizesStay /\ known' = known
    BY <1>2, <1>5 DEF labels
  <2> QED BY <1>5, <2>1, SettledKept
<1>6. ASSUME PackAndBuild PROVE SettledNow'
  <2>1. PICK t, w \in Layouts :
           /\ Begun(t, known, 0) /\ Later(t, w) /\ EndPasses(w.waits, w.errors)
           /\ IF errors = 0 THEN LayoutIs(w) ELSE UNCHANGED layout
    BY <1>6, PackAndBuildIs
  <2>2. prog' = prog /\ UNCHANGED <<sizes, labels>> /\ known' = known
    BY <2>1 DEF EndPasses, labels
  <2>3. CASE LayoutIs(w)
    <3>1. SizesStay
      BY <1>2, <2>2 DEF labels
    <3> QED BY <2>1, <2>2, <2>3, <3>1, SettledAfter
  <2>4. CASE UNCHANGED layout
    BY <1>5, <2>2, <2>4
  <2> QED BY <2>1, <2>3, <2>4
<1>7. ASSUME EndSizing \/ EndFirstLabelling \/ EndRound, UNCHANGED layout PROVE SettledNow'
  <2>1. prog' = prog /\ UNCHANGED <<sizes, labels>>
    BY <1>7 DEF EndSizing, EndFirstLabelling, EndRound
  <2> QED BY <1>5, <1>7, <2>1
<1>8. ASSUME UNCHANGED allvars PROVE SettledNow'
  BY <1>5, <1>8 DEF allvars, vars
<1> QED BY <1>3, <1>4, <1>6, <1>7, <1>8 DEF Next, Done

-----------------------------------------------------------------------------
\* No part of a sum is larger than the sum.
LEMMA PartOfSum ==
  ASSUME NEW T, IsFiniteSet(T), NEW v \in [T -> Nat], NEW x \in T
  PROVE  SumFunction(v) \in Nat /\ v[x] <= SumFunction(v)
<1>1. /\ {} \in SUBSET T /\ {} \in SUBSET {x} /\ {x} \in SUBSET T /\ T \in SUBSET T
      /\ x \notin {} /\ {} \cup {x} = {x} /\ v[x] \in Nat
  OBVIOUS
<1>2. SumOver(v, {} \cup {x}) = v[x] + SumOver(v, {})
  BY <1>1, SumOfOneMore
<1>3. SumOver(v, {}) \in Nat /\ SumOver(v, {x}) \in Nat
  BY <1>1, SumOverPart
<1>4. SumOver(v, T) \in Nat /\ SumOver(v, {x}) <= SumOver(v, T)
  BY <1>1, SumOverPart
<1>5. SumOver(v, T) = SumFunction(v)
  <2>1. [y \in T |-> v[y]] = v
    OBVIOUS
  <2> QED BY <2>1 DEF SumOver
<1> QED BY <1>1, <1>2, <1>3, <1>4, <1>5

\* The members of a class without bits of its own have no bits.
\* The members of a class without bits of its own have no bits.
LEMMA NoOwnBits ==
  ASSUME Sized, NEW c \in Class, OwnBits(c, bits, konst) = 0, NEW i \in 1 .. Len(members[c])
  PROVE  Width(members[c][i]) = 0
<1> DEFINE n == Len(members[c])
           v == Values(c, bits, konst)
<1>1. /\ n \in Nat /\ v \in [1 .. n -> Nat] /\ OwnOf(c, v) = 0
      /\ Width(members[c][i]) = v[i] /\ i \in 1 .. n
  BY OwnWidthIs
<1>2. ~ \E j \in 1 .. n : v[j] < 0
  BY <1>1
<1>3. IsFiniteSet(1 .. n)
  <2>1. n \in Int /\ 1 \in Int
    BY <1>1
  <2> HIDE DEF n
  <2> QED BY <2>1, FS_Interval
<1> HIDE DEF v
<1>4. CASE c \notin prog.unions
  <2>1. SumFunction(v) = 0
    BY <1>1, <1>2, <1>4 DEF OwnOf
  <2> DEFINE T == 1 .. n
  <2>2. v \in [T -> Nat] /\ i \in T /\ IsFiniteSet(T) /\ v[i] \in Nat
    BY <1>1, <1>3
  <2> HIDE DEF T
  <2>3. v[i] <= SumFunction(v)
    BY <2>2, PartOfSum
  <2> QED BY <1>1, <2>1, <2>2, <2>3
<1>5. CASE c \in prog.unions
  <2>1. Max(Range(v)) = 0
    BY <1>1, <1>2, <1>5 DEF OwnOf
  <2>2. Range(v) \in SUBSET Int /\ v[i] \in Range(v) /\ v[i] \in Nat
    BY <1>1 DEF Range
  <2>3. IsFiniteSet(Range(v))
    <3>1. v \in Surjection(1 .. n, Range(v))
      BY <1>1 DEF Surjection, Range
    <3> QED BY <1>3, <3>1, FS_Surjection
  <2>4. v[i] <= Max(Range(v))
    BY <2>2, <2>3, GreatestNumber
  <2> QED BY <1>1, <2>1, <2>2, <2>4
<1> QED BY <1>4, <1>5

\* A class without bits has no member with bits, nor has any of its bases,
\* whether the class is complete or not.
LEMMA NoBitsInFamily ==
  ASSUME Sized, NEW d \in Class, bits[d] = 0, NEW b \in Family(d),
         NEW i \in 1 .. Len(members[b])
  PROVE  Width(members[b][i]) = 0
<1>1. /\ LabelTypes /\ bits \in [Class -> Size] /\ base \in [Class -> Int]
      /\ konst \in Constants /\ SizesRight(bits, base) /\ RightFor(d, bits, base)
  BY DEF Sized, SizesRight, LabelTypes, Constants
<1>2. /\ Linked(d) /\ OwnBits(d, bits, konst) # Unknown /\ WholeSize(d, bits, konst) = 0
      /\ OwnBits(d, bits, konst) \in Nat
  <2>1. OwnBits(d, bits, konst) \in Nat \cup {Unknown}
    BY <1>1, OwnType
  <2> QED BY <1>1, <2>1 DEF RightFor
<1>3. 0 = OwnBits(d, bits, konst) + BasesSum(d, base)
  <2>1. Grows(bits, konst, bits, konst)
    BY DEF Grows
  <2> QED BY <1>1, <1>2, <2>1, WholeIsStable
<1>4. \A x \in BaseSet(d) : x \in Class /\ IsComplete(x) /\ base[x] \in Nat
  <2>1. \A x \in BaseSet(d) : x \in Class /\ IsComplete(x)
    BY <1>1, <1>2, LinkedMeansComplete DEF IsComplete
  <2> QED BY <2>1, CompleteIs
<1>5. BasesSum(d, base) \in Nat
  BY <1>1, <1>4, BasesSumType
<1>6. OwnBits(d, bits, konst) = 0 /\ BasesSum(d, base) = 0
  BY <1>2, <1>3, <1>5
<1>7. CASE b = d
  BY <1>6, <1>7, NoOwnBits
<1>8. CASE b \in BaseSet(d)
  <2> DEFINE T == BaseSet(d)
             f == [x \in T |-> base[x]]
  <2>1. f \in [T -> Nat] /\ b \in T /\ IsFiniteSet(T) /\ f[b] = base[b] /\ base[b] \in Nat
    BY <1>1, <1>4, <1>8, BaseSetIs
  <2>2. SumFunction(f) = 0
    BY <1>6 DEF BasesSum
  <2> HIDE DEF f, T
  <2>3. f[b] <= SumFunction(f)
    BY <2>1, PartOfSum
  <2>4. b \in Class /\ IsComplete(b) /\ base[b] = 0
    BY <1>4, <1>8, <2>1, <2>2, <2>3
  <2>5. OwnBits(b, bits, konst) = 0
    BY <2>4, CompleteIs
  <2> QED BY <2>4, <2>5, NoOwnBits
<1> QED BY <1>7, <1>8 DEF Family

-----------------------------------------------------------------------------
\* Where member i of class b is looked for in class d; w has n bits.
PlaceOf(d, b, i) == pos[b][i] + (IF b = d THEN 0 ELSE rel[d][b])
HasBits(w, n) == w = [k \in 1 .. n |-> w[k]]

\* What the program finds there is what begins there.
LEMMA ReadIs ==
  ASSUME NEW v \in Seq(Bit), NEW d, NEW b, NEW i, NEW w, NEW W \in Nat,
         W = Width(members[b][i]), HasBits(w, W), PlaceOf(d, b, i) \in Int,
         \/ W = 0
         \/ /\ PlaceOf(d, b, i) \in Nat /\ PlaceOf(d, b, i) + W <= Len(v)
            /\ Shows(v, PlaceOf(d, b, i), w)
  PROVE  Read(v, d, b, i) = w
<1> DEFINE s == PlaceOf(d, b, i)
           x == SubSeq(v, s + 1, s + W)
<1>1. Read(v, d, b, i) = x
  BY DEF Read, PlaceOf
<1>2. s \in Int /\ s + 1 \in Int /\ s + W \in Int /\ Len(v) \in Nat
  OBVIOUS
<1>3. W = 0 \/ (s \in Nat /\ s + W <= Len(v) /\ Shows(v, s, w))
  OBVIOUS
<1> HIDE DEF s
<1>4. \A k \in s + 1 .. s + W : v[k] \in Bit
  <2>1. CASE W = 0
    <3>1. \A k \in s + 1 .. s + W : FALSE
      BY <1>2, <2>1
    <3> QED BY <3>1
  <2>2. CASE s \in Nat /\ s + W <= Len(v)
    <3>1. \A k \in s + 1 .. s + W : k \in 1 .. Len(v)
      BY <1>2, <2>2
    <3> QED BY <3>1
  <2> QED BY <1>3, <2>1, <2>2
<1>5. x \in Seq(Bit) /\ Len(x) = W /\ \A k \in 1 .. W : x[k] = v[s + k]
  <2> DEFINE p == s + 1
             q == s + W
  <2>1. p \in Int /\ q \in Int /\ \A k \in p .. q : v[k] \in Bit
    BY <1>2, <1>4
  <2>2. (q - p) + 1 = W /\ (IF p <= q THEN (q - p) + 1 ELSE 0) = W
        /\ \A k \in 1 .. W : (p + k) - 1 = s + k
    <3>1. (q - p) + 1 = W
      BY <1>2
    <3>2. ~ (p <= q) => W = 0
      BY <1>2
    <3>3. \A k \in 1 .. W : (p + k) - 1 = s + k
      BY <1>2
    <3> HIDE DEF p, q
    <3> QED BY <3>1, <3>2, <3>3
  <2> HIDE DEF p, q
  <2>3. /\ SubSeq(v, p, q) \in Seq(Bit)
        /\ Len(SubSeq(v, p, q)) = IF p <= q THEN (q - p) + 1 ELSE 0
        /\ \A k \in 1 .. (q - p) + 1 : SubSeq(v, p, q)[k] = v[(p + k) - 1]
    <3>1. /\ SubSeq(v, p, q) \in Seq(Bit)
          /\ Len(SubSeq(v, p, q)) = IF p <= q THEN q - p + 1 ELSE 0
          /\ \A k \in 1 .. q - p + 1 : SubSeq(v, p, q)[k] = v[p + k - 1]
      BY <2>1, SubSeqProperties
    <3>2. q - p + 1 = (q - p) + 1 /\ \A k \in 1 .. W : p + k - 1 = (p + k) - 1
      BY <2>1
    <3> QED BY <2>2, <3>1, <3>2
  <2>4. SubSeq(v, p, q) = x
    BY DEF p, q
  <2> QED BY <2>2, <2>3, <2>4
<1> HIDE DEF x
<1>6. x = [k \in 1 .. W |-> x[k]]
  BY <1>5
<1>7. \A k \in 1 .. W : x[k] = w[k]
  <2>1. CASE W = 0
    BY <2>1
  <2>2. CASE Shows(v, s, w)
    <3>1. DOMAIN w = 1 .. W
      BY DEF HasBits
    <3> QED BY <1>5, <2>2, <3>1 DEF Shows
  <2> QED BY <1>3, <2>1, <2>2
<1> QED BY <1>1, <1>6, <1>7, Zenon DEF HasBits

-----------------------------------------------------------------------------
\* What lies where the member begins is what is read for it.
\* What lies where the member begins is what is read for it.
LEMMA MemberIsRead ==
  ASSUME LayoutInv, NEW t \in Layouts, IsNow(t), Sound(t), NEW d \in Class, NEW v \in Seq(Bit),
         bits[d] = 0 \/ (d \in t.ready /\ Len(v) = bits[d]),
         NEW b \in Family(d), NEW i \in 1 .. Len(members[b]),
         NEW w, HasBits(w, Width(members[b][i])),
         bits[d] # 0 => Shows(v, Start(d, b, i), w)
  PROVE  Read(v, d, b, i) = w
<1> DEFINE W == Width(members[b][i])
           s == PlaceOf(d, b, i)
<1>1. Sized /\ LabelTypes /\ b \in Class
  <2>1. Sized /\ LabelTypes
    BY SizedNow DEF LayoutInv, RoundsInv
  <2> QED BY <2>1, BaseSetIs DEF Family
<1>2. s \in Int
  <2>1. pos[b] \in Seq(Int) /\ Len(pos[b]) = Len(members[b]) /\ rel[d][b] \in Int
    BY <1>1 DEF LayoutInv, LaidOut, LayoutTypes, LaidOutFor
  <2>2. pos[b][i] \in Int
    BY <2>1
  <2> QED BY <2>1, <2>2 DEF PlaceOf
<1>3. CASE bits[d] = 0
  <2>1. W = 0 /\ W \in Nat
    BY <1>1, <1>3, NoBitsInFamily
  <2> HIDE DEF s
  <2>2. PlaceOf(d, b, i) \in Int
    BY <1>2 DEF s
  <2> QED BY <2>1, <2>2, ReadIs
<1>4. CASE bits[d] # 0
  <2>1. IsComplete(d) /\ d \in t.ready /\ Len(v) = bits[d]
    BY <1>4 DEF Sound, BuiltRight
  <2>2. /\ W \in Nat /\ Start(d, b, i) \in Nat /\ BaseStart(d, b) \in Nat /\ base[b] \in Nat
        /\ Start(d, b, i) + W <= BaseStart(d, b) + base[b]
        /\ BaseStart(d, b) + base[b] <= bits[d] /\ bits[d] \in Nat
    BY <1>1, <2>1, StartIs
  <2>3. W = 0 \/ s = Start(d, b, i)
    <3>1. t.pos = pos /\ t.rel = rel
      BY DEF IsNow
    <3>2. W # 0 => t.pos[b][i] + (IF b = d THEN 0 ELSE t.rel[d][b]) = Start(d, b, i)
      BY <1>1, <1>4, <2>1, PlacesAre
    <3> QED BY <3>1, <3>2 DEF PlaceOf
  <2>4. Start(d, b, i) + W <= Len(v)
    BY <2>1, <2>2
  <2>5. W = 0 \/ (s \in Nat /\ s + W <= Len(v) /\ Shows(v, s, w))
    BY <1>4, <2>2, <2>3, <2>4
  <2> QED BY <1>2, <2>2, <2>5, ReadIs
<1> QED BY <1>3, <1>4

\* So a settled layout is one in which the default values are read back.
\* So a settled layout is one in which the default values are read back.
LEMMA SettledIsReadBack == LayoutInv /\ SettledNow => DefaultsAreReadBack
<1> SUFFICES ASSUME LayoutInv, SettledNow PROVE DefaultsAreReadBack
  OBVIOUS
<1>1. Sized /\ LabelTypes /\ LaidOut
  BY SizedNow DEF LayoutInv, RoundsInv
<1>2. PICK t \in Layouts : IsNow(t) /\ Settled(t)
  <2> DEFINE u == LayoutNow(known, 0)
  <2>1. Begun(u, known, 0)
    <3>1. known \in [Class -> SUBSET Nat] /\ \A d \in Class : known[d] \subseteq DOMAIN members[d]
      BY <1>1 DEF LabelTypes, LaidOut, LaidOutFor
    <3> QED BY <1>1, <3>1, LayoutNowIs
  <2> HIDE DEF u
  <2>2. u \in Layouts /\ IsNow(u)
    BY <2>1 DEF Begun, IsNow
  <2>3. PICK s : IsNow(s) /\ Settled(s)
    BY DEF SettledNow
  <2>4. Settled(u)
    BY <2>2, <2>3, SettledSame DEF IsNow
  <2> QED BY <2>2, <2>4
<1>3. Sound(t) /\ t.ready = ready /\ t.value = value /\ t.object = object
  BY <1>2 DEF Settled, Sound, IsNow
<1>4. \A b, i : Default(b, i) = MemberValue(t, b, i)
  BY <1>3 DEF Default, MemberValue
<1>5. \A b, i : HasBits(MemberValue(t, b, i), Width(members[b][i]))
  BY DEF MemberValue, HasBits
<1>6. ASSUME NEW d \in ready, NEW b \in Family(d), NEW i \in Distinct(b)
      PROVE  Read(value[d], d, b, i) = Default(b, i)
  <2>1. d \in Class /\ t.value[d] \in Seq(Bit) /\ Len(t.value[d]) = bits[d] /\ d \in t.ready
    BY <1>3, LayoutIsTyped
  <2>2. b \in Class /\ i \in 1 .. Len(members[b])
    <3>1. b \in Class
      BY <1>1, <2>1, BaseSetIs DEF Family
    <3> QED BY <1>1, <3>1, DistinctIs
  <2> DEFINE w == MemberValue(t, b, i)
             v == t.value[d]
  <2>3. bits[d] # 0 => Shows(v, Start(d, b, i), w)
    BY <1>1, <1>3, <2>1, ReadBack
  <2>4. HasBits(w, Width(members[b][i]))
    BY <1>5
  <2>5. Default(b, i) = w
    BY <1>4
  <2>6. d \in Class /\ v \in Seq(Bit) /\ (bits[d] = 0 \/ (d \in t.ready /\ Len(v) = bits[d]))
    BY <2>1
  <2> HIDE DEF w, v
  <2>7. Read(v, d, b, i) = w
    BY <1>2, <1>3, <2>2, <2>3, <2>4, <2>6, MemberIsRead
  <2> QED BY <1>3, <2>5, <2>7 DEF v
<1>7. ASSUME NEW c \in Class, object[c] # << >>
      PROVE  LET d == prog.object[c].of
                 list == prog.object[c].list
                 v == object[c][1]
             IN  /\ \A j \in DOMAIN list :
                      LET w == Read(v, d, list[j][1], list[j][2])
                      IN  w = [k \in DOMAIN w |-> <<c, 0 - j, k>>]
                 /\ \A b \in Family(d) : \A i \in Distinct(b) :
                      Uncovered(c, b, i) => Read(v, d, b, i) = Default(b, i)
  <2> DEFINE d == prog.object[c].of
             list == prog.object[c].list
             v == object[c][1]
  <2>1. FilledRight(t, c) /\ HasObject(c)
    BY <1>2, <1>3, <1>7 DEF Settled, FilledRight
  <2>2. /\ d \in Class /\ DOMAIN list = 1 .. Len(list)
        /\ \A j \in 1 .. Len(list) : /\ list[j][2] \in 1 .. Len(members[list[j][1]])
                                     /\ Inherits(prog, d, list[j][1])
    BY <1>1, <2>1, ObjectIs
  <2>3. v \in Seq(Bit)
    <3>1. object[c] \in Seq(Seq(Bit))
      BY <1>1 DEF LaidOut, LayoutTypes
    <3> QED BY <1>7, <3>1
  <2>4. bits[d] = 0 \/ (d \in t.ready /\ Len(v) = bits[d] /\ ListShown(t, c) /\ RestShown(t, c))
    BY <1>3, <2>1 DEF FilledRight
  <2>5. t.object[c][1] = v
    BY <1>3
  <2>6. ASSUME NEW j \in 1 .. Len(list)
        PROVE  Read(v, d, list[j][1], list[j][2]) =
                 [k \in 1 .. Width(members[list[j][1]][list[j][2]]) |-> <<c, 0 - j, k>>]
    <3> DEFINE b == list[j][1]
               i == list[j][2]
               w == [k \in 1 .. Width(members[b][i]) |-> <<c, 0 - j, k>>]
    <3>1. b \in Family(d) /\ i \in 1 .. Len(members[b])
      BY <1>1, <2>2, InheritsIs
    <3>2. bits[d] # 0 => Shows(v, Start(d, b, i), w)
      BY <2>4, <2>5 DEF ListShown
    <3>3. HasBits(w, Width(members[b][i]))
      BY DEF HasBits
    <3>4. d \in Class /\ (bits[d] = 0 \/ (d \in t.ready /\ Len(v) = bits[d]))
      BY <2>2, <2>4
    <3> HIDE DEF w, b, i, v, d
    <3>5. Read(v, d, b, i) = w
      BY <1>2, <1>3, <2>3, <3>1, <3>2, <3>3, <3>4, MemberIsRead
    <3> QED BY <3>5 DEF w, b, i
  <2>7. ASSUME NEW b \in Family(d), NEW i \in Distinct(b), Uncovered(c, b, i)
        PROVE  Read(v, d, b, i) = Default(b, i)
    <3> DEFINE w == MemberValue(t, b, i)
    <3>1. i \in 1 .. Len(members[b])
      <4>1. b \in Class
        BY <1>1, <2>2, BaseSetIs DEF Family
      <4> QED BY <1>1, <4>1, DistinctIs
    <3>2. bits[d] # 0 => Shows(v, Start(d, b, i), w)
      BY <2>4, <2>5, <2>7 DEF RestShown
    <3>3. HasBits(w, Width(members[b][i])) /\ Default(b, i) = w
      BY <1>4, <1>5
    <3> HIDE DEF w, v, d
    <3>4. Read(v, d, b, i) = w
      BY <1>2, <1>3, <2>2, <2>3, <2>4, <3>1, <3>2, <3>3, MemberIsRead
    <3> QED BY <3>3, <3>4
  <2>8. ASSUME NEW j \in DOMAIN list, NEW x, x = Read(v, d, list[j][1], list[j][2])
        PROVE  x = [k \in DOMAIN x |-> <<c, 0 - j, k>>]
    <3>1. x = [k \in 1 .. Width(members[list[j][1]][list[j][2]]) |-> <<c, 0 - j, k>>]
      BY <2>2, <2>6, <2>8
    <3> QED BY <3>1
  <2> HIDE DEF v, d, list
  <2> QED BY <2>7, <2>8 DEF v, d, list
<1> QED BY <1>6, <1>7 DEF DefaultsAreReadBack, Uncovered

\* Every member of a class has its default value at the place where it will be
\* looked for, in the default value of the class and in a constant of it.
THEOREM DefaultsRead == Spec => []DefaultsAreReadBack
<1>1. Init => LayoutInv /\ SettledNow
  BY LaidOutInit, SettledInit
<1>2. LayoutInv /\ SettledNow /\ [Next]_allvars => LayoutInv' /\ SettledNow'
  BY LayoutNext, SettledNext
<1>3. LayoutInv /\ SettledNow => DefaultsAreReadBack
  BY SettledIsReadBack
<1> QED BY <1>1, <1>2, <1>3, PTL DEF Spec
=============================================================================
