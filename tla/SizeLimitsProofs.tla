-------------------------- MODULE SizeLimitsProofs --------------------------
(***************************************************************************)
(* Proofs about the limits on sizes, for every word, every limit and every *)
(* class.  What the program adds up in words is compared with the same sum *)
(* of numbers, member by member: the total in words is never more than the *)
(* sum, and is the sum itself as long as nothing left its word.            *)
(***************************************************************************)
EXTENDS SizeLimits, Induction

\* A total that is read as an s32.
TotalRange == - (Word \div 2) .. (Word \div 2) - 1

TypeOK ==
  /\ class \in Classes
  /\ at \in 1 .. Len(class.members) + 1
  /\ total \in TotalRange
  /\ verdict \in {"types", "members", "array too big", "class too big", "unknown", "accepted"}

\* No product and no sum leaves its word.
Narrow ==
  /\ \A i \in DOMAIN class.members : TrueArrayBits(class.members[i]) < Word
  /\ TrueTotal < Word \div 2

\* The array types with index below n were let through.
LetThrough(n) ==
  \A i \in DOMAIN class.members :
    i < n => TotalBitSize(class.members[i]) <= Allotted["transient"]

\* While types are sized nothing is added; from then on the total follows the
\* sum of the members before `at'.
Follows ==
  /\ verdict = "types" => total = 0 /\ LetThrough(at)
  /\ verdict = "array too big" =>
       \E i \in DOMAIN class.members :
         TotalBitSize(class.members[i]) > Allotted["transient"]
  /\ verdict \notin {"types", "array too big"} =>
       /\ LetThrough(Len(class.members) + 1)
       /\ Unsigned(total) <= TrueSums[at - 1]
       /\ Narrow => total = TrueSums[at - 1]

\* A verdict on the class is given after its last member.
Judged ==
  /\ verdict \in {"class too big", "unknown", "accepted"} => at = Len(class.members) + 1
  /\ verdict = "unknown" => total = Unknown
  /\ verdict = "class too big" => total = Cycle \/ total > Allotted[class.kind]
  /\ verdict = "accepted" => total <= Allotted[class.kind]

IInv == TypeOK /\ Follows /\ Judged

-----------------------------------------------------------------------------
\* A size in words is never more than the size, and is the size when that is
\* less than a word.
LEMMA WrappingShrinks ==
  ASSUME NEW x \in Nat
  PROVE  Unsigned(x) \in 0 .. Word - 1 /\ Unsigned(x) <= x /\ (x < Word => Unsigned(x) = x)
<1>1. Word \in Nat \ {0}
  BY WordAssumption
<1> QED BY <1>1, Division, SmallRemainder DEF Unsigned

\* What is read back as an s32 is in range, keeps its word, and is the number
\* itself for a number of 31 bits.
LEMMA SignedKeepsWord ==
  ASSUME NEW x \in Int
  PROVE  /\ Signed(x) \in TotalRange
         /\ Unsigned(Signed(x)) = Unsigned(x)
         /\ x \in 0 .. (Word \div 2) - 1 => Signed(x) = x
<1>1. Word \in Nat \ {0} /\ Word \div 2 \in Nat /\ Word = 2 * (Word \div 2)
  BY WordAssumption
<1>2. PICK u \in 0 .. Word - 1 : u = x % Word
  BY <1>1, Division
<1>3. u % Word = u
  BY <1>1, SmallRemainder
<1>4. (u - Word) % Word = u
  <2>1. u - Word \in Int /\ 1 \in Int /\ (u - Word) + (Word * 1) = u
    BY <1>1
  <2>2. ((u - Word) + (Word * 1)) % Word = (u - Word) % Word
    BY <1>1, <2>1, RemainderOfMultiple, Zenon
  <2> QED BY <2>1, <2>2, <1>3
<1>5. x \in 0 .. (Word \div 2) - 1 => u = x
  BY <1>1, <1>2, SmallRemainder
<1> QED BY <1>1, <1>2, <1>3, <1>4, <1>5 DEF Signed, Unsigned, TotalRange

\* The parts of a class.
LEMMA ClassShape ==
  ASSUME class \in Classes
  PROVE  /\ class.kind \in DOMAIN Allotted
         /\ class.members \in Seq(Member)
         /\ Len(class.members) \in Nat
         /\ DOMAIN class.members = 1 .. Len(class.members)
<1>1. class.kind \in DOMAIN Allotted /\ class.members \in Seq(Member)
  BY ClassesAssumption
<1> QED BY <1>1

\* The parts of a data member of a class are numbers.
LEMMA MemberType ==
  ASSUME class \in Classes, NEW i \in DOMAIN class.members
  PROVE  /\ class.kind \in DOMAIN Allotted
         /\ Len(class.members) \in Nat /\ i \in 1 .. Len(class.members)
         /\ TrueArrayBits(class.members[i]) \in Nat
         /\ TrueMemberBits(class.members[i]) \in Nat
<1>1. class.kind \in DOMAIN Allotted /\ class.members \in Seq(Member)
  BY ClassesAssumption
<1>2. class.members[i] \in Member /\ i \in 1 .. Len(class.members) /\ Len(class.members) \in Nat
  BY <1>1
<1> DEFINE m == class.members[i]
<1>3. m.bits \in Nat /\ Items(m) \in Nat
  BY <1>2 DEF Member, Items, Scalar
<1> HIDE DEF m
<1>4. m.bits * Items(m) \in Nat /\ AtomBits * Items(m) \in Nat
  BY <1>3, LimitsAssumption
<1>5. TrueArrayBits(m) \in Nat /\ TrueMemberBits(m) \in Nat
  BY <1>4 DEF TrueArrayBits, TrueMemberBits
<1> QED BY <1>1, <1>2, <1>5 DEF m

\* The sums of numbers are what their definition says, and never decrease.
LEMMA TrueSumsDef ==
  ASSUME class \in Classes
  PROVE  /\ TrueSums \in [0 .. Len(class.members) -> Nat]
         /\ TrueSums[0] = 0
         /\ \A i \in 1 .. Len(class.members) :
              TrueSums[i] = TrueSums[i - 1] + TrueMemberBits(class.members[i])
<1> DEFINE n == Len(class.members)
           f == [i \in 1 .. n |-> TrueMemberBits(class.members[i])]
<1>1. n \in Nat /\ DOMAIN class.members = 1 .. n
  BY ClassesAssumption
<1>2. f \in [1 .. n -> Nat]
  BY <1>1, MemberType
<1> HIDE DEF n
<1>3. PICK g \in [0 .. n -> Nat] :
        g = [i \in 0 .. n |-> IF i = 0 THEN 0 ELSE g[i - 1] + f[i]]
  <2> HIDE DEF f
  <2> QED BY <1>1, <1>2, RunningSums
<1>4. g = [i \in 0 .. n |-> IF i = 0 THEN 0 ELSE g[i - 1] + TrueMemberBits(class.members[i])]
  <2>1. \A i \in 0 .. n : i = 0 \/ f[i] = TrueMemberBits(class.members[i])
    BY <1>1
  <2> HIDE DEF f
  <2> QED BY <1>3, <2>1
<1>5. TrueSums = [i \in 0 .. n |-> IF i = 0 THEN 0
                                   ELSE TrueSums[i - 1] + TrueMemberBits(class.members[i])]
  BY <1>4, Zenon DEF TrueSums, n
<1>6. TrueSums = [i \in 0 .. n |-> IF i = 0 THEN 0 ELSE TrueSums[i - 1] + f[i]]
  <2>1. \A i \in 0 .. n : i = 0 \/ f[i] = TrueMemberBits(class.members[i])
    BY <1>1
  <2> HIDE DEF f
  <2> QED BY <1>5, <2>1
<1>7. TrueSums \in [0 .. n -> Nat]
  <2> HIDE DEF f
  <2> QED BY <1>1, <1>2, <1>6, RunningSumsType
<1>8. TrueSums[0] = 0 /\ \A i \in 1 .. n : TrueSums[i] = TrueSums[i - 1] + TrueMemberBits(class.members[i])
  BY <1>1, <1>5
<1> QED BY <1>7, <1>8 DEF n

\* The sum of the first members is never more than the sum of them all.
LEMMA TrueSumsGrow ==
  ASSUME class \in Classes, NEW m \in 0 .. Len(class.members)
  PROVE  TrueSums[m] <= TrueTotal
<1> DEFINE n == Len(class.members)
           S == {i \in m .. n : TrueSums[m] <= TrueSums[i]}
<1>1. n \in Nat /\ m \in Nat /\ m <= n
  BY ClassShape
<1>2. m \in S
  BY <1>1, TrueSumsDef
<1>3. ASSUME NEW i \in m .. n - 1, i \in S PROVE i + 1 \in S
  <2>1. i \in 0 .. n /\ i + 1 \in 1 .. n /\ i + 1 \in m .. n /\ i + 1 \in DOMAIN class.members
    BY <1>1, ClassShape
  <2>2. TrueSums[i + 1] = TrueSums[i] + TrueMemberBits(class.members[i + 1])
    BY <2>1, TrueSumsDef
  <2>3. TrueMemberBits(class.members[i + 1]) \in Nat
    BY <2>1, MemberType
  <2>4. TrueSums[i] \in Nat /\ TrueSums[m] \in Nat /\ TrueSums[m] <= TrueSums[i]
    BY <1>1, <1>3, <2>1, TrueSumsDef
  <2>5. TrueSums[m] <= TrueSums[i + 1]
    BY <2>2, <2>3, <2>4
  <2> QED BY <2>1, <2>5
<1>4. m .. n \subseteq S
  <2> HIDE DEF S, n
  <2> QED BY <1>1, <1>2, <1>3, IntervalInduction
<1> QED BY <1>1, <1>4 DEF TrueTotal

\* What a member adds is at most its size, and is its size if its array type
\* is less than a word.
LEMMA MemberShrinks ==
  ASSUME class \in Classes, NEW i \in DOMAIN class.members
  PROVE  /\ MemberBits(class.members[i]) \in Nat
         /\ MemberBits(class.members[i]) <= TrueMemberBits(class.members[i])
         /\ TrueArrayBits(class.members[i]) < Word =>
              MemberBits(class.members[i]) = TrueMemberBits(class.members[i])
<1> DEFINE m == class.members[i]
<1>1. TrueArrayBits(m) \in Nat /\ TrueMemberBits(m) \in Nat
  BY MemberType
<1> HIDE DEF m
<1>2. TotalBitSize(m) \in Nat /\ TotalBitSize(m) <= TrueArrayBits(m)
        /\ (TrueArrayBits(m) < Word => TotalBitSize(m) = TrueArrayBits(m))
  BY <1>1, WrappingShrinks DEF TrueArrayBits, TotalBitSize
<1> QED BY <1>1, <1>2 DEF MemberBits, TrueMemberBits, m

\* The ranges of the class, the position and the total.
LEMMA Ranges ==
  ASSUME TypeOK
  PROVE  /\ class \in Classes
         /\ Len(class.members) \in Nat
         /\ DOMAIN class.members = 1 .. Len(class.members)
         /\ at \in Nat /\ 1 <= at /\ at <= Len(class.members) + 1
         /\ total \in Int /\ - (Word \div 2) <= total /\ total <= (Word \div 2) - 1
         /\ class.kind \in DOMAIN Allotted
         /\ Allotted[class.kind] \in Nat /\ Allotted[class.kind] < Word \div 2
<1>1. class \in Classes /\ at \in 1 .. Len(class.members) + 1 /\ total \in TotalRange
  BY DEF TypeOK
<1>2. Word \div 2 \in Nat
  BY WordAssumption
<1> QED BY <1>1, <1>2, ClassShape, LimitsAssumption DEF TotalRange

\* The initial states.
LEMMA InitIInv == Init => IInv
<1> SUFFICES ASSUME Init PROVE IInv
  OBVIOUS
<1>1. class \in Classes /\ Len(class.members) \in Nat
  BY ClassShape DEF Init
<1>2. 0 \in TotalRange
  BY WordAssumption DEF TotalRange
<1> QED BY <1>1, <1>2 DEF Init, IInv, TypeOK, Follows, Judged, LetThrough

\* An array type is sized.
LEMMA SizeTypeStep ==
  ASSUME IInv, at <= Len(class.members), SizeType(class.members[at])
  PROVE  IInv'
<1>1. Len(class.members) \in Nat /\ DOMAIN class.members = 1 .. Len(class.members)
        /\ TypeOK /\ class \in Classes /\ at \in Nat /\ 1 <= at /\ at <= Len(class.members) + 1
  BY Ranges DEF IInv
<1>2. at \in DOMAIN class.members /\ at + 1 \in 1 .. Len(class.members) + 1
  BY <1>1
<1>3. TotalBitSize(class.members[at]) \in Nat
  <2>1. TrueArrayBits(class.members[at]) \in Nat
    BY <1>1, <1>2, MemberType
  <2> QED BY <2>1, WrappingShrinks DEF TotalBitSize, TrueArrayBits
<1>4. Allotted["transient"] \in Nat
  BY LimitsAssumption
<1>5. CASE TotalBitSize(class.members[at]) > Allotted["transient"]
  BY <1>1, <1>2, <1>5 DEF SizeType, IInv, TypeOK, Follows, Judged, TotalBitSize, Unsigned, Items
<1>6. CASE ~ (TotalBitSize(class.members[at]) > Allotted["transient"])
  <2>1. LetThrough(at + 1)
    BY <1>1, <1>2, <1>3, <1>4, <1>6 DEF SizeType, IInv, TypeOK, Follows, LetThrough
  <2> QED BY <1>1, <1>2, <1>6, <2>1 DEF SizeType, IInv, TypeOK, Follows, Judged, LetThrough, TotalBitSize,
            Unsigned, Items
<1> QED BY <1>5, <1>6

\* The members come after their types.
LEMMA EndTypesStep ==
  ASSUME IInv, EndTypes
  PROVE  IInv'
<1>1. Len(class.members) \in Nat /\ DOMAIN class.members = 1 .. Len(class.members)
        /\ TypeOK /\ class \in Classes /\ at \in Nat /\ 1 <= at /\ at <= Len(class.members) + 1
  BY Ranges DEF IInv
<1>2. at = Len(class.members) + 1 /\ total = 0 /\ LetThrough(Len(class.members) + 1)
  BY <1>1 DEF IInv, TypeOK, Follows, EndTypes
<1>3. TrueSums[0] = 0
  BY TrueSumsDef DEF IInv, TypeOK
<1>4. TrueSums' = TrueSums
  BY DEF EndTypes, TrueSums, TrueMemberBits, TrueArrayBits, Items
<1>5. Unsigned(0) <= 0
  BY WrappingShrinks
<1> QED BY <1>1, <1>2, <1>3, <1>4, <1>5 DEF IInv, TypeOK, Follows, Judged, EndTypes, LetThrough,
          TotalBitSize, Unsigned, Items

\* A member is added.
LEMMA AddMemberStep ==
  ASSUME IInv, at <= Len(class.members), AddMember(class.members[at])
  PROVE  IInv'
<1> DEFINE bits == MemberBits(class.members[at])
           sum == TrueSums[at - 1]
<1>1. Len(class.members) \in Nat /\ DOMAIN class.members = 1 .. Len(class.members)
        /\ TypeOK /\ class \in Classes /\ at \in Nat /\ 1 <= at /\ at <= Len(class.members) + 1
  BY Ranges DEF IInv
<1>2. class \in Classes /\ at \in DOMAIN class.members /\ at - 1 \in 0 .. Len(class.members)
        /\ at \in 0 .. Len(class.members)
  BY <1>1
<1>3. sum \in Nat /\ TrueSums[at] = sum + TrueMemberBits(class.members[at]) /\ TrueSums[at] \in Nat
  BY <1>1, <1>2, TrueSumsDef
<1>4. bits \in Nat /\ bits <= TrueMemberBits(class.members[at])
        /\ (Narrow => bits = TrueMemberBits(class.members[at]))
        /\ TrueMemberBits(class.members[at]) \in Nat
  BY <1>2, MemberShrinks, MemberType DEF Narrow
<1>5. total \in Int /\ Unsigned(total) <= sum /\ (Narrow => total = sum)
  BY WordAssumption DEF IInv, TypeOK, Follows, AddMember, TotalRange
<1>6. total' = Signed(total + bits) /\ at' = at + 1 /\ class' = class /\ verdict' = verdict
        /\ verdict = "members"
  BY DEF AddMember
<1> HIDE DEF bits, sum
<1>7. total' \in TotalRange /\ Unsigned(total') = Unsigned(total + bits)
  BY <1>4, <1>5, <1>6, SignedKeepsWord
<1>8. Unsigned(total + bits) <= TrueSums[at]
  <2>1. Word \in Nat \ {0}
    BY WordAssumption
  <2>2. Unsigned(total) \in Nat
    BY <1>5, <2>1, Division DEF Unsigned
  <2>3. Unsigned(total + bits) = Unsigned(Unsigned(total) + bits)
    <3>1. total \in Int /\ bits \in Int
      BY <1>4, <1>5
    <3> QED BY <2>1, <3>1, RemainderOfSum, Zenon DEF Unsigned
  <2>4. Unsigned(total) + bits \in Nat /\ Unsigned(total) + bits <= TrueSums[at]
    BY <1>3, <1>4, <1>5, <2>2
  <2>5. Unsigned(Unsigned(total) + bits) <= Unsigned(total) + bits
           /\ Unsigned(Unsigned(total) + bits) \in Nat
    BY <2>4, WrappingShrinks
  <2> QED BY <1>3, <2>3, <2>4, <2>5
<1>9. Narrow => total' = TrueSums[at]
  <2> SUFFICES ASSUME Narrow PROVE total' = TrueSums[at]
    OBVIOUS
  <2>1. TrueSums[at] <= TrueTotal /\ TrueTotal \in Nat
    <3>1. Len(class.members) \in 0 .. Len(class.members)
      BY <1>1
    <3> QED BY <1>2, <3>1, TrueSumsGrow, TrueSumsDef DEF TrueTotal
  <2>2. total + bits = TrueSums[at]
    BY <1>3, <1>4, <1>5
  <2>3. TrueSums[at] \in 0 .. (Word \div 2) - 1
    BY <1>3, <2>1, WordAssumption DEF Narrow
  <2> QED BY <1>3, <1>6, <2>2, <2>3, SignedKeepsWord
<1>10. TrueSums' = TrueSums /\ TrueTotal' = TrueTotal /\ (Narrow' <=> Narrow)
  <2>1. TrueSums' = TrueSums
    BY <1>6 DEF TrueSums, TrueMemberBits, TrueArrayBits, Items
  <2> QED BY <1>6, <2>1 DEF TrueTotal, Narrow, TrueArrayBits, Items
<1>11. (at + 1) - 1 = at /\ at + 1 \in 1 .. Len(class.members) + 1
  BY <1>1, <1>2
<1>12. Follows'
  BY <1>6, <1>7, <1>8, <1>9, <1>10, <1>11 DEF IInv, Follows, LetThrough, TotalBitSize, Unsigned, Items
<1>13. TypeOK' /\ Judged'
  BY <1>6, <1>7, <1>11 DEF IInv, TypeOK, Judged
<1> QED BY <1>12, <1>13 DEF IInv

\* The class is judged.
LEMMA SizeClassStep ==
  ASSUME IInv, SizeClass
  PROVE  IInv'
<1>1. Len(class.members) \in Nat /\ class.kind \in DOMAIN Allotted /\ TypeOK
  BY ClassShape DEF IInv, TypeOK
<1>2. at = Len(class.members) + 1 /\ total \in Int /\ Allotted[class.kind] \in Int
  <2>1. at > Len(class.members)
    BY DEF SizeClass
  <2> QED BY <1>1, <2>1, Ranges
<1>3. TrueSums' = TrueSums /\ TrueTotal' = TrueTotal /\ (Narrow' <=> Narrow)
  <2>1. TrueSums' = TrueSums
    BY SMTT(20), ZenonT(30) DEF SizeClass, TrueSums, TrueMemberBits, TrueArrayBits, Items
  <2> QED BY <2>1 DEF SizeClass, TrueTotal, Narrow, TrueArrayBits, Items
<1>4. verdict = "members" /\ verdict' \in {"unknown", "class too big", "accepted"}
        /\ UNCHANGED <<class, at, total>>
  BY DEF SizeClass
<1>5. Follows'
  BY <1>3, <1>4 DEF IInv, Follows, LetThrough, TotalBitSize, Unsigned, Items
<1>6. Judged'
  <2>1. verdict' = "unknown" => total = Unknown
    BY DEF SizeClass
  <2>2. verdict' = "class too big" => total = Cycle \/ total > Allotted[class.kind]
    BY DEF SizeClass
  <2>3. verdict' = "accepted" => total <= Allotted[class.kind]
    BY <1>2 DEF SizeClass
  <2> QED BY <1>2, <1>4, <2>1, <2>2, <2>3 DEF Judged
<1>7. TypeOK'
  BY <1>4 DEF IInv, TypeOK
<1> QED BY <1>5, <1>6, <1>7 DEF IInv

\* The types come in range, the total follows the sum, and the verdict is the
\* one the total deserves.
THEOREM Invariance == Spec => []IInv
<1>1. IInv /\ [Next]_vars => IInv'
  <2> SUFFICES ASSUME IInv, [Next]_vars PROVE IInv'
    OBVIOUS
  <2>1. CASE at <= Len(class.members) /\ SizeType(class.members[at])
    BY <2>1, SizeTypeStep
  <2>2. CASE at <= Len(class.members) /\ AddMember(class.members[at])
    BY <2>2, AddMemberStep
  <2>3. CASE EndTypes
    BY <2>3, EndTypesStep
  <2>4. CASE SizeClass
    BY <2>4, SizeClassStep
  <2>5. CASE UNCHANGED vars
    <3>1. TrueSums' = TrueSums
      BY <2>5 DEF vars, TrueSums, TrueMemberBits, TrueArrayBits, Items
    <3> QED BY <2>5, <3>1 DEF vars, IInv, TypeOK, Follows, Judged, LetThrough, TotalBitSize, Unsigned, Items,
              Narrow, TrueTotal, TrueArrayBits
  <2> QED BY <2>1, <2>2, <2>3, <2>4, <2>5 DEF Next, Done
<1> QED BY InitIInv, <1>1, PTL DEF Spec

-----------------------------------------------------------------------------
\* A size error is never a false one, whatever wrapped round before it.
THEOREM RefusalsAreRight == Spec => []RefusedIsTooBig
<1>1. IInv => RefusedIsTooBig
  <2> SUFFICES ASSUME IInv PROVE RefusedIsTooBig
    OBVIOUS
  <2>1. class \in Classes /\ Len(class.members) \in Nat /\ class.kind \in DOMAIN Allotted
    BY ClassShape DEF IInv, TypeOK
  <2>2. Allotted["transient"] \in Nat /\ Allotted[class.kind] \in 0 .. (Word \div 2) - 1
    BY <2>1, LimitsAssumption
  <2>3. ASSUME verdict = "array too big" PROVE ~ ArraysFit
    <3>1. PICK i \in DOMAIN class.members : TotalBitSize(class.members[i]) > Allotted["transient"]
      BY <2>3 DEF IInv, Follows
    <3>2. TrueArrayBits(class.members[i]) \in Nat
      BY <2>1, MemberType
    <3>3. TotalBitSize(class.members[i]) <= TrueArrayBits(class.members[i])
            /\ TotalBitSize(class.members[i]) \in Nat
      BY <3>2, WrappingShrinks DEF TotalBitSize, TrueArrayBits
    <3> QED BY <2>2, <3>1, <3>2, <3>3 DEF ArraysFit
  <2>4. ASSUME verdict \in {"class too big", "unknown"} PROVE ~ Fits
    <3>1. Unsigned(total) <= TrueTotal /\ TrueTotal \in Nat
      <4>1. at = Len(class.members) + 1 /\ Unsigned(total) <= TrueSums[at - 1]
        BY <2>4 DEF IInv, Follows, Judged
      <4>2. at - 1 = Len(class.members) /\ Len(class.members) \in 0 .. Len(class.members)
        BY <2>1, <4>1
      <4> QED BY <2>1, <4>1, <4>2, TrueSumsDef DEF TrueTotal
    <3>2. total \in Int /\ (total = Unknown \/ total = Cycle \/ total > Allotted[class.kind])
      BY <2>4, Ranges DEF IInv, Judged
    <3>3. Word \in Nat /\ Word = 2 * (Word \div 2) /\ Word > 24
      BY WordAssumption
    <3>4. total \in TotalRange
      BY DEF IInv, TypeOK
    <3>5. total \in Nat => Unsigned(total) = total
      BY <3>2, <3>3, <3>4, WrappingShrinks DEF TotalRange
    <3>6. ~ (total \in Nat) => Unsigned(total) = total + Word
      <4> SUFFICES ASSUME ~ (total \in Nat) PROVE Unsigned(total) = total + Word
        OBVIOUS
      <4>0. 1 \in Int /\ Word \in Nat \ {0}
        BY <3>3
      <4>1. Unsigned(total + (Word * 1)) = Unsigned(total)
        BY <3>2, <4>0, RemainderOfMultiple, Zenon DEF Unsigned
      <4>2. total + (Word * 1) = total + Word /\ total + Word \in 0 .. Word - 1
        BY <3>2, <3>3, <3>4 DEF TotalRange
      <4> QED BY <3>3, <4>1, <4>2, WrappingShrinks
    <3>7. Unsigned(total) > Allotted[class.kind]
      BY <2>2, <3>2, <3>3, <3>5, <3>6 DEF Unknown, Cycle
    <3>8. TrueTotal > Allotted[class.kind]
      BY <2>2, <3>1, <3>2, <3>3, <3>5, <3>6, <3>7
    <3> QED BY <2>2, <3>1, <3>8 DEF Fits
  <2> QED BY <2>3, <2>4 DEF RefusedIsTooBig
<1> QED BY Invariance, <1>1, PTL

\* Where no product or sum leaves its word, what is accepted fits.
THEOREM AcceptedIsRight == Spec => []NarrowAcceptedFits
<1>1. IInv => NarrowAcceptedFits
  <2> SUFFICES ASSUME IInv, Narrow, verdict = "accepted" PROVE Fits
    BY DEF NarrowAcceptedFits, Narrow
  <2>1. class \in Classes /\ Len(class.members) \in Nat /\ DOMAIN class.members = 1 .. Len(class.members)
    BY ClassShape DEF IInv, TypeOK
  <2>2. TrueTotal <= Allotted[class.kind]
    <3>1. at - 1 = Len(class.members)
      BY <2>1 DEF IInv, Judged
    <3> QED BY <3>1 DEF IInv, Follows, Judged, TrueTotal
  <2>3. ASSUME NEW i \in DOMAIN class.members
        PROVE  TrueArrayBits(class.members[i]) <= Allotted["transient"]
    <3>1. TrueArrayBits(class.members[i]) \in Nat /\ i < Len(class.members) + 1
      BY <2>1, MemberType
    <3>2. TotalBitSize(class.members[i]) = TrueArrayBits(class.members[i])
      BY <3>1, WrappingShrinks DEF Narrow, TotalBitSize, TrueArrayBits
    <3>3. LetThrough(Len(class.members) + 1)
      BY DEF IInv, Follows
    <3> QED BY <3>1, <3>2, <3>3 DEF LetThrough
  <2> QED BY <2>2, <2>3 DEF Fits, ArraysFit
<1> QED BY Invariance, <1>1, PTL
=============================================================================
