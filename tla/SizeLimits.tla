----------------------------- MODULE SizeLimits -----------------------------
(***************************************************************************)
(* The limits on sizes.  The size of every array type and the total of the *)
(* data members of a class are computed in machine words and compared with *)
(* the bits that are allotted: an array with those of a transient, a class *)
(* with those of its kind.  An element in a transient takes a whole atom,  *)
(* whatever its own size.  The first error ends the compilation here.      *)
(***************************************************************************)
EXTENDS Integers, Sequences

CONSTANTS
  Word,      \* 2^32: a size is a u32 or an s32
  Allotted,  \* the bits allotted to a "quark", an "element" and a "transient"
  AtomBits,  \* BITSPERATOM
  Classes    \* the classes to try: a kind and a sequence of data members

Scalar == -1    \* NONARRAYSIZE
Unknown == -2   \* UNKNOWNSIZE
Cycle == -12    \* CYCLEFLAG

\* A data member: whether its class is an element, the bits of one item, and
\* the size of the array.
Member == [isElement : BOOLEAN, bits : Nat, n : Nat \cup {Scalar}]

ASSUME WordAssumption == Word \in Nat /\ Word % 2 = 0 /\ Word > 24
ASSUME LimitsAssumption ==
  Allotted \in [{"quark", "element", "transient"} -> 0 .. Word \div 2 - 1] /\ AtomBits \in Nat
ASSUME ClassesAssumption ==
  \A c \in Classes : c.kind \in DOMAIN Allotted /\ c.members \in Seq(Member)

VARIABLES
  class,    \* the class
  at,       \* the data member that is next
  total,    \* totalsizes: the bits of those that were added
  verdict   \* "types" while the array types are sized, "members" while the
            \* members are added, then how it ended; the array or class at fault

vars == <<class, at, total, verdict>>

Unsigned(x) == x % Word

Signed(x) == IF Unsigned(x) < Word \div 2 THEN Unsigned(x) ELSE Unsigned(x) - Word

Items(m) == IF m.n = Scalar THEN 1 ELSE m.n

\* getTotalBitSize
TotalBitSize(m) == Unsigned(m.bits * Items(m))

\* The bits that a member adds to those of its class.
MemberBits(m) ==
  IF class.kind = "transient" /\ m.isElement THEN AtomBits * Items(m) ELSE TotalBitSize(m)

Init == class \in Classes /\ at = 1 /\ total = 0 /\ verdict = "types"

\* Mutant: an array of exactly the bits allotted is refused.
BugRefusesFull(m) ==
  /\ verdict = "types"
  /\ IF TotalBitSize(m) >= Allotted["transient"]
     THEN verdict' = "array too big" /\ at' = at
     ELSE verdict' = verdict /\ at' = at + 1
  /\ UNCHANGED <<class, total>>

\* setSizesOfNonClassAndArrays for the type of the next member.
SizeType(m) ==
  /\ verdict = "types"
  /\ IF TotalBitSize(m) > Allotted["transient"]
     THEN verdict' = "array too big" /\ at' = at
     ELSE verdict' = verdict /\ at' = at + 1
  /\ UNCHANGED <<class, total>>

EndTypes ==
  /\ verdict = "types" /\ at > Len(class.members)
  /\ verdict' = "members" /\ at' = 1
  /\ UNCHANGED <<class, total>>

\* getTotalVariableSymbolsBitSize: the next member is added.
AddMember(m) ==
  /\ verdict = "members"
  /\ total' = Signed(total + MemberBits(m)) /\ at' = at + 1
  /\ UNCHANGED <<class, verdict>>

\* Mutant: the limit of an element is that of a transient.
BugOneLimit ==
  /\ verdict = "members" /\ at > Len(class.members)
  /\ verdict' = IF total = Unknown THEN "unknown"
                ELSE IF total = Cycle \/ total > Allotted["transient"] THEN "class too big"
                ELSE "accepted"
  /\ UNCHANGED <<class, at, total>>

\* setUTISizes for the class; a negative total that is not a flag leaves it
\* without bits of its own.
SizeClass ==
  /\ verdict = "members" /\ at > Len(class.members)
  /\ verdict' = IF total = Unknown THEN "unknown"
                ELSE IF total = Cycle \/ total > Allotted[class.kind] THEN "class too big"
                ELSE "accepted"
  /\ UNCHANGED <<class, at, total>>

Done == verdict \notin {"types", "members"} /\ UNCHANGED vars

Next ==
  \/ at <= Len(class.members) /\ (SizeType(class.members[at]) \/ AddMember(class.members[at]))
  \/ EndTypes \/ SizeClass
  \/ Done

Spec == Init /\ [][Next]_vars

-----------------------------------------------------------------------------
\* The sizes as numbers.
TrueArrayBits(m) == m.bits * Items(m)
TrueMemberBits(m) ==
  IF class.kind = "transient" /\ m.isElement THEN AtomBits * Items(m) ELSE TrueArrayBits(m)
TrueSums[i \in 0 .. Len(class.members)] ==
  IF i = 0 THEN 0 ELSE TrueSums[i - 1] + TrueMemberBits(class.members[i])
TrueTotal == TrueSums[Len(class.members)]

ArraysFit == \A i \in DOMAIN class.members :
               TrueArrayBits(class.members[i]) <= Allotted["transient"]
Fits == ArraysFit /\ TrueTotal <= Allotted[class.kind]

\* A size error is never a false one: wrapping round, the array or the class
\* that it names can only seem to be smaller than it is.
RefusedIsTooBig ==
  /\ verdict = "array too big" => ~ ArraysFit
  /\ verdict \in {"class too big", "unknown"} => ~ Fits

\* What is accepted fits where no product or sum leaves its word: each array
\* is then checked on its own, and the class with the atoms its elements take.
NarrowAcceptedFits ==
  /\ \A i \in DOMAIN class.members : TrueArrayBits(class.members[i]) < Word
  /\ TrueTotal < Word \div 2
  /\ verdict = "accepted"
  => Fits

\* "Trying to exceed allotted bit size": nothing that does is accepted.
AcceptedFits == verdict = "accepted" => Fits
=============================================================================
