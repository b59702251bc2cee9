--------------------------- MODULE PrimitiveTypes ---------------------------
(***************************************************************************)
(* The primitive types of the language and the conversions between them.   *)
(* A type is a kind and a size in bits.  The values of a type are numbers: *)
(* a Unary is the number of its ones, a Bool is 0 or 1, and a value of     *)
(* Bits is the number its pattern spells.  What a conversion computes is   *)
(* the work of CastOps.h, which is outside the repository.                 *)
(***************************************************************************)
EXTENDS Integers, FiniteSets

CONSTANTS
  MAXBITSPERINT,   \* the bits of the smaller machine word, 32
  MAXBITSPERLONG   \* the bits of the larger one, 64

ASSUME WordsAssumption ==
  MAXBITSPERINT \in Nat /\ MAXBITSPERINT >= 4 /\ MAXBITSPERLONG = 2 * MAXBITSPERINT

Numeric == {"Int", "Unsigned", "Unary"}
Kinds == Numeric \cup {"Bool", "Bits"}

Type(kinds) == [kind : kinds, size : 1 .. MAXBITSPERLONG]

TypeOf(k, s) == [kind |-> k, size |-> s]

\* 2 ^ n: as a recursive function it is one that can be proved about.
TwoTo[n \in Nat] == IF n = 0 THEN 1 ELSE 2 * TwoTo[n - 1]

Larger(a, b) == IF a > b THEN a ELSE b
Smaller(a, b) == IF a < b THEN a ELSE b

LogBase2(n) == CHOOSE k \in 0 .. MAXBITSPERLONG : TwoTo[k] <= n /\ n < TwoTo[k + 1]

\* calcWordSize
WordSize(bits) == IF bits <= MAXBITSPERINT THEN MAXBITSPERINT ELSE MAXBITSPERLONG

------------------------------------------------------------------------------
\* The values of a type of each kind, of s bits.

IntValues(s) == -TwoTo[s - 1] .. TwoTo[s - 1] - 1
UnsignedValues(s) == 0 .. TwoTo[s] - 1
UnaryValues(s) == 0 .. s
BoolValues(s) == {0, 1}
BitsValues(s) == 0 .. TwoTo[s] - 1

Values(t) ==
  CASE t.kind = "Int" -> IntValues(t.size)
    [] t.kind = "Unsigned" -> UnsignedValues(t.size)
    [] t.kind = "Unary" -> UnaryValues(t.size)
    [] t.kind = "Bool" -> BoolValues(t.size)
    [] t.kind = "Bits" -> BitsValues(t.size)

Clamp(n, t) ==
  LET low == IF t.kind = "Int" THEN -TwoTo[t.size - 1] ELSE 0
      high == CASE t.kind = "Int" -> TwoTo[t.size - 1] - 1
                [] t.kind = "Unary" -> t.size
                [] t.kind = "Bool" -> 1
                [] OTHER -> TwoTo[t.size] - 1
  IN Smaller(Larger(n, low), high)

\* The bits of value n of type t, as a number.
Pattern(n, t) ==
  CASE t.kind = "Unary" -> TwoTo[n] - 1
    [] t.kind = "Bool" -> n * (TwoTo[t.size] - 1)
    [] OTHER -> n % TwoTo[t.size]

\* What value n of type t becomes as one of the kind, of s bits.  Numbers
\* saturate.  Bits are an Int with a sign or without, as CastOps.h has it; an
\* Unsigned and a Unary keep the low bits of them.

Signed(n, s) == IF n < TwoTo[s - 1] THEN n ELSE n - TwoTo[s]

Ones(n, s) == Cardinality({k \in 0 .. s - 1 : (n \div TwoTo[k]) % 2 = 1})

IntConverted(n, t, s) ==
  {Clamp(m, TypeOf("Int", s)) : m \in {n} \cup (IF t.kind = "Bits" THEN {Signed(n, t.size)} ELSE {})}

UnsignedConverted(n, t, s) == {IF t.kind = "Bits" THEN n % TwoTo[s] ELSE Clamp(n, TypeOf("Unsigned", s))}

UnaryConverted(n, t, s) == {IF t.kind = "Bits" THEN Ones(n, s) ELSE Clamp(n, TypeOf("Unary", s))}

BoolConverted(n, t, s) == IF t.kind = "Bits" THEN BoolValues(s) ELSE {Clamp(n, TypeOf("Bool", s))}

BitsConverted(n, t, s) == {Pattern(n, t) % TwoTo[s]}

\* UlamType::cast
Converted(n, t, to) ==
  CASE to.kind = "Int" -> IntConverted(n, t, to.size)
    [] to.kind = "Unsigned" -> UnsignedConverted(n, t, to.size)
    [] to.kind = "Unary" -> UnaryConverted(n, t, to.size)
    [] to.kind = "Bool" -> BoolConverted(n, t, to.size)
    [] to.kind = "Bits" -> BitsConverted(n, t, to.size)

------------------------------------------------------------------------------
\* Whether a value of type t becomes one of the kind, of s bits, on its own.

IntSafeCast(s, t) ==
  \/ t.kind = "Int" /\ s >= t.size
  \/ t.kind = "Unsigned" /\ s > t.size
  \/ t.kind = "Unary" /\ s > LogBase2(t.size) + 1

\* Mutant: an Unsigned of the same size is not enough.
BugUnsignedSafeCast(s, t) ==
  \/ t.kind = "Unsigned" /\ s > t.size
  \/ t.kind = "Unary" /\ s >= LogBase2(t.size) + 1

UnsignedSafeCast(s, t) ==
  \/ t.kind = "Unsigned" /\ s >= t.size
  \/ t.kind = "Unary" /\ s >= LogBase2(t.size) + 1

UnarySafeCast(s, t) ==
  \/ t.kind = "Unsigned" /\ s >= TwoTo[t.size] - 1
  \/ t.kind = "Unary" /\ s >= t.size

BoolSafeCast(s, t) == t.kind = "Bool" \/ (t.kind \in {"Unsigned", "Unary"} /\ t.size = 1)

BitsSafeCast(s, t) == s >= t.size

SafeCast(to, t) ==
  CASE to.kind = "Int" -> IntSafeCast(to.size, t)
    [] to.kind = "Unsigned" -> UnsignedSafeCast(to.size, t)
    [] to.kind = "Unary" -> UnarySafeCast(to.size, t)
    [] to.kind = "Bool" -> BoolSafeCast(to.size, t)
    [] to.kind = "Bits" -> BitsSafeCast(to.size, t)

\* A Bool is made of a Bool, of Bits or of what is a single bit.
ExplicitlyCastable(to, t) == to.kind = "Bool" => t.kind = "Bits" \/ SafeCast(to, t)

\* A constant o, [type, val], fits where it is the same after a cast forth and back.
FitsInBits(o, t) ==
  CASE t.kind # "Bits" -> {o.val \in Values(t)}
    [] t.kind = "Bits" /\ o.type.kind = "Int" -> {o.val \in BitsValues(t.size), o.val \in IntValues(t.size)}
    [] OTHER -> {Pattern(o.val, o.type) \in BitsValues(t.size)}

ConstantSafeToCast(o, t) ==
  IF t.kind = "Bool" \/ o.type.kind = "Bool" \/ (o.type.kind = "Bits" /\ t.kind # "Bits")
  THEN {SafeCast(t, o.type)}
  ELSE FitsInBits(o, t)

------------------------------------------------------------------------------
\* The size that a type of s bits asks for as an "Int" or an "Unsigned", within
\* its own word.

IntSizeTo(s, to) == s

UnsignedSizeTo(s, to) == Smaller(IF to = "Int" THEN s + 1 ELSE s, WordSize(s))

UnarySizeTo(s, to) ==
  Smaller(IF to = "Int" THEN LogBase2(s) + 2 ELSE LogBase2(s) + 1, WordSize(s))

\* bitsizeToConvertTypeTo, of the numeric types
SizeTo(t, to) ==
  CASE t.kind = "Int" -> IntSizeTo(t.size, to)
    [] t.kind = "Unsigned" -> UnsignedSizeTo(t.size, to)
    [] t.kind = "Unary" -> UnarySizeTo(t.size, to)
=============================================================================
