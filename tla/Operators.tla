----------------------------- MODULE Operators ------------------------------
(***************************************************************************)
(* The labelling of an expression and its value.  An expression is built   *)
(* from its innermost operand outwards, one operator at a time.  Every     *)
(* operator computes its type from those of its operands, refuses operands *)
(* that do not fit it and casts the others.                                *)
(*                                                                         *)
(* The labelling is done at least twice.  In the first pass an operator    *)
(* sees the types that its operands return, "label", and a quotient        *)
(* returns the type in which it was computed, though the cast that took    *)
(* its place is of another, "type".  Arithmetic and constants keep what    *)
(* they found then; the other operators look again.                        *)
(***************************************************************************)
EXTENDS PrimitiveTypes

CONSTANTS
  Variables,    \* the types and values of the variables, [type, val]
  Literals,     \* the literals of the source, [kind, val]
  MaxOperators  \* bound: the operators of an expression

ASSUME VariablesAssumption ==
  \A x \in Variables : x.type \in Type(Kinds) /\ x.val \in Values(x.type)
ASSUME LiteralsAssumption ==
  \A x \in Literals :
    x.kind \in {"Int", "Unsigned"} /\ x.val \in Values(TypeOf(x.kind, MAXBITSPERLONG)) \ {0}

VARIABLES
  expr,      \* the outermost node so far
  exact,     \* what arithmetic on numbers without a size makes of the expression
  operators, \* how many operators it has
  status,    \* "ok", "error", "hazy" when its size is none, or "aborted"
  refused,   \* the cast that was not safe: [from, term, val, to], or None
  hazard     \* why the value may differ from the exact one, or "none"

vars == <<expr, exact, operators, status, refused, hazard>>

None == [from |-> TypeOf("Bits", 1), term |-> FALSE, val |-> 0, to |-> TypeOf("Bits", 1)]

\* A node: whether it is a constant and, then, whether it is folded already.
Node(t, label, const, term, n) ==
  [type |-> t, label |-> label, const |-> const, term |-> term, val |-> n]

Variable(x) == Node(x.type, x.type, FALSE, FALSE, x.val)

\* The size of a literal is that of its value.
LiteralType(x) ==
  LET n == IF x.val < 0 THEN -x.val ELSE x.val
  IN TypeOf(x.kind, Smaller(MAXBITSPERLONG, IF x.kind = "Int" THEN LogBase2(n) + 2 ELSE LogBase2(n) + 1))

Literal(x) == Node(LiteralType(x), LiteralType(x), TRUE, TRUE, x.val)

Operands == {Variable(x) : x \in Variables} \cup {Literal(x) : x \in Literals}

\* The answers that safeToCastTo may give: there are two where CastOps.h decides.
SafeToCastTo(o, t) == IF o.term THEN ConstantSafeToCast(o, t) ELSE {SafeCast(t, o.type)}

Safe(o, t) == TRUE \in SafeToCastTo(o, t)
Unsafe(o, t) == FALSE \in SafeToCastTo(o, t)

\* The nodes that o may become where type t is needed: a cast is made only
\* when the type that o returned is another one.
CastTo(o, t) ==
  CASE o.label = t -> {o}
    [] o.label # t /\ o.type = t -> {[o EXCEPT !.label = t]}
    [] OTHER -> {Node(t, t, o.const, FALSE, n) : n \in Converted(o.val, o.type, t)}

\* How a node looks to the operators that label it again.
Again(o) == [o EXCEPT !.label = o.type]

\* The bits of an operand are read as those of a value of type t.
Read(o, t) ==
  LET bits == Pattern(o.val, o.type) % TwoTo[t.size]
  IN CASE o.type = t -> o.val
       [] o.type # t /\ t.kind = "Int" /\ bits >= TwoTo[t.size - 1] -> bits - TwoTo[t.size]
       [] OTHER -> bits

------------------------------------------------------------------------------
\* Sizes of results.

\* calcBitsizeForResult: a Unary counts as the Unsigned that holds it.
CountedSize(t) == IF t.kind = "Unary" THEN LogBase2(t.size) + 1 ELSE t.size

\* The size of operand t beside an operand of type other.
SideSize(t, other) ==
  IF t.kind # "Int" /\ other.kind = "Int" THEN SizeTo(t, "Int") ELSE CountedSize(t)

ResultWord(l, r) == Larger(WordSize(l.size), WordSize(r.size))

WidestSize(l, r) == Smaller(Larger(SideSize(l, r), SideSize(r, l)), ResultWord(l, r))

\* Mutant: the carry is forgotten.
BugAddSize(l, r) == Smaller(Larger(SideSize(l, r), SideSize(r, l)), ResultWord(l, r))

AddSize(l, r) == Smaller(Larger(SideSize(l, r), SideSize(r, l)) + 1, ResultWord(l, r))
SubtractSize(l, r) == Smaller(Larger(SideSize(l, r), SideSize(r, l)) + 1, ResultWord(l, r))

MultiplySize(l, r) == Smaller(SideSize(l, r) + SideSize(r, l), ResultWord(l, r))

ArithmeticOps == {"+", "-", "*", "/", "%"}

ResultSize(op, l, r) ==
  CASE op = "+" -> AddSize(l, r)
    [] op = "-" -> SubtractSize(l, r)
    [] op = "*" -> MultiplySize(l, r)
    [] op \in {"/", "%", "<"} -> WidestSize(l, r)

ResultKind(l, r) == IF l.kind = "Int" \/ r.kind = "Int" THEN "Int" ELSE "Unsigned"

ResultType(op, l, r) == TypeOf(ResultKind(l, r), ResultSize(op, l, r))

\* Quotients truncate towards zero, a remainder has the sign of what is divided.
Sign(n) == IF n < 0 THEN -1 ELSE 1
Quotient(a, b) == Sign(a) * Sign(b) * ((Sign(a) * a) \div (Sign(b) * b))

Sum(a, b) == a + b
Difference(a, b) == a - b
Product(a, b) == a * b
Remainder(a, b) == a - b * Quotient(a, b)

Apply(op, a, b) ==
  CASE op = "+" -> Sum(a, b)
    [] op = "-" -> Difference(a, b)
    [] op = "*" -> Product(a, b)
    [] op = "/" -> Quotient(a, b)
    [] op = "%" -> Remainder(a, b)

\* castThyselfToResultType: a quotient takes the size of the left operand, a
\* remainder that of the right one.
NarrowedType(op, l, r, t) ==
  CASE op = "/" -> TypeOf(t.kind, SizeTo(l, t.kind))
    [] op = "%" -> TypeOf(t.kind, SizeTo(r, t.kind))
    [] OTHER -> t

\* That size is cut at the word of the operand, one bit short.
IsCut(op, l, r, t) ==
  LET side == IF op = "/" THEN l ELSE r
  IN op \in {"/", "%"} /\ t.kind = "Int" /\ side.kind = "Unsigned" /\ side.size = WordSize(side.size)

------------------------------------------------------------------------------
\* The steps.

Ready == status = "ok" /\ hazard = "none" /\ operators < MaxOperators

\* The expression and another operand, on either side, as the first pass sees
\* them or, where a type was late, a later one.
Pairs ==
  UNION {{<<e, o>>, <<o, e>>} : e \in {expr, Again(expr)}, o \in Operands}

Refuse(o, t) ==
  /\ status' = "error"
  /\ refused' = [from |-> o.type, term |-> o.term, val |-> o.val, to |-> t]
  /\ UNCHANGED <<expr, exact, operators, hazard>>

Stop(verdict) ==
  status' = verdict /\ UNCHANGED <<expr, exact, operators, refused, hazard>>

\* The expression is now node o; e is what it should be.
Become(o, e, why) ==
  /\ expr' = o /\ exact' = e /\ hazard' = why
  /\ operators' = operators + 1
  /\ UNCHANGED <<status, refused>>

\* Operands that do not fit their operator, which is of type t.
RefusePair(l, r, t) == \E o \in {l, r} : Unsafe(o, t) /\ Refuse(o, t)

BothSafe(l, r, t) == Safe(l, t) /\ Safe(r, t)

IsNumber(o) == o.label.kind \in Numeric

\* The exact result, unless the language gives the result another value: no
\* word holds it, or it is one more than the largest Int of the left operand.
Expected(op, e, l, r, t, n) ==
  IF \/ e \notin Values(TypeOf(t.kind, ResultWord(l, r)))
     \/ op = "/" /\ l.kind = "Int" /\ e = TwoTo[l.size - 1]
  THEN n ELSE e

\* Both operands are of type t now, or returned it; the result is computed in
\* that type and, if it is a quotient, then cast.
Compute(op, l, r, t, cl, cr) ==
  LET a == Read(cl, t)
      b == Read(cr, t)
      n == Clamp(Apply(op, a, b), t)
      narrow == NarrowedType(op, l.label, r.label, t)
      const == l.const /\ r.const
      why == IF cl.type # t \/ cr.type # t THEN "stale type"
             ELSE IF IsCut(op, l.label, r.label, t) THEN "cut size" ELSE "none"
      result == IF narrow = t THEN Node(t, t, const, const, n)
                ELSE Node(narrow, t, const, FALSE, Clamp(n, narrow))
  IN IF op \in {"/", "%"} /\ b = 0 THEN Stop("error")
     ELSE Become(result,
                 IF op \in {"/", "%"} /\ r.val = 0 THEN result.val
                 ELSE Expected(op, Apply(op, l.val, r.val), l.label, r.label, t, result.val),
                 why)

Arithmetic ==
  /\ Ready
  /\ \E p \in Pairs, op \in ArithmeticOps :
       LET l == p[1]
           r == p[2]
           t == ResultType(op, l.label, r.label)
       IN /\ IsNumber(l) /\ IsNumber(r)
          /\ IF BothSafe(l, r, t)
             THEN \E cl \in CastTo(l, t), cr \in CastTo(r, t) : Compute(op, l, r, t, cl, cr)
             ELSE RefusePair(l, r, t)

\* No arithmetic on Bool and Bits, and no order of them.
RefuseArithmetic ==
  /\ Ready
  /\ \E p \in Pairs : ~(IsNumber(p[1]) /\ IsNumber(p[2]))
  /\ Stop("error")

Bit(b) == IF b THEN 1 ELSE 0

DefaultBool == TypeOf("Bool", 1)

LessThan(a, b) == Bit(a < b)
LessEqual(a, b) == Bit(a <= b)
GreaterThan(a, b) == Bit(a > b)
GreaterEqual(a, b) == Bit(a >= b)
EqualEqual(a, b) == Bit(a = b)
NotEqual(a, b) == Bit(a # b)

Comparisons == {"<", "<=", ">", ">=", "==", "!="}

Holds(op, a, b) ==
  CASE op = "<" -> LessThan(a, b)
    [] op = "<=" -> LessEqual(a, b)
    [] op = ">" -> GreaterThan(a, b)
    [] op = ">=" -> GreaterEqual(a, b)
    [] op = "==" -> EqualEqual(a, b)
    [] op = "!=" -> NotEqual(a, b)

\* Of Bits and of Bools only the equality is of interest: Bits are compared
\* with anything, bit by bit, and a Bool with a Bool.
WidestBits(l, r) == TypeOf("Bits", Larger(l.size, r.size))

EqualityType(l, r) ==
  CASE "Bits" \in {l.kind, r.kind} -> WidestBits(l, r)
    [] l.kind = "Bool" /\ r.kind = "Bool" -> DefaultBool
    [] OTHER -> ResultType("<", l, r)

InequalityType(l, r) == EqualityType(l, r)

ComparisonType(op, l, r) ==
  CASE op = "==" -> EqualityType(l, r)
    [] op = "!=" -> InequalityType(l, r)
    [] OTHER -> ResultType("<", l, r)

Comparable(op, l, r) ==
  \/ {l.kind, r.kind} \subseteq Numeric
  \/ op \in {"==", "!="} /\ ("Bits" \in {l.kind, r.kind} \/ {l.kind, r.kind} = {"Bool"})

\* The number that an operand means where the operator works in type t.
Meaning(o, t) == IF t.kind = "Bits" THEN Pattern(o.val, o.type) ELSE o.val

\* The operands are compared in the type of the left one.
Decide(op, l, r, cl, cr) ==
  Become(Node(DefaultBool, DefaultBool, l.const /\ r.const, l.const /\ r.const,
              Holds(op, Read(cl, cl.type), Read(cr, cl.type))),
         Holds(op, Meaning(l, cl.type), Meaning(r, cl.type)),
         IF cl.type # cr.type THEN "stale type" ELSE "none")

\* A comparison of constants is over after the first pass.
Compare ==
  /\ Ready
  /\ \E p \in Pairs, op \in Comparisons :
       LET l == p[1]
           r == p[2]
           t == ComparisonType(op, l.label, r.label)
       IN /\ Comparable(op, l.label, r.label)
          /\ IF ~BothSafe(l, r, t) THEN RefusePair(l, r, t)
             ELSE \E cl \in CastTo(l, t), cr \in CastTo(r, t) :
                    IF l.const /\ r.const THEN Decide(op, l, r, cl, cr)
                    ELSE LET again == ComparisonType(op, cl.type, cr.type)
                         IN IF ~BothSafe(cl, cr, again) THEN RefusePair(cl, cr, again)
                            ELSE \E dl \in CastTo(Again(cl), again), dr \in CastTo(Again(cr), again) :
                                   Decide(op, l, r, dl, dr)

\* The negative of c, which is of type t or returned it; the first pass returns
\* the type first.
Negate(o, c, t, first) ==
  LET n == Clamp(-Read(c, t), t)
  IN Become(Node(t, first, o.const, o.const, n),
            IF -o.val \in Values(t) THEN -o.val ELSE n,
            IF c.type # t THEN "stale type" ELSE "none")

Minus ==
  /\ Ready /\ IsNumber(expr)
  /\ LET t == TypeOf("Int", expr.label.size)
     IN IF ~Safe(expr, t) THEN Refuse(expr, t)
        ELSE \E c \in CastTo(expr, t) :
               IF expr.const THEN Negate(expr, c, t, t)
               ELSE LET again == TypeOf("Int", c.type.size)
                    IN IF ~Safe(c, again) THEN Refuse(c, again)
                       ELSE \E d \in CastTo(Again(c), again) : Negate(expr, d, again, t)

\* Bits that are assigned to Bits drop what there is no room for.
NeedsNoCheck(o, t) == o.type = t \/ (o.type.kind = "Bits" /\ t.kind = "Bits")

MayRefuse(o, t) == ~NeedsNoCheck(o, t) /\ Unsafe(o, t)

\* What the right side of an assignment becomes for a variable of type t.
Assigned(o, t) == IF NeedsNoCheck(o, t) \/ Safe(o, t) THEN Converted(o.val, o.type, t) ELSE {}

AssignableTypes == {x.type : x \in Variables}

Assign ==
  /\ Ready
  /\ \E t \in AssignableTypes :
       \/ MayRefuse(expr, t) /\ Refuse(expr, t)
       \/ \E n \in Assigned(expr, t) :
            Become(Node(t, t, FALSE, FALSE, n),
                   IF expr.type.kind = "Bits" \/ t.kind = "Bits" THEN n ELSE expr.val,
                   "none")

\* "x op= expr" is computed in the type of x.
CompoundAssign ==
  /\ Ready
  /\ \E x \in Variables, op \in ArithmeticOps :
       /\ x.type.kind \in Numeric
       /\ \/ MayRefuse(expr, x.type) /\ Refuse(expr, x.type)
          \/ \E n \in Assigned(expr, x.type) :
               IF op \in {"/", "%"} /\ n = 0 THEN Stop("error")
               ELSE LET sum == Clamp(Apply(op, x.val, n), x.type)
                    IN Become(Node(x.type, x.type, FALSE, FALSE, sum),
                              Clamp(Apply(op, x.val, expr.val), x.type),
                              "none")

ExplicitCast ==
  /\ Ready
  /\ \E t \in AssignableTypes :
       IF ~ExplicitlyCastable(t, expr.type) THEN Stop("error")
       ELSE \E n \in Converted(expr.val, expr.type, t) :
              Become(Node(t, t, expr.const, FALSE, n), n, "none")

------------------------------------------------------------------------------
\* Shifts, of the bits of the left operand.

Distance == TypeOf("Unsigned", MAXBITSPERINT)

\* 1 << n in a word of MAXBITSPERINT bits with a sign, undefined beyond it.
OneShifted(n) ==
  LET low == n % MAXBITSPERINT
      one == IF low = MAXBITSPERINT - 1 THEN -TwoTo[low] ELSE TwoTo[low]
  IN IF n < MAXBITSPERINT THEN {one} ELSE {one, 0}

\* The sizes that the result of a left shift may have.
ShiftLeftSizes(l, r) ==
  LET word == ResultWord(l, r)
      room == IF r.size >= word THEN {word} ELSE OneShifted(r.size)
  IN {Smaller(l.size + n, word) : n \in room}

ShiftRightSizes(l, r) == {l.size}

ShiftSizes(op, l, r) == IF op = "<<" THEN ShiftLeftSizes(l, r) ELSE ShiftRightSizes(l, r)

\* Bits p moved by d places within a number of bits.
Moved(op, p, d, bits) ==
  CASE d >= bits -> 0
    [] d < bits /\ op = "<<" -> (p * TwoTo[d]) % TwoTo[bits]
    [] d < bits /\ op = ">>" -> p \div TwoTo[d]

AsBits(o) == IF o.label.kind = "Bits" THEN {o} ELSE CastTo(o, TypeOf("Bits", o.label.size))
AsDistance(o) == IF o.label.kind = "Unsigned" THEN {o} ELSE CastTo(o, Distance)

\* The room for the distance is 1 << n where n does not fit the smaller word.
HasNoRoom(op, l, r) == op = "<<" /\ r.size >= MAXBITSPERINT /\ r.size < ResultWord(l, r)

\* Operands l and r are shifted in one of the sizes for types lt and rt; of the
\* distance, too, only so many bits are read.  The first pass returned the type
\* first, and met an undefined room or did not.
Shifted(op, l, r, lt, rt, first, undefined) ==
  \E size \in ShiftSizes(op, lt, rt) :
    LET bits == TypeOf("Bits", size)
        const == l.const /\ r.const
        word == ResultWord(lt, rt)
    IN IF size <= 0 THEN Stop("hazy")
       ELSE Become(Node(bits, IF const THEN bits ELSE first, const, const, Moved(op, l.val, r.val % TwoTo[size], size)),
                   Moved(op, l.val, r.val, word),
                   IF r.val >= TwoTo[size] THEN "cut distance"
                   ELSE IF undefined \/ HasNoRoom(op, lt, rt) THEN "undefined shift"
                   ELSE "none")

\* A shift of constants is over after the first pass; of other operands the
\* next pass sees the casts.
Shift ==
  /\ Ready
  /\ \E p \in Pairs, op \in {"<<", ">>"} :
       LET l == p[1]
           r == p[2]
           bits == TypeOf("Bits", l.label.size)
           undefined == HasNoRoom(op, l.label, r.label)
       IN \/ Unsafe(l, bits) /\ Refuse(l, bits)
          \/ Unsafe(r, Distance) /\ Refuse(r, Distance)
          \/ /\ Safe(l, bits) /\ Safe(r, Distance)
             /\ \A size \in ShiftSizes(op, l.label, r.label) : size <= 0
             /\ Stop("hazy")
          \/ /\ Safe(l, bits) /\ Safe(r, Distance)
             /\ \E size \in ShiftSizes(op, l.label, r.label) :
                  /\ size > 0
                  /\ \E cl \in AsBits(l), cr \in AsDistance(r) :
                       IF l.const /\ r.const THEN Shifted(op, cl, cr, l.label, r.label, bits, undefined)
                       ELSE Shifted(op, cl, cr, cl.type, cr.type, TypeOf("Bits", size), undefined)

------------------------------------------------------------------------------
Init ==
  /\ expr \in Operands
  /\ exact = expr.val
  /\ operators = 0 /\ status = "ok" /\ refused = None /\ hazard = "none"

Next ==
  \/ Arithmetic \/ RefuseArithmetic \/ Compare \/ Minus
  \/ Assign \/ CompoundAssign \/ ExplicitCast \/ Shift

Spec == Init /\ [][Next]_vars

------------------------------------------------------------------------------
\* The operators size their results, and cast their operands, so that no value
\* is lost: a nested expression that is accepted has the value it has without
\* any sizes, unless a word cannot hold it or one of the four hazards was met
\* (NodeBinaryOp::checkAndLabelType and every resultBitsize and safeCast).
ValueIsExact == hazard = "none" => expr.val = exact

\* Nothing is refused that could do no harm: a cast between numbers that needs
\* to be written would lose some value of its type, or the constant at hand
\* ("Use explicit cast", NodeBinaryOp::checkSafeToCastTo).
RefusesOnlyLossyCasts ==
  (refused # None /\ {refused.from.kind, refused.to.kind} \subseteq Numeric)
    => \E n \in IF refused.term THEN {refused.val} ELSE Values(refused.from) :
         n \notin Values(refused.to)

\* "the result bitsize for division should be the left bitsize": whoever uses a
\* quotient or a remainder reads it as one of the type it was cast to.
QuotientsAreReadAsCast == hazard = "stale type" => expr.val = exact
=============================================================================
