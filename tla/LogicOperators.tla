--------------------------- MODULE LogicOperators ---------------------------
(***************************************************************************)
(* The operators that Operators leaves out: those on bits and on truth     *)
(* values, the increments, the assignments that compute on bits, and the   *)
(* choice "c ? a : b".                                                     *)
(***************************************************************************)
EXTENDS Operators

\* What is not kept within bounds by a check is by an assertion.
Abort == Stop("aborted")

Top(s) == TwoTo[s] - 1

BitAt(n, k) == (n \div TwoTo[k]) % 2

\* The ones that a and b have in common: of their lowest k bits, low[k].
BitwiseAnd(a, b) ==
  LET low[k \in 0 .. MAXBITSPERLONG] ==
        IF k = 0 THEN 0 ELSE low[k - 1] + TwoTo[k - 1] * (BitAt(a, k - 1) * BitAt(b, k - 1))
  IN low[MAXBITSPERLONG]

BitwiseOr(a, b) == a + b - BitwiseAnd(a, b)
BitwiseXor(a, b) == a + b - 2 * BitwiseAnd(a, b)

BitwiseOps == {"&", "|", "^"}

BitsApply(op, a, b) ==
  CASE op = "&" -> BitwiseAnd(a, b)
    [] op = "|" -> BitwiseOr(a, b)
    [] op = "^" -> BitwiseXor(a, b)

BitwiseType(l, r) == WidestBits(l, r)

\* Operands of any kind are combined as bits of the larger size.
BitwiseBinary ==
  /\ Ready
  /\ \E p \in Pairs, op \in BitwiseOps :
       LET l == p[1]
           r == p[2]
           t == BitwiseType(l.label, r.label)
       IN IF ~BothSafe(l, r, t) THEN RefusePair(l, r, t)
          ELSE \E cl \in CastTo(l, t), cr \in CastTo(r, t) :
                 Become(Node(t, t, l.const /\ r.const, l.const /\ r.const,
                             BitsApply(op, Read(cl, t), Read(cr, t))),
                        BitsApply(op, Pattern(l.val, l.type), Pattern(r.val, r.type)),
                        IF cl.type # t \/ cr.type # t THEN "stale type" ELSE "none")

------------------------------------------------------------------------------
\* Truth values.

SafeBool(t) == SafeCast(DefaultBool, t)

LogicalType(l, r) == TypeOf("Bool", Larger(l.size, r.size))

\* The right operand matters only if the left one does not decide.
LogicalAnd(a, b) == IF a = 0 THEN a ELSE b
LogicalOr(a, b) == IF a = 1 THEN a ELSE b

LogicalApply(op, a, b) == IF op = "&&" THEN LogicalAnd(a, b) ELSE LogicalOr(a, b)

\* The left operand is read as one word.
TooWideToDecide(t) == t.size > MAXBITSPERINT

Logical ==
  /\ Ready
  /\ \E p \in Pairs, op \in {"&&", "||"} :
       LET l == p[1]
           r == p[2]
           t == LogicalType(l.label, r.label)
       IN CASE ~SafeBool(l.label) \/ ~SafeBool(r.label) -> Stop("error")
            [] OTHER ->
                 \E cl \in CastTo(l, t), cr \in CastTo(r, t) :
                   IF TooWideToDecide(t) THEN Abort
                   ELSE Become(Node(t, t, l.const /\ r.const, l.const /\ r.const,
                                    LogicalApply(op, cl.val, cr.val)),
                               Bit(IF op = "&&" THEN l.val = 1 /\ r.val = 1 ELSE l.val = 1 \/ r.val = 1),
                               "none")

BangType(t) == TypeOf("Bool", IF t.kind = "Bool" THEN t.size ELSE 1)

Bang ==
  /\ Ready
  /\ LET t == BangType(expr.label)
     IN IF expr.label.kind = "Bits" \/ ~SafeBool(expr.label) THEN Stop("error")
        ELSE \E c \in CastTo(expr, t) :
               Become(Node(t, t, expr.const, expr.const, 1 - c.val), 1 - expr.val, "none")

------------------------------------------------------------------------------
\* The other unary operators look again at every pass, unless what they found
\* is a constant.

TwiddleType(t) == TypeOf("Bits", t.size)

Complement(o, c, t, first) ==
  Become(Node(t, first, o.const, o.const, Top(t.size) - Read(c, t)),
         Top(t.size) - Pattern(o.val, o.type),
         IF c.type # t THEN "stale type" ELSE "none")

Twiddle ==
  /\ Ready
  /\ LET t == TwiddleType(expr.label)
     IN \E c \in CastTo(expr, t) : Complement(expr, c, t, t)

Plus ==
  /\ Ready /\ IsNumber(expr)
  /\ IF expr.const
     THEN Become(Node(expr.label, expr.label, TRUE, TRUE, Read(expr, expr.label)), expr.val,
                 IF expr.type # expr.label THEN "stale type" ELSE "none")
     ELSE Become([expr EXCEPT !.term = FALSE], expr.val, "none")

------------------------------------------------------------------------------
\* Assignments.

One == [kind |-> "Int", val |-> 1]

IncrementOps == {"++x", "x++", "--x", "x--"}

\* What a variable of type t and value n becomes, and what its user sees.
PreIncrement(n, t) == Clamp(n + 1, t)
PreDecrement(n, t) == Clamp(n - 1, t)
PostIncrement(n, t) == n
PostDecrement(n, t) == n

Incremented(op, n, t) ==
  CASE op = "++x" -> PreIncrement(n, t)
    [] op = "x++" -> PostIncrement(n, t)
    [] op = "--x" -> PreDecrement(n, t)
    [] op = "x--" -> PostDecrement(n, t)

\* The one that is added is an Int, which must fit the variable.
Increment ==
  /\ Ready
  /\ \E x \in Variables, op \in IncrementOps :
       /\ expr = Variable(x) /\ x.type.kind \in Numeric
       /\ \/ Unsafe(Literal(One), x.type) /\ Refuse(Literal(One), x.type)
          \/ /\ Safe(Literal(One), x.type)
             /\ Become(Node(x.type, x.type, FALSE, FALSE, Incremented(op, x.val, x.type)),
                       Incremented(op, x.val, x.type), "none")

\* "x op= expr" on bits: the variable cannot be cast, the expression is.
BitwiseAssign ==
  /\ Ready
  /\ \E x \in Variables, op \in BitwiseOps :
       IF x.type.kind # "Bits" THEN Stop("error")
       ELSE \/ Unsafe(expr, x.type) /\ Refuse(expr, x.type)
            \/ /\ Safe(expr, x.type)
               /\ \E c \in CastTo(expr, x.type) :
                    Become(Node(x.type, x.type, FALSE, FALSE, BitsApply(op, x.val, Read(c, x.type))),
                           BitsApply(op, x.val, Pattern(expr.val, expr.type) % TwoTo[x.type.size]),
                           IF c.type # x.type THEN "stale type" ELSE "none")

ShiftAssign ==
  /\ Ready
  /\ \E x \in Variables, op \in {"<<", ">>"} :
       IF x.type.kind # "Bits" THEN Stop("error")
       ELSE \/ Unsafe(expr, Distance) /\ Refuse(expr, Distance)
            \/ /\ Safe(expr, Distance)
               /\ \E c \in AsDistance(expr) :
                    LET size == x.type.size
                    IN Become(Node(x.type, x.type, FALSE, FALSE, Moved(op, x.val, c.val % TwoTo[size], size)),
                              Moved(op, x.val, c.val, size),
                              IF c.val >= TwoTo[size] THEN "cut distance" ELSE "none")

------------------------------------------------------------------------------
\* "c ? l : r"

\* Types of one kind stay of that kind, of the size that a comparison would
\* have; a Unary counts there as the Unsigned that holds it.
BranchType(l, r) ==
  CASE l = r -> l
    [] l # r /\ "Bits" \in {l.kind, r.kind} -> WidestBits(l, r)
    [] l # r /\ l.kind = r.kind /\ l.kind # "Bits" -> TypeOf(l.kind, WidestSize(l, r))
    [] OTHER -> ResultType("<", l, r)

\* The size of a Bool beside another type is none.
HasNoSize(l, r) ==
  l # r /\ "Bits" \notin {l.kind, r.kind} /\ "Bool" \in {l.kind, r.kind}

\* The safety of the casts is that of the types, for constants too.
RefuseBranch(o, t) ==
  Refuse([o EXCEPT !.type = o.label, !.term = FALSE], t)

SafeBranch(o, t) == o.label = t \/ SafeCast(t, o.label)

\* Branch o was chosen, c is what it became where type t is needed.  A condition
\* that is a constant leaves nothing of the choice but c.
Choose(o, c, const, t, first) ==
  Become(IF const THEN Again(c) ELSE Node(t, first, FALSE, FALSE, c.val), Meaning(o, t), "none")

\* The branches are cast to type t, which the first pass found; the next one
\* sees the types of the casts.
CastBranches(b, const, l, r, t) ==
  \E cl \in CastTo(l, t), cr \in CastTo(r, t) :
    LET chosen == IF b = 1 THEN cl ELSE cr
        again == BranchType(cl.type, cr.type)
    IN CASE const -> Choose(IF b = 1 THEN l ELSE r, chosen, TRUE, t, t)
         [] ~const /\ ~(SafeBranch(Again(cl), again) /\ SafeBranch(Again(cr), again)) ->
              \E o \in {Again(cl), Again(cr)} : ~SafeBranch(o, again) /\ RefuseBranch(o, again)
         [] OTHER ->
              \E c \in CastTo(Again(chosen), again) :
                Choose(IF b = 1 THEN l ELSE r, c, FALSE, again, t)

\* The condition is a Bool variable or constant, the expression one of the branches.
Conditional ==
  /\ Ready
  /\ \E p \in Pairs, b \in {0, 1}, const \in BOOLEAN :
       LET l == p[1]
           r == p[2]
           t == BranchType(l.label, r.label)
       IN CASE HasNoSize(l.label, r.label) -> Abort
            [] ~HasNoSize(l.label, r.label) /\ ~(SafeBranch(l, t) /\ SafeBranch(r, t)) ->
                 \E o \in {l, r} : ~SafeBranch(o, t) /\ RefuseBranch(o, t)
            [] OTHER -> CastBranches(b, const, l, r, t)

\* The expression is the condition, between variables of one type.
Condition ==
  /\ Ready
  /\ \E x, y \in Variables :
       /\ x.type = y.type
       /\ IF ~SafeBool(expr.label) THEN RefuseBranch(expr, DefaultBool)
          ELSE \E c \in CastTo(expr, DefaultBool) :
                 Become(Variable(IF c.val = 1 THEN x ELSE y), IF expr.val = 1 THEN x.val ELSE y.val, "none")

------------------------------------------------------------------------------
FullNext ==
  \/ Next
  \/ BitwiseBinary \/ Logical \/ Bang \/ Twiddle \/ Plus
  \/ Increment \/ BitwiseAssign \/ ShiftAssign
  \/ Conditional \/ Condition

FullSpec == Init /\ [][FullNext]_vars
=============================================================================
