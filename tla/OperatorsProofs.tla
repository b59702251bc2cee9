-------------------------- MODULE OperatorsProofs --------------------------
(***************************************************************************)
(* For every size of the words, every set of variables and literals and    *)
(* expressions of any depth, of all the operators: what is refused would   *)
(* lose a value, and what is accepted without a hazard is exact.           *)
(***************************************************************************)
EXTENDS LogicOperators, Induction

\* A node is of two types of one kind, that it has and that it returned.
IsNode(o) ==
  \E t, label \in Type(Kinds) : \E const, term, n :
    o = Node(t, label, const, term, n) /\ label.kind = t.kind

RInv == IsNode(expr) /\ RefusesOnlyLossyCasts

------------------------------------------------------------------------------
\* Types and their sizes.

LEMMA Powers ==
  /\ TwoTo[0] = 1
  /\ \A n \in Nat : TwoTo[n] \in Nat \ {0} /\ TwoTo[n + 1] = 2 * TwoTo[n]
  /\ \A n, m \in Nat : n <= m => TwoTo[n] <= TwoTo[m]
  /\ \A n, m \in Nat : n < m => 2 * TwoTo[n] <= TwoTo[m]
<1>1. TwoTo = [n \in Nat |-> IF n = 0 THEN 1 ELSE 2 * TwoTo[n - 1]]
  BY PowersExist, Zenon DEF TwoTo
<1> QED BY <1>1, PowersOfTwo, Zenon

LEMMA LogarithmOf ==
  ASSUME NEW x \in Nat \ {0}, x <= MAXBITSPERLONG
  PROVE  LogBase2(x) \in Nat /\ TwoTo[LogBase2(x)] <= x
<1>1. TwoTo = [n \in Nat |-> IF n = 0 THEN 1 ELSE 2 * TwoTo[n - 1]]
  BY PowersExist, Zenon DEF TwoTo
<1>2. MAXBITSPERLONG \in Nat
  BY WordsAssumption
<1>3. \E k \in 0 .. MAXBITSPERLONG : TwoTo[k] <= x /\ x < TwoTo[k + 1]
  BY <1>1, <1>2, Logarithm, Zenon
<1>4. LogBase2(x) \in 0 .. MAXBITSPERLONG /\ TwoTo[LogBase2(x)] <= x
  BY <1>3, Zenon DEF LogBase2
<1> QED BY <1>4, <1>2

LEMMA SizesAreNumbers ==
  ASSUME NEW k, NEW t \in Type(k)
  PROVE  /\ t.kind \in k /\ t.size \in 1 .. MAXBITSPERLONG /\ t.size \in Nat \ {0}
         /\ t.size - 1 \in Nat /\ t.size <= MAXBITSPERLONG
BY WordsAssumption DEF Type

LEMMA TypesOfSizes ==
  ASSUME NEW kinds, NEW k \in kinds, NEW s \in 1 .. MAXBITSPERLONG
  PROVE  TypeOf(k, s) \in Type(kinds) /\ TypeOf(k, s).kind = k /\ TypeOf(k, s).size = s
BY DEF TypeOf, Type

LEMMA WordsAreSizes ==
  ASSUME NEW s \in Nat
  PROVE  WordSize(s) \in 1 .. MAXBITSPERLONG /\ WordSize(s) \in Nat \ {0}
BY WordsAssumption DEF WordSize

------------------------------------------------------------------------------
\* Where a cast of numbers is not safe there is a value that would be lost.

LEMMA UnsafeCastsLoseValues ==
  ASSUME NEW t \in Type(Kinds), t.kind \in Numeric,
         NEW to \in Type(Kinds), to.kind \in Numeric, ~SafeCast(to, t)
  PROVE  \E n \in Values(t) : n \notin Values(to)
<1>1. /\ t.size \in Nat \ {0} /\ t.size - 1 \in Nat /\ t.size <= MAXBITSPERLONG
      /\ to.size \in Nat \ {0} /\ to.size - 1 \in Nat
  BY SizesAreNumbers
<1>2. /\ TwoTo[t.size] \in Nat \ {0} /\ TwoTo[t.size - 1] \in Nat \ {0}
      /\ TwoTo[to.size] \in Nat \ {0} /\ TwoTo[to.size - 1] \in Nat \ {0}
  BY <1>1, Powers
<1>3. CASE t.kind = "Int"
  <2> DEFINE n == -TwoTo[t.size - 1]
  <2>1. n \in Values(t)
    BY <1>2, <1>3 DEF Values, IntValues
  <2>3. CASE to.kind = "Int"
    <3>1. to.size - 1 < t.size - 1
      BY <1>1, <1>3, <2>3 DEF SafeCast, IntSafeCast
    <3>2. 2 * TwoTo[to.size - 1] <= TwoTo[t.size - 1]
      BY <1>1, <3>1, Powers
    <3>3. n \notin IntValues(to.size)
      BY <1>2, <3>2 DEF IntValues
    <3> QED BY <2>1, <2>3, <3>3 DEF Values
  <2>4. CASE to.kind = "Unsigned"
    <3>1. n \notin UnsignedValues(to.size)
      BY <1>2 DEF UnsignedValues
    <3> QED BY <2>1, <2>4, <3>1 DEF Values
  <2>5. CASE to.kind = "Unary"
    <3>1. n \notin UnaryValues(to.size)
      BY <1>2 DEF UnaryValues
    <3> QED BY <2>1, <2>5, <3>1 DEF Values
  <2> QED BY <2>3, <2>4, <2>5 DEF Numeric
<1>4. CASE t.kind = "Unsigned"
  <2> DEFINE n == TwoTo[t.size] - 1
  <2>1. n \in Values(t)
    BY <1>2, <1>4 DEF Values, UnsignedValues
  <2>2. CASE to.kind = "Int"
    <3>1. to.size - 1 < t.size
      BY <1>1, <1>4, <2>2 DEF SafeCast, IntSafeCast
    <3>2. 2 * TwoTo[to.size - 1] <= TwoTo[t.size]
      BY <1>1, <3>1, Powers
    <3>3. n \notin IntValues(to.size)
      BY <1>2, <3>2 DEF IntValues
    <3> QED BY <2>1, <2>2, <3>3 DEF Values
  <2>3. CASE to.kind = "Unsigned"
    <3>1. to.size < t.size
      BY <1>1, <1>4, <2>3 DEF SafeCast, UnsignedSafeCast
    <3>2. 2 * TwoTo[to.size] <= TwoTo[t.size]
      BY <1>1, <3>1, Powers
    <3>3. n \notin UnsignedValues(to.size)
      BY <1>2, <3>2 DEF UnsignedValues
    <3> QED BY <2>1, <2>3, <3>3 DEF Values
  <2>4. CASE to.kind = "Unary"
    <3>1. to.size < TwoTo[t.size] - 1
      BY <1>1, <1>2, <1>4, <2>4 DEF SafeCast, UnarySafeCast
    <3>2. n \notin UnaryValues(to.size)
      BY <1>1, <1>2, <3>1 DEF UnaryValues
    <3> QED BY <2>1, <2>4, <3>2 DEF Values
  <2> QED BY <2>2, <2>3, <2>4 DEF Numeric
<1>5. CASE t.kind = "Unary"
  <2> DEFINE n == t.size
  <2>1. n \in Values(t)
    BY <1>1, <1>5 DEF Values, UnaryValues
  <2>2. LogBase2(t.size) \in Nat /\ TwoTo[LogBase2(t.size)] <= t.size
    BY <1>1, LogarithmOf
  <2>3. CASE to.kind = "Int"
    <3>1. to.size - 1 <= LogBase2(t.size)
      BY <1>1, <1>5, <2>2, <2>3 DEF SafeCast, IntSafeCast
    <3>2. TwoTo[to.size - 1] <= TwoTo[LogBase2(t.size)]
      BY <1>1, <2>2, <3>1, Powers
    <3>3. TwoTo[LogBase2(t.size)] \in Nat
      BY <2>2, Powers
    <3>4. n \notin IntValues(to.size)
      BY <1>1, <1>2, <2>2, <3>2, <3>3 DEF IntValues
    <3> QED BY <2>1, <2>3, <3>4 DEF Values
  <2>4. CASE to.kind = "Unsigned"
    <3>1. to.size <= LogBase2(t.size)
      BY <1>1, <1>5, <2>2, <2>4 DEF SafeCast, UnsignedSafeCast
    <3>2. TwoTo[to.size] <= TwoTo[LogBase2(t.size)]
      BY <1>1, <2>2, <3>1, Powers
    <3>3. TwoTo[LogBase2(t.size)] \in Nat
      BY <2>2, Powers
    <3>4. n \notin UnsignedValues(to.size)
      BY <1>1, <1>2, <2>2, <3>2, <3>3 DEF UnsignedValues
    <3> QED BY <2>1, <2>4, <3>4 DEF Values
  <2>5. CASE to.kind = "Unary"
    <3>1. to.size < t.size
      BY <1>1, <1>5, <2>5 DEF SafeCast, UnarySafeCast
    <3>2. n \notin UnaryValues(to.size)
      BY <1>1, <3>1 DEF UnaryValues
    <3> QED BY <2>1, <2>5, <3>2 DEF Values
  <2> QED BY <2>3, <2>4, <2>5 DEF Numeric
<1> QED BY <1>3, <1>4, <1>5 DEF Numeric

------------------------------------------------------------------------------
\* Nodes stay nodes.

LEMMA NodeFields ==
  ASSUME NEW o, IsNode(o)
  PROVE  o.type \in Type(Kinds) /\ o.label \in Type(Kinds) /\ o.label.kind = o.type.kind
BY DEF IsNode, Node

LEMMA NodesAreNodes ==
  ASSUME NEW t \in Type(Kinds), NEW label \in Type(Kinds), label.kind = t.kind,
         NEW const, NEW term, NEW n
  PROVE  IsNode(Node(t, label, const, term, n))
BY Zenon DEF IsNode

LEMMA AgainIsNode ==
  ASSUME NEW o, IsNode(o)
  PROVE  IsNode(Again(o)) /\ Again(o).type = o.type /\ Again(o).label = o.type
<1>0. PICK t \in Type(Kinds), label \in Type(Kinds) :
        \E const, term, n : o = Node(t, label, const, term, n)
  BY Zenon DEF IsNode
<1>1. PICK const, term, n : o = Node(t, label, const, term, n)
  BY <1>0, Zenon
<1>2. Again(o) = Node(t, t, const, term, n)
  BY <1>1 DEF Again, Node
<1> QED BY <1>1, <1>2, NodesAreNodes DEF Node

LEMMA CastsAreNodes ==
  ASSUME NEW o, IsNode(o), NEW t \in Type(Kinds), NEW c \in CastTo(o, t)
  PROVE  IsNode(c) /\ c.label = t /\ c.type.kind = t.kind
<1>1. CASE o.label = t
  <2>1. c = o
    BY <1>1 DEF CastTo
  <2> QED BY <1>1, <2>1, NodeFields
<1>2. CASE o.label # t /\ o.type = t
  <2>0. PICK u \in Type(Kinds), label \in Type(Kinds) :
          \E const, term, n : o = Node(u, label, const, term, n)
    BY Zenon DEF IsNode
  <2>1. PICK const, term, n : o = Node(u, label, const, term, n)
    BY <2>0, Zenon
  <2>2. c = Node(t, t, const, term, n)
    BY <1>2, <2>1 DEF CastTo, Node
  <2> QED BY <2>2, NodesAreNodes DEF Node
<1>3. CASE o.label # t /\ o.type # t
  <2>1. PICK n : c = Node(t, t, o.const, FALSE, n)
    BY <1>3 DEF CastTo
  <2> QED BY <2>1, NodesAreNodes DEF Node
<1> QED BY <1>1, <1>2, <1>3

LEMMA OperandsAreNodes ==
  ASSUME NEW o \in Operands PROVE IsNode(o)
<1>1. CASE \E x \in Variables : o = Variable(x)
  BY <1>1, VariablesAssumption, NodesAreNodes DEF Variable
<1>2. ASSUME NEW x \in Literals, o = Literal(x) PROVE IsNode(o)
  <2> DEFINE w == TypeOf(x.kind, MAXBITSPERLONG)
  <2> DEFINE n == IF x.val < 0 THEN -x.val ELSE x.val
  <2>1. /\ x.kind \in {"Int", "Unsigned"} /\ x.val \in Values(w) /\ x.val # 0
        /\ w.kind = x.kind /\ w.size = MAXBITSPERLONG
    BY LiteralsAssumption DEF TypeOf
  <2>2. /\ MAXBITSPERLONG \in Nat \ {0} /\ MAXBITSPERLONG - 1 \in Nat
        /\ (MAXBITSPERLONG - 1) + 1 = MAXBITSPERLONG
    BY WordsAssumption
  <2>3. /\ TwoTo[MAXBITSPERLONG] \in Nat \ {0} /\ TwoTo[MAXBITSPERLONG - 1] \in Nat \ {0}
        /\ TwoTo[MAXBITSPERLONG] = 2 * TwoTo[MAXBITSPERLONG - 1]
    BY <2>2, Powers
  <2>4. n \in Nat \ {0} /\ n < TwoTo[MAXBITSPERLONG]
    <3>1. CASE x.kind = "Int"
      <4>1. x.val \in -TwoTo[MAXBITSPERLONG - 1] .. TwoTo[MAXBITSPERLONG - 1] - 1
        BY <2>1, <3>1 DEF Values, IntValues
      <4> QED BY <2>1, <2>3, <4>1
    <3>2. CASE x.kind = "Unsigned"
      <4>1. x.val \in 0 .. TwoTo[MAXBITSPERLONG] - 1
        BY <2>1, <3>2 DEF Values, UnsignedValues
      <4> QED BY <2>1, <2>3, <4>1
    <3> QED BY <2>1, <3>1, <3>2
  <2> HIDE DEF n
  <2>5. LogBase2(n) \in Nat
    <3>1. TwoTo = [k \in Nat |-> IF k = 0 THEN 1 ELSE 2 * TwoTo[k - 1]]
      BY PowersExist, Zenon DEF TwoTo
    <3>2. n <= n
      BY <2>4
    <3>3. PICK k \in 0 .. n : TwoTo[k] <= n /\ n < TwoTo[k + 1]
      BY <2>4, <3>1, <3>2, Logarithm, Zenon
    <3>4. k \in Nat /\ TwoTo[k] \in Nat
      BY <2>4, <3>3, Powers
    <3>5. ~ (MAXBITSPERLONG <= k)
      <4>1. MAXBITSPERLONG <= k => TwoTo[MAXBITSPERLONG] <= TwoTo[k]
        BY <2>2, <3>4, Powers
      <4> QED BY <2>3, <2>4, <3>3, <3>4, <4>1
    <3>6. k \in 0 .. MAXBITSPERLONG
      BY <2>2, <3>4, <3>5
    <3>7. LogBase2(n) \in 0 .. MAXBITSPERLONG
      BY <3>3, <3>6, Zenon DEF LogBase2
    <3> QED BY <2>2, <3>7
  <2>6. PICK s \in 1 .. MAXBITSPERLONG : LiteralType(x) = TypeOf(x.kind, s)
    <3> DEFINE s == Smaller(MAXBITSPERLONG, IF x.kind = "Int" THEN LogBase2(n) + 2 ELSE LogBase2(n) + 1)
    <3>1. s \in 1 .. MAXBITSPERLONG
      BY <2>2, <2>5 DEF Smaller
    <3>2. LiteralType(x) = TypeOf(x.kind, s)
      BY DEF LiteralType, n
    <3> QED BY <3>1, <3>2
  <2>7. LiteralType(x) \in Type(Kinds)
    <3>1. x.kind \in Kinds
      BY <2>1 DEF Kinds, Numeric
    <3> QED BY <2>6, <3>1, TypesOfSizes
  <2> QED BY <1>2, <2>7, NodesAreNodes DEF Literal
<1> QED BY <1>1, <1>2 DEF Operands

LEMMA PairsAreNodes ==
  ASSUME IsNode(expr), NEW p \in Pairs
  PROVE  IsNode(p[1]) /\ IsNode(p[2])
<1>1. PICK e \in {expr, Again(expr)}, o \in Operands : p \in {<<e, o>>, <<o, e>>}
  BY DEF Pairs
<1>2. IsNode(e) /\ IsNode(o)
  BY AgainIsNode, OperandsAreNodes
<1> QED BY <1>1, <1>2

------------------------------------------------------------------------------
\* The types of results are types.

LEMMA SizeToIsSize ==
  ASSUME NEW t \in Type(Kinds), t.kind \in Numeric, NEW to
  PROVE  SizeTo(t, to) \in 1 .. MAXBITSPERLONG
<1>1. t.size \in Nat \ {0} /\ t.size <= MAXBITSPERLONG /\ MAXBITSPERLONG \in Nat
  BY SizesAreNumbers, WordsAssumption
<1>2. WordSize(t.size) \in Nat \ {0} /\ WordSize(t.size) <= MAXBITSPERLONG
  BY <1>1, WordsAreSizes
<1>3. LogBase2(t.size) \in Nat
  BY <1>1, LogarithmOf
<1>4. UnsignedSizeTo(t.size, to) \in 1 .. MAXBITSPERLONG
  BY <1>1, <1>2 DEF UnsignedSizeTo, Smaller
<1>5. UnarySizeTo(t.size, to) \in 1 .. MAXBITSPERLONG
  BY <1>1, <1>2, <1>3 DEF UnarySizeTo, Smaller
<1>6. IntSizeTo(t.size, to) \in 1 .. MAXBITSPERLONG
  BY <1>1 DEF IntSizeTo
<1> QED BY <1>4, <1>5, <1>6 DEF SizeTo, Numeric

LEMMA SideSizes ==
  ASSUME NEW l \in Type(Kinds), l.kind \in Numeric, NEW r
  PROVE  SideSize(l, r) \in Nat \ {0}
<1>1. SizeTo(l, "Int") \in Nat \ {0}
  BY SizeToIsSize, WordsAssumption
<1>2. CountedSize(l) \in Nat \ {0}
  <2>1. l.size \in Nat \ {0} /\ l.size <= MAXBITSPERLONG
    BY SizesAreNumbers
  <2>2. LogBase2(l.size) \in Nat
    BY <2>1, LogarithmOf
  <2> QED BY <2>1, <2>2 DEF CountedSize
<1> QED BY <1>1, <1>2 DEF SideSize

LEMMA ResultTypes ==
  ASSUME NEW l \in Type(Kinds), l.kind \in Numeric, NEW r \in Type(Kinds), r.kind \in Numeric,
         NEW op \in ArithmeticOps \cup {"<"}
  PROVE  ResultType(op, l, r) \in Type(Kinds)
<1>1. SideSize(l, r) \in Nat \ {0} /\ SideSize(r, l) \in Nat \ {0}
  BY SideSizes
<1>2. ResultWord(l, r) \in Nat \ {0} /\ ResultWord(l, r) <= MAXBITSPERLONG /\ MAXBITSPERLONG \in Nat
  <2>1. l.size \in Nat /\ r.size \in Nat
    BY SizesAreNumbers
  <2>2. WordSize(l.size) \in 1 .. MAXBITSPERLONG /\ WordSize(r.size) \in 1 .. MAXBITSPERLONG
    BY <2>1, WordsAreSizes
  <2> QED BY <2>2, WordsAssumption DEF ResultWord, Larger
<1>3. /\ AddSize(l, r) \in 1 .. MAXBITSPERLONG /\ SubtractSize(l, r) \in 1 .. MAXBITSPERLONG
      /\ MultiplySize(l, r) \in 1 .. MAXBITSPERLONG /\ WidestSize(l, r) \in 1 .. MAXBITSPERLONG
  BY <1>1, <1>2 DEF AddSize, SubtractSize, MultiplySize, WidestSize, Smaller, Larger
<1>4. ResultSize(op, l, r) \in 1 .. MAXBITSPERLONG
  BY <1>3 DEF ResultSize, ArithmeticOps
<1>5. ResultKind(l, r) \in Kinds
  BY DEF ResultKind, Kinds, Numeric
<1> QED BY <1>4, <1>5, TypesOfSizes DEF ResultType

LEMMA NarrowedTypes ==
  ASSUME NEW l \in Type(Kinds), l.kind \in Numeric, NEW r \in Type(Kinds), r.kind \in Numeric,
         NEW t \in Type(Kinds), NEW op
  PROVE  NarrowedType(op, l, r, t) \in Type(Kinds) /\ NarrowedType(op, l, r, t).kind = t.kind
<1>1. t.kind \in Kinds
  BY SizesAreNumbers
<1>2. CASE op = "/"
  <2>1. SizeTo(l, t.kind) \in 1 .. MAXBITSPERLONG
    BY SizeToIsSize
  <2> QED BY <1>1, <1>2, <2>1, TypesOfSizes DEF NarrowedType
<1>3. CASE op = "%"
  <2>1. SizeTo(r, t.kind) \in 1 .. MAXBITSPERLONG
    BY SizeToIsSize
  <2> QED BY <1>1, <1>3, <2>1, TypesOfSizes DEF NarrowedType
<1>4. CASE op \notin {"/", "%"}
  BY <1>4 DEF NarrowedType
<1> QED BY <1>2, <1>3, <1>4

LEMMA ComparisonTypes ==
  ASSUME NEW l \in Type(Kinds), NEW r \in Type(Kinds), NEW op \in Comparisons, Comparable(op, l, r)
  PROVE  ComparisonType(op, l, r) \in Type(Kinds)
<1>1. /\ WidestBits(l, r) \in Type(Kinds) /\ DefaultBool \in Type(Kinds)
  <2>1. l.size \in 1 .. MAXBITSPERLONG /\ r.size \in 1 .. MAXBITSPERLONG /\ 1 \in 1 .. MAXBITSPERLONG
    BY SizesAreNumbers, WordsAssumption
  <2>2. Larger(l.size, r.size) \in 1 .. MAXBITSPERLONG
    BY <2>1 DEF Larger
  <2>3. "Bits" \in Kinds /\ "Bool" \in Kinds
    BY DEF Kinds
  <2> QED BY <2>1, <2>2, <2>3, TypesOfSizes DEF WidestBits, DefaultBool
<1>2. CASE {l.kind, r.kind} \subseteq Numeric
  <2>1. l.kind \in Numeric /\ r.kind \in Numeric
    BY <1>2
  <2>2. ResultType("<", l, r) \in Type(Kinds)
    BY <2>1, ResultTypes
  <2> QED BY <1>1, <2>2 DEF ComparisonType, EqualityType, InequalityType
<1>3. CASE op \in {"==", "!="} /\ ("Bits" \in {l.kind, r.kind} \/ {l.kind, r.kind} = {"Bool"})
  <2>1. "Bits" \in {l.kind, r.kind} \/ (l.kind = "Bool" /\ r.kind = "Bool")
    BY <1>3
  <2>2. EqualityType(l, r) \in Type(Kinds)
    BY <1>1, <2>1 DEF EqualityType
  <2> QED BY <1>3, <2>2 DEF ComparisonType, InequalityType
<1> QED BY <1>2, <1>3 DEF Comparable

\* The kinds of the types of results.
LEMMA ComparisonKinds ==
  ASSUME NEW l \in Type(Kinds), NEW r \in Type(Kinds), NEW op \in Comparisons, Comparable(op, l, r)
  PROVE  \/ ComparisonType(op, l, r).kind \in {"Int", "Unsigned"}
         \/ op \in {"==", "!="} /\ ComparisonType(op, l, r).kind \in {"Bits", "Bool"}
<1>1. WidestBits(l, r).kind = "Bits" /\ DefaultBool.kind = "Bool"
  BY DEF WidestBits, DefaultBool, TypeOf
<1>2. ResultType("<", l, r).kind \in {"Int", "Unsigned"}
  BY DEF ResultType, ResultKind, TypeOf
<1>3. EqualityType(l, r).kind \in {"Int", "Unsigned", "Bits", "Bool"}
  BY <1>1, <1>2 DEF EqualityType
<1>4. CASE op \in {"==", "!="}
  BY <1>3, <1>4 DEF ComparisonType, InequalityType
<1>5. CASE op \notin {"==", "!="}
  BY <1>2, <1>5 DEF ComparisonType
<1> QED BY <1>4, <1>5

LEMMA ShiftSizesAreSizes ==
  ASSUME NEW op, NEW l \in Type(Kinds), NEW r \in Type(Kinds), NEW size \in ShiftSizes(op, l, r)
  PROVE  size \in Int /\ size <= MAXBITSPERLONG
<1>1. /\ l.size \in Nat \ {0} /\ l.size <= MAXBITSPERLONG /\ r.size \in Nat
      /\ MAXBITSPERLONG \in Nat /\ MAXBITSPERINT \in Nat \ {0}
  BY SizesAreNumbers, WordsAssumption
<1>2. ResultWord(l, r) \in Nat /\ ResultWord(l, r) <= MAXBITSPERLONG
  BY <1>1, WordsAreSizes DEF ResultWord, Larger
<1>3. OneShifted(r.size) \subseteq Int
  <2>1. r.size % MAXBITSPERINT \in Nat
    BY <1>1
  <2>2. TwoTo[r.size % MAXBITSPERINT] \in Nat
    BY <2>1, Powers
  <2> HIDE DEF TwoTo
  <2> QED BY <2>2 DEF OneShifted
<1>4. CASE op = "<<"
  <2>1. PICK n \in {ResultWord(l, r)} \cup OneShifted(r.size) : size = Smaller(l.size + n, ResultWord(l, r))
    BY <1>4 DEF ShiftSizes, ShiftLeftSizes
  <2>2. n \in Int
    BY <1>2, <1>3, <2>1
  <2> QED BY <1>1, <1>2, <2>1, <2>2 DEF Smaller
<1>5. CASE op # "<<"
  BY <1>1, <1>5 DEF ShiftSizes, ShiftRightSizes
<1> QED BY <1>4, <1>5

------------------------------------------------------------------------------
\* RefusesOnlyLossyCasts.

\* What is refused is a cast that is not safe.
LEMMA RefusedIsLossy ==
  ASSUME RInv, NEW o, IsNode(o), NEW t \in Type(Kinds), Unsafe(o, t), Refuse(o, t)
  PROVE  RInv'
<1>1. IsNode(expr')
  BY DEF Refuse, RInv
<1>2. refused'.from = o.type /\ refused'.term = o.term /\ refused'.val = o.val /\ refused'.to = t
  BY DEF Refuse
<1>3. o.type \in Type(Kinds)
  BY NodeFields
<1>4. ASSUME o.type.kind \in Numeric, t.kind \in Numeric
      PROVE  \E n \in IF o.term THEN {o.val} ELSE Values(o.type) : n \notin Values(t)
  <2>1. CASE o.term
    <3>1. o.type.kind \notin {"Bool", "Bits"} /\ t.kind \notin {"Bool", "Bits"}
      BY <1>4 DEF Numeric
    <3>2. o.val \notin Values(t)
      BY <2>1, <3>1 DEF Unsafe, SafeToCastTo, ConstantSafeToCast, FitsInBits
    <3> QED BY <2>1, <3>2
  <2>2. CASE ~o.term
    <3>1. ~SafeCast(t, o.type)
      BY <2>2 DEF Unsafe, SafeToCastTo
    <3> QED BY <1>3, <1>4, <2>2, <3>1, UnsafeCastsLoseValues
  <2> QED BY <2>1, <2>2
<1>5. RefusesOnlyLossyCasts'
  <2> SUFFICES ASSUME {o.type.kind, t.kind} \subseteq Numeric
               PROVE  \E n \in IF o.term THEN {o.val} ELSE Values(o.type) : n \notin Values(t)
    BY <1>2, Zenon DEF RefusesOnlyLossyCasts
  <2> QED BY <1>4
<1> QED BY <1>1, <1>5 DEF RInv, IsNode

LEMMA BecomeIsNode ==
  ASSUME RInv, NEW o, IsNode(o), NEW e, NEW why, Become(o, e, why)
  PROVE  RInv'
BY DEF Become, RInv, RefusesOnlyLossyCasts, IsNode

LEMMA StopIsNode ==
  ASSUME RInv, NEW verdict, Stop(verdict)
  PROVE  RInv'
BY DEF Stop, RInv, RefusesOnlyLossyCasts, IsNode

LEMMA RefusePairIsLossy ==
  ASSUME RInv, NEW l, NEW r, IsNode(l), IsNode(r), NEW t \in Type(Kinds), RefusePair(l, r, t)
  PROVE  RInv'
BY RefusedIsLossy DEF RefusePair

LEMMA ComputeIsNode ==
  ASSUME RInv, NEW op, NEW l, NEW r, IsNode(l), IsNode(r), IsNumber(l), IsNumber(r),
         NEW t \in Type(Kinds), NEW cl, NEW cr, Compute(op, l, r, t, cl, cr)
  PROVE  RInv'
<1> DEFINE narrow == NarrowedType(op, l.label, r.label, t)
<1>1. /\ l.label \in Type(Kinds) /\ l.label.kind \in Numeric
      /\ r.label \in Type(Kinds) /\ r.label.kind \in Numeric
  BY NodeFields DEF IsNumber
<1>2. narrow \in Type(Kinds) /\ narrow.kind = t.kind
  BY <1>1, NarrowedTypes
<1>3. \A const, term, n : IsNode(Node(t, t, const, term, n)) /\ IsNode(Node(narrow, t, const, term, n))
  BY <1>2, NodesAreNodes
<1>4. Stop("error") \/ \E const, n, m, e, why :
        Become(IF narrow = t THEN Node(t, t, const, const, n) ELSE Node(narrow, t, const, FALSE, m), e, why)
  BY DEF Compute
<1> QED BY <1>3, <1>4, BecomeIsNode, StopIsNode

LEMMA ArithmeticIsNode == RInv /\ Arithmetic => RInv'
<1> SUFFICES ASSUME RInv, Arithmetic PROVE RInv'
  OBVIOUS
<1>1. PICK p \in Pairs, op \in ArithmeticOps :
        /\ IsNumber(p[1]) /\ IsNumber(p[2])
        /\ \/ RefusePair(p[1], p[2], ResultType(op, p[1].label, p[2].label))
           \/ \E cl, cr : Compute(op, p[1], p[2], ResultType(op, p[1].label, p[2].label), cl, cr)
  BY DEF Arithmetic
<1>2. IsNode(p[1]) /\ IsNode(p[2])
  BY PairsAreNodes DEF RInv
<1>3. ResultType(op, p[1].label, p[2].label) \in Type(Kinds)
  BY <1>1, <1>2, NodeFields, ResultTypes DEF IsNumber
<1> QED BY <1>1, <1>2, <1>3, RefusePairIsLossy, ComputeIsNode

LEMMA DecideIsNode ==
  ASSUME RInv, NEW op, NEW l, NEW r, NEW cl, NEW cr, Decide(op, l, r, cl, cr)
  PROVE  RInv'
<1>1. DefaultBool \in Type(Kinds)
  <2>1. 1 \in 1 .. MAXBITSPERLONG /\ "Bool" \in Kinds
    BY WordsAssumption DEF Kinds
  <2> QED BY <2>1, TypesOfSizes DEF DefaultBool
<1>2. \A const, n : IsNode(Node(DefaultBool, DefaultBool, const, const, n))
  BY <1>1, NodesAreNodes
<1> QED BY <1>2, BecomeIsNode DEF Decide

LEMMA CompareIsNode == RInv /\ Compare => RInv'
<1> SUFFICES ASSUME RInv, Compare PROVE RInv'
  OBVIOUS
<1>1. PICK p \in Pairs, op \in Comparisons :
        LET l == p[1]
            r == p[2]
            t == ComparisonType(op, l.label, r.label)
        IN /\ Comparable(op, l.label, r.label)
           /\ \/ RefusePair(l, r, t)
              \/ \E cl \in CastTo(l, t), cr \in CastTo(r, t) :
                   \/ Decide(op, l, r, cl, cr)
                   \/ RefusePair(cl, cr, ComparisonType(op, cl.type, cr.type))
                   \/ \E dl, dr : Decide(op, l, r, dl, dr)
  BY DEF Compare
<1> DEFINE l == p[1]
<1> DEFINE r == p[2]
<1> DEFINE t == ComparisonType(op, l.label, r.label)
<1>2. IsNode(l) /\ IsNode(r)
  BY PairsAreNodes DEF RInv
<1>3. Comparable(op, l.label, r.label) /\ l.label \in Type(Kinds) /\ r.label \in Type(Kinds)
  BY <1>1, <1>2, NodeFields
<1>4. t \in Type(Kinds)
  BY <1>3, ComparisonTypes
<1>5. t.kind \in Numeric \/ (op \in {"==", "!="} /\ t.kind \in {"Bits", "Bool"})
  BY <1>3, ComparisonKinds DEF Numeric
<1> HIDE DEF t
<1>6. ASSUME NEW cl \in CastTo(l, t), NEW cr \in CastTo(r, t),
             RefusePair(cl, cr, ComparisonType(op, cl.type, cr.type))
      PROVE  RInv'
  <2>1. /\ IsNode(cl) /\ IsNode(cr) /\ cl.type.kind = t.kind /\ cr.type.kind = t.kind
        /\ cl.type \in Type(Kinds) /\ cr.type \in Type(Kinds)
    BY <1>2, <1>4, CastsAreNodes, NodeFields
  <2>2. Comparable(op, cl.type, cr.type)
    BY <1>5, <2>1 DEF Comparable
  <2>3. ComparisonType(op, cl.type, cr.type) \in Type(Kinds)
    BY <2>1, <2>2, ComparisonTypes
  <2> QED BY <1>6, <2>1, <2>3, RefusePairIsLossy
<1>7. RefusePair(l, r, t) => RInv'
  BY <1>2, <1>4, RefusePairIsLossy
<1>8. \A cl, cr : Decide(op, l, r, cl, cr) => RInv'
  BY DecideIsNode
<1> QED BY <1>1, <1>6, <1>7, <1>8 DEF t

\* There is an answer to the question whether a cast is safe.
LEMMA NotSafeIsUnsafe ==
  ASSUME NEW o, NEW t \in Type(Kinds), ~Safe(o, t)
  PROVE  Unsafe(o, t)
<1>1. \A u : SafeCast(t, u) \in BOOLEAN
  <2>1. t.kind \in Kinds
    BY SizesAreNumbers
  <2>2. \A u : /\ IntSafeCast(t.size, u) \in BOOLEAN /\ UnsignedSafeCast(t.size, u) \in BOOLEAN
               /\ UnarySafeCast(t.size, u) \in BOOLEAN /\ BoolSafeCast(t.size, u) \in BOOLEAN
               /\ BitsSafeCast(t.size, u) \in BOOLEAN
    BY DEF IntSafeCast, UnsignedSafeCast, UnarySafeCast, BoolSafeCast, BitsSafeCast
  <2> QED BY <2>1, <2>2 DEF SafeCast, Kinds, Numeric
<1>2. ASSUME NEW S, \E b \in S : b \in BOOLEAN, TRUE \notin S PROVE FALSE \in S
  BY <1>2
<1>3. \E b \in FitsInBits(o, t) : b \in BOOLEAN
  <2>0. \A x, V, W : \A b \in BOOLEAN : (x \in V) \in BOOLEAN /\ b \in {b} /\ b \in {(x \in W), b}
    OBVIOUS
  <2>1. \E b \in BOOLEAN : b \in {o.val \in Values(t)}
    BY <2>0
  <2>2. \E b \in BOOLEAN : b \in {o.val \in BitsValues(t.size), o.val \in IntValues(t.size)}
    BY <2>0
  <2>3. \E b \in BOOLEAN : b \in {Pattern(o.val, o.type) \in BitsValues(t.size)}
    BY <2>0
  <2>4. \/ FitsInBits(o, t) = {o.val \in Values(t)}
        \/ FitsInBits(o, t) = {o.val \in BitsValues(t.size), o.val \in IntValues(t.size)}
        \/ FitsInBits(o, t) = {Pattern(o.val, o.type) \in BitsValues(t.size)}
    <3>1. CASE t.kind # "Bits"
      BY <3>1, Zenon DEF FitsInBits
    <3>2. CASE t.kind = "Bits" /\ o.type.kind = "Int"
      BY <3>2, Zenon DEF FitsInBits
    <3>3. CASE t.kind = "Bits" /\ o.type.kind # "Int"
      BY <3>3, Zenon DEF FitsInBits
    <3> QED BY <3>1, <3>2, <3>3
  <2> QED BY <2>1, <2>2, <2>3, <2>4, Zenon
<1>4. \E b \in SafeToCastTo(o, t) : b \in BOOLEAN
  <2>1. \/ SafeToCastTo(o, t) = FitsInBits(o, t)
        \/ SafeToCastTo(o, t) = {SafeCast(t, o.type)}
    BY Zenon DEF SafeToCastTo, ConstantSafeToCast
  <2> QED BY <1>1, <1>3, <2>1, Zenon
<1> QED BY <1>2, <1>4, Zenon DEF Safe, Unsafe

LEMMA MinusIsNode == RInv /\ Minus => RInv'
<1> SUFFICES ASSUME RInv, Minus PROVE RInv'
  OBVIOUS
<1> DEFINE t == TypeOf("Int", expr.label.size)
<1>1. /\ IsNode(expr) /\ IsNode(Again(expr))
  BY AgainIsNode DEF RInv
<1>2. \A u \in Type(Kinds) : TypeOf("Int", u.size) \in Type(Kinds) /\ TypeOf("Int", u.size).kind = "Int"
  BY SizesAreNumbers, TypesOfSizes DEF Kinds, Numeric
<1>3. t \in Type(Kinds) /\ t.kind = "Int"
  BY <1>1, <1>2, NodeFields
<1>4. ASSUME NEW o, NEW c, NEW u \in Type(Kinds), u.kind = "Int", Negate(o, c, u, t) \/ Negate(o, c, t, t)
      PROVE  RInv'
  <2>1. \A const, n : IsNode(Node(u, t, const, const, n)) /\ IsNode(Node(t, t, const, const, n))
    BY <1>3, <1>4, NodesAreNodes
  <2> HIDE DEF t
  <2> QED BY <1>4, <2>1, BecomeIsNode DEF Negate
<1>5. \/ ~Safe(expr, t) /\ Refuse(expr, t)
      \/ \E c \in CastTo(expr, t) :
           \/ Negate(expr, c, t, t)
           \/ ~Safe(c, TypeOf("Int", c.type.size)) /\ Refuse(c, TypeOf("Int", c.type.size))
           \/ \E d : Negate(expr, d, TypeOf("Int", c.type.size), t)
  BY DEF Minus
<1>6. \A c \in CastTo(expr, t) :
        IsNode(c) /\ TypeOf("Int", c.type.size) \in Type(Kinds) /\ TypeOf("Int", c.type.size).kind = "Int"
  BY <1>1, <1>2, <1>3, CastsAreNodes, NodeFields
<1> HIDE DEF t
<1> QED BY <1>1, <1>3, <1>4, <1>5, <1>6, NotSafeIsUnsafe, RefusedIsLossy

\* The types of the variables.
LEMMA AssignableTypesAreTypes == \A t \in AssignableTypes : t \in Type(Kinds)
BY VariablesAssumption DEF AssignableTypes

LEMMA AssignIsNode == RInv /\ (Assign \/ ExplicitCast) => RInv'
<1> SUFFICES ASSUME RInv, Assign \/ ExplicitCast PROVE RInv'
  OBVIOUS
<1>1. Stop("error") \/ \E t \in AssignableTypes :
        \/ Unsafe(expr, t) /\ Refuse(expr, t)
        \/ \E const, n, e : Become(Node(t, t, const, FALSE, n), e, "none")
  BY DEF Assign, ExplicitCast, MayRefuse
<1>2. \A t \in AssignableTypes : \A const, n : IsNode(Node(t, t, const, FALSE, n))
  BY AssignableTypesAreTypes, NodesAreNodes
<1> QED BY <1>1, <1>2, AssignableTypesAreTypes, BecomeIsNode, StopIsNode, RefusedIsLossy DEF RInv

LEMMA CompoundAssignIsNode == RInv /\ CompoundAssign => RInv'
<1> SUFFICES ASSUME RInv, CompoundAssign PROVE RInv'
  OBVIOUS
<1>1. Stop("error") \/ \E x \in Variables :
        \/ Unsafe(expr, x.type) /\ Refuse(expr, x.type)
        \/ \E n, e : Become(Node(x.type, x.type, FALSE, FALSE, n), e, "none")
  BY DEF CompoundAssign, MayRefuse
<1>2. \A x \in Variables : x.type \in Type(Kinds) /\ \A n : IsNode(Node(x.type, x.type, FALSE, FALSE, n))
  BY VariablesAssumption, NodesAreNodes
<1> QED BY <1>1, <1>2, BecomeIsNode, StopIsNode, RefusedIsLossy DEF RInv

LEMMA ShiftedIsNode ==
  ASSUME RInv, NEW op, NEW l, NEW r, NEW lt \in Type(Kinds), NEW rt \in Type(Kinds),
         NEW first \in Type(Kinds), first.kind = "Bits", NEW undefined,
         Shifted(op, l, r, lt, rt, first, undefined)
  PROVE  RInv'
<1>1. PICK size \in ShiftSizes(op, lt, rt) :
        \/ Stop("hazy")
        \/ size > 0 /\ \E const, n, e, why :
             Become(Node(TypeOf("Bits", size), IF const THEN TypeOf("Bits", size) ELSE first,
                         const, const, n), e, why)
  <2>1. PICK size \in ShiftSizes(op, lt, rt) :
          LET bits == TypeOf("Bits", size)
              const == l.const /\ r.const
          IN IF size <= 0 THEN Stop("hazy")
             ELSE \E n, e, why : Become(Node(bits, IF const THEN bits ELSE first, const, const, n), e, why)
    BY Zenon DEF Shifted
  <2>2. size \in Int
    BY ShiftSizesAreSizes
  <2>3. CASE size <= 0
    BY <2>1, <2>3
  <2>4. CASE ~ (size <= 0)
    <3>1. size > 0
      BY <2>2, <2>4
    <3>2. \E n, e, why : Become(Node(TypeOf("Bits", size), IF l.const /\ r.const THEN TypeOf("Bits", size) ELSE first,
                                   l.const /\ r.const, l.const /\ r.const, n), e, why)
      BY <2>1, <2>4
    <3>3. \E const, n, e, why : Become(Node(TypeOf("Bits", size), IF const THEN TypeOf("Bits", size) ELSE first,
                                          const, const, n), e, why)
      BY <3>2, Zenon
    <3> QED BY <3>1, <3>3, Zenon
  <2> QED BY <2>3, <2>4
<1>2. size \in Int /\ size <= MAXBITSPERLONG
  BY ShiftSizesAreSizes
<1>3. ASSUME size > 0, NEW const, NEW n
      PROVE  IsNode(Node(TypeOf("Bits", size), IF const THEN TypeOf("Bits", size) ELSE first, const, const, n))
  <2>1. size \in 1 .. MAXBITSPERLONG /\ "Bits" \in Kinds
    BY <1>2, <1>3, WordsAssumption DEF Kinds
  <2>2. TypeOf("Bits", size) \in Type(Kinds) /\ TypeOf("Bits", size).kind = "Bits"
    BY <2>1, TypesOfSizes
  <2>3. (IF const THEN TypeOf("Bits", size) ELSE first) \in Type(Kinds)
        /\ (IF const THEN TypeOf("Bits", size) ELSE first).kind = "Bits"
    BY <2>2
  <2> QED BY <2>2, <2>3, NodesAreNodes
<1> QED BY <1>1, <1>3, BecomeIsNode, StopIsNode

LEMMA ShiftIsNode == RInv /\ Shift => RInv'
<1> SUFFICES ASSUME RInv, Shift PROVE RInv'
  OBVIOUS
<1>1. PICK p \in Pairs, op \in {"<<", ">>"} :
        LET l == p[1]
            r == p[2]
            bits == TypeOf("Bits", l.label.size)
            undefined == HasNoRoom(op, l.label, r.label)
        IN \/ Unsafe(l, bits) /\ Refuse(l, bits)
           \/ Unsafe(r, Distance) /\ Refuse(r, Distance)
           \/ Stop("hazy")
           \/ \E size \in ShiftSizes(op, l.label, r.label) :
                /\ size > 0
                /\ \E cl \in AsBits(l), cr \in AsDistance(r) :
                     \/ Shifted(op, cl, cr, l.label, r.label, bits, undefined)
                     \/ Shifted(op, cl, cr, cl.type, cr.type, TypeOf("Bits", size), undefined)
  BY DEF Shift
<1> DEFINE l == p[1]
<1> DEFINE r == p[2]
<1> DEFINE bits == TypeOf("Bits", l.label.size)
<1> DEFINE undefined == HasNoRoom(op, l.label, r.label)
<1>2. IsNode(l) /\ IsNode(r) /\ l.label \in Type(Kinds) /\ r.label \in Type(Kinds)
  BY PairsAreNodes, NodeFields DEF RInv
<1>3. bits \in Type(Kinds) /\ bits.kind = "Bits" /\ Distance \in Type(Kinds)
  <2>1. /\ l.label.size \in 1 .. MAXBITSPERLONG /\ MAXBITSPERINT \in 1 .. MAXBITSPERLONG
        /\ "Bits" \in Kinds /\ "Unsigned" \in Kinds
    BY <1>2, SizesAreNumbers, WordsAssumption DEF Kinds, Numeric
  <2> QED BY <2>1, TypesOfSizes DEF Distance
<1>4. ASSUME NEW cl \in AsBits(l) PROVE cl.type \in Type(Kinds)
  BY <1>2, <1>3, CastsAreNodes, NodeFields DEF AsBits
<1>5. ASSUME NEW cr \in AsDistance(r) PROVE cr.type \in Type(Kinds)
  BY <1>2, <1>3, CastsAreNodes, NodeFields DEF AsDistance
<1>6. ASSUME NEW size \in ShiftSizes(op, l.label, r.label), size > 0
      PROVE  TypeOf("Bits", size) \in Type(Kinds) /\ TypeOf("Bits", size).kind = "Bits"
  <2>1. size \in Int /\ size <= MAXBITSPERLONG /\ MAXBITSPERLONG \in Nat
    BY <1>2, ShiftSizesAreSizes, WordsAssumption
  <2>2. size \in 1 .. MAXBITSPERLONG /\ "Bits" \in Kinds
    BY <1>6, <2>1 DEF Kinds
  <2> QED BY <2>2, TypesOfSizes
<1>7. \/ Unsafe(l, bits) /\ Refuse(l, bits)
      \/ Unsafe(r, Distance) /\ Refuse(r, Distance)
      \/ Stop("hazy")
      \/ \E size \in ShiftSizes(op, l.label, r.label) :
           /\ size > 0
           /\ \E cl \in AsBits(l), cr \in AsDistance(r) :
                \/ Shifted(op, cl, cr, l.label, r.label, bits, undefined)
                \/ Shifted(op, cl, cr, cl.type, cr.type, TypeOf("Bits", size), undefined)
  BY <1>1
<1> HIDE DEF bits, l, r, undefined
<1> QED BY <1>2, <1>3, <1>4, <1>5, <1>6, <1>7, RefusedIsLossy, StopIsNode, ShiftedIsNode

LEMMA NextIsNode == RInv /\ Next => RInv'
<1> SUFFICES ASSUME RInv, Next PROVE RInv'
  OBVIOUS
<1>1. CASE RefuseArithmetic
  BY <1>1, StopIsNode DEF RefuseArithmetic
<1> QED
  BY <1>1, ArithmeticIsNode, CompareIsNode, MinusIsNode, AssignIsNode, CompoundAssignIsNode, ShiftIsNode
  DEF Next

------------------------------------------------------------------------------
\* Powers of two, and logarithms.

LEMMA SumsOfExponents ==
  ASSUME NEW a \in Nat, NEW b \in Nat
  PROVE  TwoTo[a + b] = TwoTo[a] * TwoTo[b]
<1> DEFINE S == {n \in Nat : TwoTo[a + n] = TwoTo[a] * TwoTo[n]}
<1>1. 0 \in S
  <2>1. a + 0 = a /\ TwoTo[0] = 1 /\ TwoTo[a] \in Nat
    BY Powers
  <2> QED BY <2>1
<1>2. ASSUME NEW n \in Nat, n \in S PROVE n + 1 \in S
  <2>1. TwoTo[a + n] = TwoTo[a] * TwoTo[n]
    BY <1>2
  <2>2. a + n \in Nat /\ (a + n) + 1 = a + (n + 1)
    OBVIOUS
  <2>3. TwoTo[(a + n) + 1] = 2 * TwoTo[a + n] /\ TwoTo[n + 1] = 2 * TwoTo[n]
    BY <2>2, Powers
  <2>4. TwoTo[a] \in Nat /\ TwoTo[n] \in Nat
    BY Powers
  <2>5. 2 * (TwoTo[a] * TwoTo[n]) = TwoTo[a] * (2 * TwoTo[n])
    BY <2>4
  <2>6. TwoTo[a + (n + 1)] = TwoTo[a] * TwoTo[n + 1]
    BY <2>1, <2>2, <2>3, <2>5, Zenon
  <2> QED BY <2>6
<1>3. Nat \subseteq S
  <2> HIDE DEF S
  <2> QED BY <1>1, <1>2, NumberInduction
<1> QED BY <1>3

\* A number is less than its power, and from three on than the one before.
LEMMA NumbersAreLess ==
  /\ \A n \in Nat : n < TwoTo[n]
  /\ \A n \in Nat : n >= 3 => n < TwoTo[n - 1]
<1>1. \A n \in Nat : n < TwoTo[n]
  <2>1. TwoTo = [n \in Nat |-> IF n = 0 THEN 1 ELSE 2 * TwoTo[n - 1]]
    BY PowersExist, Zenon DEF TwoTo
  <2> QED BY <2>1, PowersOfTwo, Zenon
<1>2. ASSUME NEW n \in Nat, n >= 3 PROVE n < TwoTo[n - 1]
  <2>1. n - 2 \in Nat /\ (n - 2) + 1 = n - 1
    BY <1>2
  <2>2. n - 2 < TwoTo[n - 2] /\ TwoTo[n - 2] \in Nat
    BY <1>1, <2>1, Powers
  <2>3. TwoTo[n - 1] = 2 * TwoTo[n - 2]
    BY <2>1, Powers
  <2>4. CASE n >= 3
    BY <1>2, <2>2, <2>3
  <2> QED BY <1>2, <2>4
<1> QED BY <1>1, <1>2

LEMMA LogarithmBounds ==
  ASSUME NEW x \in Nat \ {0}, x < TwoTo[MAXBITSPERLONG]
  PROVE  /\ LogBase2(x) \in Nat /\ TwoTo[LogBase2(x)] <= x /\ x < TwoTo[LogBase2(x) + 1]
         /\ TwoTo[LogBase2(x)] \in Nat /\ TwoTo[LogBase2(x) + 1] \in Nat
<1>0. MAXBITSPERLONG \in Nat /\ TwoTo[MAXBITSPERLONG] \in Nat
  BY WordsAssumption, Powers
<1>1. TwoTo = [k \in Nat |-> IF k = 0 THEN 1 ELSE 2 * TwoTo[k - 1]]
  BY PowersExist, Zenon DEF TwoTo
<1>2. x <= x
  OBVIOUS
<1>3. PICK k \in 0 .. x : TwoTo[k] <= x /\ x < TwoTo[k + 1]
  BY <1>1, <1>2, Logarithm, Zenon
<1>4. k \in Nat /\ TwoTo[k] \in Nat
  BY <1>3, Powers
<1>5. ~ (MAXBITSPERLONG <= k)
  <2>1. MAXBITSPERLONG <= k => TwoTo[MAXBITSPERLONG] <= TwoTo[k]
    BY <1>0, <1>4, Powers
  <2> QED BY <1>0, <1>3, <1>4, <2>1
<1>6. k \in 0 .. MAXBITSPERLONG
  BY <1>0, <1>4, <1>5
<1>7. LogBase2(x) \in 0 .. MAXBITSPERLONG /\ TwoTo[LogBase2(x)] <= x /\ x < TwoTo[LogBase2(x) + 1]
  BY <1>3, <1>6, Zenon DEF LogBase2
<1>8. LogBase2(x) \in Nat /\ LogBase2(x) + 1 \in Nat
  BY <1>0, <1>7
<1> QED BY <1>7, <1>8, Powers

\* The logarithm of a size is less than the word that holds the size by two.
LEMMA LogarithmsOfSizes ==
  ASSUME NEW s \in 1 .. MAXBITSPERLONG
  PROVE  /\ LogBase2(s) \in Nat /\ s < TwoTo[LogBase2(s) + 1]
         /\ TwoTo[LogBase2(s) + 1] \in Nat /\ LogBase2(s) + 2 <= WordSize(s)
<1>1. s \in Nat \ {0} /\ MAXBITSPERLONG \in Nat /\ MAXBITSPERINT \in Nat /\ s <= MAXBITSPERLONG
  BY WordsAssumption
<1>2. MAXBITSPERLONG < TwoTo[MAXBITSPERLONG] /\ TwoTo[MAXBITSPERLONG] \in Nat
  BY <1>1, NumbersAreLess, Powers
<1>3. s < TwoTo[MAXBITSPERLONG]
  BY <1>1, <1>2
<1>4. /\ LogBase2(s) \in Nat /\ TwoTo[LogBase2(s)] <= s /\ s < TwoTo[LogBase2(s) + 1]
      /\ TwoTo[LogBase2(s)] \in Nat /\ TwoTo[LogBase2(s) + 1] \in Nat
  BY <1>1, <1>3, LogarithmBounds
<1>5. WordSize(s) \in Nat /\ WordSize(s) >= 3 /\ s <= WordSize(s)
  BY <1>1, WordsAssumption DEF WordSize
<1>6. WordSize(s) < TwoTo[WordSize(s) - 1] /\ WordSize(s) - 1 \in Nat /\ TwoTo[WordSize(s) - 1] \in Nat
  BY <1>5, NumbersAreLess, Powers
<1>7. ~ (WordSize(s) - 1 <= LogBase2(s))
  <2>1. WordSize(s) - 1 <= LogBase2(s) => TwoTo[WordSize(s) - 1] <= TwoTo[LogBase2(s)]
    BY <1>4, <1>6, Powers
  <2> QED BY <1>1, <1>4, <1>5, <1>6, <2>1
<1> QED BY <1>4, <1>5, <1>7

------------------------------------------------------------------------------
\* The values of a type are those between the least and the greatest.

Least(t) == IF t.kind = "Int" THEN -TwoTo[t.size - 1] ELSE 0

Greatest(t) ==
  CASE t.kind = "Int" -> TwoTo[t.size - 1] - 1
    [] t.kind = "Unary" -> t.size
    [] t.kind = "Bool" -> 1
    [] OTHER -> TwoTo[t.size] - 1

LEMMA ValuesAreIntervals ==
  ASSUME NEW t \in Type(Kinds)
  PROVE  /\ Least(t) \in Int /\ Greatest(t) \in Nat /\ Least(t) <= 0
         /\ \A n : n \in Values(t) <=> n \in Int /\ Least(t) <= n /\ n <= Greatest(t)
<1>1. /\ t.kind \in Kinds /\ t.size \in Nat \ {0} /\ t.size - 1 \in Nat
  BY SizesAreNumbers
<1>2. TwoTo[t.size] \in Nat \ {0} /\ TwoTo[t.size - 1] \in Nat \ {0}
  BY <1>1, Powers
<1>3. CASE t.kind = "Int"
  BY <1>2, <1>3 DEF Least, Greatest, Values, IntValues
<1>4. CASE t.kind = "Unsigned"
  BY <1>2, <1>4 DEF Least, Greatest, Values, UnsignedValues
<1>5. CASE t.kind = "Unary"
  BY <1>1, <1>5 DEF Least, Greatest, Values, UnaryValues
<1>6. CASE t.kind = "Bool"
  BY <1>6 DEF Least, Greatest, Values, BoolValues
<1>7. CASE t.kind = "Bits"
  BY <1>2, <1>7 DEF Least, Greatest, Values, BitsValues
<1> QED BY <1>1, <1>3, <1>4, <1>5, <1>6, <1>7 DEF Kinds, Numeric

LEMMA ValuesAreNumbers ==
  ASSUME NEW t \in Type(Kinds), NEW n \in Values(t)
  PROVE  n \in Int /\ (t.kind # "Int" => n \in Nat)
<1>1. n \in Int /\ Least(t) <= n
  BY ValuesAreIntervals
<1>2. t.kind # "Int" => Least(t) = 0
  BY DEF Least
<1> QED BY <1>1, <1>2

\* What is clamped is a value, and what is a value stays as it is.
LEMMA Clamps ==
  ASSUME NEW t \in Type(Kinds), NEW n \in Int
  PROVE  Clamp(n, t) \in Values(t) /\ (n \in Values(t) => Clamp(n, t) = n)
<1>1. /\ Least(t) \in Int /\ Greatest(t) \in Nat /\ Least(t) <= 0
      /\ \A m : m \in Values(t) <=> m \in Int /\ Least(t) <= m /\ m <= Greatest(t)
  BY ValuesAreIntervals
<1>2. Clamp(n, t) = Smaller(Larger(n, Least(t)), Greatest(t))
  BY Zenon DEF Clamp, Least, Greatest
<1> HIDE DEF Least, Greatest
<1>3. LET c == Smaller(Larger(n, Least(t)), Greatest(t))
      IN /\ c \in Int /\ Least(t) <= c /\ c <= Greatest(t)
         /\ Least(t) <= n /\ n <= Greatest(t) => c = n
  BY <1>1 DEF Smaller, Larger
<1> QED BY <1>1, <1>2, <1>3

\* A larger type of the kind has all the values.
LEMMA WiderTypes ==
  ASSUME NEW t \in Type(Kinds), NEW u \in Type(Kinds), t.kind = u.kind, t.size <= u.size
  PROVE  Values(t) \subseteq Values(u)
<1>1. /\ t.size \in Nat \ {0} /\ t.size - 1 \in Nat /\ u.size \in Nat \ {0} /\ u.size - 1 \in Nat
  BY SizesAreNumbers
<1>2. /\ TwoTo[t.size] \in Nat /\ TwoTo[t.size - 1] \in Nat
      /\ TwoTo[u.size] \in Nat /\ TwoTo[u.size - 1] \in Nat
      /\ TwoTo[t.size] <= TwoTo[u.size]
  BY <1>1, Powers
<1>3. t.size - 1 <= u.size - 1
  BY <1>1
<1>4. TwoTo[t.size - 1] <= TwoTo[u.size - 1]
  BY <1>1, <1>3, Powers
<1>5. Least(u) <= Least(t) /\ Greatest(t) <= Greatest(u)
  <2>1. Least(u) <= Least(t)
    BY <1>2, <1>4 DEF Least
  <2>2. Greatest(t) <= Greatest(u)
    BY <1>1, <1>2, <1>4 DEF Greatest
  <2> QED BY <2>1, <2>2
<1> HIDE DEF Least, Greatest
<1>6. /\ Least(t) \in Int /\ Greatest(t) \in Nat /\ Least(u) \in Int /\ Greatest(u) \in Nat
      /\ \A n : n \in Values(t) <=> n \in Int /\ Least(t) <= n /\ n <= Greatest(t)
      /\ \A n : n \in Values(u) <=> n \in Int /\ Least(u) <= n /\ n <= Greatest(u)
  BY ValuesAreIntervals
<1> QED BY <1>5, <1>6

\* The bits of a value are as many as its type has.
LEMMA PatternsAreBits ==
  ASSUME NEW t \in Type(Kinds), NEW n \in Values(t)
  PROVE  /\ Pattern(n, t) \in 0 .. TwoTo[t.size] - 1
         /\ t.kind \in {"Bits", "Unsigned"} => Pattern(n, t) = n
<1>1. t.size \in Nat \ {0} /\ TwoTo[t.size] \in Nat \ {0} /\ n \in Int /\ t.kind \in Kinds
  BY SizesAreNumbers, Powers, ValuesAreNumbers
<1>2. CASE t.kind = "Unary"
  <2>1. n \in 0 .. t.size
    BY <1>2 DEF Values, UnaryValues
  <2>2. n \in Nat /\ n <= t.size
    BY <1>1, <2>1
  <2>3. TwoTo[n] \in Nat \ {0} /\ TwoTo[n] <= TwoTo[t.size]
    BY <1>1, <2>2, Powers
  <2> QED BY <1>1, <1>2, <2>3 DEF Pattern
<1>3. CASE t.kind = "Bool"
  <2>1. n \in {0, 1}
    BY <1>3 DEF Values, BoolValues
  <2> QED BY <1>1, <1>3, <2>1 DEF Pattern
<1>4. CASE t.kind \notin {"Unary", "Bool"}
  <2>1. Pattern(n, t) = n % TwoTo[t.size]
    BY <1>4 DEF Pattern
  <2>2. n % TwoTo[t.size] \in 0 .. TwoTo[t.size] - 1
    BY <1>1, Division
  <2>3. ASSUME t.kind \in {"Bits", "Unsigned"} PROVE n % TwoTo[t.size] = n
    <3>1. n \in 0 .. TwoTo[t.size] - 1
      BY <2>3 DEF Values, BitsValues, UnsignedValues
    <3>2. n \in Nat /\ n < TwoTo[t.size]
      BY <1>1, <3>1
    <3> QED BY <1>1, <3>2, SmallRemainder
  <2> QED BY <2>1, <2>2, <2>3
<1> QED BY <1>2, <1>3, <1>4

LEMMA OnesAreFew ==
  ASSUME NEW n, NEW s \in Nat
  PROVE  Ones(n, s) \in 0 .. s
<1> DEFINE T == {k \in 0 .. s - 1 : (n \div TwoTo[k]) % 2 = 1}
<1>1. s - 1 \in Int
  OBVIOUS
<1>2. IsFiniteSet(0 .. s - 1) /\ Cardinality(0 .. s - 1) = IF 0 > s - 1 THEN 0 ELSE (s - 1) - 0 + 1
  BY <1>1, FS_Interval
<1>3. T \in SUBSET (0 .. s - 1)
  OBVIOUS
<1> HIDE DEF T
<1>4. IsFiniteSet(T) /\ Cardinality(T) <= Cardinality(0 .. s - 1)
  BY <1>2, <1>3, FS_Subset
<1>5. Cardinality(T) \in Nat
  BY <1>4, FS_CardinalityType
<1>6. Cardinality(T) \in 0 .. s
  BY <1>2, <1>4, <1>5
<1> QED BY <1>6 DEF Ones, T

\* What a conversion makes is a value of the new type.
LEMMA ConvertedIsValue ==
  ASSUME NEW t \in Type(Kinds), NEW to \in Type(Kinds), NEW n \in Values(t), NEW m \in Converted(n, t, to)
  PROVE  m \in Values(to)
<1>1. /\ t.kind \in Kinds /\ t.size \in Nat \ {0} /\ t.size - 1 \in Nat
      /\ to.kind \in Kinds /\ to.size \in 1 .. MAXBITSPERLONG /\ to.size \in Nat \ {0}
  BY SizesAreNumbers
<1>2. /\ TwoTo[t.size] \in Nat \ {0} /\ TwoTo[to.size] \in Nat \ {0}
      /\ n \in Int
  BY <1>1, Powers, ValuesAreNumbers
<1>3. to = TypeOf(to.kind, to.size)
  BY DEF Type, TypeOf
<1>4. CASE to.kind = "Int"
  <2>1. m \in IntConverted(n, t, to.size)
    BY <1>4 DEF Converted
  <2>2. PICK k \in {n} \cup (IF t.kind = "Bits" THEN {Signed(n, t.size)} ELSE {}) : m = Clamp(k, to)
    BY <1>3, <1>4, <2>1 DEF IntConverted
  <2>3. Signed(n, t.size) \in Int
    BY <1>2 DEF Signed
  <2> QED BY <1>2, <2>2, <2>3, Clamps
<1>5. CASE to.kind = "Unsigned"
  <2>1. m = IF t.kind = "Bits" THEN n % TwoTo[to.size] ELSE Clamp(n, to)
    BY <1>3, <1>5 DEF Converted, UnsignedConverted
  <2>2. n % TwoTo[to.size] \in 0 .. TwoTo[to.size] - 1
    BY <1>2, Division
  <2>3. n % TwoTo[to.size] \in Values(to)
    BY <1>5, <2>2 DEF Values, UnsignedValues
  <2> QED BY <1>2, <2>1, <2>3, Clamps
<1>6. CASE to.kind = "Unary"
  <2>1. m = IF t.kind = "Bits" THEN Ones(n, to.size) ELSE Clamp(n, to)
    BY <1>3, <1>6 DEF Converted, UnaryConverted
  <2>2. Ones(n, to.size) \in Values(to)
    BY <1>1, <1>6, OnesAreFew DEF Values, UnaryValues
  <2> QED BY <1>2, <2>1, <2>2, Clamps
<1>7. CASE to.kind = "Bool"
  <2>1. m \in BoolValues(to.size) \/ m = Clamp(n, to)
    BY <1>3, <1>7 DEF Converted, BoolConverted
  <2>2. BoolValues(to.size) = Values(to)
    BY <1>7 DEF Values
  <2> QED BY <1>2, <2>1, <2>2, Clamps
<1>8. CASE to.kind = "Bits"
  <2>1. m = Pattern(n, t) % TwoTo[to.size]
    BY <1>8 DEF Converted, BitsConverted
  <2>2. Pattern(n, t) \in Int
    BY PatternsAreBits
  <2>3. m \in 0 .. TwoTo[to.size] - 1
    BY <1>2, <2>1, <2>2, Division
  <2> QED BY <1>8, <2>3 DEF Values, BitsValues
<1> QED BY <1>1, <1>4, <1>5, <1>6, <1>7, <1>8 DEF Kinds, Numeric

\* A number or truth value that is one of the new type, too, is kept.
LEMMA ConvertedKeeps ==
  ASSUME NEW t \in Type(Kinds), t.kind # "Bits", NEW to \in Type(Kinds), to.kind # "Bits",
         NEW n \in Values(to), NEW m \in Converted(n, t, to)
  PROVE  m = n
<1>1. to.kind \in Kinds
  BY SizesAreNumbers
<1>2. to = TypeOf(to.kind, to.size)
  BY DEF Type, TypeOf
<1>3. Clamp(n, to) = n
  BY ValuesAreNumbers, Clamps
<1>4. CASE to.kind = "Int"
  <2>1. m \in IntConverted(n, t, to.size)
    BY <1>4 DEF Converted
  <2>2. m = Clamp(n, to)
    BY <1>2, <1>4, <2>1 DEF IntConverted
  <2> QED BY <1>3, <2>2
<1>5. CASE to.kind = "Unsigned"
  BY <1>2, <1>3, <1>5 DEF Converted, UnsignedConverted
<1>6. CASE to.kind = "Unary"
  BY <1>2, <1>3, <1>6 DEF Converted, UnaryConverted
<1>7. CASE to.kind = "Bool"
  BY <1>2, <1>3, <1>7 DEF Converted, BoolConverted
<1> QED BY <1>1, <1>4, <1>5, <1>6, <1>7 DEF Kinds, Numeric

\* As bits a value keeps its pattern if there is room.
LEMMA PatternsAreKept ==
  ASSUME NEW t \in Type(Kinds), NEW to \in Type(Kinds), to.kind = "Bits", t.size <= to.size,
         NEW n \in Values(t), NEW m \in Converted(n, t, to)
  PROVE  m = Pattern(n, t)
<1>1. t.size \in Nat \ {0} /\ to.size \in Nat \ {0}
  BY SizesAreNumbers
<1>2. TwoTo[t.size] \in Nat \ {0} /\ TwoTo[to.size] \in Nat \ {0} /\ TwoTo[t.size] <= TwoTo[to.size]
  BY <1>1, Powers
<1>3. m = Pattern(n, t) % TwoTo[to.size]
  BY DEF Converted, BitsConverted
<1>4. Pattern(n, t) \in 0 .. TwoTo[t.size] - 1
  BY PatternsAreBits
<1>5. Pattern(n, t) \in Nat /\ Pattern(n, t) < TwoTo[to.size]
  BY <1>2, <1>4
<1> QED BY <1>2, <1>3, <1>5, SmallRemainder

\* A safe cast loses no value: all the values of the type are values of the
\* new one.
LEMMA SafeCastsLoseNothing ==
  ASSUME NEW t \in Type(Kinds), NEW to \in Type(Kinds), to.kind # "Bits", SafeCast(to, t)
  PROVE  t.kind # "Bits" /\ Values(t) \subseteq Values(to)
<1>1. /\ t.kind \in Kinds /\ t.size \in Nat \ {0} /\ t.size - 1 \in Nat /\ t.size \in 1 .. MAXBITSPERLONG
      /\ to.kind \in Kinds /\ to.size \in Nat \ {0} /\ to.size - 1 \in Nat
  BY SizesAreNumbers
<1>2. /\ TwoTo[t.size] \in Nat \ {0} /\ TwoTo[t.size - 1] \in Nat \ {0}
      /\ TwoTo[to.size] \in Nat \ {0} /\ TwoTo[to.size - 1] \in Nat \ {0}
  BY <1>1, Powers
<1>3. CASE to.kind = "Int"
  <2>1. IntSafeCast(to.size, t)
    BY <1>3 DEF SafeCast
  <2>2. CASE t.kind = "Int" /\ to.size >= t.size
    BY <1>1, <1>3, <2>2, WiderTypes
  <2>3. CASE t.kind = "Unsigned" /\ to.size > t.size
    <3>1. t.size <= to.size - 1
      BY <1>1, <2>3
    <3>2. TwoTo[t.size] <= TwoTo[to.size - 1]
      BY <1>1, <3>1, Powers
    <3> QED BY <1>2, <1>3, <2>3, <3>2 DEF Values, IntValues, UnsignedValues
  <2>4. CASE t.kind = "Unary" /\ to.size > LogBase2(t.size) + 1
    <3>1. LogBase2(t.size) \in Nat /\ t.size < TwoTo[LogBase2(t.size) + 1]
      BY <1>1, LogarithmsOfSizes
    <3>2. LogBase2(t.size) + 1 <= to.size - 1 /\ LogBase2(t.size) + 1 \in Nat
      BY <1>1, <2>4, <3>1
    <3>3. TwoTo[LogBase2(t.size) + 1] <= TwoTo[to.size - 1] /\ TwoTo[LogBase2(t.size) + 1] \in Nat
      BY <1>1, <3>2, Powers
    <3>4. t.size < TwoTo[to.size - 1]
      BY <1>1, <1>2, <3>1, <3>3
    <3> QED BY <1>1, <1>2, <1>3, <2>4, <3>4 DEF Values, IntValues, UnaryValues
  <2> QED BY <2>1, <2>2, <2>3, <2>4 DEF IntSafeCast
<1>4. CASE to.kind = "Unsigned"
  <2>1. UnsignedSafeCast(to.size, t)
    BY <1>4 DEF SafeCast
  <2>2. CASE t.kind = "Unsigned" /\ to.size >= t.size
    BY <1>1, <1>4, <2>2, WiderTypes
  <2>4. CASE t.kind = "Unary" /\ to.size >= LogBase2(t.size) + 1
    <3>1. LogBase2(t.size) \in Nat /\ t.size < TwoTo[LogBase2(t.size) + 1]
      BY <1>1, LogarithmsOfSizes
    <3>2. LogBase2(t.size) + 1 <= to.size /\ LogBase2(t.size) + 1 \in Nat
      BY <1>1, <2>4, <3>1
    <3>3. TwoTo[LogBase2(t.size) + 1] <= TwoTo[to.size] /\ TwoTo[LogBase2(t.size) + 1] \in Nat
      BY <1>1, <3>2, Powers
    <3>4. t.size < TwoTo[to.size]
      BY <1>1, <1>2, <3>1, <3>3
    <3> QED BY <1>1, <1>2, <1>4, <2>4, <3>4 DEF Values, UnsignedValues, UnaryValues
  <2> QED BY <2>1, <2>2, <2>4 DEF UnsignedSafeCast
<1>5. CASE to.kind = "Unary"
  <2>1. UnarySafeCast(to.size, t)
    BY <1>5 DEF SafeCast
  <2>2. CASE t.kind = "Unsigned" /\ to.size >= TwoTo[t.size] - 1
    BY <1>1, <1>2, <1>5, <2>2 DEF Values, UnaryValues, UnsignedValues
  <2>3. CASE t.kind = "Unary" /\ to.size >= t.size
    BY <1>1, <1>5, <2>3, WiderTypes
  <2> QED BY <2>1, <2>2, <2>3 DEF UnarySafeCast
<1>6. CASE to.kind = "Bool"
  <2>1. BoolSafeCast(to.size, t)
    BY <1>6 DEF SafeCast
  <2>2. TwoTo[1] = 2
    <3>1. 0 \in Nat /\ 0 + 1 = 1 /\ TwoTo[0] = 1
      BY Powers
    <3>2. TwoTo[0 + 1] = 2 * TwoTo[0]
      BY <3>1, Powers
    <3> QED BY <3>1, <3>2
  <2>3. Values(to) = {0, 1}
    BY <1>6 DEF Values, BoolValues
  <2>4. CASE t.kind = "Bool"
    BY <2>3, <2>4 DEF Values, BoolValues
  <2>5. CASE t.kind = "Unsigned" /\ t.size = 1
    <3>1. Values(t) = 0 .. 1
      BY <2>2, <2>5 DEF Values, UnsignedValues
    <3> QED BY <2>3, <2>5, <3>1
  <2>6. CASE t.kind = "Unary" /\ t.size = 1
    <3>1. Values(t) = 0 .. 1
      BY <2>6 DEF Values, UnaryValues
    <3> QED BY <2>3, <2>6, <3>1
  <2> QED BY <2>1, <2>4, <2>5, <2>6 DEF BoolSafeCast
<1> QED BY <1>1, <1>3, <1>4, <1>5, <1>6 DEF Kinds, Numeric

------------------------------------------------------------------------------
\* ValueIsExact.

\* A node without hazards has a value of its type.  What it returned differs
\* from its type only for a quotient, whose type is the narrower one, or a
\* shift of bits that are not constant, which fit the size it returned.
NodeOk(o) ==
  /\ IsNode(o)
  /\ o.const \in BOOLEAN /\ o.term \in BOOLEAN
  /\ o.val \in Values(o.type)
  /\ \/ o.label = o.type
     \/ /\ ~o.term
        /\ \/ o.type.kind \in Numeric /\ o.type.size <= o.label.size
           \/ /\ o.type.kind = "Bits" /\ ~o.const
              /\ o.val \in Values(o.label) /\ WordSize(o.type.size) <= WordSize(o.label.size)

VInv == hazard = "none" => NodeOk(expr) /\ expr.val = exact

LEMMA NodesAreOk ==
  ASSUME NEW t \in Type(Kinds), NEW const \in BOOLEAN, NEW term \in BOOLEAN, NEW n \in Values(t)
  PROVE  NodeOk(Node(t, t, const, term, n))
<1>1. IsNode(Node(t, t, const, term, n))
  BY NodesAreNodes
<1> QED BY <1>1 DEF NodeOk, Node

\* The value and the types of a node.
LEMMA NodeFacts ==
  ASSUME NEW o, NodeOk(o)
  PROVE  /\ o.type \in Type(Kinds) /\ o.label \in Type(Kinds) /\ o.label.kind = o.type.kind
         /\ o.val \in Values(o.type) /\ o.val \in Int
         /\ o.const \in BOOLEAN /\ o.term \in BOOLEAN
         /\ o.term => o.label = o.type
         /\ o.label.kind \in Numeric => o.type.size <= o.label.size /\ o.val \in Values(o.label)
         /\ o.label.kind = "Bool" => o.label = o.type
<1>1. o.type \in Type(Kinds) /\ o.label \in Type(Kinds) /\ o.label.kind = o.type.kind
  BY NodeFields DEF NodeOk
<1>2. o.val \in Values(o.type) /\ o.const \in BOOLEAN /\ o.term \in BOOLEAN /\ (o.term => o.label = o.type)
  BY DEF NodeOk
<1>3. o.val \in Int
  BY <1>1, <1>2, ValuesAreNumbers
<1>4. o.type.size \in Nat
  BY <1>1, SizesAreNumbers
<1>5. ASSUME o.label.kind \in Numeric PROVE o.type.size <= o.label.size
  BY <1>1, <1>4, <1>5 DEF NodeOk, Numeric
<1>6. ASSUME o.label.kind \in Numeric PROVE o.val \in Values(o.label)
  BY <1>1, <1>2, <1>5, <1>6, WiderTypes
<1>7. o.label.kind = "Bool" => o.label = o.type
  BY <1>1 DEF NodeOk, Numeric
<1> QED BY <1>1, <1>2, <1>3, <1>5, <1>6, <1>7

LEMMA AgainIsOk ==
  ASSUME NEW o, NodeOk(o)
  PROVE  /\ NodeOk(Again(o)) /\ Again(o).val = o.val
         /\ Again(o).type = o.type /\ Again(o).label = o.type
         /\ Again(o).const = o.const /\ Again(o).term = o.term
<1>0. PICK t \in Type(Kinds), label \in Type(Kinds) :
        \E const, term, n : o = Node(t, label, const, term, n)
  BY Zenon DEF NodeOk, IsNode
<1>1. PICK const, term, n : o = Node(t, label, const, term, n)
  BY <1>0, Zenon
<1>2. Again(o) = Node(t, t, const, term, n)
  BY <1>1 DEF Again, Node
<1>3. /\ o.type = t /\ o.val = n /\ o.const = const /\ o.term = term
      /\ Again(o).type = t /\ Again(o).label = t /\ Again(o).val = n
      /\ Again(o).const = const /\ Again(o).term = term
  BY <1>1, <1>2 DEF Node
<1>4. n \in Values(t) /\ const \in BOOLEAN /\ term \in BOOLEAN
  BY <1>3, NodeFacts
<1> QED BY <1>2, <1>3, <1>4, NodesAreOk

\* The value of an operand that is safe to cast is one of the new type.
LEMMA SafeIsValue ==
  ASSUME NEW o, NodeOk(o), NEW t \in Type(Kinds), t.kind # "Bits", Safe(o, t)
  PROVE  o.type.kind # "Bits" /\ o.val \in Values(t)
<1>1. o.type \in Type(Kinds) /\ o.val \in Values(o.type)
  BY NodeFacts
<1>2. CASE SafeCast(t, o.type)
  BY <1>1, <1>2, SafeCastsLoseNothing
<1>3. CASE ~SafeCast(t, o.type)
  <2>1. o.term
    BY <1>3, Zenon DEF Safe, SafeToCastTo
  <2>2. TRUE \in ConstantSafeToCast(o, t)
    BY <2>1, Zenon DEF Safe, SafeToCastTo
  <2>3. TRUE \in FitsInBits(o, t) /\ o.type.kind # "Bits"
    BY <1>3, <2>2, Zenon DEF ConstantSafeToCast
  <2>4. TRUE \in {o.val \in Values(t)}
    BY <2>3, Zenon DEF FitsInBits
  <2>5. o.val \in Values(t)
    BY <2>4
  <2> QED BY <2>3, <2>5
<1> QED BY <1>2, <1>3

\* Where bits are needed the type is as large as that of the operand.
LEMMA SafeBitsHaveRoom ==
  ASSUME NEW o, NodeOk(o), NEW t \in Type(Kinds), t.kind = "Bits", Safe(o, t),
         o.label.size <= t.size
  PROVE  o.type.size <= t.size
<1>1. o.type \in Type(Kinds) /\ (o.term => o.label = o.type)
  BY NodeFacts
<1>2. o.type.size \in Nat /\ t.size \in Nat
  BY <1>1, SizesAreNumbers
<1>3. CASE o.term
  BY <1>1, <1>3
<1>4. CASE ~o.term
  <2>1. SafeCast(t, o.type)
    BY <1>4 DEF Safe, SafeToCastTo
  <2>2. t.size >= o.type.size
    BY <2>1 DEF SafeCast, BitsSafeCast
  <2> QED BY <1>2, <2>2
<1> QED BY <1>3, <1>4

\* A cast leaves what the operand means to an operator of that kind.
LEMMA CastsKeepMeanings ==
  ASSUME NEW o, NodeOk(o), NEW t \in Type(Kinds), Safe(o, t),
         t.kind = "Bits" => o.label.size <= t.size,
         NEW c \in CastTo(o, t)
  PROVE  /\ NodeOk(c) /\ c.type.kind = t.kind /\ c.label = t /\ c.const = o.const
         /\ c.val = Meaning(o, t)
<1>1. /\ o.type \in Type(Kinds) /\ o.label \in Type(Kinds) /\ o.label.kind = o.type.kind
      /\ o.val \in Values(o.type) /\ o.const \in BOOLEAN
  BY NodeFacts
<1>2. ASSUME o.type.kind = t.kind PROVE Meaning(o, t) = o.val
  <2>1. o.type.kind = "Bits" => Pattern(o.val, o.type) = o.val
    BY <1>1, PatternsAreBits
  <2> QED BY <1>2, <2>1 DEF Meaning
<1>3. CASE o.label = t
  <2>1. c = o
    BY <1>3 DEF CastTo
  <2> QED BY <1>1, <1>2, <1>3, <2>1
<1>4. CASE o.label # t /\ o.type = t
  <2>1. c = [o EXCEPT !.label = t]
    BY <1>4 DEF CastTo
  <2>2. c = Again(o)
    BY <1>4, <2>1 DEF Again
  <2> QED BY <1>2, <1>4, <2>2, AgainIsOk
<1>5. CASE o.label # t /\ o.type # t
  <2>1. PICK n \in Converted(o.val, o.type, t) : c = Node(t, t, o.const, FALSE, n)
    BY <1>5 DEF CastTo
  <2>2. n \in Values(t)
    BY <1>1, ConvertedIsValue
  <2>3. NodeOk(c)
    BY <1>1, <2>1, <2>2, NodesAreOk
  <2>4. c.type = t /\ c.label = t /\ c.const = o.const /\ c.val = n
    BY <2>1 DEF Node
  <2>5. n = Meaning(o, t)
    <3>1. CASE t.kind = "Bits"
      <4>1. o.type.size <= t.size
        BY <3>1, SafeBitsHaveRoom
      <4>2. n = Pattern(o.val, o.type)
        BY <1>1, <3>1, <4>1, PatternsAreKept
      <4> QED BY <3>1, <4>2 DEF Meaning
    <3>2. CASE t.kind # "Bits"
      <4>1. o.type.kind # "Bits" /\ o.val \in Values(t)
        BY <3>2, SafeIsValue
      <4>2. n = o.val
        BY <1>1, <3>2, <4>1, ConvertedKeeps
      <4> QED BY <3>2, <4>2 DEF Meaning
    <3> QED BY <3>1, <3>2
  <2> QED BY <2>3, <2>4, <2>5
<1> QED BY <1>3, <1>4, <1>5

\* The safety of a cast does not depend on what was returned.
LEMMA AgainIsSafe ==
  ASSUME NEW o, NodeOk(o), NEW t, Safe(o, t)
  PROVE  Safe(Again(o), t)
BY AgainIsOk, Zenon DEF Safe, SafeToCastTo, ConstantSafeToCast, FitsInBits

LEMMA OperandsAreOk ==
  ASSUME NEW o \in Operands PROVE NodeOk(o)
<1>1. ASSUME NEW x \in Variables, o = Variable(x) PROVE NodeOk(o)
  BY <1>1, VariablesAssumption, NodesAreOk DEF Variable
<1>2. ASSUME NEW x \in Literals, o = Literal(x) PROVE NodeOk(o)
  <2> DEFINE w == TypeOf(x.kind, MAXBITSPERLONG)
  <2> DEFINE n == IF x.val < 0 THEN -x.val ELSE x.val
  <2> DEFINE k == LogBase2(n)
  <2>1. /\ x.kind \in {"Int", "Unsigned"} /\ x.val \in Values(w) /\ x.val # 0
        /\ w.kind = x.kind /\ w.size = MAXBITSPERLONG
    BY LiteralsAssumption DEF TypeOf
  <2>2. /\ MAXBITSPERLONG \in Nat \ {0} /\ MAXBITSPERLONG - 1 \in Nat
        /\ (MAXBITSPERLONG - 1) + 1 = MAXBITSPERLONG
    BY WordsAssumption
  <2>3. /\ TwoTo[MAXBITSPERLONG] \in Nat \ {0} /\ TwoTo[MAXBITSPERLONG - 1] \in Nat \ {0}
        /\ TwoTo[MAXBITSPERLONG] = 2 * TwoTo[MAXBITSPERLONG - 1]
    BY <2>2, Powers
  <2>4. x.val \in Int /\ n \in Nat \ {0} /\ n < TwoTo[MAXBITSPERLONG] /\ (x.kind = "Unsigned" => n = x.val)
    <3>1. CASE x.kind = "Int"
      <4>1. x.val \in -TwoTo[MAXBITSPERLONG - 1] .. TwoTo[MAXBITSPERLONG - 1] - 1
        BY <2>1, <3>1 DEF Values, IntValues
      <4> QED BY <2>1, <2>3, <3>1, <4>1
    <3>2. CASE x.kind = "Unsigned"
      <4>1. x.val \in 0 .. TwoTo[MAXBITSPERLONG] - 1
        BY <2>1, <3>2 DEF Values, UnsignedValues
      <4> QED BY <2>1, <2>3, <4>1
    <3> QED BY <2>1, <3>1, <3>2
  <2>5. -n <= x.val /\ x.val <= n
    BY <2>4
  <2> HIDE DEF n
  <2>6. /\ k \in Nat /\ n < TwoTo[k + 1] /\ TwoTo[k + 1] \in Nat
    BY <2>4, LogarithmBounds
  <2> HIDE DEF k
  <2> DEFINE s == Smaller(MAXBITSPERLONG, IF x.kind = "Int" THEN k + 2 ELSE k + 1)
  <2>7. LiteralType(x) = TypeOf(x.kind, s)
    BY DEF LiteralType, n, k
  <2>8. s \in 1 .. MAXBITSPERLONG
    BY <2>2, <2>6 DEF Smaller
  <2>9. x.kind \in Kinds
    BY <2>1 DEF Kinds, Numeric
  <2>10. TypeOf(x.kind, s) \in Type(Kinds) /\ TypeOf(x.kind, s).kind = x.kind /\ TypeOf(x.kind, s).size = s
    BY <2>8, <2>9, TypesOfSizes
  <2>11. x.val \in Values(TypeOf(x.kind, s))
    <3>1. CASE s = MAXBITSPERLONG
      BY <2>1, <3>1
    <3>2. CASE s # MAXBITSPERLONG /\ x.kind = "Int"
      <4>1. s = k + 2
        BY <3>2 DEF Smaller
      <4>2. s - 1 = k + 1
        BY <2>6, <4>1
      <4>3. x.val \in -TwoTo[k + 1] .. TwoTo[k + 1] - 1
        BY <2>4, <2>5, <2>6
      <4>4. x.val \in IntValues(s)
        BY <4>2, <4>3 DEF IntValues
      <4> HIDE DEF s
      <4> QED BY <2>10, <3>2, <4>4 DEF Values
    <3>3. CASE s # MAXBITSPERLONG /\ x.kind = "Unsigned"
      <4>1. s = k + 1
        BY <3>3 DEF Smaller
      <4>2. x.val \in 0 .. TwoTo[k + 1] - 1
        BY <2>4, <2>6, <3>3
      <4>3. x.val \in UnsignedValues(s)
        BY <4>1, <4>2 DEF UnsignedValues
      <4> HIDE DEF s
      <4> QED BY <2>10, <3>3, <4>3 DEF Values
    <3> QED BY <2>1, <3>1, <3>2, <3>3
  <2> QED BY <1>2, <2>7, <2>10, <2>11, NodesAreOk DEF Literal
<1> QED BY <1>1, <1>2 DEF Operands

LEMMA PairsAreOk ==
  ASSUME NodeOk(expr), NEW p \in Pairs
  PROVE  NodeOk(p[1]) /\ NodeOk(p[2])
<1>1. PICK e \in {expr, Again(expr)}, o \in Operands : p \in {<<e, o>>, <<o, e>>}
  BY DEF Pairs
<1>2. NodeOk(e) /\ NodeOk(o)
  BY AgainIsOk, OperandsAreOk
<1> HIDE DEF NodeOk
<1> QED BY <1>1, <1>2

LEMMA BecomeIsExact ==
  ASSUME NEW o, NEW e, NEW why, Become(o, e, why), why = "none" => NodeOk(o) /\ o.val = e
  PROVE  VInv'
<1>1. expr' = o /\ exact' = e /\ hazard' = why
  BY DEF Become
<1>2. NodeOk(o) => NodeOk(expr)'
  BY <1>1 DEF NodeOk, IsNode
<1> QED BY <1>1, <1>2, Zenon DEF VInv

LEMMA NothingChanges ==
  ASSUME VInv, UNCHANGED <<expr, exact, hazard>>
  PROVE  VInv'
BY Zenon DEF VInv, NodeOk, IsNode

LEMMA StopIsExact ==
  ASSUME VInv, NEW verdict, Stop(verdict)
  PROVE  VInv'
BY NothingChanges DEF Stop

LEMMA RefuseIsExact ==
  ASSUME VInv, NEW o, NEW t, Refuse(o, t)
  PROVE  VInv'
BY NothingChanges DEF Refuse

LEMMA RefusePairIsExact ==
  ASSUME VInv, NEW l, NEW r, NEW t, RefusePair(l, r, t)
  PROVE  VInv'
BY RefuseIsExact DEF RefusePair

LEMMA ReadyIsOk ==
  ASSUME VInv, Ready
  PROVE  NodeOk(expr) /\ expr.val = exact
BY Zenon DEF VInv, Ready

------------------------------------------------------------------------------
\* Assignments and casts.

LEMMA ProductsAreLarger ==
  ASSUME NEW d \in Nat \ {0}, NEW q \in Nat
  PROVE  d * q \in Nat /\ d * q >= q
OBVIOUS

\* A quotient is no larger than what is divided, a remainder less than what
\* divides.
LEMMA Quotients ==
  ASSUME NEW a \in Int, NEW b \in Int, b # 0
  PROVE  /\ Quotient(a, b) \in Int /\ Remainder(a, b) \in Int
         /\ -(Sign(a) * a) <= Quotient(a, b) /\ Quotient(a, b) <= Sign(a) * a
         /\ -(Sign(b) * b) < Remainder(a, b) /\ Remainder(a, b) < Sign(b) * b
         /\ a >= 0 /\ b > 0 => Quotient(a, b) >= 0 /\ Remainder(a, b) >= 0
<1> DEFINE n == Sign(a) * a
<1> DEFINE d == Sign(b) * b
<1> DEFINE q == n \div d
<1>1. n \in Nat /\ d \in Nat \ {0} /\ Sign(a) \in {-1, 1} /\ Sign(b) \in {-1, 1}
  BY DEF Sign
<1>2. /\ Sign(a) = 1 => n = a
      /\ Sign(a) = -1 => n = -a
      /\ Sign(b) = 1 => d = b
      /\ Sign(b) = -1 => d = -b
      /\ a >= 0 => Sign(a) = 1
      /\ b > 0 => Sign(b) = 1
  BY DEF Sign
<1>3. Quotient(a, b) = Sign(a) * Sign(b) * q
  BY DEF Quotient
<1> HIDE DEF n, d
<1>4. q \in Int /\ n % d \in 0 .. d - 1 /\ n = (d * q) + (n % d)
  BY <1>1, Division
<1>5. q \in Nat
  BY <1>1
<1> HIDE DEF q
<1>6. q <= n /\ n - (d * q) >= 0 /\ n - (d * q) < d /\ d * q \in Int
  <2>1. d * q \in Nat /\ d * q >= q
    BY <1>1, <1>5, ProductsAreLarger
  <2>2. n % d >= 0 /\ n % d < d /\ n % d \in Int
    BY <1>1, <1>4
  <2> QED BY <1>1, <1>4, <1>5, <2>1, <2>2
<1>7. CASE Sign(a) = 1 /\ Sign(b) = 1
  <2>1. Quotient(a, b) = q /\ b * q = d * q
    BY <1>2, <1>3, <1>5, <1>7
  <2>2. Remainder(a, b) = n - (d * q)
    BY <1>2, <1>7, <2>1 DEF Remainder
  <2> QED BY <1>1, <1>5, <1>6, <2>1, <2>2 DEF n, d
<1>8. CASE Sign(a) = 1 /\ Sign(b) = -1
  <2>1. Quotient(a, b) = -q /\ b = -d
    BY <1>1, <1>2, <1>3, <1>5, <1>8
  <2>2. b * (-q) = d * q
    BY <1>1, <1>5, <2>1
  <2>3. Remainder(a, b) = n - (d * q)
    BY <1>2, <1>8, <2>1, <2>2 DEF Remainder
  <2> QED BY <1>1, <1>2, <1>5, <1>6, <1>8, <2>1, <2>3 DEF n, d
<1>9. CASE Sign(a) = -1 /\ Sign(b) = 1
  <2>1. Quotient(a, b) = -q /\ b = d /\ a = -n
    BY <1>1, <1>2, <1>3, <1>5, <1>9
  <2>2. b * (-q) = -(d * q)
    BY <1>1, <1>5, <2>1
  <2>3. Remainder(a, b) = -(n - (d * q))
    BY <1>1, <1>6, <2>1, <2>2 DEF Remainder
  <2> QED BY <1>1, <1>2, <1>5, <1>6, <1>9, <2>1, <2>3 DEF n, d
<1>10. CASE Sign(a) = -1 /\ Sign(b) = -1
  <2>1. Quotient(a, b) = q /\ b = -d /\ a = -n
    BY <1>1, <1>2, <1>3, <1>5, <1>10
  <2>2. b * q = -(d * q)
    BY <1>1, <1>5, <2>1
  <2>3. Remainder(a, b) = -(n - (d * q))
    BY <1>1, <1>6, <2>1, <2>2 DEF Remainder
  <2> QED BY <1>1, <1>2, <1>5, <1>6, <1>10, <2>1, <2>3 DEF n, d
<1> QED BY <1>1, <1>7, <1>8, <1>9, <1>10

LEMMA ResultsAreNumbers ==
  ASSUME NEW op \in ArithmeticOps, NEW a \in Int, NEW b \in Int, op \in {"/", "%"} => b # 0
  PROVE  Apply(op, a, b) \in Int
<1>1. CASE op \in {"/", "%"}
  <2>1. Quotient(a, b) \in Int /\ Remainder(a, b) \in Int
    BY <1>1, Quotients
  <2> QED BY <1>1, <2>1 DEF Apply
<1>2. CASE op = "+"
  BY <1>2 DEF Apply, Sum
<1>3. CASE op = "-"
  BY <1>3 DEF Apply, Difference
<1>4. CASE op = "*"
  BY <1>4 DEF Apply, Product
<1> QED BY <1>1, <1>2, <1>3, <1>4 DEF ArithmeticOps

\* What is assigned is a value of the variable, and that of the expression
\* where neither is of Bits.
LEMMA AssignedIsValue ==
  ASSUME NEW o, NodeOk(o), NEW t \in Type(Kinds), NEW n \in Assigned(o, t)
  PROVE  /\ n \in Values(t)
         /\ t.kind # "Bits" => o.type.kind # "Bits" \/ NeedsNoCheck(o, t)
         /\ o.type.kind # "Bits" /\ t.kind # "Bits" => n = o.val
<1>1. o.type \in Type(Kinds) /\ o.val \in Values(o.type)
  BY NodeFacts
<1>2. n \in Converted(o.val, o.type, t) /\ (NeedsNoCheck(o, t) \/ Safe(o, t))
  BY DEF Assigned
<1>3. n \in Values(t)
  BY <1>1, <1>2, ConvertedIsValue
<1>4. ASSUME t.kind # "Bits", o.type.kind # "Bits" PROVE n = o.val
  <2>1. o.val \in Values(t)
    <3>1. CASE NeedsNoCheck(o, t)
      BY <1>1, <1>4, <3>1 DEF NeedsNoCheck
    <3>2. CASE Safe(o, t)
      BY <1>4, <3>2, SafeIsValue
    <3> QED BY <1>2, <3>1, <3>2
  <2> QED BY <1>1, <1>2, <1>4, <2>1, ConvertedKeeps
<1>5. ASSUME t.kind # "Bits" PROVE o.type.kind # "Bits" \/ NeedsNoCheck(o, t)
  BY <1>2, <1>5, SafeIsValue
<1> QED BY <1>3, <1>4, <1>5

LEMMA AssignIsExact == VInv /\ Assign => VInv'
<1> SUFFICES ASSUME VInv, Assign PROVE VInv'
  OBVIOUS
<1>1. NodeOk(expr)
  BY ReadyIsOk DEF Assign
<1>2. PICK t \in AssignableTypes :
        \/ Refuse(expr, t)
        \/ \E n \in Assigned(expr, t) :
             Become(Node(t, t, FALSE, FALSE, n),
                    IF expr.type.kind = "Bits" \/ t.kind = "Bits" THEN n ELSE expr.val,
                    "none")
  BY Zenon DEF Assign
<1>3. t \in Type(Kinds)
  BY AssignableTypesAreTypes
<1>4. ASSUME NEW n \in Assigned(expr, t),
             Become(Node(t, t, FALSE, FALSE, n),
                    IF expr.type.kind = "Bits" \/ t.kind = "Bits" THEN n ELSE expr.val, "none")
      PROVE  VInv'
  <2>1. n \in Values(t) /\ (expr.type.kind # "Bits" /\ t.kind # "Bits" => n = expr.val)
    BY <1>1, <1>3, AssignedIsValue
  <2>2. NodeOk(Node(t, t, FALSE, FALSE, n))
    BY <1>3, <2>1, NodesAreOk
  <2>3. Node(t, t, FALSE, FALSE, n).val = n
    BY DEF Node
  <2>4. n = IF expr.type.kind = "Bits" \/ t.kind = "Bits" THEN n ELSE expr.val
    BY <2>1
  <2> QED BY <1>4, <2>2, <2>3, <2>4, BecomeIsExact, Zenon
<1> QED BY <1>2, <1>4, RefuseIsExact, Zenon

LEMMA CompoundAssignIsExact == VInv /\ CompoundAssign => VInv'
<1> SUFFICES ASSUME VInv, CompoundAssign PROVE VInv'
  OBVIOUS
<1>1. NodeOk(expr)
  BY ReadyIsOk DEF CompoundAssign
<1>2. PICK x \in Variables, op \in ArithmeticOps :
        /\ x.type.kind \in Numeric
        /\ \/ Refuse(expr, x.type)
           \/ \E n \in Assigned(expr, x.type) :
                \/ Stop("error")
                \/ /\ op \in {"/", "%"} => n # 0
                   /\ Become(Node(x.type, x.type, FALSE, FALSE, Clamp(Apply(op, x.val, n), x.type)),
                             Clamp(Apply(op, x.val, expr.val), x.type), "none")
  BY DEF CompoundAssign
<1>3. x.type \in Type(Kinds) /\ x.val \in Values(x.type) /\ x.type.kind # "Bits"
  BY <1>2, VariablesAssumption DEF Numeric
<1>4. ASSUME NEW n \in Assigned(expr, x.type), op \in {"/", "%"} => n # 0,
             Become(Node(x.type, x.type, FALSE, FALSE, Clamp(Apply(op, x.val, n), x.type)),
                    Clamp(Apply(op, x.val, expr.val), x.type), "none")
      PROVE  VInv'
  <2>1. n \in Values(x.type)
    BY <1>1, <1>3, AssignedIsValue
  <2>2. n = expr.val
    <3>1. expr.type.kind # "Bits" \/ NeedsNoCheck(expr, x.type)
      BY <1>1, <1>3, AssignedIsValue
    <3>2. expr.type.kind # "Bits"
      BY <1>3, <3>1 DEF NeedsNoCheck
    <3> QED BY <1>1, <1>3, <3>2, AssignedIsValue
  <2>3. n \in Int /\ x.val \in Int
    BY <1>3, <2>1, ValuesAreNumbers
  <2>4. Apply(op, x.val, n) \in Int
    BY <1>4, <2>3, ResultsAreNumbers
  <2>5. Clamp(Apply(op, x.val, n), x.type) \in Values(x.type)
    BY <1>3, <2>4, Clamps
  <2>6. NodeOk(Node(x.type, x.type, FALSE, FALSE, Clamp(Apply(op, x.val, n), x.type)))
    BY <1>3, <2>5, NodesAreOk
  <2>7. \A u, v : Node(u, u, FALSE, FALSE, v).val = v
    BY DEF Node
  <2> QED BY <1>4, <2>2, <2>6, <2>7, BecomeIsExact, Zenon
<1> QED BY <1>2, <1>4, RefuseIsExact, StopIsExact, Zenon

LEMMA ExplicitCastIsExact == VInv /\ ExplicitCast => VInv'
<1> SUFFICES ASSUME VInv, ExplicitCast PROVE VInv'
  OBVIOUS
<1>1. NodeOk(expr)
  BY ReadyIsOk DEF ExplicitCast
<1>2. PICK t \in AssignableTypes :
        \/ Stop("error")
        \/ \E n \in Converted(expr.val, expr.type, t) : Become(Node(t, t, expr.const, FALSE, n), n, "none")
  BY DEF ExplicitCast
<1>3. t \in Type(Kinds)
  BY AssignableTypesAreTypes
<1>4. ASSUME NEW n \in Converted(expr.val, expr.type, t), Become(Node(t, t, expr.const, FALSE, n), n, "none")
      PROVE  VInv'
  <2>1. expr.type \in Type(Kinds) /\ expr.val \in Values(expr.type) /\ expr.const \in BOOLEAN
    BY <1>1, NodeFacts
  <2>2. n \in Values(t)
    BY <1>3, <2>1, ConvertedIsValue
  <2>3. NodeOk(Node(t, t, expr.const, FALSE, n))
    BY <1>3, <2>1, <2>2, NodesAreOk
  <2>4. Node(t, t, expr.const, FALSE, n).val = n
    BY DEF Node
  <2> QED BY <1>4, <2>3, <2>4, BecomeIsExact, Zenon
<1> QED BY <1>2, <1>4, StopIsExact, Zenon

\* An operand of its operator's type is read as it is.
LEMMA ReadsItself ==
  ASSUME NEW o
  PROVE  Read(o, o.type) = o.val
BY DEF Read

------------------------------------------------------------------------------
\* The negative.

LEMMA NegateIsExact ==
  ASSUME NEW o, NodeOk(o), NEW c, c.val = o.val,
         NEW t \in Type(Kinds), t.kind = "Int", NEW first \in Type(Kinds), first.kind = "Int",
         t.size <= first.size, o.const => first = t,
         Negate(o, c, t, first)
  PROVE  VInv'
<1> DEFINE n == Clamp(-Read(c, t), t)
<1> DEFINE why == IF c.type # t THEN "stale type" ELSE "none"
<1> DEFINE e == IF -o.val \in Values(t) THEN -o.val ELSE n
<1>1. Become(Node(t, first, o.const, o.const, n), e, why)
  BY DEF Negate
<1>2. ASSUME why = "none" PROVE NodeOk(Node(t, first, o.const, o.const, n)) /\ n = e
  <2>1. c.type = t
    BY <1>2
  <2>2. Read(c, t) = o.val
    BY <2>1, ReadsItself
  <2>3. o.val \in Int /\ -o.val \in Int /\ o.const \in BOOLEAN
    BY NodeFacts
  <2>4. n \in Values(t) /\ (-o.val \in Values(t) => n = -o.val)
    BY <2>2, <2>3, Clamps
  <2> HIDE DEF n
  <2>5. n = e
    BY <2>4
  <2>6. NodeOk(Node(t, first, o.const, o.const, n))
    <3>1. CASE o.const
      BY <2>3, <2>4, <3>1, NodesAreOk
    <3>2. CASE ~o.const
      <4>1. IsNode(Node(t, first, o.const, o.const, n))
        BY NodesAreNodes
      <4> QED BY <2>3, <2>4, <3>2, <4>1 DEF NodeOk, Node, Numeric
    <3> QED BY <3>1, <3>2
  <2> QED BY <2>5, <2>6
<1>3. Node(t, first, o.const, o.const, n).val = n
  BY DEF Node
<1> HIDE DEF n, why, e
<1> QED BY <1>1, <1>2, <1>3, BecomeIsExact

LEMMA MinusIsExact == VInv /\ Minus => VInv'
<1> SUFFICES ASSUME VInv, Minus PROVE VInv'
  OBVIOUS
<1> DEFINE t == TypeOf("Int", expr.label.size)
<1>1. NodeOk(expr) /\ IsNumber(expr)
  BY ReadyIsOk DEF Minus
<1>2. \A u \in Type(Kinds) : /\ TypeOf("Int", u.size) \in Type(Kinds) /\ TypeOf("Int", u.size).kind = "Int"
                             /\ TypeOf("Int", u.size).size = u.size
  BY SizesAreNumbers, TypesOfSizes DEF Kinds, Numeric
<1>3. t \in Type(Kinds) /\ t.kind = "Int" /\ t.size = expr.label.size /\ t.size \in Nat
  <2>1. expr.label \in Type(Kinds)
    BY <1>1, NodeFacts
  <2> QED BY <1>2, <2>1, SizesAreNumbers
<1>4. \/ Refuse(expr, t)
      \/ \E c \in CastTo(expr, t) :
           /\ Safe(expr, t)
           /\ \/ expr.const /\ Negate(expr, c, t, t)
              \/ Refuse(c, TypeOf("Int", c.type.size))
              \/ /\ ~expr.const /\ Safe(c, TypeOf("Int", c.type.size))
                 /\ \E d \in CastTo(Again(c), TypeOf("Int", c.type.size)) :
                      Negate(expr, d, TypeOf("Int", c.type.size), t)
  BY DEF Minus
<1> HIDE DEF t
<1>5. ASSUME NEW c \in CastTo(expr, t), Safe(expr, t)
      PROVE  NodeOk(c) /\ c.type.kind = "Int" /\ c.label = t /\ c.val = expr.val
  <2>1. NodeOk(c) /\ c.type.kind = t.kind /\ c.label = t /\ c.val = Meaning(expr, t)
    BY <1>1, <1>3, <1>5, CastsKeepMeanings
  <2> QED BY <1>3, <2>1 DEF Meaning
<1>6. ASSUME NEW c \in CastTo(expr, t), Safe(expr, t), expr.const, Negate(expr, c, t, t)
      PROVE  VInv'
  BY <1>1, <1>3, <1>5, <1>6, NegateIsExact
<1>7. ASSUME NEW c \in CastTo(expr, t), Safe(expr, t), ~expr.const, Safe(c, TypeOf("Int", c.type.size)),
             NEW d \in CastTo(Again(c), TypeOf("Int", c.type.size)),
             Negate(expr, d, TypeOf("Int", c.type.size), t)
      PROVE  VInv'
  <2> DEFINE again == TypeOf("Int", c.type.size)
  <2>1. NodeOk(c) /\ c.type.kind = "Int" /\ c.label = t /\ c.val = expr.val
    BY <1>5, <1>7
  <2>2. c.type \in Type(Kinds) /\ c.type.size <= t.size
    BY <1>3, <2>1, NodeFacts DEF Numeric
  <2>3. again \in Type(Kinds) /\ again.kind = "Int" /\ again.size <= t.size
    BY <1>2, <2>2
  <2> HIDE DEF again
  <2>4. NodeOk(Again(c)) /\ Again(c).val = c.val /\ Safe(Again(c), again)
    BY <1>7, <2>1, AgainIsOk, AgainIsSafe DEF again
  <2>5. d.val = Meaning(Again(c), again)
    BY <1>7, <2>3, <2>4, CastsKeepMeanings DEF again
  <2>6. d.val = expr.val
    BY <2>1, <2>3, <2>4, <2>5 DEF Meaning
  <2> QED BY <1>1, <1>3, <1>7, <2>3, <2>6, NegateIsExact DEF again
<1> QED BY <1>4, <1>6, <1>7, RefuseIsExact, Zenon

------------------------------------------------------------------------------
\* Comparisons.

LEMMA DefaultBoolIsType == DefaultBool \in Type(Kinds) /\ DefaultBool.kind = "Bool"
<1>1. 1 \in 1 .. MAXBITSPERLONG /\ "Bool" \in Kinds
  BY WordsAssumption DEF Kinds
<1> QED BY <1>1, TypesOfSizes DEF DefaultBool

LEMMA TruthsAreBits ==
  ASSUME NEW op \in Comparisons, NEW a, NEW b
  PROVE  Holds(op, a, b) \in Values(DefaultBool)
<1>1. Values(DefaultBool) = {0, 1}
  BY DEF Values, BoolValues, DefaultBool, TypeOf
<1>2. \A x : Bit(x) \in {0, 1}
  BY DEF Bit
<1> HIDE DEF Bit
<1> QED
  BY <1>1, <1>2
  DEF Holds, Comparisons, LessThan, LessEqual, GreaterThan, GreaterEqual, EqualEqual, NotEqual

LEMMA DecideIsExact ==
  ASSUME NEW op \in Comparisons, NEW l, NodeOk(l), NEW r, NodeOk(r), NEW cl, NEW cr,
         cl.val = Meaning(l, cl.type), cr.val = Meaning(r, cr.type), cl.type.kind = cr.type.kind,
         Decide(op, l, r, cl, cr)
  PROVE  VInv'
<1> DEFINE const == l.const /\ r.const
<1> DEFINE n == Holds(op, Read(cl, cl.type), Read(cr, cl.type))
<1> DEFINE e == Holds(op, Meaning(l, cl.type), Meaning(r, cl.type))
<1> DEFINE why == IF cl.type # cr.type THEN "stale type" ELSE "none"
<1>1. Become(Node(DefaultBool, DefaultBool, const, const, n), e, why)
  BY DEF Decide
<1>2. const \in BOOLEAN
  BY NodeFacts
<1>3. n \in Values(DefaultBool)
  BY TruthsAreBits
<1>4. NodeOk(Node(DefaultBool, DefaultBool, const, const, n))
  BY <1>2, <1>3, DefaultBoolIsType, NodesAreOk
<1>5. ASSUME why = "none" PROVE n = e
  <2>1. cl.type = cr.type
    BY <1>5
  <2>2. Read(cl, cl.type) = cl.val /\ Read(cr, cl.type) = cr.val
    BY <2>1, ReadsItself
  <2> QED BY <2>1, <2>2
<1>6. Node(DefaultBool, DefaultBool, const, const, n).val = n
  BY DEF Node
<1> HIDE DEF const, n, e, why
<1> QED BY <1>1, <1>4, <1>5, <1>6, BecomeIsExact

\* Where operands are compared as bits there is room for each.
LEMMA ComparedBitsHaveRoom ==
  ASSUME NEW l \in Type(Kinds), NEW r \in Type(Kinds), NEW op \in Comparisons,
         ComparisonType(op, l, r).kind = "Bits"
  PROVE  l.size <= ComparisonType(op, l, r).size /\ r.size <= ComparisonType(op, l, r).size
<1>1. ResultType("<", l, r).kind # "Bits" /\ DefaultBool.kind # "Bits"
  BY DEF ResultType, ResultKind, DefaultBool, TypeOf
<1>2. ComparisonType(op, l, r) = WidestBits(l, r)
  BY <1>1 DEF ComparisonType, EqualityType, InequalityType
<1>3. l.size \in Nat /\ r.size \in Nat
  BY SizesAreNumbers
<1> QED BY <1>2, <1>3 DEF WidestBits, TypeOf, Larger

\* Operands of one kind are compared in that kind.
LEMMA SameKindsCompare ==
  ASSUME NEW l, NEW r, NEW op, NEW k, l.kind = k, r.kind = k,
         k \in {"Int", "Unsigned"} \/ (op \in {"==", "!="} /\ k \in {"Bits", "Bool"})
  PROVE  ComparisonType(op, l, r).kind = k
<1>1. WidestBits(l, r).kind = "Bits" /\ DefaultBool.kind = "Bool"
  BY DEF WidestBits, DefaultBool, TypeOf
<1>2. k \in {"Int", "Unsigned"} => ResultType("<", l, r).kind = k
  BY DEF ResultType, ResultKind, TypeOf
<1>3. EqualityType(l, r).kind = k
  BY <1>1, <1>2 DEF EqualityType
<1>4. CASE op \in {"==", "!="}
  BY <1>3, <1>4 DEF ComparisonType, InequalityType
<1>5. CASE op \notin {"==", "!="}
  BY <1>2, <1>5 DEF ComparisonType
<1> QED BY <1>4, <1>5

\* A meaning depends on the kind alone.
LEMMA MeaningsOfKinds ==
  ASSUME NEW o, NEW t, NEW u, t.kind = u.kind
  PROVE  Meaning(o, t) = Meaning(o, u)
BY DEF Meaning

\* An operand of the kind means its value.
LEMMA MeaningIsValue ==
  ASSUME NEW o, NodeOk(o), NEW t, o.type.kind = t.kind
  PROVE  Meaning(o, t) = o.val
<1>1. o.type \in Type(Kinds) /\ o.val \in Values(o.type)
  BY NodeFacts
<1>2. o.type.kind = "Bits" => Pattern(o.val, o.type) = o.val
  BY <1>1, PatternsAreBits
<1> QED BY <1>2 DEF Meaning

\* An operand that is cast twice means what it meant.
LEMMA CastAgainKeepsMeanings ==
  ASSUME NEW o, NodeOk(o), NEW t \in Type(Kinds), Safe(o, t),
         t.kind = "Bits" => o.label.size <= t.size,
         NEW c \in CastTo(o, t),
         NEW again \in Type(Kinds), again.kind = t.kind, Safe(c, again),
         again.kind = "Bits" => c.type.size <= again.size,
         NEW d \in CastTo(Again(c), again)
  PROVE  d.val = Meaning(o, d.type) /\ d.type.kind = t.kind
<1>1. NodeOk(c) /\ c.type.kind = t.kind /\ c.val = Meaning(o, t)
  BY CastsKeepMeanings
<1>2. NodeOk(Again(c)) /\ Again(c).val = c.val /\ Again(c).type = c.type /\ Again(c).label = c.type
  BY <1>1, AgainIsOk
<1>3. Safe(Again(c), again)
  BY <1>1, AgainIsSafe
<1>4. d.type.kind = again.kind /\ d.val = Meaning(Again(c), again)
  BY <1>2, <1>3, CastsKeepMeanings
<1>5. d.val = c.val
  BY <1>1, <1>2, <1>4, MeaningIsValue
<1> QED BY <1>1, <1>4, <1>5, MeaningsOfKinds

LEMMA CompareIsExact == VInv /\ Compare => VInv'
<1> SUFFICES ASSUME VInv, Compare PROVE VInv'
  OBVIOUS
<1>1. PICK p \in Pairs, op \in Comparisons :
        LET l == p[1]
            r == p[2]
            t == ComparisonType(op, l.label, r.label)
        IN /\ Comparable(op, l.label, r.label)
           /\ \/ RefusePair(l, r, t)
              \/ /\ BothSafe(l, r, t)
                 /\ \E cl \in CastTo(l, t), cr \in CastTo(r, t) :
                      LET again == ComparisonType(op, cl.type, cr.type)
                      IN \/ Decide(op, l, r, cl, cr)
                         \/ RefusePair(cl, cr, again)
                         \/ /\ BothSafe(cl, cr, again)
                            /\ \E dl \in CastTo(Again(cl), again), dr \in CastTo(Again(cr), again) :
                                 Decide(op, l, r, dl, dr)
  BY DEF Compare
<1> DEFINE l == p[1]
<1> DEFINE r == p[2]
<1> DEFINE t == ComparisonType(op, l.label, r.label)
<1>2. NodeOk(l) /\ NodeOk(r)
  BY ReadyIsOk, PairsAreOk DEF Compare
<1>3. Comparable(op, l.label, r.label) /\ l.label \in Type(Kinds) /\ r.label \in Type(Kinds)
  BY <1>1, <1>2, NodeFacts
<1>4. t \in Type(Kinds)
  BY <1>3, ComparisonTypes
<1>5. t.kind \in {"Int", "Unsigned"} \/ (op \in {"==", "!="} /\ t.kind \in {"Bits", "Bool"})
  BY <1>3, ComparisonKinds
<1>6. t.kind = "Bits" => l.label.size <= t.size /\ r.label.size <= t.size
  BY <1>3, ComparedBitsHaveRoom
<1>7. \/ RefusePair(l, r, t)
      \/ /\ BothSafe(l, r, t)
         /\ \E cl \in CastTo(l, t), cr \in CastTo(r, t) :
              LET again == ComparisonType(op, cl.type, cr.type)
              IN \/ Decide(op, l, r, cl, cr)
                 \/ RefusePair(cl, cr, again)
                 \/ /\ BothSafe(cl, cr, again)
                    /\ \E dl \in CastTo(Again(cl), again), dr \in CastTo(Again(cr), again) :
                         Decide(op, l, r, dl, dr)
  BY <1>1
<1> HIDE DEF l, r, t
<1>8. ASSUME BothSafe(l, r, t), NEW cl \in CastTo(l, t), NEW cr \in CastTo(r, t)
      PROVE  /\ NodeOk(cl) /\ cl.type.kind = t.kind /\ cl.val = Meaning(l, t)
             /\ NodeOk(cr) /\ cr.type.kind = t.kind /\ cr.val = Meaning(r, t)
  BY <1>2, <1>4, <1>6, <1>8, CastsKeepMeanings DEF BothSafe
<1>9. ASSUME BothSafe(l, r, t), NEW cl \in CastTo(l, t), NEW cr \in CastTo(r, t), Decide(op, l, r, cl, cr)
      PROVE  VInv'
  <2>1. cl.val = Meaning(l, cl.type) /\ cr.val = Meaning(r, cr.type) /\ cl.type.kind = cr.type.kind
    BY <1>8, <1>9, MeaningsOfKinds
  <2> QED BY <1>2, <1>9, <2>1, DecideIsExact
<1>10. ASSUME BothSafe(l, r, t), NEW cl \in CastTo(l, t), NEW cr \in CastTo(r, t),
              BothSafe(cl, cr, ComparisonType(op, cl.type, cr.type)),
              NEW dl \in CastTo(Again(cl), ComparisonType(op, cl.type, cr.type)),
              NEW dr \in CastTo(Again(cr), ComparisonType(op, cl.type, cr.type)),
              Decide(op, l, r, dl, dr)
       PROVE  VInv'
  <2> DEFINE again == ComparisonType(op, cl.type, cr.type)
  <2>1. /\ NodeOk(cl) /\ NodeOk(cr) /\ cl.type.kind = t.kind /\ cr.type.kind = t.kind
        /\ cl.type \in Type(Kinds) /\ cr.type \in Type(Kinds)
    BY <1>8, <1>10, NodeFacts
  <2>2. Comparable(op, cl.type, cr.type)
    BY <1>5, <2>1 DEF Comparable, Numeric
  <2>3. again \in Type(Kinds)
    BY <2>1, <2>2, ComparisonTypes
  <2>4. again.kind = "Bits" => cl.type.size <= again.size /\ cr.type.size <= again.size
    BY <2>1, ComparedBitsHaveRoom
  <2>5. again.kind = t.kind
    BY <1>5, <2>1, SameKindsCompare
  <2> HIDE DEF again
  <2>6. /\ dl.val = Meaning(l, dl.type) /\ dl.type.kind = t.kind
        /\ dr.val = Meaning(r, dr.type) /\ dr.type.kind = t.kind
    BY <1>2, <1>4, <1>6, <1>10, <2>3, <2>4, <2>5, CastAgainKeepsMeanings DEF BothSafe, again
  <2> QED BY <1>2, <1>10, <2>6, DecideIsExact
<1> QED BY <1>7, <1>9, <1>10, RefusePairIsExact, Zenon

------------------------------------------------------------------------------
\* Arithmetic.  An operand fits the size that it asks for, except an Unsigned
\* of a whole word beside an Int.

IsWhole(t) == t.kind = "Unsigned" /\ t.size = WordSize(t.size)

LEMMA ResultWords ==
  ASSUME NEW l \in Type(Kinds), NEW r \in Type(Kinds)
  PROVE  /\ ResultWord(l, r) \in {MAXBITSPERINT, MAXBITSPERLONG}
         /\ ResultWord(l, r) \in 1 .. MAXBITSPERLONG
         /\ ResultWord(l, r) = ResultWord(r, l)
         /\ WordSize(l.size) \in Nat /\ l.size <= WordSize(l.size) /\ WordSize(l.size) <= ResultWord(l, r)
<1>1. /\ l.size \in Nat /\ r.size \in Nat /\ l.size <= MAXBITSPERLONG /\ r.size <= MAXBITSPERLONG
  BY SizesAreNumbers
<1>2. MAXBITSPERINT \in Nat \ {0} /\ MAXBITSPERLONG = 2 * MAXBITSPERINT
  BY WordsAssumption
<1>3. /\ WordSize(l.size) \in {MAXBITSPERINT, MAXBITSPERLONG} /\ l.size <= WordSize(l.size)
      /\ WordSize(r.size) \in {MAXBITSPERINT, MAXBITSPERLONG}
  BY <1>1, <1>2 DEF WordSize
<1> QED BY <1>1, <1>2, <1>3 DEF ResultWord, Larger

LEMMA ResultKinds ==
  ASSUME NEW l, NEW r
  PROVE  /\ ResultKind(l, r) \in {"Int", "Unsigned"} /\ ResultKind(l, r) = ResultKind(r, l)
         /\ l.kind = "Int" => ResultKind(l, r) = "Int"
BY DEF ResultKind

LEMMA AskedSizes ==
  ASSUME NEW t \in Type(Kinds), t.kind \in Numeric, NEW k \in {"Int", "Unsigned"}, t.kind = "Int" => k = "Int"
  PROVE  /\ SizeTo(t, k) \in 1 .. MAXBITSPERLONG /\ SizeTo(t, k) <= WordSize(t.size)
         /\ t.kind = "Int" => SizeTo(t, k) = t.size
         /\ t.kind = "Unsigned" => SizeTo(t, k) = IF k = "Int" /\ ~IsWhole(t) THEN t.size + 1 ELSE t.size
         /\ t.kind = "Unary" => SizeTo(t, k) = IF k = "Int" THEN LogBase2(t.size) + 2 ELSE LogBase2(t.size) + 1
<1>1. /\ t.size \in Nat \ {0} /\ t.size \in 1 .. MAXBITSPERLONG /\ t.size <= MAXBITSPERLONG
      /\ MAXBITSPERLONG \in Nat
  BY SizesAreNumbers, WordsAssumption
<1>2. WordSize(t.size) \in 1 .. MAXBITSPERLONG /\ WordSize(t.size) \in Nat /\ t.size <= WordSize(t.size)
  BY <1>1, WordsAreSizes, ResultWords
<1>3. LogBase2(t.size) \in Nat /\ LogBase2(t.size) + 2 <= WordSize(t.size)
  BY <1>1, LogarithmsOfSizes
<1>4. SizeTo(t, k) \in 1 .. MAXBITSPERLONG
  BY SizeToIsSize
<1>5. CASE t.kind = "Int"
  BY <1>2, <1>4, <1>5 DEF SizeTo, IntSizeTo
<1>6. CASE t.kind = "Unsigned"
  <2>1. SizeTo(t, k) = Smaller(IF k = "Int" THEN t.size + 1 ELSE t.size, WordSize(t.size))
    BY <1>6 DEF SizeTo, UnsignedSizeTo
  <2> QED BY <1>1, <1>2, <1>4, <1>6, <2>1 DEF Smaller, IsWhole
<1>7. CASE t.kind = "Unary"
  <2>1. SizeTo(t, k) = Smaller(IF k = "Int" THEN LogBase2(t.size) + 2 ELSE LogBase2(t.size) + 1, WordSize(t.size))
    BY <1>7 DEF SizeTo, UnarySizeTo
  <2> QED BY <1>2, <1>3, <1>4, <1>7, <2>1 DEF Smaller
<1> QED BY <1>5, <1>6, <1>7 DEF Numeric

\* The size of an operand beside another one is what it asks for as of the
\* kind of the result.
LEMMA SideIsAsked ==
  ASSUME NEW l \in Type(Kinds), l.kind \in Numeric, NEW r \in Type(Kinds), r.kind \in Numeric
  PROVE  SideSize(l, r) = SizeTo(l, ResultKind(l, r))
<1>1. CASE l.kind # "Int" /\ r.kind = "Int"
  BY <1>1 DEF SideSize, ResultKind
<1>2. CASE l.kind = "Int"
  <2>1. SizeTo(l, "Int") = l.size
    BY <1>2, AskedSizes
  <2> QED BY <1>2, <2>1 DEF SideSize, ResultKind, CountedSize
<1>3. CASE l.kind # "Int" /\ r.kind # "Int"
  <2>1. ResultKind(l, r) = "Unsigned"
    BY <1>3 DEF ResultKind
  <2>2. l.kind = "Unsigned" => SizeTo(l, "Unsigned") = l.size
    BY AskedSizes
  <2>3. l.kind = "Unary" => SizeTo(l, "Unsigned") = LogBase2(l.size) + 1
    BY AskedSizes
  <2> QED BY <1>3, <2>1, <2>2, <2>3 DEF SideSize, CountedSize, Numeric
<1> QED BY <1>1, <1>2, <1>3

LEMMA AskedSizesHold ==
  ASSUME NEW t \in Type(Kinds), t.kind \in Numeric, NEW k \in {"Int", "Unsigned"}, t.kind = "Int" => k = "Int",
         NEW n \in Values(t), ~(k = "Int" /\ IsWhole(t))
  PROVE  n \in Values(TypeOf(k, SizeTo(t, k)))
<1> DEFINE s == SizeTo(t, k)
<1>1. /\ s \in 1 .. MAXBITSPERLONG
      /\ t.kind = "Int" => s = t.size
      /\ t.kind = "Unsigned" => s = IF k = "Int" THEN t.size + 1 ELSE t.size
      /\ t.kind = "Unary" => s = IF k = "Int" THEN LogBase2(t.size) + 2 ELSE LogBase2(t.size) + 1
  BY AskedSizes
<1> HIDE DEF s
<1>2. TypeOf(k, s).kind = k /\ TypeOf(k, s).size = s
  BY DEF TypeOf
<1>3. /\ t.size \in Nat \ {0} /\ t.size \in 1 .. MAXBITSPERLONG /\ TwoTo[t.size] \in Nat
  BY SizesAreNumbers, Powers
<1>4. k = "Int" => Values(TypeOf(k, s)) = -TwoTo[s - 1] .. TwoTo[s - 1] - 1
  BY <1>2 DEF Values, IntValues
<1>5. k = "Unsigned" => Values(TypeOf(k, s)) = 0 .. TwoTo[s] - 1
  BY <1>2 DEF Values, UnsignedValues
<1>6. CASE t.kind = "Int"
  <2>1. n \in -TwoTo[t.size - 1] .. TwoTo[t.size - 1] - 1
    BY <1>6 DEF Values, IntValues
  <2> QED BY <1>1, <1>4, <1>6, <2>1 DEF s
<1>7. CASE t.kind = "Unsigned"
  <2>1. n \in 0 .. TwoTo[t.size] - 1
    BY <1>7 DEF Values, UnsignedValues
  <2>2. CASE k = "Int"
    <3>1. s - 1 = t.size
      BY <1>1, <1>3, <1>7, <2>2
    <3>2. n \in -TwoTo[t.size] .. TwoTo[t.size] - 1
      BY <1>3, <2>1
    <3> QED BY <1>4, <2>2, <3>1, <3>2 DEF s
  <2>3. CASE k = "Unsigned"
    BY <1>1, <1>5, <1>7, <2>1, <2>3 DEF s
  <2> QED BY <2>2, <2>3
<1>8. CASE t.kind = "Unary"
  <2>1. n \in 0 .. t.size
    BY <1>8 DEF Values, UnaryValues
  <2>2. /\ LogBase2(t.size) \in Nat /\ t.size < TwoTo[LogBase2(t.size) + 1]
        /\ TwoTo[LogBase2(t.size) + 1] \in Nat
    BY <1>3, LogarithmsOfSizes
  <2>3. n \in 0 .. TwoTo[LogBase2(t.size) + 1] - 1 /\ n \in -TwoTo[LogBase2(t.size) + 1] .. TwoTo[LogBase2(t.size) + 1] - 1
    BY <1>3, <2>1, <2>2
  <2>4. CASE k = "Int"
    <3>1. s - 1 = LogBase2(t.size) + 1
      BY <1>1, <1>8, <2>2, <2>4
    <3> QED BY <1>4, <2>3, <2>4, <3>1 DEF s
  <2>5. CASE k = "Unsigned"
    BY <1>1, <1>5, <1>8, <2>3, <2>5 DEF s
  <2> QED BY <2>4, <2>5
<1> QED BY <1>6, <1>7, <1>8 DEF Numeric

\* A whole word beside an Int: the result is of a whole word, or the Int is of
\* the larger one.
LEMMA WholeBesideInt ==
  ASSUME NEW l \in Type(Kinds), IsWhole(l), NEW r \in Type(Kinds), r.kind = "Int"
  PROVE  /\ SideSize(l, r) = l.size
         /\ \/ ResultWord(l, r) = l.size
            \/ /\ l.size = MAXBITSPERINT /\ ResultWord(l, r) = MAXBITSPERLONG
               /\ SideSize(r, l) >= l.size + 1
<1>1. /\ l.size \in Nat /\ r.size \in Nat /\ l.size <= MAXBITSPERLONG /\ r.size <= MAXBITSPERLONG
  BY SizesAreNumbers
<1>2. MAXBITSPERINT \in Nat \ {0} /\ MAXBITSPERLONG = 2 * MAXBITSPERINT
  BY WordsAssumption
<1>3. l.kind = "Unsigned" /\ l.size = WordSize(l.size) /\ ResultKind(l, r) = "Int" /\ ResultKind(r, l) = "Int"
  BY DEF IsWhole, ResultKind
<1>4. SideSize(l, r) = l.size
  BY <1>3, SideIsAsked, AskedSizes DEF Numeric
<1>5. SideSize(r, l) = r.size
  BY <1>3, SideIsAsked, AskedSizes DEF Numeric
<1>6. CASE r.size <= MAXBITSPERINT
  <2>1. ResultWord(l, r) = l.size
    BY <1>1, <1>2, <1>3, <1>6 DEF ResultWord, WordSize, Larger
  <2> QED BY <1>4, <2>1
<1>7. CASE r.size > MAXBITSPERINT
  <2>1. l.size = MAXBITSPERINT \/ l.size = MAXBITSPERLONG
    BY <1>3 DEF WordSize
  <2>2. ResultWord(l, r) = MAXBITSPERLONG
    BY <1>1, <1>2, <1>3, <1>7 DEF ResultWord, WordSize, Larger
  <2> QED BY <1>1, <1>2, <1>4, <1>5, <1>7, <2>1, <2>2
<1> QED BY <1>1, <1>2, <1>6, <1>7

LEMMA CommonSizeHolds ==
  ASSUME NEW l \in Type(Kinds), l.kind \in Numeric, NEW r \in Type(Kinds), r.kind \in Numeric,
         NEW n \in Values(l), NEW m \in 1 .. MAXBITSPERLONG,
         SideSize(l, r) <= m, SideSize(r, l) <= m, m < ResultWord(l, r)
  PROVE  n \in Values(TypeOf(ResultKind(l, r), m))
<1> DEFINE k == ResultKind(l, r)
<1>1. k \in {"Int", "Unsigned"} /\ (l.kind = "Int" => k = "Int") /\ k \in Kinds
  BY ResultKinds DEF Kinds, Numeric
<1>2. SideSize(l, r) = SizeTo(l, k) /\ SizeTo(l, k) \in 1 .. MAXBITSPERLONG
  BY <1>1, SideIsAsked, AskedSizes
<1>3. /\ TypeOf(k, m) \in Type(Kinds) /\ TypeOf(k, m).kind = k /\ TypeOf(k, m).size = m
  BY <1>1, TypesOfSizes
<1>4. CASE ~(k = "Int" /\ IsWhole(l))
  <2>1. n \in Values(TypeOf(k, SizeTo(l, k)))
    BY <1>1, <1>4, AskedSizesHold
  <2>2. /\ TypeOf(k, SizeTo(l, k)) \in Type(Kinds) /\ TypeOf(k, SizeTo(l, k)).kind = k
        /\ TypeOf(k, SizeTo(l, k)).size = SizeTo(l, k)
    BY <1>1, <1>2, TypesOfSizes
  <2> QED BY <1>2, <1>3, <2>1, <2>2, WiderTypes
<1>5. CASE k = "Int" /\ IsWhole(l)
  <2>1. r.kind = "Int"
    BY <1>5 DEF IsWhole, ResultKind
  <2>2. /\ SideSize(l, r) = l.size
        /\ ResultWord(l, r) = l.size \/ SideSize(r, l) >= l.size + 1
    BY <1>5, <2>1, WholeBesideInt
  <2>3. l.size \in Nat /\ ResultWord(l, r) \in Nat /\ SideSize(r, l) \in Nat /\ m \in Nat /\ m - 1 \in Nat
    BY SizesAreNumbers, ResultWords, SideSizes, WordsAssumption
  <2>4. l.size <= m - 1
    BY <2>2, <2>3
  <2>5. TwoTo[l.size] <= TwoTo[m - 1] /\ TwoTo[l.size] \in Nat /\ TwoTo[m - 1] \in Nat
    BY <2>3, <2>4, Powers
  <2>6. n \in 0 .. TwoTo[l.size] - 1
    BY <1>5 DEF Values, UnsignedValues, IsWhole
  <2>7. n \in IntValues(m)
    BY <2>5, <2>6 DEF IntValues
  <2> QED BY <1>3, <1>5, <2>7 DEF Values
<1> QED BY <1>4, <1>5

LEMMA FactorSizeHolds ==
  ASSUME NEW l \in Type(Kinds), l.kind \in Numeric, NEW r \in Type(Kinds), r.kind \in Numeric,
         NEW n \in Values(l), SideSize(l, r) + SideSize(r, l) < ResultWord(l, r)
  PROVE  n \in Values(TypeOf(ResultKind(l, r), SideSize(l, r)))
<1> DEFINE k == ResultKind(l, r)
<1>1. k \in {"Int", "Unsigned"} /\ (l.kind = "Int" => k = "Int")
  BY ResultKinds
<1>2. SideSize(l, r) = SizeTo(l, k)
  BY <1>1, SideIsAsked
<1>3. ~(k = "Int" /\ IsWhole(l))
  <2> SUFFICES ASSUME k = "Int", IsWhole(l) PROVE FALSE
    OBVIOUS
  <2>1. r.kind = "Int"
    BY DEF IsWhole, ResultKind
  <2>2. /\ SideSize(l, r) = l.size
        /\ \/ ResultWord(l, r) = l.size
           \/ /\ l.size = MAXBITSPERINT /\ ResultWord(l, r) = MAXBITSPERLONG
              /\ SideSize(r, l) >= l.size + 1
    BY <2>1, WholeBesideInt
  <2>3. l.size \in Nat /\ SideSize(r, l) \in Nat \ {0} /\ MAXBITSPERINT \in Nat /\ MAXBITSPERLONG = 2 * MAXBITSPERINT
    BY SizesAreNumbers, SideSizes, WordsAssumption
  <2> QED BY <2>2, <2>3
<1> QED BY <1>1, <1>2, <1>3, AskedSizesHold

\* The values of the types that arithmetic is done in.
LEMMA ValuesOfNumbers ==
  ASSUME NEW k \in {"Int", "Unsigned"}, NEW s \in 1 .. MAXBITSPERLONG
  PROVE  /\ TypeOf(k, s) \in Type(Kinds) /\ TypeOf(k, s).kind = k /\ TypeOf(k, s).size = s
         /\ s \in Nat /\ s - 1 \in Nat /\ (s - 1) + 1 = s
         /\ TwoTo[s] \in Nat \ {0} /\ TwoTo[s - 1] \in Nat \ {0} /\ TwoTo[s] = 2 * TwoTo[s - 1]
         /\ k = "Int" => Values(TypeOf(k, s)) = -TwoTo[s - 1] .. TwoTo[s - 1] - 1
         /\ k = "Unsigned" => Values(TypeOf(k, s)) = 0 .. TwoTo[s] - 1
<1>1. TypeOf(k, s) \in Type(Kinds) /\ TypeOf(k, s).kind = k /\ TypeOf(k, s).size = s
  <2>1. k \in Kinds
    BY DEF Kinds, Numeric
  <2> QED BY <2>1, TypesOfSizes
<1>2. s \in Nat /\ s - 1 \in Nat /\ (s - 1) + 1 = s
  BY WordsAssumption
<1>3. TwoTo[s] \in Nat \ {0} /\ TwoTo[s - 1] \in Nat \ {0}
  BY <1>2, Powers
<1>4. TwoTo[(s - 1) + 1] = 2 * TwoTo[s - 1]
  BY <1>2, Powers
<1>5. k = "Int" => Values(TypeOf(k, s)) = -TwoTo[s - 1] .. TwoTo[s - 1] - 1
  BY <1>1 DEF Values, IntValues
<1>6. k = "Unsigned" => Values(TypeOf(k, s)) = 0 .. TwoTo[s] - 1
  BY <1>1 DEF Values, UnsignedValues
<1> QED BY <1>1, <1>2, <1>3, <1>4, <1>5, <1>6

LEMMA SumsWithin ==
  ASSUME NEW P \in Nat, NEW a, NEW b
  PROVE  /\ a \in -P .. P - 1 /\ b \in -P .. P - 1 => a + b \in -(2 * P) .. (2 * P) - 1 /\ a - b \in -(2 * P) .. (2 * P) - 1
         /\ a \in 0 .. P - 1 /\ b \in 0 .. P - 1 => a + b \in 0 .. (2 * P) - 1 /\ (a - b >= 0 => a - b \in 0 .. (2 * P) - 1)
OBVIOUS

LEMMA NumbersWithin ==
  ASSUME NEW P \in Nat \ {0}, NEW a
  PROVE  /\ a \in -P .. P - 1 => a \in Int /\ -P <= a /\ a <= P
         /\ a \in 0 .. P - 1 => a \in Nat /\ a <= P - 1 /\ P - 1 \in Nat
OBVIOUS

LEMMA SumsFit ==
  ASSUME NEW k \in {"Int", "Unsigned"}, NEW m \in 1 .. MAXBITSPERLONG, m + 1 <= MAXBITSPERLONG,
         NEW a \in Values(TypeOf(k, m)), NEW b \in Values(TypeOf(k, m))
  PROVE  /\ a + b \in Values(TypeOf(k, m + 1))
         /\ k = "Int" \/ a - b >= 0 => a - b \in Values(TypeOf(k, m + 1))
<1>0. m + 1 \in 1 .. MAXBITSPERLONG /\ (m + 1) - 1 = m
  BY WordsAssumption
<1>1. /\ TwoTo[m] \in Nat /\ TwoTo[m - 1] \in Nat /\ TwoTo[m] = 2 * TwoTo[m - 1]
      /\ k = "Int" => Values(TypeOf(k, m)) = -TwoTo[m - 1] .. TwoTo[m - 1] - 1
      /\ k = "Unsigned" => Values(TypeOf(k, m)) = 0 .. TwoTo[m] - 1
  BY ValuesOfNumbers
<1>2. /\ TwoTo[m + 1] \in Nat
      /\ k = "Int" => Values(TypeOf(k, m + 1)) = -TwoTo[m] .. TwoTo[m] - 1
      /\ k = "Unsigned" => Values(TypeOf(k, m + 1)) = 0 .. TwoTo[m + 1] - 1
  BY <1>0, ValuesOfNumbers
<1>3. TwoTo[m + 1] = 2 * TwoTo[m]
  <2>1. m \in Nat
    BY WordsAssumption
  <2> QED BY <2>1, Powers
<1>4. CASE k = "Int"
  <2>1. a \in -TwoTo[m - 1] .. TwoTo[m - 1] - 1 /\ b \in -TwoTo[m - 1] .. TwoTo[m - 1] - 1
    BY <1>1, <1>4, Zenon
  <2>2. /\ a + b \in -(2 * TwoTo[m - 1]) .. (2 * TwoTo[m - 1]) - 1
        /\ a - b \in -(2 * TwoTo[m - 1]) .. (2 * TwoTo[m - 1]) - 1
    BY <1>1, <2>1, SumsWithin, Zenon
  <2> QED BY <1>1, <1>2, <1>4, <2>2, Zenon
<1>5. CASE k = "Unsigned"
  <2>1. a \in 0 .. TwoTo[m] - 1 /\ b \in 0 .. TwoTo[m] - 1
    BY <1>1, <1>5, Zenon
  <2>2. /\ a + b \in 0 .. (2 * TwoTo[m]) - 1
        /\ a - b >= 0 => a - b \in 0 .. (2 * TwoTo[m]) - 1
    BY <1>1, <2>1, SumsWithin, Zenon
  <2>3. "Unsigned" # "Int"
    OBVIOUS
  <2> QED BY <1>2, <1>3, <1>5, <2>2, <2>3, Zenon
<1> QED BY <1>4, <1>5

LEMMA ProductsOfBounds ==
  ASSUME NEW x \in Nat, NEW y \in Nat, NEW A \in Nat, NEW B \in Nat, x <= A, y <= B
  PROVE  x * y \in Nat /\ A * B \in Nat /\ x * y <= A * B
<1>1. x * y <= A * y
  OBVIOUS
<1>2. A * y <= A * B
  OBVIOUS
<1>3. x * y \in Nat /\ A * y \in Nat /\ A * B \in Nat
  OBVIOUS
<1> QED BY <1>1, <1>2, <1>3

LEMMA ProductsBelow ==
  ASSUME NEW A \in Nat \ {0}, NEW B \in Nat \ {0}
  PROVE  (A - 1) * (B - 1) \in Int /\ (A - 1) * (B - 1) <= (A * B) - 1
<1>1. (A - 1) * (B - 1) = (((A * B) - A) - B) + 1
  OBVIOUS
<1>2. A * B \in Int
  OBVIOUS
<1> QED BY <1>1, <1>2

LEMMA ProductsWithin ==
  ASSUME NEW a \in Int, NEW b \in Int, NEW A \in Nat, NEW B \in Nat,
         -A <= a, a <= A, -B <= b, b <= B
  PROVE  a * b \in Int /\ -(A * B) <= a * b /\ a * b <= A * B
<1> DEFINE x == IF a < 0 THEN -a ELSE a
<1> DEFINE y == IF b < 0 THEN -b ELSE b
<1>1. x \in Nat /\ y \in Nat /\ x <= A /\ y <= B
  OBVIOUS
<1>2. (a = x \/ a = -x) /\ (b = y \/ b = -y)
  OBVIOUS
<1> HIDE DEF x, y
<1>3. x * y \in Nat /\ A * B \in Nat /\ x * y <= A * B
  BY <1>1, ProductsOfBounds
<1>4. a * b = x * y \/ a * b = -(x * y)
  <2>1. CASE a = x /\ b = y
    BY <2>1
  <2>2. CASE a = -x /\ b = y
    <3>1. (-x) * y = -(x * y)
      BY <1>1
    <3> QED BY <2>2, <3>1
  <2>3. CASE a = x /\ b = -y
    <3>1. x * (-y) = -(x * y)
      BY <1>1
    <3> QED BY <2>3, <3>1
  <2>4. CASE a = -x /\ b = -y
    <3>1. (-x) * (-y) = x * y
      BY <1>1
    <3> QED BY <2>4, <3>1
  <2> QED BY <1>2, <2>1, <2>2, <2>3, <2>4
<1> QED BY <1>3, <1>4

LEMMA ProductsFit ==
  ASSUME NEW k \in {"Int", "Unsigned"}, NEW m \in 1 .. MAXBITSPERLONG, NEW n \in 1 .. MAXBITSPERLONG,
         m + n <= MAXBITSPERLONG,
         NEW a \in Values(TypeOf(k, m)), NEW b \in Values(TypeOf(k, n))
  PROVE  a * b \in Values(TypeOf(k, m + n))
<1>0. m + n \in 1 .. MAXBITSPERLONG /\ m \in Nat /\ n \in Nat
  BY WordsAssumption
<1>1. /\ TwoTo[m] \in Nat \ {0} /\ TwoTo[m - 1] \in Nat \ {0} /\ m - 1 \in Nat
      /\ k = "Int" => Values(TypeOf(k, m)) = -TwoTo[m - 1] .. TwoTo[m - 1] - 1
      /\ k = "Unsigned" => Values(TypeOf(k, m)) = 0 .. TwoTo[m] - 1
  BY ValuesOfNumbers
<1>2. /\ TwoTo[n] \in Nat \ {0} /\ TwoTo[n - 1] \in Nat \ {0} /\ n - 1 \in Nat
      /\ k = "Int" => Values(TypeOf(k, n)) = -TwoTo[n - 1] .. TwoTo[n - 1] - 1
      /\ k = "Unsigned" => Values(TypeOf(k, n)) = 0 .. TwoTo[n] - 1
  BY ValuesOfNumbers
<1>3. /\ k = "Int" => Values(TypeOf(k, m + n)) = -TwoTo[(m + n) - 1] .. TwoTo[(m + n) - 1] - 1
      /\ k = "Unsigned" => Values(TypeOf(k, m + n)) = 0 .. TwoTo[m + n] - 1
  BY <1>0, ValuesOfNumbers
<1>4. CASE k = "Int"
  <2>0. a \in -TwoTo[m - 1] .. TwoTo[m - 1] - 1 /\ b \in -TwoTo[n - 1] .. TwoTo[n - 1] - 1
    BY <1>1, <1>2, <1>4, Zenon
  <2>1. /\ a \in Int /\ -TwoTo[m - 1] <= a /\ a <= TwoTo[m - 1]
        /\ b \in Int /\ -TwoTo[n - 1] <= b /\ b <= TwoTo[n - 1]
    BY <1>1, <1>2, <2>0, NumbersWithin, Zenon
  <2>2. /\ a * b \in Int /\ -(TwoTo[m - 1] * TwoTo[n - 1]) <= a * b
        /\ a * b <= TwoTo[m - 1] * TwoTo[n - 1]
    BY <1>1, <1>2, <2>1, ProductsWithin
  <2>3. (m - 1) + (n - 1) \in Nat /\ (m + n) - 1 = ((m - 1) + (n - 1)) + 1
    BY <1>0, <1>1, <1>2
  <2>4. /\ TwoTo[(m - 1) + (n - 1)] = TwoTo[m - 1] * TwoTo[n - 1]
        /\ TwoTo[(m - 1) + (n - 1)] \in Nat \ {0}
        /\ TwoTo[((m - 1) + (n - 1)) + 1] = 2 * TwoTo[(m - 1) + (n - 1)]
    BY <1>1, <1>2, <2>3, Powers, SumsOfExponents
  <2>5. TwoTo[(m + n) - 1] = 2 * TwoTo[(m - 1) + (n - 1)]
    BY <2>3, <2>4
  <2> DEFINE P == TwoTo[(m - 1) + (n - 1)]
  <2> DEFINE Q == TwoTo[(m + n) - 1]
  <2>6. /\ P \in Nat \ {0} /\ Q = 2 * P /\ a * b \in Int /\ -P <= a * b /\ a * b <= P
        /\ Values(TypeOf(k, m + n)) = -Q .. Q - 1
    BY <1>3, <1>4, <2>2, <2>4, <2>5
  <2> HIDE DEF P, Q
  <2> QED BY <2>6
<1>5. CASE k = "Unsigned"
  <2>0. a \in 0 .. TwoTo[m] - 1 /\ b \in 0 .. TwoTo[n] - 1
    BY <1>1, <1>2, <1>5, Zenon
  <2>1. a \in Nat /\ a <= TwoTo[m] - 1 /\ b \in Nat /\ b <= TwoTo[n] - 1 /\ TwoTo[m] - 1 \in Nat /\ TwoTo[n] - 1 \in Nat
    BY <1>1, <1>2, <2>0, NumbersWithin, Zenon
  <2>2. a * b \in Nat /\ a * b <= (TwoTo[m] - 1) * (TwoTo[n] - 1)
    BY <2>1, ProductsOfBounds
  <2>3. (TwoTo[m] - 1) * (TwoTo[n] - 1) \in Int /\ (TwoTo[m] - 1) * (TwoTo[n] - 1) <= (TwoTo[m] * TwoTo[n]) - 1
    BY <1>1, <1>2, ProductsBelow
  <2>4. TwoTo[m + n] = TwoTo[m] * TwoTo[n] /\ TwoTo[m + n] \in Nat
    <3>1. m + n \in Nat
      BY <1>0
    <3> QED BY <1>0, <3>1, Powers, SumsOfExponents, Zenon
  <2>5. a * b <= TwoTo[m + n] - 1
    BY <2>2, <2>3, <2>4
  <2> QED BY <1>3, <1>5, <2>2, <2>4, <2>5
<1> QED BY <1>4, <1>5

\* The sizes of the results, and of what a quotient and a remainder are cast to.
LEMMA ResultSizes ==
  ASSUME NEW l \in Type(Kinds), l.kind \in Numeric, NEW r \in Type(Kinds), r.kind \in Numeric,
         NEW op \in ArithmeticOps
  PROVE  LET k == ResultKind(l, r)
             t == ResultType(op, l, r)
         IN /\ k \in {"Int", "Unsigned"} /\ t = TypeOf(k, t.size) /\ t.size \in 1 .. MAXBITSPERLONG
            /\ t.size = ResultWord(l, r) \/ (t.size < ResultWord(l, r) /\
                 t.size = CASE op \in {"+", "-"} -> Larger(SideSize(l, r), SideSize(r, l)) + 1
                            [] op = "*" -> SideSize(l, r) + SideSize(r, l)
                            [] op \in {"/", "%"} -> Larger(SideSize(l, r), SideSize(r, l)))
            /\ op = "/" => SizeTo(l, k) <= t.size
            /\ op = "%" => SizeTo(r, k) <= t.size
<1> DEFINE k == ResultKind(l, r)
<1> DEFINE t == ResultType(op, l, r)
<1> DEFINE W == ResultWord(l, r)
<1> DEFINE sl == SideSize(l, r)
<1> DEFINE sr == SideSize(r, l)
<1>1. /\ k \in {"Int", "Unsigned"} /\ k = ResultKind(r, l) /\ (l.kind = "Int" => k = "Int") /\ (r.kind = "Int" => k = "Int")
  BY ResultKinds
<1>2. t.kind = k /\ t.size = ResultSize(op, l, r) /\ t = TypeOf(k, t.size)
  BY DEF ResultType, TypeOf
<1>3. /\ sl = SizeTo(l, k) /\ sl \in 1 .. MAXBITSPERLONG /\ sl <= WordSize(l.size)
      /\ sr = SizeTo(r, k) /\ sr \in 1 .. MAXBITSPERLONG /\ sr <= WordSize(r.size)
  BY <1>1, SideIsAsked, AskedSizes
<1>4. /\ W \in 1 .. MAXBITSPERLONG /\ WordSize(l.size) \in Nat /\ WordSize(r.size) \in Nat
      /\ WordSize(l.size) <= W /\ WordSize(r.size) <= W
  <2>1. W \in 1 .. MAXBITSPERLONG /\ WordSize(l.size) \in Nat /\ WordSize(l.size) <= W
    BY ResultWords
  <2>2. WordSize(r.size) \in Nat /\ WordSize(r.size) <= ResultWord(r, l) /\ ResultWord(r, l) = W
    BY ResultWords
  <2> QED BY <2>1, <2>2
<1>5. t.size \in 1 .. MAXBITSPERLONG
  <2>1. ResultType(op, l, r) \in Type(Kinds)
    BY ResultTypes
  <2> QED BY <2>1, SizesAreNumbers
<1>6. MAXBITSPERLONG \in Nat
  BY WordsAssumption
<1>7. t.size = CASE op \in {"+", "-"} -> Smaller(Larger(sl, sr) + 1, W)
                 [] op = "*" -> Smaller(sl + sr, W)
                 [] op \in {"/", "%"} -> Smaller(Larger(sl, sr), W)
  BY <1>2 DEF ResultSize, AddSize, SubtractSize, MultiplySize, WidestSize, ArithmeticOps
<1> HIDE DEF t, k, W, sl, sr
<1>8. t.size = W \/ (t.size < W /\
        t.size = CASE op \in {"+", "-"} -> Larger(sl, sr) + 1
                   [] op = "*" -> sl + sr
                   [] op \in {"/", "%"} -> Larger(sl, sr))
  <2>1. CASE op \in {"+", "-"}
    BY <1>3, <1>4, <1>6, <1>7, <2>1 DEF Smaller, Larger
  <2>2. CASE op = "*"
    BY <1>3, <1>4, <1>6, <1>7, <2>2 DEF Smaller
  <2>3. CASE op \in {"/", "%"}
    BY <1>3, <1>4, <1>6, <1>7, <2>3 DEF Smaller, Larger
  <2> QED BY <2>1, <2>2, <2>3 DEF ArithmeticOps
<1>9. op \in {"/", "%"} => sl <= t.size /\ sr <= t.size
  BY <1>3, <1>4, <1>6, <1>7 DEF Smaller, Larger
<1> QED BY <1>1, <1>2, <1>3, <1>5, <1>8, <1>9, Zenon DEF t, k, W, sl, sr

LEMMA QuotientsWithin ==
  ASSUME NEW P \in Nat \ {0}, NEW a \in Int, NEW b \in Int, b # 0
  PROVE  /\ a \in -P .. P - 1 /\ (a < 0 => Quotient(a, b) # P) => Quotient(a, b) \in -P .. P - 1
         /\ a \in 0 .. P - 1 /\ b >= 0 => Quotient(a, b) \in 0 .. P - 1
         /\ b \in -P .. P - 1 => Remainder(a, b) \in -P .. P - 1
         /\ b \in 0 .. P - 1 /\ a >= 0 => Remainder(a, b) \in 0 .. P - 1
<1>1. /\ Quotient(a, b) \in Int /\ Remainder(a, b) \in Int
      /\ -(Sign(a) * a) <= Quotient(a, b) /\ Quotient(a, b) <= Sign(a) * a
      /\ -(Sign(b) * b) < Remainder(a, b) /\ Remainder(a, b) < Sign(b) * b
      /\ a >= 0 /\ b > 0 => Quotient(a, b) >= 0 /\ Remainder(a, b) >= 0
  BY Quotients
<1>2. (a >= 0 => Sign(a) * a = a) /\ (a < 0 => Sign(a) * a = -a)
      /\ (b >= 0 => Sign(b) * b = b) /\ (b < 0 => Sign(b) * b = -b)
  BY DEF Sign
<1>3. ASSUME a \in -P .. P - 1, a < 0 => Quotient(a, b) # P PROVE Quotient(a, b) \in -P .. P - 1
  BY <1>1, <1>2, <1>3
<1>4. ASSUME a \in 0 .. P - 1, b >= 0 PROVE Quotient(a, b) \in 0 .. P - 1
  BY <1>1, <1>2, <1>4
<1>5. ASSUME b \in -P .. P - 1 PROVE Remainder(a, b) \in -P .. P - 1
  BY <1>1, <1>2, <1>5
<1>6. ASSUME b \in 0 .. P - 1, a >= 0 PROVE Remainder(a, b) \in 0 .. P - 1
  BY <1>1, <1>2, <1>6
<1> QED BY <1>3, <1>4, <1>5, <1>6

\* A quotient fits the type that it is cast to, but for that of the least Int
\* and minus one.
LEMMA QuotientsFit ==
  ASSUME NEW l \in Type(Kinds), l.kind \in Numeric, NEW r \in Type(Kinds), r.kind \in Numeric,
         NEW k, k = ResultKind(l, r), ~(k = "Int" /\ IsWhole(l)),
         NEW a \in Values(l), NEW b \in Values(r), b # 0,
         ~(l.kind = "Int" /\ Quotient(a, b) = TwoTo[l.size - 1])
  PROVE  Quotient(a, b) \in Values(TypeOf(k, SizeTo(l, k)))
<1> DEFINE s == SizeTo(l, k)
<1>1. /\ k \in {"Int", "Unsigned"} /\ (l.kind = "Int" => k = "Int") /\ (r.kind = "Int" => k = "Int")
  BY ResultKinds
<1>2. s \in 1 .. MAXBITSPERLONG /\ (l.kind = "Int" => s = l.size)
  BY <1>1, AskedSizes
<1>3. a \in Values(TypeOf(k, s))
  BY <1>1, AskedSizesHold
<1> HIDE DEF s
<1>4. /\ TwoTo[s] \in Nat \ {0} /\ TwoTo[s - 1] \in Nat \ {0}
      /\ k = "Int" => Values(TypeOf(k, s)) = -TwoTo[s - 1] .. TwoTo[s - 1] - 1
      /\ k = "Unsigned" => Values(TypeOf(k, s)) = 0 .. TwoTo[s] - 1
  BY <1>1, <1>2, ValuesOfNumbers
<1>5. a \in Int /\ b \in Int /\ (l.kind # "Int" => a \in Nat) /\ (r.kind # "Int" => b \in Nat)
  BY ValuesAreNumbers
<1>6. CASE k = "Int"
  <2>1. a < 0 => Quotient(a, b) # TwoTo[s - 1]
    <3>1. a < 0 => l.kind = "Int"
      BY <1>5
    <3> QED BY <1>2, <3>1
  <2>2. a \in -TwoTo[s - 1] .. TwoTo[s - 1] - 1
    BY <1>3, <1>4, <1>6, Zenon
  <2>3. Quotient(a, b) \in -TwoTo[s - 1] .. TwoTo[s - 1] - 1
    BY <1>4, <1>5, <2>1, <2>2, QuotientsWithin, Zenon
  <2> QED BY <1>4, <1>6, <2>3, Zenon DEF s
<1>7. CASE k = "Unsigned"
  <2>1. b >= 0
    BY <1>1, <1>5, <1>7
  <2>2. a \in 0 .. TwoTo[s] - 1
    BY <1>3, <1>4, <1>7, Zenon
  <2>3. Quotient(a, b) \in 0 .. TwoTo[s] - 1
    BY <1>4, <1>5, <2>1, <2>2, QuotientsWithin, Zenon
  <2> QED BY <1>4, <1>7, <2>3, Zenon DEF s
<1> QED BY <1>1, <1>6, <1>7

LEMMA RemaindersFit ==
  ASSUME NEW l \in Type(Kinds), l.kind \in Numeric, NEW r \in Type(Kinds), r.kind \in Numeric,
         NEW k, k = ResultKind(l, r), ~(k = "Int" /\ IsWhole(r)),
         NEW a \in Values(l), NEW b \in Values(r), b # 0
  PROVE  Remainder(a, b) \in Values(TypeOf(k, SizeTo(r, k)))
<1> DEFINE s == SizeTo(r, k)
<1>1. /\ k \in {"Int", "Unsigned"} /\ (l.kind = "Int" => k = "Int") /\ (r.kind = "Int" => k = "Int")
  BY ResultKinds
<1>2. s \in 1 .. MAXBITSPERLONG
  BY <1>1, AskedSizes
<1>3. b \in Values(TypeOf(k, s))
  BY <1>1, AskedSizesHold
<1> HIDE DEF s
<1>4. /\ TwoTo[s] \in Nat \ {0} /\ TwoTo[s - 1] \in Nat \ {0}
      /\ k = "Int" => Values(TypeOf(k, s)) = -TwoTo[s - 1] .. TwoTo[s - 1] - 1
      /\ k = "Unsigned" => Values(TypeOf(k, s)) = 0 .. TwoTo[s] - 1
  BY <1>1, <1>2, ValuesOfNumbers
<1>5. a \in Int /\ b \in Int /\ (l.kind # "Int" => a \in Nat)
  BY ValuesAreNumbers
<1>6. CASE k = "Int"
  <2>2. b \in -TwoTo[s - 1] .. TwoTo[s - 1] - 1
    BY <1>3, <1>4, <1>6, Zenon
  <2>3. Remainder(a, b) \in -TwoTo[s - 1] .. TwoTo[s - 1] - 1
    BY <1>4, <1>5, <2>2, QuotientsWithin, Zenon
  <2> QED BY <1>4, <1>6, <2>3, Zenon DEF s
<1>7. CASE k = "Unsigned"
  <2>1. a >= 0
    BY <1>1, <1>5, <1>7
  <2>2. b \in 0 .. TwoTo[s] - 1
    BY <1>3, <1>4, <1>7, Zenon
  <2>3. Remainder(a, b) \in 0 .. TwoTo[s] - 1
    BY <1>4, <1>5, <2>1, <2>2, QuotientsWithin, Zenon
  <2> QED BY <1>4, <1>7, <2>3, Zenon DEF s
<1> QED BY <1>1, <1>6, <1>7

\* A sum, a difference or a product that a word holds fits the size that was
\* computed for it.
LEMMA SumsAndProductsFit ==
  ASSUME NEW l \in Type(Kinds), l.kind \in Numeric, NEW r \in Type(Kinds), r.kind \in Numeric,
         NEW op \in {"+", "-", "*"}, NEW a \in Values(l), NEW b \in Values(r),
         Apply(op, a, b) \in Values(TypeOf(ResultKind(l, r), ResultWord(l, r)))
  PROVE  Apply(op, a, b) \in Values(ResultType(op, l, r))
<1> DEFINE k == ResultKind(l, r)
<1> DEFINE t == ResultType(op, l, r)
<1> DEFINE W == ResultWord(l, r)
<1> DEFINE sl == SideSize(l, r)
<1> DEFINE sr == SideSize(r, l)
<1>0. op \in ArithmeticOps
  BY DEF ArithmeticOps
<1>1. /\ k \in {"Int", "Unsigned"} /\ t = TypeOf(k, t.size) /\ t.size \in 1 .. MAXBITSPERLONG
      /\ t.size = W \/ (t.size < W /\
           t.size = CASE op \in {"+", "-"} -> Larger(sl, sr) + 1
                      [] op = "*" -> sl + sr
                      [] op \in {"/", "%"} -> Larger(sl, sr))
  BY <1>0, ResultSizes
<1>2. sl \in Nat \ {0} /\ sr \in Nat \ {0} /\ W \in 1 .. MAXBITSPERLONG /\ MAXBITSPERLONG \in Nat
  BY SideSizes, ResultWords, WordsAssumption
<1>3. ResultKind(r, l) = k /\ ResultWord(r, l) = W
  BY ResultKinds, ResultWords
<1>4. a \in Int /\ b \in Int
  BY ValuesAreNumbers
<1>5. CASE t.size = W
  BY <1>1, <1>5
<1>6. CASE t.size < W /\ op \in {"+", "-"}
  <2> DEFINE m == Larger(sl, sr)
  <2>1. t.size = m + 1
    BY <1>1, <1>2, <1>6
  <2>2. m \in 1 .. MAXBITSPERLONG /\ sl <= m /\ sr <= m /\ m < W /\ m + 1 <= MAXBITSPERLONG
    <3> HIDE DEF t, W, sl, sr
    <3> QED BY <1>2, <1>6, <2>1 DEF Larger
  <2> HIDE DEF m
  <2>3. a \in Values(TypeOf(k, m))
    BY <2>2, CommonSizeHolds
  <2>4. b \in Values(TypeOf(k, m))
    BY <1>3, <2>2, CommonSizeHolds
  <2>5. /\ a + b \in Values(TypeOf(k, m + 1))
        /\ k = "Int" \/ a - b >= 0 => a - b \in Values(TypeOf(k, m + 1))
    <3> HIDE DEF k
    <3> QED BY <1>1, <2>2, <2>3, <2>4, SumsFit
  <2>6. t = TypeOf(k, m + 1)
    BY <1>1, <2>1
  <2>7. CASE op = "+"
    BY <2>5, <2>6, <2>7 DEF Apply, Sum
  <2>8. CASE op = "-"
    <3>1. Apply(op, a, b) = a - b
      BY <2>8 DEF Apply, Difference
    <3>2. k = "Unsigned" => a - b >= 0
      <4>1. k = "Unsigned" => Values(TypeOf(k, W)) = 0 .. TwoTo[W] - 1
        <5> HIDE DEF k, W
        <5> QED BY <1>1, <1>2, ValuesOfNumbers
      <4>2. k = "Unsigned" => a - b \in 0 .. TwoTo[W] - 1
        BY <3>1, <4>1
      <4> HIDE DEF k, W
      <4> QED BY <1>4, <4>2
    <3>3. a - b \in Values(TypeOf(k, m + 1))
      <4>1. k = "Int" \/ k = "Unsigned"
        BY <1>1
      <4> HIDE DEF k
      <4> QED BY <2>5, <3>2, <4>1, Zenon
    <3> QED BY <2>6, <3>1, <3>3
  <2> HIDE DEF t
  <2> QED BY <1>6, <2>7, <2>8
<1>7. CASE t.size < W /\ op = "*"
  <2>1. t.size = sl + sr
    BY <1>1, <1>2, <1>7
  <2>2. sl + sr < W /\ sl + sr <= MAXBITSPERLONG /\ sl \in 1 .. MAXBITSPERLONG /\ sr \in 1 .. MAXBITSPERLONG
    <3> HIDE DEF t, W, sl, sr
    <3> QED BY <1>2, <1>7, <2>1
  <2>3. a \in Values(TypeOf(k, sl))
    BY <2>2, FactorSizeHolds
  <2>4. b \in Values(TypeOf(k, sr))
    <3>1. sr + sl < W
      <4> HIDE DEF sl, sr, W
      <4> QED BY <1>2, <2>2
    <3> QED BY <1>3, <3>1, FactorSizeHolds
  <2>5. a * b \in Values(TypeOf(k, sl + sr))
    <3> HIDE DEF k, sl, sr
    <3> QED BY <1>1, <2>2, <2>3, <2>4, ProductsFit
  <2>6. Apply(op, a, b) = a * b
    BY <1>7 DEF Apply, Product
  <2> HIDE DEF t, k, sl, sr
  <2> QED BY <1>1, <2>1, <2>5, <2>6 DEF t
<1> QED BY <1>1, <1>5, <1>6, <1>7

\* The result of arithmetic fits the type it is computed in, and the type it
\* is then cast to.
LEMMA ResultsFit ==
  ASSUME NEW l \in Type(Kinds), l.kind \in Numeric, NEW r \in Type(Kinds), r.kind \in Numeric,
         NEW op \in ArithmeticOps, NEW a \in Values(l), NEW b \in Values(r),
         op \in {"/", "%"} => b # 0,
         NEW t, t = ResultType(op, l, r), ~IsCut(op, l, r, t),
         Apply(op, a, b) \in Values(TypeOf(t.kind, ResultWord(l, r))),
         ~(op = "/" /\ l.kind = "Int" /\ Apply(op, a, b) = TwoTo[l.size - 1])
  PROVE  Apply(op, a, b) \in Values(t) /\ Apply(op, a, b) \in Values(NarrowedType(op, l, r, t))
<1> DEFINE k == ResultKind(l, r)
<1>1. /\ k \in {"Int", "Unsigned"} /\ t = TypeOf(k, t.size) /\ t.size \in 1 .. MAXBITSPERLONG
      /\ op = "/" => SizeTo(l, k) <= t.size
      /\ op = "%" => SizeTo(r, k) <= t.size
  BY ResultSizes
<1>2. t \in Type(Kinds) /\ t.kind = k
  <2> HIDE DEF k
  <2> QED BY <1>1, ValuesOfNumbers
<1>3. CASE op \in {"+", "-", "*"}
  <2>1. Apply(op, a, b) \in Values(t)
    BY <1>2, <1>3, SumsAndProductsFit
  <2>2. NarrowedType(op, l, r, t) = t
    BY <1>3 DEF NarrowedType
  <2> QED BY <2>1, <2>2
<1>4. CASE op = "/"
  <2>1. Apply(op, a, b) = Quotient(a, b) /\ NarrowedType(op, l, r, t) = TypeOf(k, SizeTo(l, k))
    BY <1>2, <1>4 DEF Apply, NarrowedType
  <2>2. ~(k = "Int" /\ IsWhole(l))
    BY <1>2, <1>4 DEF IsCut, IsWhole
  <2>3. Quotient(a, b) \in Values(TypeOf(k, SizeTo(l, k)))
    BY <1>4, <2>1, <2>2, QuotientsFit
  <2>4. /\ TypeOf(k, SizeTo(l, k)) \in Type(Kinds) /\ TypeOf(k, SizeTo(l, k)).kind = k
        /\ TypeOf(k, SizeTo(l, k)).size = SizeTo(l, k)
    <3>1. SizeTo(l, k) \in 1 .. MAXBITSPERLONG
      BY SizeToIsSize
    <3> HIDE DEF k
    <3> QED BY <1>1, <3>1, ValuesOfNumbers
  <2>5. Values(TypeOf(k, SizeTo(l, k))) \subseteq Values(t)
    BY <1>1, <1>2, <1>4, <2>4, WiderTypes
  <2> QED BY <2>1, <2>3, <2>5
<1>5. CASE op = "%"
  <2>1. Apply(op, a, b) = Remainder(a, b) /\ NarrowedType(op, l, r, t) = TypeOf(k, SizeTo(r, k))
    BY <1>2, <1>5 DEF Apply, NarrowedType
  <2>2. ~(k = "Int" /\ IsWhole(r))
    BY <1>2, <1>5 DEF IsCut, IsWhole
  <2>3. Remainder(a, b) \in Values(TypeOf(k, SizeTo(r, k)))
    BY <1>5, <2>2, RemaindersFit
  <2>4. /\ TypeOf(k, SizeTo(r, k)) \in Type(Kinds) /\ TypeOf(k, SizeTo(r, k)).kind = k
        /\ TypeOf(k, SizeTo(r, k)).size = SizeTo(r, k)
    <3>1. SizeTo(r, k) \in 1 .. MAXBITSPERLONG
      BY SizeToIsSize
    <3> HIDE DEF k
    <3> QED BY <1>1, <3>1, ValuesOfNumbers
  <2>5. Values(TypeOf(k, SizeTo(r, k))) \subseteq Values(t)
    BY <1>1, <1>2, <1>5, <2>4, WiderTypes
  <2> QED BY <2>1, <2>3, <2>5
<1> QED BY <1>3, <1>4, <1>5 DEF ArithmeticOps

LEMMA NarrowedIsNarrower ==
  ASSUME NEW l \in Type(Kinds), l.kind \in Numeric, NEW r \in Type(Kinds), r.kind \in Numeric,
         NEW op \in ArithmeticOps, NEW t, t = ResultType(op, l, r), NarrowedType(op, l, r, t) # t
  PROVE  NarrowedType(op, l, r, t).size <= t.size
<1>1. t.kind = ResultKind(l, r)
  BY DEF ResultType, TypeOf
<1>2. /\ op = "/" => SizeTo(l, t.kind) <= t.size
      /\ op = "%" => SizeTo(r, t.kind) <= t.size
  BY <1>1, ResultSizes
<1> QED BY <1>2 DEF NarrowedType, TypeOf

LEMMA ComputeIsExact ==
  ASSUME VInv, NEW op \in ArithmeticOps, NEW l, NodeOk(l), NEW r, NodeOk(r), IsNumber(l), IsNumber(r),
         NEW t, t = ResultType(op, l.label, r.label),
         NEW cl, cl.val = l.val, NEW cr, cr.val = r.val, Compute(op, l, r, t, cl, cr)
  PROVE  VInv'
<1> DEFINE a == Read(cl, t)
<1> DEFINE b == Read(cr, t)
<1> DEFINE n == Clamp(Apply(op, a, b), t)
<1> DEFINE narrow == NarrowedType(op, l.label, r.label, t)
<1> DEFINE const == l.const /\ r.const
<1> DEFINE why == IF cl.type # t \/ cr.type # t THEN "stale type"
                  ELSE IF IsCut(op, l.label, r.label, t) THEN "cut size" ELSE "none"
<1> DEFINE result == IF narrow = t THEN Node(t, t, const, const, n)
                     ELSE Node(narrow, t, const, FALSE, Clamp(n, narrow))
<1> DEFINE e == IF op \in {"/", "%"} /\ r.val = 0 THEN result.val
                ELSE Expected(op, Apply(op, l.val, r.val), l.label, r.label, t, result.val)
<1>1. \/ Stop("error")
      \/ ~(op \in {"/", "%"} /\ b = 0) /\ Become(result, e, why)
  BY Zenon DEF Compute
<1>2. /\ l.label \in Type(Kinds) /\ l.label.kind \in Numeric /\ l.val \in Values(l.label) /\ l.val \in Int
      /\ r.label \in Type(Kinds) /\ r.label.kind \in Numeric /\ r.val \in Values(r.label) /\ r.val \in Int
      /\ const \in BOOLEAN
  BY NodeFacts DEF IsNumber
<1>3. t \in Type(Kinds) /\ t.kind = ResultKind(l.label, r.label)
  <2>1. t \in Type(Kinds)
    BY <1>2, ResultTypes
  <2> QED BY <2>1 DEF ResultType, TypeOf
<1>4. narrow \in Type(Kinds) /\ narrow.kind = t.kind
  BY <1>2, <1>3, NarrowedTypes
<1>5. ASSUME why = "none", ~(op \in {"/", "%"} /\ b = 0)
      PROVE  NodeOk(result) /\ result.val = e
  <2>1. cl.type = t /\ cr.type = t /\ ~IsCut(op, l.label, r.label, t)
    BY <1>5
  <2>2. a = l.val /\ b = r.val
    BY <2>1, ReadsItself
  <2>3. op \in {"/", "%"} => r.val # 0
    BY <1>5, <2>2
  <2>4. Apply(op, l.val, r.val) \in Int
    BY <1>2, <2>3, ResultsAreNumbers
  <2>5. n = Clamp(Apply(op, l.val, r.val), t)
    BY <2>2
  <2>6. /\ n \in Values(t) /\ n \in Int
        /\ Apply(op, l.val, r.val) \in Values(t) => n = Apply(op, l.val, r.val)
    BY <1>3, <2>4, <2>5, Clamps, ValuesAreNumbers
  <2> HIDE DEF n
  <2>7. Clamp(n, narrow) \in Values(narrow) /\ (n \in Values(narrow) => Clamp(n, narrow) = n)
    BY <1>4, <2>6, Clamps
  <2>8. result.val = IF narrow = t THEN n ELSE Clamp(n, narrow)
    BY DEF Node
  <2>9. NodeOk(result)
    <3>1. CASE narrow = t
      BY <1>2, <1>3, <2>6, <3>1, NodesAreOk
    <3>2. CASE narrow # t
      <4>1. IsNode(Node(narrow, t, const, FALSE, Clamp(n, narrow)))
        BY <1>3, <1>4, NodesAreNodes
      <4>2. narrow.kind \in Numeric /\ narrow.size <= t.size
        <5>1. narrow.kind \in Numeric
          BY <1>3, <1>4, ResultKinds DEF Numeric
        <5>2. narrow.size <= t.size
          BY <1>2, <3>2, NarrowedIsNarrower
        <5> QED BY <5>1, <5>2
      <4> DEFINE m == Clamp(n, narrow)
      <4>3. m \in Values(narrow)
        BY <2>7
      <4> HIDE DEF m, narrow, const
      <4>4. IsNode(Node(narrow, t, const, FALSE, m))
        BY <4>1 DEF m, narrow, const
      <4>5. NodeOk(Node(narrow, t, const, FALSE, m))
        BY <1>2, <4>2, <4>3, <4>4 DEF NodeOk, Node
      <4> QED BY <3>2, <4>5 DEF m, narrow, const
    <3> QED BY <3>1, <3>2
  <2>10. result.val = e
    <3> DEFINE x == Apply(op, l.val, r.val)
    <3>1. e = Expected(op, x, l.label, r.label, t, result.val)
      BY <2>3
    <3>2. CASE \/ x \notin Values(TypeOf(t.kind, ResultWord(l.label, r.label)))
               \/ op = "/" /\ l.label.kind = "Int" /\ x = TwoTo[l.label.size - 1]
      BY <3>1, <3>2, Zenon DEF Expected
    <3>3. CASE ~ \/ x \notin Values(TypeOf(t.kind, ResultWord(l.label, r.label)))
                 \/ op = "/" /\ l.label.kind = "Int" /\ x = TwoTo[l.label.size - 1]
      <4>1. x \in Values(t) /\ x \in Values(narrow)
        BY <1>2, <2>1, <2>3, <3>3, ResultsFit
      <4>2. e = x
        BY <3>1, <3>3, Zenon DEF Expected
      <4> HIDE DEF x, narrow, result, e
      <4> QED BY <2>6, <2>7, <2>8, <4>1, <4>2 DEF x
    <3> QED BY <3>2, <3>3
  <2> QED BY <2>9, <2>10
<1>6. CASE Stop("error")
  BY <1>6, StopIsExact
<1>7. CASE ~(op \in {"/", "%"} /\ b = 0) /\ Become(result, e, why)
  <2> HIDE DEF a, b, n, narrow, const, why, result, e
  <2> QED BY <1>5, <1>7, BecomeIsExact
<1> QED BY <1>1, <1>6, <1>7

LEMMA ArithmeticIsExact == VInv /\ Arithmetic => VInv'
<1> SUFFICES ASSUME VInv, Arithmetic PROVE VInv'
  OBVIOUS
<1>1. PICK p \in Pairs, op \in ArithmeticOps :
        LET l == p[1]
            r == p[2]
            t == ResultType(op, l.label, r.label)
        IN /\ IsNumber(l) /\ IsNumber(r)
           /\ \/ RefusePair(l, r, t)
              \/ /\ BothSafe(l, r, t)
                 /\ \E cl \in CastTo(l, t), cr \in CastTo(r, t) : Compute(op, l, r, t, cl, cr)
  BY DEF Arithmetic
<1> DEFINE l == p[1]
<1> DEFINE r == p[2]
<1> DEFINE t == ResultType(op, l.label, r.label)
<1>2. NodeOk(l) /\ NodeOk(r) /\ IsNumber(l) /\ IsNumber(r)
  BY <1>1, ReadyIsOk, PairsAreOk DEF Arithmetic
<1>3. t \in Type(Kinds) /\ t.kind \in {"Int", "Unsigned"}
  <2>1. t \in Type(Kinds)
    BY <1>2, NodeFacts, ResultTypes DEF IsNumber
  <2> QED BY <2>1, ResultKinds DEF ResultType, TypeOf
<1>4. \/ RefusePair(l, r, t)
      \/ /\ BothSafe(l, r, t)
         /\ \E cl \in CastTo(l, t), cr \in CastTo(r, t) : Compute(op, l, r, t, cl, cr)
  BY <1>1
<1> HIDE DEF l, r
<1>5. ASSUME BothSafe(l, r, t), NEW cl \in CastTo(l, t), NEW cr \in CastTo(r, t), Compute(op, l, r, t, cl, cr)
      PROVE  VInv'
  <2>1. cl.val = Meaning(l, t) /\ cr.val = Meaning(r, t)
    BY <1>2, <1>3, <1>5, CastsKeepMeanings DEF BothSafe
  <2>2. Meaning(l, t) = l.val /\ Meaning(r, t) = r.val
    BY <1>3 DEF Meaning
  <2> QED BY <1>2, <1>5, <2>1, <2>2, ComputeIsExact
<1> QED BY <1>4, <1>5, RefusePairIsExact

------------------------------------------------------------------------------
\* Shifts.

LEMMA QuotientsOfPowers ==
  ASSUME NEW p \in Nat, NEW w \in Nat \ {0}
  PROVE  p \div w \in Nat /\ p \div w <= p /\ (p < w => p \div w = 0)
<1>1. p \div w \in Int /\ p % w \in 0 .. w - 1 /\ p = (w * (p \div w)) + (p % w)
  BY Division
<1> DEFINE q == p \div w
<1>2. q \in Nat
  OBVIOUS
<1> HIDE DEF q
<1>3. w * q \in Nat /\ w * q >= q
  BY <1>2, ProductsAreLarger
<1>4. p >= w * q
  BY <1>1, <1>3 DEF q
<1>5. p < w => q = 0
  <2> SUFFICES ASSUME p < w, q # 0 PROVE FALSE
    OBVIOUS
  <2>1. w * q >= w
    <3>1. q * w >= w /\ q * w = w * q
      <4>1. q \in Nat \ {0}
        BY <1>2
      <4>2. q * w >= w
        BY <4>1, ProductsAreLarger
      <4> QED BY <1>2, <4>2
    <3> QED BY <3>1
  <2> QED BY <1>2, <1>3, <1>4, <2>1
<1> QED BY <1>2, <1>3, <1>4, <1>5 DEF q

LEMMA ProductsAreLess ==
  ASSUME NEW p \in Nat, NEW A \in Nat, p < A, NEW w \in Nat \ {0}
  PROVE  p * w < A * w /\ A * w \in Nat
OBVIOUS

LEMMA WordsAreLess == MAXBITSPERLONG <= TwoTo[MAXBITSPERINT - 1] /\ TwoTo[MAXBITSPERINT - 1] \in Nat
<1> DEFINE n == MAXBITSPERINT
<1>1. n \in Nat /\ n >= 4 /\ MAXBITSPERLONG = 2 * n /\ n - 1 \in Nat /\ n - 1 >= 3 /\ n - 2 \in Nat
      /\ (n - 1) - 1 = n - 2 /\ (n - 2) + 1 = n - 1
  BY WordsAssumption
<1>2. n - 1 < TwoTo[n - 2]
  BY <1>1, NumbersAreLess
<1>3. TwoTo[n - 2] \in Nat /\ TwoTo[n - 1] = 2 * TwoTo[n - 2]
  BY <1>1, Powers
<1> HIDE DEF n
<1>4. MAXBITSPERLONG <= TwoTo[n - 1] /\ TwoTo[n - 1] \in Nat
  BY <1>1, <1>2, <1>3
<1> QED BY <1>4 DEF n

\* A left shift has the size of the word or room for the largest distance.
LEMMA LeftShiftsHaveRoom ==
  ASSUME NEW lt \in Type(Kinds), NEW rt \in Type(Kinds),
         NEW size \in ShiftLeftSizes(lt, rt), size > 0, size # ResultWord(lt, rt),
         ~(rt.size >= MAXBITSPERINT /\ rt.size < ResultWord(lt, rt))
  PROVE  size = lt.size + TwoTo[rt.size] /\ size < ResultWord(lt, rt) /\ rt.size < MAXBITSPERINT
<1> DEFINE W == ResultWord(lt, rt)
<1>1. /\ lt.size \in Nat /\ lt.size <= MAXBITSPERLONG /\ rt.size \in Nat /\ W \in Nat
      /\ MAXBITSPERINT \in Nat \ {0} /\ MAXBITSPERLONG \in Nat
  BY SizesAreNumbers, ResultWords, WordsAssumption
<1>2. PICK n \in IF rt.size >= W THEN {W} ELSE OneShifted(rt.size) : size = Smaller(lt.size + n, W)
  BY DEF ShiftLeftSizes
<1> HIDE DEF W
<1>3. ~(rt.size >= W)
  <2> SUFFICES ASSUME rt.size >= W PROVE FALSE
    OBVIOUS
  <2>1. n = W
    BY <1>2
  <2>2. size = W
    BY <1>1, <1>2, <2>1 DEF Smaller
  <2> QED BY <2>2 DEF W
<1>4. rt.size < MAXBITSPERINT
  BY <1>1, <1>3 DEF W
<1>5. rt.size % MAXBITSPERINT = rt.size
  BY <1>1, <1>4, SmallRemainder
<1>6. n \in OneShifted(rt.size)
  BY <1>2, <1>3
<1>7. n = IF rt.size = MAXBITSPERINT - 1 THEN -TwoTo[rt.size] ELSE TwoTo[rt.size]
  BY <1>4, <1>5, <1>6 DEF OneShifted
<1>8. TwoTo[rt.size] \in Nat
  BY <1>1, Powers
<1>9. rt.size # MAXBITSPERINT - 1
  <2> SUFFICES ASSUME rt.size = MAXBITSPERINT - 1 PROVE FALSE
    OBVIOUS
  <2>1. n = -TwoTo[rt.size] /\ MAXBITSPERLONG <= TwoTo[rt.size]
    BY <1>7, WordsAreLess
  <2>2. lt.size + n <= 0 /\ lt.size + n \in Int
    BY <1>1, <1>8, <2>1
  <2>3. size <= 0
    BY <1>1, <1>2, <2>2 DEF Smaller
  <2>4. size \in Int
    BY <1>1, <1>2, <2>2 DEF Smaller
  <2> QED BY <2>3, <2>4
<1>10. n = TwoTo[rt.size]
  BY <1>7, <1>9
<1>11. size # W
  BY DEF W
<1>12. size = lt.size + TwoTo[rt.size] /\ size < W
  BY <1>1, <1>2, <1>8, <1>10, <1>11 DEF Smaller
<1> QED BY <1>4, <1>12 DEF W

LEMMA MovedIsExact ==
  ASSUME NEW op \in {"<<", ">>"}, NEW lt \in Type(Kinds), NEW rt \in Type(Kinds),
         NEW size \in ShiftSizes(op, lt, rt), size > 0,
         ~(op = "<<" /\ rt.size >= MAXBITSPERINT /\ rt.size < ResultWord(lt, rt)),
         NEW p \in 0 .. TwoTo[lt.size] - 1, NEW d \in 0 .. TwoTo[rt.size] - 1
  PROVE  /\ Moved(op, p, d, size) = Moved(op, p, d, ResultWord(lt, rt))
         /\ Moved(op, p, d, size) \in 0 .. TwoTo[size] - 1
<1> DEFINE W == ResultWord(lt, rt)
<1>1. /\ lt.size \in Nat /\ rt.size \in Nat /\ W \in Nat /\ lt.size <= W
      /\ TwoTo[lt.size] \in Nat \ {0} /\ TwoTo[rt.size] \in Nat \ {0} /\ TwoTo[W] \in Nat \ {0}
  <2>1. lt.size \in Nat /\ rt.size \in Nat
    BY SizesAreNumbers
  <2>2. W \in Nat /\ WordSize(lt.size) \in Nat /\ lt.size <= WordSize(lt.size) /\ WordSize(lt.size) <= W
    BY ResultWords, WordsAssumption
  <2> QED BY <2>1, <2>2, Powers
<1>2. size \in Int
  BY ShiftSizesAreSizes
<1>3. size \in Nat /\ p \in Nat /\ d \in Nat /\ p < TwoTo[lt.size] /\ d < TwoTo[rt.size]
  BY <1>1, <1>2
<1>4. TwoTo[size] \in Nat \ {0} /\ TwoTo[d] \in Nat \ {0}
  BY <1>3, Powers
<1>5. CASE op = ">>"
  <2>1. size = lt.size
    BY <1>5 DEF ShiftSizes, ShiftRightSizes
  <2>2. p \div TwoTo[d] \in Nat /\ p \div TwoTo[d] <= p /\ (p < TwoTo[d] => p \div TwoTo[d] = 0)
    BY <1>3, <1>4, QuotientsOfPowers
  <2>3. d >= size => p \div TwoTo[d] = 0
    <3>1. d >= size => TwoTo[size] <= TwoTo[d]
      BY <1>3, Powers
    <3> QED BY <1>1, <1>3, <1>4, <2>1, <2>2, <3>1
  <2>4. \A bits \in Nat : Moved(op, p, d, bits) = IF d >= bits THEN 0 ELSE p \div TwoTo[d]
    BY <1>3, <1>5 DEF Moved
  <2>5. Moved(op, p, d, size) = p \div TwoTo[d]
    BY <1>3, <2>3, <2>4
  <2>6. Moved(op, p, d, W) = p \div TwoTo[d]
    <3> HIDE DEF W
    <3>1. d >= W => d >= size
      BY <1>1, <1>3, <2>1
    <3> QED BY <1>1, <2>3, <2>4, <3>1
  <2>7. p \div TwoTo[d] \in 0 .. TwoTo[size] - 1
    BY <1>1, <1>3, <2>1, <2>2
  <2> QED BY <2>5, <2>6, <2>7
<1>6. CASE op = "<<"
  <2>1. size \in ShiftLeftSizes(lt, rt)
    BY <1>6 DEF ShiftSizes
  <2>2. p * TwoTo[d] \in Nat
    BY <1>3, <1>4
  <2>3. \A bits \in Nat : Moved(op, p, d, bits) = IF d >= bits THEN 0 ELSE (p * TwoTo[d]) % TwoTo[bits]
    BY <1>3, <1>6 DEF Moved
  <2>4. (p * TwoTo[d]) % TwoTo[size] \in 0 .. TwoTo[size] - 1 /\ 0 \in 0 .. TwoTo[size] - 1
    <3>1. \A x \in Nat, w \in Nat \ {0} : x % w \in 0 .. w - 1 /\ 0 \in 0 .. w - 1
      OBVIOUS
    <3> QED BY <1>4, <2>2, <3>1, Zenon
  <2>5. Moved(op, p, d, size) \in 0 .. TwoTo[size] - 1
    BY <1>3, <2>3, <2>4
  <2>6. ASSUME size # W PROVE Moved(op, p, d, size) = Moved(op, p, d, W)
    <3>1. size = lt.size + TwoTo[rt.size] /\ size < W
      BY <1>6, <2>1, <2>6, LeftShiftsHaveRoom
    <3> HIDE DEF W
    <3>2. d < size /\ d < W /\ lt.size + d \in Nat /\ lt.size + d < size
      BY <1>1, <1>3, <3>1
    <3>3. p * TwoTo[d] < TwoTo[lt.size] * TwoTo[d] /\ TwoTo[lt.size] * TwoTo[d] \in Nat
      BY <1>1, <1>3, <1>4, ProductsAreLess
    <3>4. TwoTo[lt.size + d] = TwoTo[lt.size] * TwoTo[d]
      BY <1>1, <1>3, SumsOfExponents
    <3>5. lt.size + d <= size /\ size <= W
      BY <1>1, <1>3, <3>1, <3>2
    <3>6. TwoTo[lt.size + d] <= TwoTo[size] /\ TwoTo[size] <= TwoTo[W]
      BY <1>1, <1>3, <3>2, <3>5, Powers
    <3>7. p * TwoTo[d] < TwoTo[size] /\ p * TwoTo[d] < TwoTo[W]
      BY <1>1, <1>4, <2>2, <3>3, <3>4, <3>6
    <3>8. (p * TwoTo[d]) % TwoTo[size] = p * TwoTo[d] /\ (p * TwoTo[d]) % TwoTo[W] = p * TwoTo[d]
      BY <1>1, <1>4, <2>2, <3>7, SmallRemainder
    <3>9. ~(d >= size) /\ ~(d >= W)
      BY <1>1, <1>3, <3>2
    <3> QED BY <1>1, <1>3, <2>3, <3>8, <3>9
  <2> QED BY <2>5, <2>6
<1> QED BY <1>5, <1>6

\* What is shifted in the sizes of a later pass fits the size of the first one.
LEMMA ShiftsFitLabels ==
  ASSUME NEW op \in {"<<", ">>"}, NEW ll \in Type(Kinds), NEW rl \in Type(Kinds),
         NEW first \in ShiftSizes(op, ll, rl), first > 0, ~HasNoRoom(op, ll, rl),
         NEW lt \in Type(Kinds), NEW rt \in Type(Kinds), NEW size \in ShiftSizes(op, lt, rt), size > 0,
         WordSize(lt.size) <= WordSize(ll.size), WordSize(rt.size) <= WordSize(rl.size),
         NEW p \in 0 .. TwoTo[ll.size] - 1, NEW d \in 0 .. TwoTo[rl.size] - 1
  PROVE  Moved(op, p, d, size) \in 0 .. TwoTo[first] - 1 /\ WordSize(size) <= WordSize(first)
<1>1. /\ first \in Nat \ {0} /\ first <= MAXBITSPERLONG /\ size \in Nat \ {0} /\ size <= MAXBITSPERLONG
      /\ TwoTo[first] \in Nat \ {0} /\ TwoTo[size] \in Nat \ {0}
  <2>1. /\ first \in Int /\ first <= MAXBITSPERLONG
    BY ShiftSizesAreSizes
  <2>2. /\ size \in Int /\ size <= MAXBITSPERLONG
    BY ShiftSizesAreSizes
  <2>3. first \in Nat \ {0} /\ size \in Nat \ {0}
    BY <2>1, <2>2
  <2> QED BY <2>1, <2>2, <2>3, Powers
<1>2. /\ ll.size \in Nat /\ rl.size \in Nat /\ p \in Nat /\ d \in Nat
      /\ TwoTo[ll.size] \in Nat \ {0} /\ TwoTo[rl.size] \in Nat \ {0} /\ TwoTo[d] \in Nat \ {0}
      /\ p < TwoTo[ll.size] /\ d < TwoTo[rl.size]
  <2>1. ll.size \in Nat /\ rl.size \in Nat
    BY SizesAreNumbers
  <2>2. TwoTo[ll.size] \in Nat \ {0} /\ TwoTo[rl.size] \in Nat \ {0}
    BY <2>1, Powers
  <2>3. p \in Nat /\ d \in Nat /\ p < TwoTo[ll.size] /\ d < TwoTo[rl.size]
    BY <2>2
  <2> QED BY <2>1, <2>2, <2>3, Powers
<1>3. CASE op = ">>"
  <2>1. size = lt.size /\ first = ll.size
    BY <1>3 DEF ShiftSizes, ShiftRightSizes
  <2>2. p \div TwoTo[d] \in Nat /\ p \div TwoTo[d] <= p
    BY <1>2, QuotientsOfPowers
  <2>3. Moved(op, p, d, size) = IF d >= size THEN 0 ELSE p \div TwoTo[d]
    BY <1>1, <1>2, <1>3 DEF Moved
  <2>4. p \div TwoTo[d] \in 0 .. TwoTo[first] - 1 /\ 0 \in 0 .. TwoTo[first] - 1
    BY <1>1, <1>2, <2>1, <2>2
  <2> QED BY <2>1, <2>3, <2>4
<1>4. CASE op = "<<"
  <2> DEFINE W == ResultWord(ll, rl)
  <2> DEFINE V == ResultWord(lt, rt)
  <2>1. first \in ShiftLeftSizes(ll, rl) /\ size \in ShiftLeftSizes(lt, rt)
    BY <1>4 DEF ShiftSizes
  <2>2. /\ W \in {MAXBITSPERINT, MAXBITSPERLONG} /\ V \in {MAXBITSPERINT, MAXBITSPERLONG}
        /\ MAXBITSPERINT \in Nat \ {0} /\ MAXBITSPERLONG = 2 * MAXBITSPERINT
    BY ResultWords, WordsAssumption
  <2>3. V <= W
    <3>1. \A s : WordSize(s) \in {MAXBITSPERINT, MAXBITSPERLONG}
      BY DEF WordSize
    <3>2. /\ WordSize(lt.size) \in Nat /\ WordSize(rt.size) \in Nat
          /\ WordSize(ll.size) \in Nat /\ WordSize(rl.size) \in Nat
      BY <2>2, <3>1
    <3> QED BY <3>2 DEF ResultWord, Larger
  <2>4. size <= V
    <3>1. PICK n \in IF rt.size >= V THEN {V} ELSE OneShifted(rt.size) : size = Smaller(lt.size + n, V)
      BY <2>1 DEF ShiftLeftSizes
    <3>2. V \in Nat
      BY <2>2
    <3> HIDE DEF V
    <3> QED BY <1>1, <3>1, <3>2 DEF Smaller
  <2>5. Moved(op, p, d, size) = IF d >= size THEN 0 ELSE (p * TwoTo[d]) % TwoTo[size]
    BY <1>1, <1>2, <1>4 DEF Moved
  <2>6. p * TwoTo[d] \in Nat
    BY <1>2
  <2>7. (p * TwoTo[d]) % TwoTo[size] \in 0 .. TwoTo[size] - 1 /\ (p * TwoTo[d]) % TwoTo[size] <= p * TwoTo[d]
    <3>1. \A x \in Nat, w \in Nat \ {0} : x % w \in 0 .. w - 1
      OBVIOUS
    <3> QED BY <1>1, <2>6, <3>1, SmallRemainder, Zenon
  <2>8. \A s \in Nat : WordSize(s) = IF s <= MAXBITSPERINT THEN MAXBITSPERINT ELSE MAXBITSPERLONG
    BY DEF WordSize
  <2>9. CASE first = W
    <3> HIDE DEF V, W
    <3>1. size <= first
      BY <1>1, <2>2, <2>3, <2>4, <2>9
    <3>2. TwoTo[size] <= TwoTo[first]
      BY <1>1, <3>1, Powers
    <3>3. WordSize(size) <= WordSize(first)
      BY <1>1, <2>2, <2>8, <3>1
    <3>4. (p * TwoTo[d]) % TwoTo[size] \in 0 .. TwoTo[first] - 1 /\ 0 \in 0 .. TwoTo[first] - 1
      <4> HIDE DEF Moved
      <4>1. \A x, a, b \in Int : x \in 0 .. a - 1 /\ a <= b /\ b > 0 => x \in 0 .. b - 1 /\ 0 \in 0 .. b - 1
        OBVIOUS
      <4>2. (p * TwoTo[d]) % TwoTo[size] \in Int /\ TwoTo[size] \in Int /\ TwoTo[first] \in Int /\ TwoTo[first] > 0
        BY <1>1, <2>7
      <4> QED BY <2>7, <3>2, <4>1, <4>2
    <3> QED BY <2>5, <3>3, <3>4
  <2>10. CASE first # W
    <3>1. first = ll.size + TwoTo[rl.size] /\ first < W /\ rl.size < MAXBITSPERINT
      BY <1>4, <2>1, <2>10, LeftShiftsHaveRoom DEF HasNoRoom
    <3>2. W = WordSize(ll.size)
      <4>1. WordSize(rl.size) = MAXBITSPERINT /\ WordSize(ll.size) \in {MAXBITSPERINT, MAXBITSPERLONG}
        BY <1>2, <2>2, <2>8, <3>1
      <4> QED BY <2>2, <4>1 DEF ResultWord, Larger
    <3> HIDE DEF V, W
    <3>3. WordSize(size) <= V
      BY <1>1, <2>2, <2>4, <2>8
    <3>4. W <= WordSize(first)
      BY <1>1, <1>2, <2>2, <2>8, <3>1, <3>2
    <3>5. WordSize(size) <= WordSize(first)
      <4>1. WordSize(size) \in Nat /\ WordSize(first) \in Nat /\ V \in Nat /\ W \in Nat
        BY <1>1, <2>2, <2>8
      <4> QED BY <2>3, <3>3, <3>4, <4>1
    <3>6. p * TwoTo[d] < TwoTo[ll.size] * TwoTo[d] /\ TwoTo[ll.size] * TwoTo[d] \in Nat
      BY <1>2, ProductsAreLess
    <3>7. TwoTo[ll.size + d] = TwoTo[ll.size] * TwoTo[d]
      BY <1>2, SumsOfExponents
    <3>8. ll.size + d \in Nat /\ ll.size + d <= first
      BY <1>1, <1>2, <3>1
    <3>9. TwoTo[ll.size + d] <= TwoTo[first]
      BY <1>1, <3>8, Powers
    <3>10. p * TwoTo[d] < TwoTo[first]
      BY <1>1, <2>6, <3>6, <3>7, <3>9
    <3>11. (p * TwoTo[d]) % TwoTo[size] \in 0 .. TwoTo[first] - 1 /\ 0 \in 0 .. TwoTo[first] - 1
      <4>1. \A x, a, b, c \in Int : x \in 0 .. a - 1 /\ x <= b /\ b < c /\ c > 0 => x \in 0 .. c - 1 /\ 0 \in 0 .. c - 1
        OBVIOUS
      <4>2. /\ (p * TwoTo[d]) % TwoTo[size] \in Int /\ TwoTo[size] \in Int /\ p * TwoTo[d] \in Int
            /\ TwoTo[first] \in Int /\ TwoTo[first] > 0
        BY <1>1, <2>6, <2>7
      <4> QED BY <2>7, <3>10, <4>1, <4>2
    <3> QED BY <2>5, <3>5, <3>11
  <2> QED BY <2>9, <2>10
<1> QED BY <1>3, <1>4

LEMMA ShiftedIsExact ==
  ASSUME VInv, NEW op \in {"<<", ">>"}, NEW l, NEW r, NEW lt \in Type(Kinds), NEW rt \in Type(Kinds),
         NEW first \in Type(Kinds), first.kind = "Bits", l.const \in BOOLEAN, r.const \in BOOLEAN,
         l.val \in 0 .. TwoTo[lt.size] - 1, r.val \in 0 .. TwoTo[rt.size] - 1,
         NEW undefined, Shifted(op, l, r, lt, rt, first, undefined),
         ~(l.const /\ r.const) /\ ~undefined =>
           \A s \in ShiftSizes(op, lt, rt) : s > 0 =>
             Moved(op, l.val, r.val, s) \in Values(first) /\ WordSize(s) <= WordSize(first.size)
  PROVE  VInv'
<1> DEFINE const == l.const /\ r.const
<1> DEFINE W == ResultWord(lt, rt)
<1>1. PICK size \in ShiftSizes(op, lt, rt) :
        IF size <= 0 THEN Stop("hazy")
        ELSE Become(Node(TypeOf("Bits", size), IF const THEN TypeOf("Bits", size) ELSE first, const, const,
                         Moved(op, l.val, r.val % TwoTo[size], size)),
                    Moved(op, l.val, r.val, W),
                    IF r.val >= TwoTo[size] THEN "cut distance"
                    ELSE IF undefined \/ HasNoRoom(op, lt, rt) THEN "undefined shift"
                    ELSE "none")
  BY Zenon DEF Shifted
<1>2. size \in Int /\ size <= MAXBITSPERLONG
  BY ShiftSizesAreSizes
<1>3. CASE size <= 0
  BY <1>1, <1>3, StopIsExact
<1>4. CASE ~(size <= 0)
  <2> DEFINE bits == TypeOf("Bits", size)
  <2> DEFINE n == Moved(op, l.val, r.val % TwoTo[size], size)
  <2> DEFINE e == Moved(op, l.val, r.val, W)
  <2> DEFINE why == IF r.val >= TwoTo[size] THEN "cut distance"
                    ELSE IF undefined \/ HasNoRoom(op, lt, rt) THEN "undefined shift"
                    ELSE "none"
  <2> DEFINE o == Node(bits, IF const THEN bits ELSE first, const, const, n)
  <2>1. Become(o, e, why)
    BY <1>1, <1>4, Zenon
  <2>2. size > 0 /\ size \in 1 .. MAXBITSPERLONG /\ "Bits" \in Kinds
    BY <1>2, <1>4, WordsAssumption DEF Kinds
  <2>3. bits \in Type(Kinds) /\ bits.kind = "Bits" /\ bits.size = size
    BY <2>2, TypesOfSizes
  <2>4. ASSUME why = "none" PROVE NodeOk(o) /\ o.val = e
    <3>1. /\ ~undefined /\ ~(r.val >= TwoTo[size])
          /\ ~(op = "<<" /\ rt.size >= MAXBITSPERINT /\ rt.size < W)
      BY <2>4 DEF HasNoRoom
    <3>2. TwoTo[size] \in Nat \ {0} /\ TwoTo[rt.size] \in Nat
      BY <2>2, Powers, SizesAreNumbers
    <3>3. r.val \in Nat /\ r.val < TwoTo[size]
      BY <3>1, <3>2
    <3>4. r.val % TwoTo[size] = r.val
      BY <3>2, <3>3, SmallRemainder
    <3>5. n = e /\ n \in 0 .. TwoTo[size] - 1
      BY <2>2, <3>1, <3>4, MovedIsExact
    <3>6. n \in Values(bits)
      BY <2>3, <3>5 DEF Values, BitsValues
    <3> HIDE DEF n, bits
    <3>7. NodeOk(o)
      <4>1. CASE const
        BY <2>3, <3>6, <4>1, NodesAreOk
      <4>2. CASE ~const
        <5>1. IsNode(Node(bits, first, FALSE, FALSE, n))
          BY <2>3, NodesAreNodes
        <5>2. n \in Values(first) /\ WordSize(bits.size) <= WordSize(first.size)
          BY <2>2, <2>3, <3>1, <3>4, <4>2 DEF n
        <5>3. NodeOk(Node(bits, first, FALSE, FALSE, n))
          BY <2>3, <3>6, <5>1, <5>2 DEF NodeOk, Node
        <5> QED BY <4>2, <5>3
      <4> QED BY <4>1, <4>2
    <3>8. o.val = n
      BY DEF Node
    <3> QED BY <3>5, <3>7, <3>8
  <2> HIDE DEF o, e, why
  <2> QED BY <2>1, <2>4, BecomeIsExact
<1> QED BY <1>3, <1>4

LEMMA DistanceIsType == Distance \in Type(Kinds) /\ Distance.kind = "Unsigned"
<1>1. MAXBITSPERINT \in 1 .. MAXBITSPERLONG /\ "Unsigned" \in Kinds
  BY WordsAssumption DEF Kinds, Numeric
<1> QED BY <1>1, TypesOfSizes DEF Distance

LEMMA BitsToShift ==
  ASSUME NEW o, NodeOk(o), Safe(o, TypeOf("Bits", o.label.size)), NEW c \in AsBits(o)
  PROVE  /\ NodeOk(c) /\ c.type \in Type(Kinds) /\ c.const = o.const /\ c.const \in BOOLEAN
         /\ c.val \in 0 .. TwoTo[c.type.size] - 1
         /\ o.const => c.type.size = o.label.size
         /\ c.val \in 0 .. TwoTo[o.label.size] - 1 /\ WordSize(c.type.size) <= WordSize(o.label.size)
<1> DEFINE t == TypeOf("Bits", o.label.size)
<1>1. o.label \in Type(Kinds) /\ o.label.size \in 1 .. MAXBITSPERLONG /\ o.label.size \in Nat
  BY NodeFacts, SizesAreNumbers
<1>2. t \in Type(Kinds) /\ t.kind = "Bits" /\ t.size = o.label.size
  BY <1>1, TypesOfSizes DEF Kinds
<1>3. NodeOk(c) /\ c.label.size = o.label.size /\ c.label.kind = "Bits" /\ c.const = o.const
  <2>1. CASE o.label.kind = "Bits"
    BY <2>1 DEF AsBits
  <2>2. CASE o.label.kind # "Bits"
    <3>1. c \in CastTo(o, t)
      BY <2>2 DEF AsBits
    <3>2. NodeOk(c) /\ c.label = t /\ c.const = o.const
      <4>1. o.label.size <= t.size
        BY <1>1, <1>2
      <4> HIDE DEF t
      <4>2. Safe(o, t)
        BY DEF t
      <4> QED BY <1>2, <3>1, <4>1, <4>2, CastsKeepMeanings
    <3> QED BY <1>2, <3>2
  <2> QED BY <2>1, <2>2
<1>4. c.type \in Type(Kinds) /\ c.type.kind = "Bits" /\ c.const \in BOOLEAN /\ c.val \in Values(c.type)
  BY <1>3, NodeFacts
<1>5. c.val \in 0 .. TwoTo[c.type.size] - 1
  BY <1>4 DEF Values, BitsValues
<1>6. c.const => c.type = c.label
  BY <1>3, <1>4 DEF NodeOk, Numeric
<1>7. c.val \in Values(c.label) /\ WordSize(c.type.size) <= WordSize(c.label.size)
  <2>1. CASE c.label = c.type
    <3>1. WordSize(c.type.size) \in Nat
      BY <1>4, SizesAreNumbers, WordsAreSizes
    <3> QED BY <1>4, <2>1, <3>1
  <2>2. CASE c.label # c.type
    BY <1>3, <1>4, <2>2 DEF NodeOk, Numeric
  <2> QED BY <2>1, <2>2
<1>8. c.val \in 0 .. TwoTo[o.label.size] - 1
  BY <1>3, <1>7 DEF Values, BitsValues
<1> QED BY <1>3, <1>4, <1>5, <1>6, <1>7, <1>8

LEMMA DistanceToShift ==
  ASSUME NEW o, NodeOk(o), Safe(o, Distance), NEW c \in AsDistance(o)
  PROVE  /\ c.type \in Type(Kinds) /\ c.const = o.const /\ c.const \in BOOLEAN
         /\ c.val \in 0 .. TwoTo[c.type.size] - 1
         /\ c.val \in 0 .. TwoTo[o.label.size] - 1
         /\ WordSize(c.type.size) <= WordSize(o.label.size)
<1>1. NodeOk(c) /\ c.type.kind = "Unsigned" /\ c.const = o.const /\ c.val = o.val
  <2>1. CASE o.label.kind = "Unsigned"
    <3>1. c = o
      BY <2>1 DEF AsDistance
    <3> QED BY <2>1, <3>1, NodeFacts
  <2>2. CASE o.label.kind # "Unsigned"
    <3>1. c \in CastTo(o, Distance)
      BY <2>2 DEF AsDistance
    <3>2. NodeOk(c) /\ c.type.kind = "Unsigned" /\ c.const = o.const /\ c.val = Meaning(o, Distance)
      BY <3>1, DistanceIsType, CastsKeepMeanings
    <3> QED BY <3>2, DistanceIsType DEF Meaning
  <2> QED BY <2>1, <2>2
<1>2. /\ c.type \in Type(Kinds) /\ c.const \in BOOLEAN /\ c.val \in Values(c.type)
  BY <1>1, NodeFacts
<1>3. c.val \in 0 .. TwoTo[c.type.size] - 1
  BY <1>1, <1>2 DEF Values, UnsignedValues
<1>4. c.val \in Nat
  BY <1>1, <1>2, ValuesAreNumbers
<1>5. o.type.kind # "Bits"
  BY DistanceIsType, SafeIsValue
<1>6. o.label \in Type(Kinds) /\ o.label.kind = o.type.kind /\ o.val \in Values(o.type)
      /\ (o.label.kind \in Numeric => o.val \in Values(o.label))
      /\ (o.label.kind = "Bool" => o.label = o.type)
  BY NodeFacts
<1>7. /\ o.label.kind \in Kinds /\ o.label.size \in Nat \ {0} /\ o.label.size - 1 \in Nat
      /\ TwoTo[o.label.size] \in Nat /\ TwoTo[o.label.size - 1] \in Nat
  BY <1>6, SizesAreNumbers, Powers
<1>8. o.label.size < TwoTo[o.label.size]
  BY <1>7, NumbersAreLess
<1>9. o.val \in Values(o.label)
  BY <1>5, <1>6, <1>7 DEF Kinds
<1>10. c.val < TwoTo[o.label.size]
  <2>1. CASE o.label.kind = "Int"
    <3>1. o.val \in -TwoTo[o.label.size - 1] .. TwoTo[o.label.size - 1] - 1
      BY <1>9, <2>1 DEF Values, IntValues
    <3>2. TwoTo[o.label.size - 1] <= TwoTo[o.label.size]
      <4>1. o.label.size - 1 <= o.label.size /\ o.label.size \in Nat
        BY <1>7
      <4> QED BY <1>7, <4>1, Powers
    <3> QED BY <1>1, <1>4, <1>7, <3>1, <3>2
  <2>2. CASE o.label.kind = "Unsigned"
    <3>1. o.val \in 0 .. TwoTo[o.label.size] - 1
      BY <1>9, <2>2 DEF Values, UnsignedValues
    <3> QED BY <1>1, <1>4, <1>7, <3>1
  <2>3. CASE o.label.kind = "Unary"
    <3>1. o.val \in 0 .. o.label.size
      BY <1>9, <2>3 DEF Values, UnaryValues
    <3> QED BY <1>1, <1>4, <1>7, <1>8, <3>1
  <2>4. CASE o.label.kind = "Bool"
    <3>1. o.val \in {0, 1}
      BY <1>9, <2>4 DEF Values, BoolValues
    <3> QED BY <1>1, <1>4, <1>7, <1>8, <3>1
  <2> QED BY <1>5, <1>6, <1>7, <2>1, <2>2, <2>3, <2>4 DEF Kinds, Numeric
<1>11. WordSize(c.type.size) <= WordSize(o.label.size)
  <2>0. /\ \A s : WordSize(s) = IF s <= MAXBITSPERINT THEN MAXBITSPERINT ELSE MAXBITSPERLONG
        /\ MAXBITSPERINT \in Nat /\ MAXBITSPERINT <= MAXBITSPERLONG /\ MAXBITSPERLONG \in Nat
    BY WordsAssumption DEF WordSize
  <2>1. CASE o.label.kind = "Unsigned"
    <3>1. c = o
      BY <2>1 DEF AsDistance
    <3>2. o.type.size <= o.label.size /\ o.type.size \in Nat
      BY <2>1, NodeFacts, SizesAreNumbers DEF Numeric
    <3> QED BY <1>7, <2>0, <3>1, <3>2
  <2>2. CASE o.label.kind # "Unsigned"
    <3>1. c \in CastTo(o, Distance) /\ o.label # Distance /\ o.type # Distance
      BY <1>6, <2>2, DistanceIsType DEF AsDistance
    <3>2. PICK n : c = Node(Distance, Distance, o.const, FALSE, n)
      BY <3>1 DEF CastTo
    <3>3. c.type.size = MAXBITSPERINT
      BY <3>2 DEF Node, Distance, TypeOf
    <3> QED BY <2>0, <3>3
  <2> QED BY <2>1, <2>2
<1> QED BY <1>1, <1>2, <1>3, <1>4, <1>7, <1>10, <1>11

LEMMA ShiftIsExact == VInv /\ Shift => VInv'
<1> SUFFICES ASSUME VInv, Shift PROVE VInv'
  OBVIOUS
<1>1. PICK p \in Pairs, op \in {"<<", ">>"} :
        LET l == p[1]
            r == p[2]
            bits == TypeOf("Bits", l.label.size)
            undefined == HasNoRoom(op, l.label, r.label)
        IN \/ Refuse(l, bits)
           \/ Refuse(r, Distance)
           \/ Stop("hazy")
           \/ /\ Safe(l, bits) /\ Safe(r, Distance)
              /\ \E size \in ShiftSizes(op, l.label, r.label) :
                   /\ size > 0
                   /\ \E cl \in AsBits(l), cr \in AsDistance(r) :
                        IF l.const /\ r.const THEN Shifted(op, cl, cr, l.label, r.label, bits, undefined)
                        ELSE Shifted(op, cl, cr, cl.type, cr.type, TypeOf("Bits", size), undefined)
  BY DEF Shift
<1> DEFINE l == p[1]
<1> DEFINE r == p[2]
<1> DEFINE bits == TypeOf("Bits", l.label.size)
<1> DEFINE undefined == HasNoRoom(op, l.label, r.label)
<1>2. NodeOk(l) /\ NodeOk(r)
  BY ReadyIsOk, PairsAreOk DEF Shift
<1>3. l.label \in Type(Kinds) /\ r.label \in Type(Kinds) /\ bits \in Type(Kinds) /\ bits.kind = "Bits"
  <2>1. l.label \in Type(Kinds) /\ r.label \in Type(Kinds)
    BY <1>2, NodeFacts
  <2>2. l.label.size \in 1 .. MAXBITSPERLONG /\ "Bits" \in Kinds
    BY <2>1, SizesAreNumbers DEF Kinds
  <2> QED BY <2>1, <2>2, TypesOfSizes
<1>4. \/ Refuse(l, bits)
      \/ Refuse(r, Distance)
      \/ Stop("hazy")
      \/ /\ Safe(l, bits) /\ Safe(r, Distance)
         /\ \E size \in ShiftSizes(op, l.label, r.label) :
              /\ size > 0
              /\ \E cl \in AsBits(l), cr \in AsDistance(r) :
                   IF l.const /\ r.const THEN Shifted(op, cl, cr, l.label, r.label, bits, undefined)
                   ELSE Shifted(op, cl, cr, cl.type, cr.type, TypeOf("Bits", size), undefined)
  BY <1>1
<1> HIDE DEF l, r
<1>5. ASSUME Safe(l, bits), Safe(r, Distance), NEW size \in ShiftSizes(op, l.label, r.label), size > 0,
             NEW cl \in AsBits(l), NEW cr \in AsDistance(r),
             IF l.const /\ r.const THEN Shifted(op, cl, cr, l.label, r.label, bits, undefined)
             ELSE Shifted(op, cl, cr, cl.type, cr.type, TypeOf("Bits", size), undefined)
      PROVE  VInv'
  <2>1. /\ NodeOk(cl) /\ cl.type \in Type(Kinds) /\ cl.const = l.const /\ cl.const \in BOOLEAN
        /\ cl.val \in 0 .. TwoTo[cl.type.size] - 1
        /\ l.const => cl.type.size = l.label.size
        /\ cl.val \in 0 .. TwoTo[l.label.size] - 1 /\ WordSize(cl.type.size) <= WordSize(l.label.size)
    BY <1>2, <1>5, BitsToShift
  <2>2. /\ cr.type \in Type(Kinds) /\ cr.const = r.const /\ cr.const \in BOOLEAN
        /\ cr.val \in 0 .. TwoTo[cr.type.size] - 1
        /\ cr.val \in 0 .. TwoTo[r.label.size] - 1 /\ WordSize(cr.type.size) <= WordSize(r.label.size)
    BY <1>2, <1>5, DistanceToShift
  <2>3. TypeOf("Bits", size) \in Type(Kinds) /\ TypeOf("Bits", size).kind = "Bits"
    <3>1. size \in Int /\ size <= MAXBITSPERLONG
      BY <1>3, <1>5, ShiftSizesAreSizes
    <3>2. size \in 1 .. MAXBITSPERLONG /\ "Bits" \in Kinds
      BY <1>5, <3>1, WordsAssumption DEF Kinds
    <3> QED BY <3>2, TypesOfSizes
  <2> HIDE DEF bits
  <2>4. CASE l.const /\ r.const
    <3>1. Shifted(op, cl, cr, l.label, r.label, bits, undefined)
      BY <1>5, <2>4
    <3> HIDE DEF undefined
    <3> QED BY <1>3, <2>1, <2>2, <2>4, <3>1, ShiftedIsExact
  <2>5. CASE ~(l.const /\ r.const)
    <3>1. Shifted(op, cl, cr, cl.type, cr.type, TypeOf("Bits", size), undefined)
      BY <1>5, <2>5
    <3>2. ASSUME ~undefined, NEW s \in ShiftSizes(op, cl.type, cr.type), s > 0
          PROVE  /\ Moved(op, cl.val, cr.val, s) \in Values(TypeOf("Bits", size))
                 /\ WordSize(s) <= WordSize(TypeOf("Bits", size).size)
      <4>1. Moved(op, cl.val, cr.val, s) \in 0 .. TwoTo[size] - 1 /\ WordSize(s) <= WordSize(size)
        <5>1. l.label \in Type(Kinds) /\ r.label \in Type(Kinds)
          BY <1>3
        <5>2. ~HasNoRoom(op, l.label, r.label)
          BY <3>2
        <5>3. cl.type \in Type(Kinds) /\ cr.type \in Type(Kinds)
          BY <2>1, <2>2
        <5>4. cl.val \in 0 .. TwoTo[l.label.size] - 1 /\ WordSize(cl.type.size) <= WordSize(l.label.size)
          BY <2>1
        <5>5. cr.val \in 0 .. TwoTo[r.label.size] - 1 /\ WordSize(cr.type.size) <= WordSize(r.label.size)
          BY <2>2
        <5> HIDE DEF undefined
        <5> QED BY <1>5, <3>2, <5>1, <5>2, <5>3, <5>4, <5>5, ShiftsFitLabels
      <4>2. Values(TypeOf("Bits", size)) = 0 .. TwoTo[size] - 1 /\ TypeOf("Bits", size).size = size
        BY DEF Values, BitsValues, TypeOf
      <4> QED BY <4>1, <4>2
    <3> HIDE DEF undefined
    <3> QED BY <2>1, <2>2, <2>3, <2>5, <3>1, <3>2, ShiftedIsExact
  <2> QED BY <2>4, <2>5
<1> QED BY <1>4, <1>5, RefuseIsExact, StopIsExact

LEMMA NextIsExact == VInv /\ Next => VInv'
<1> SUFFICES ASSUME VInv, Next PROVE VInv'
  OBVIOUS
<1>1. CASE RefuseArithmetic
  BY <1>1, StopIsExact DEF RefuseArithmetic
<1> QED
  BY <1>1, ArithmeticIsExact, CompareIsExact, MinusIsExact, AssignIsExact,
     CompoundAssignIsExact, ExplicitCastIsExact, ShiftIsExact
  DEF Next

------------------------------------------------------------------------------
\* The types of the other operators.

LEMMA LargerSizes ==
  ASSUME NEW l \in Type(Kinds), NEW r \in Type(Kinds)
  PROVE  /\ Larger(l.size, r.size) \in 1 .. MAXBITSPERLONG
         /\ l.size <= Larger(l.size, r.size) /\ r.size <= Larger(l.size, r.size)
<1>1. l.size \in 1 .. MAXBITSPERLONG /\ r.size \in 1 .. MAXBITSPERLONG /\ MAXBITSPERLONG \in Nat
  BY SizesAreNumbers, WordsAssumption
<1> QED BY <1>1 DEF Larger

LEMMA WidestBitsIsType ==
  ASSUME NEW l \in Type(Kinds), NEW r \in Type(Kinds)
  PROVE  /\ WidestBits(l, r) \in Type(Kinds) /\ WidestBits(l, r).kind = "Bits"
         /\ l.size <= WidestBits(l, r).size /\ r.size <= WidestBits(l, r).size
<1> DEFINE s == Larger(l.size, r.size)
<1>1. "Bits" \in Kinds
  BY DEF Kinds
<1>2. s \in 1 .. MAXBITSPERLONG /\ l.size <= s /\ r.size <= s
  BY LargerSizes
<1>3. WidestBits(l, r) = TypeOf("Bits", s)
  BY DEF WidestBits
<1> HIDE DEF s
<1>4. TypeOf("Bits", s) \in Type(Kinds) /\ TypeOf("Bits", s).kind = "Bits" /\ TypeOf("Bits", s).size = s
  BY <1>1, <1>2, TypesOfSizes
<1> QED BY <1>2, <1>3, <1>4

LEMMA LogicalTypeIsType ==
  ASSUME NEW l \in Type(Kinds), NEW r \in Type(Kinds)
  PROVE  LogicalType(l, r) \in Type(Kinds) /\ LogicalType(l, r).kind = "Bool"
<1>1. "Bool" \in Kinds
  BY DEF Kinds
<1> QED BY <1>1, LargerSizes, TypesOfSizes DEF LogicalType

LEMMA BangTypeIsType ==
  ASSUME NEW t \in Type(Kinds)
  PROVE  BangType(t) \in Type(Kinds) /\ BangType(t).kind = "Bool"
<1>1. "Bool" \in Kinds /\ t.size \in 1 .. MAXBITSPERLONG /\ 1 \in 1 .. MAXBITSPERLONG
  BY SizesAreNumbers, WordsAssumption DEF Kinds
<1>2. (IF t.kind = "Bool" THEN t.size ELSE 1) \in 1 .. MAXBITSPERLONG
  BY <1>1
<1> QED BY <1>1, <1>2, TypesOfSizes DEF BangType

LEMMA TwiddleTypeIsType ==
  ASSUME NEW t \in Type(Kinds)
  PROVE  TwiddleType(t) \in Type(Kinds) /\ TwiddleType(t).kind = "Bits" /\ TwiddleType(t).size = t.size
<1>1. "Bits" \in Kinds /\ t.size \in 1 .. MAXBITSPERLONG
  BY SizesAreNumbers DEF Kinds
<1> QED BY <1>1, TypesOfSizes DEF TwiddleType

\* Branches that have a type have one of their kind.
LEMMA BranchTypeIsType ==
  ASSUME NEW l \in Type(Kinds), NEW r \in Type(Kinds), l.kind = r.kind \/ ~HasNoSize(l, r)
  PROVE  /\ BranchType(l, r) \in Type(Kinds)
         /\ BranchType(l, r).kind = "Bits" <=> "Bits" \in {l.kind, r.kind}
         /\ l.kind = r.kind => BranchType(l, r).kind = l.kind
<1>1. l.kind \in Kinds /\ r.kind \in Kinds /\ l.size \in Nat \ {0} /\ r.size \in Nat \ {0}
  BY SizesAreNumbers
<1>2. CASE l = r
  BY <1>2 DEF BranchType
<1>3. CASE l # r /\ "Bits" \in {l.kind, r.kind}
  <2>1. BranchType(l, r) = WidestBits(l, r)
    BY <1>3 DEF BranchType
  <2> QED BY <1>3, <2>1, WidestBitsIsType
<1>4. CASE l # r /\ l.kind = r.kind /\ l.kind # "Bits"
  <2>1. BranchType(l, r) = TypeOf(l.kind, WidestSize(l, r))
    BY <1>4 DEF BranchType
  <2>2. SideSize(l, r) \in Nat \ {0} /\ SideSize(r, l) \in Nat \ {0}
    <3>1. CASE l.kind = "Bool"
      BY <1>1, <1>4, <3>1 DEF SideSize, CountedSize
    <3>2. CASE l.kind \in Numeric
      BY <1>4, <3>2, SideSizes
    <3> QED BY <1>1, <1>4, <3>1, <3>2 DEF Kinds
  <2>3. ResultWord(l, r) \in 1 .. MAXBITSPERLONG /\ MAXBITSPERLONG \in Nat
    BY ResultWords, WordsAssumption
  <2>4. WidestSize(l, r) \in 1 .. MAXBITSPERLONG
    BY <2>2, <2>3 DEF WidestSize, Larger, Smaller
  <2> QED BY <1>1, <1>4, <2>1, <2>4, TypesOfSizes
<1>5. CASE l.kind # r.kind /\ "Bits" \notin {l.kind, r.kind}
  <2>1. l # r /\ BranchType(l, r) = ResultType("<", l, r)
    BY <1>5 DEF BranchType
  <2>2. l.kind \in Numeric /\ r.kind \in Numeric
    BY <1>1, <1>5, <2>1 DEF HasNoSize, Kinds
  <2>3. ResultType("<", l, r) \in Type(Kinds)
    BY <2>2, ResultTypes
  <2>4. ResultType("<", l, r).kind \in {"Int", "Unsigned"}
    BY DEF ResultType, ResultKind, TypeOf
  <2> QED BY <1>5, <2>1, <2>3, <2>4
<1> QED BY <1>2, <1>3, <1>4, <1>5

------------------------------------------------------------------------------
\* RefusesOnlyLossyCasts, for the other operators.

LEMMA BitwiseBinaryIsNode == RInv /\ BitwiseBinary => RInv'
<1> SUFFICES ASSUME RInv, BitwiseBinary PROVE RInv'
  OBVIOUS
<1>1. PICK p \in Pairs, op \in BitwiseOps :
        LET l == p[1]
            r == p[2]
            t == BitwiseType(l.label, r.label)
        IN IF ~BothSafe(l, r, t) THEN RefusePair(l, r, t)
           ELSE \E cl \in CastTo(l, t), cr \in CastTo(r, t) :
                  Become(Node(t, t, l.const /\ r.const, l.const /\ r.const,
                              BitsApply(op, Read(cl, t), Read(cr, t))),
                         BitsApply(op, Pattern(l.val, l.type), Pattern(r.val, r.type)),
                         IF cl.type # t \/ cr.type # t THEN "stale type" ELSE "none")
  BY Zenon DEF BitwiseBinary
<1> DEFINE l == p[1]
<1> DEFINE r == p[2]
<1> DEFINE t == BitwiseType(l.label, r.label)
<1>2. IsNode(l) /\ IsNode(r)
  BY PairsAreNodes DEF RInv
<1>3. t \in Type(Kinds)
  BY <1>2, NodeFields, WidestBitsIsType DEF BitwiseType
<1>4. \/ RefusePair(l, r, t)
      \/ \E n, e, why : Become(Node(t, t, l.const /\ r.const, l.const /\ r.const, n), e, why)
  BY <1>1
<1> HIDE DEF l, r, t
<1>5. \A n : IsNode(Node(t, t, l.const /\ r.const, l.const /\ r.const, n))
  BY <1>3, NodesAreNodes
<1> QED BY <1>2, <1>3, <1>4, <1>5, RefusePairIsLossy, BecomeIsNode

LEMMA LogicalIsNode == RInv /\ Logical => RInv'
<1> SUFFICES ASSUME RInv, Logical PROVE RInv'
  OBVIOUS
<1>1. PICK p \in Pairs, op \in {"&&", "||"} :
        LET l == p[1]
            r == p[2]
            t == LogicalType(l.label, r.label)
        IN CASE ~SafeBool(l.label) \/ ~SafeBool(r.label) -> Stop("error")
             [] OTHER ->
                  \E cl \in CastTo(l, t), cr \in CastTo(r, t) :
                    IF TooWideToDecide(t) THEN Stop("aborted")
                    ELSE Become(Node(t, t, l.const /\ r.const, l.const /\ r.const,
                                     LogicalApply(op, cl.val, cr.val)),
                                Bit(IF op = "&&" THEN l.val = 1 /\ r.val = 1 ELSE l.val = 1 \/ r.val = 1),
                                "none")
  BY Zenon DEF Logical, Abort
<1> DEFINE l == p[1]
<1> DEFINE r == p[2]
<1> DEFINE t == LogicalType(l.label, r.label)
<1>2. IsNode(l) /\ IsNode(r)
  BY PairsAreNodes DEF RInv
<1>3. t \in Type(Kinds)
  BY <1>2, NodeFields, LogicalTypeIsType
<1>4. \/ Stop("error") \/ Stop("aborted")
      \/ \E n, e, why : Become(Node(t, t, l.const /\ r.const, l.const /\ r.const, n), e, why)
  BY <1>1
<1> HIDE DEF l, r, t
<1>5. \A n : IsNode(Node(t, t, l.const /\ r.const, l.const /\ r.const, n))
  BY <1>3, NodesAreNodes
<1> QED BY <1>4, <1>5, StopIsNode, BecomeIsNode

LEMMA BangIsNode == RInv /\ Bang => RInv'
<1> SUFFICES ASSUME RInv, Bang PROVE RInv'
  OBVIOUS
<1> DEFINE t == BangType(expr.label)
<1>1. t \in Type(Kinds)
  BY NodeFields, BangTypeIsType DEF RInv
<1>2. Stop("error") \/ \E const, n, e : Become(Node(t, t, const, const, n), e, "none")
  BY DEF Bang
<1> HIDE DEF t
<1>3. \A const, n : IsNode(Node(t, t, const, const, n))
  BY <1>1, NodesAreNodes
<1> QED BY <1>2, <1>3, StopIsNode, BecomeIsNode

LEMMA TwiddleIsNode == RInv /\ Twiddle => RInv'
<1> SUFFICES ASSUME RInv, Twiddle PROVE RInv'
  OBVIOUS
<1> DEFINE t == TwiddleType(expr.label)
<1>1. t \in Type(Kinds)
  BY NodeFields, TwiddleTypeIsType DEF RInv
<1>2. \E const, n, e, why : Become(Node(t, t, const, const, n), e, why)
  BY DEF Twiddle, Complement
<1> HIDE DEF t
<1>3. \A const, n : IsNode(Node(t, t, const, const, n))
  BY <1>1, NodesAreNodes
<1> QED BY <1>2, <1>3, BecomeIsNode

LEMMA TermOfNode ==
  ASSUME NEW o, IsNode(o), NEW term
  PROVE  IsNode([o EXCEPT !.term = term])
<1>1. PICK t \in Type(Kinds), label \in Type(Kinds) :
        label.kind = t.kind /\ \E const, old, n : o = Node(t, label, const, old, n)
  BY Zenon DEF IsNode
<1>2. PICK const, old, n : o = Node(t, label, const, old, n)
  BY <1>1, Zenon
<1>3. [o EXCEPT !.term = term] = Node(t, label, const, term, n)
  BY <1>2 DEF Node
<1> QED BY <1>1, <1>3, NodesAreNodes

LEMMA PlusIsNode == RInv /\ Plus => RInv'
<1> SUFFICES ASSUME RInv, Plus PROVE RInv'
  OBVIOUS
<1>1. IsNode(expr)
  BY DEF RInv
<1>2. \A n : IsNode(Node(expr.label, expr.label, TRUE, TRUE, n))
  BY <1>1, NodeFields, NodesAreNodes
<1>3. IsNode([expr EXCEPT !.term = FALSE])
  BY <1>1, TermOfNode, Zenon
<1>4. \E o, e, why : IsNode(o) /\ Become(o, e, why)
  BY <1>2, <1>3, Zenon DEF Plus
<1> QED BY <1>4, BecomeIsNode

\* What a variable becomes, or a refusal.
LEMMA VariableIsNode ==
  ASSUME RInv, NEW x \in Variables, \E n, e, why : Become(Node(x.type, x.type, FALSE, FALSE, n), e, why)
  PROVE  RInv'
<1>1. \A n : IsNode(Node(x.type, x.type, FALSE, FALSE, n))
  BY VariablesAssumption, NodesAreNodes
<1> QED BY <1>1, BecomeIsNode

LEMMA LiteralOneIsNode == IsNode(Literal(One)) /\ Literal(One).type \in Type(Kinds)
<1>1. One.val = 1 /\ One.kind = "Int"
  BY DEF One
<1>2. LogBase2(1) \in Nat
  BY LogarithmOf, WordsAssumption
<1>3. LiteralType(One) = TypeOf("Int", Smaller(MAXBITSPERLONG, LogBase2(1) + 2))
  BY <1>1 DEF LiteralType
<1>4. Smaller(MAXBITSPERLONG, LogBase2(1) + 2) \in 1 .. MAXBITSPERLONG /\ "Int" \in Kinds
  BY <1>2, WordsAssumption DEF Smaller, Kinds, Numeric
<1>5. LiteralType(One) \in Type(Kinds)
  BY <1>3, <1>4, TypesOfSizes
<1> QED BY <1>5, NodesAreNodes DEF Literal, Node

LEMMA IncrementIsNode == RInv /\ Increment => RInv'
<1> SUFFICES ASSUME RInv, Increment PROVE RInv'
  OBVIOUS
<1>1. PICK x \in Variables :
        \/ Unsafe(Literal(One), x.type) /\ Refuse(Literal(One), x.type)
        \/ \E n, e, why : Become(Node(x.type, x.type, FALSE, FALSE, n), e, why)
  BY Zenon DEF Increment
<1>2. x.type \in Type(Kinds)
  BY VariablesAssumption
<1> QED BY <1>1, <1>2, LiteralOneIsNode, RefusedIsLossy, VariableIsNode

LEMMA BitwiseAssignIsNode == RInv /\ BitwiseAssign => RInv'
<1> SUFFICES ASSUME RInv, BitwiseAssign PROVE RInv'
  OBVIOUS
<1>1. PICK x \in Variables :
        \/ Stop("error")
        \/ Unsafe(expr, x.type) /\ Refuse(expr, x.type)
        \/ \E n, e, why : Become(Node(x.type, x.type, FALSE, FALSE, n), e, why)
  BY Zenon DEF BitwiseAssign
<1>2. x.type \in Type(Kinds) /\ IsNode(expr)
  BY VariablesAssumption DEF RInv
<1> QED BY <1>1, <1>2, StopIsNode, RefusedIsLossy, VariableIsNode

LEMMA ShiftAssignIsNode == RInv /\ ShiftAssign => RInv'
<1> SUFFICES ASSUME RInv, ShiftAssign PROVE RInv'
  OBVIOUS
<1>1. PICK x \in Variables :
        \/ Stop("error")
        \/ Unsafe(expr, Distance) /\ Refuse(expr, Distance)
        \/ \E n, e, why : Become(Node(x.type, x.type, FALSE, FALSE, n), e, why)
  BY Zenon DEF ShiftAssign
<1>2. Distance \in Type(Kinds) /\ IsNode(expr)
  BY DistanceIsType DEF RInv
<1> QED BY <1>1, <1>2, StopIsNode, RefusedIsLossy, VariableIsNode

LEMMA LabelledAsReturned ==
  ASSUME NEW o, IsNode(o), NEW term
  PROVE  LET u == [o EXCEPT !.type = o.label, !.term = term]
         IN IsNode(u) /\ u.type = o.label /\ u.term = term
<1>1. PICK type \in Type(Kinds), label \in Type(Kinds) :
        label.kind = type.kind /\ \E const, old, n : o = Node(type, label, const, old, n)
  BY Zenon DEF IsNode
<1>2. PICK const, old, n : o = Node(type, label, const, old, n)
  BY <1>1, Zenon
<1> DEFINE u == [o EXCEPT !.type = o.label, !.term = term]
<1> DEFINE v == [o EXCEPT !.type = o.label]
<1>3. u = Node(label, label, const, term, n) /\ o.label = label
  <2>1. v = Node(label, label, const, old, n) /\ o.label = label
    BY <1>2 DEF Node
  <2>2. [v EXCEPT !.term = term] = Node(label, label, const, term, n)
    <3> HIDE DEF v
    <3> QED BY <2>1 DEF Node
  <2>3. u = [v EXCEPT !.term = term]
    OBVIOUS
  <2> QED BY <2>1, <2>2, <2>3, Zenon
<1>4. IsNode(Node(label, label, const, term, n))
  BY <1>1, NodesAreNodes
<1>5. Node(label, label, const, term, n).type = label /\ Node(label, label, const, term, n).term = term
  BY DEF Node
<1> HIDE DEF u
<1>6. IsNode(u) /\ u.type = o.label /\ u.term = term
  BY <1>3, <1>4, <1>5
<1> QED BY <1>6 DEF u

\* A branch is refused for the type that it returned.
LEMMA RefusedBranchIsLossy ==
  ASSUME RInv, NEW o, IsNode(o), NEW t \in Type(Kinds), ~SafeBranch(o, t), RefuseBranch(o, t)
  PROVE  RInv'
<1> DEFINE u == [o EXCEPT !.type = o.label, !.term = FALSE]
<1>1. IsNode(u) /\ u.type = o.label /\ u.term = FALSE
  BY LabelledAsReturned
<1>2. Refuse(u, t)
  BY Zenon DEF RefuseBranch
<1> HIDE DEF u
<1>3. ~SafeCast(t, u.type)
  BY <1>1 DEF SafeBranch
<1>4. ~Safe(u, t)
  BY <1>1, <1>3 DEF Safe, SafeToCastTo
<1>5. Unsafe(u, t)
  BY <1>4, NotSafeIsUnsafe
<1> QED BY <1>1, <1>2, <1>5, RefusedIsLossy

LEMMA ChooseIsNode ==
  ASSUME RInv, NEW o, NEW c, IsNode(c), NEW const, NEW t \in Type(Kinds), NEW first \in Type(Kinds),
         first.kind = t.kind, Choose(o, c, const, t, first)
  PROVE  RInv'
<1>1. IsNode(Again(c))
  BY AgainIsNode
<1>2. IsNode(Node(t, first, FALSE, FALSE, c.val))
  BY NodesAreNodes
<1>3. IsNode(IF const THEN Again(c) ELSE Node(t, first, FALSE, FALSE, c.val))
  BY <1>1, <1>2
<1> QED BY <1>3, BecomeIsNode, Zenon DEF Choose

LEMMA CastBranchesIsNode ==
  ASSUME RInv, NEW b, NEW const \in BOOLEAN, NEW l, NEW r, IsNode(l), IsNode(r),
         NEW t \in Type(Kinds), CastBranches(b, const, l, r, t)
  PROVE  RInv'
<1>1. PICK cl \in CastTo(l, t), cr \in CastTo(r, t) :
        LET chosen == IF b = 1 THEN cl ELSE cr
            again == BranchType(cl.type, cr.type)
        IN CASE const -> Choose(IF b = 1 THEN l ELSE r, chosen, TRUE, t, t)
             [] ~const /\ ~(SafeBranch(Again(cl), again) /\ SafeBranch(Again(cr), again)) ->
                  \E o \in {Again(cl), Again(cr)} : ~SafeBranch(o, again) /\ RefuseBranch(o, again)
             [] OTHER ->
                  \E c \in CastTo(Again(chosen), again) :
                    Choose(IF b = 1 THEN l ELSE r, c, FALSE, again, t)
  BY Zenon DEF CastBranches
<1> DEFINE chosen == IF b = 1 THEN cl ELSE cr
<1> DEFINE again == BranchType(cl.type, cr.type)
<1>2. /\ IsNode(cl) /\ cl.type.kind = t.kind /\ cl.type \in Type(Kinds)
      /\ IsNode(cr) /\ cr.type.kind = t.kind /\ cr.type \in Type(Kinds)
  BY CastsAreNodes, NodeFields
<1>3. again \in Type(Kinds) /\ again.kind = t.kind
  BY <1>2, BranchTypeIsType
<1>4. /\ IsNode(Again(cl)) /\ Again(cl).type = cl.type
      /\ IsNode(Again(cr)) /\ Again(cr).type = cr.type
  BY <1>2, AgainIsNode
<1>5. IsNode(chosen) /\ IsNode(Again(chosen))
  BY <1>2, <1>4
<1>6. \/ Choose(IF b = 1 THEN l ELSE r, chosen, TRUE, t, t)
      \/ \E o \in {Again(cl), Again(cr)} : ~SafeBranch(o, again) /\ RefuseBranch(o, again)
      \/ \E c \in CastTo(Again(chosen), again) : Choose(IF b = 1 THEN l ELSE r, c, FALSE, again, t)
  BY <1>1
<1> HIDE DEF chosen, again
<1>7. \A c \in CastTo(Again(chosen), again) : IsNode(c)
  BY <1>3, <1>5, CastsAreNodes
<1>8. ASSUME NEW o \in {Again(cl), Again(cr)}, ~SafeBranch(o, again), RefuseBranch(o, again) PROVE RInv'
  <2>1. IsNode(o)
    BY <1>4, <1>8
  <2> QED BY <1>3, <1>8, <2>1, RefusedBranchIsLossy
<1>9. ASSUME Choose(IF b = 1 THEN l ELSE r, chosen, TRUE, t, t) PROVE RInv'
  BY <1>5, <1>9, ChooseIsNode
<1>10. ASSUME NEW c \in CastTo(Again(chosen), again), Choose(IF b = 1 THEN l ELSE r, c, FALSE, again, t)
       PROVE  RInv'
  BY <1>3, <1>7, <1>10, ChooseIsNode
<1> QED BY <1>6, <1>8, <1>9, <1>10, Zenon

LEMMA ConditionalIsNode == RInv /\ Conditional => RInv'
<1> SUFFICES ASSUME RInv, Conditional PROVE RInv'
  OBVIOUS
<1>1. PICK p \in Pairs, b \in {0, 1}, const \in BOOLEAN :
        LET l == p[1]
            r == p[2]
            t == BranchType(l.label, r.label)
        IN CASE HasNoSize(l.label, r.label) -> Stop("aborted")
             [] ~HasNoSize(l.label, r.label) /\ ~(SafeBranch(l, t) /\ SafeBranch(r, t)) ->
                  \E o \in {l, r} : ~SafeBranch(o, t) /\ RefuseBranch(o, t)
             [] OTHER -> CastBranches(b, const, l, r, t)
  BY Zenon DEF Conditional, Abort
<1> DEFINE l == p[1]
<1> DEFINE r == p[2]
<1> DEFINE t == BranchType(l.label, r.label)
<1>2. IsNode(l) /\ IsNode(r)
  BY PairsAreNodes DEF RInv
<1>3. \/ Stop("aborted")
      \/ /\ ~HasNoSize(l.label, r.label)
         /\ \/ \E o \in {l, r} : ~SafeBranch(o, t) /\ RefuseBranch(o, t)
            \/ CastBranches(b, const, l, r, t)
  BY <1>1
<1>4. ~HasNoSize(l.label, r.label) => t \in Type(Kinds)
  BY <1>2, NodeFields, BranchTypeIsType
<1> HIDE DEF l, r, t
<1>5. ASSUME ~HasNoSize(l.label, r.label), CastBranches(b, const, l, r, t) PROVE RInv'
  BY <1>2, <1>4, <1>5, CastBranchesIsNode
<1>6. ASSUME ~HasNoSize(l.label, r.label), NEW o \in {l, r}, ~SafeBranch(o, t), RefuseBranch(o, t) PROVE RInv'
  <2>1. IsNode(o)
    BY <1>2, <1>6
  <2> QED BY <1>4, <1>6, <2>1, RefusedBranchIsLossy
<1> QED BY <1>3, <1>5, <1>6, StopIsNode

LEMMA ConditionIsNode == RInv /\ Condition => RInv'
<1> SUFFICES ASSUME RInv, Condition PROVE RInv'
  OBVIOUS
<1>1. \/ ~SafeBool(expr.label) /\ RefuseBranch(expr, DefaultBool)
      \/ \E x \in Variables : \E e : Become(Variable(x), e, "none")
  <2>1. PICK x \in Variables, y \in Variables :
          IF ~SafeBool(expr.label) THEN RefuseBranch(expr, DefaultBool)
          ELSE \E c \in CastTo(expr, DefaultBool) :
                 Become(Variable(IF c.val = 1 THEN x ELSE y), IF expr.val = 1 THEN x.val ELSE y.val, "none")
    BY Zenon DEF Condition
  <2>2. \A c : (IF c.val = 1 THEN x ELSE y) \in Variables
    OBVIOUS
  <2> QED BY <2>1, <2>2
<1>2. IsNode(expr) /\ DefaultBool \in Type(Kinds) /\ DefaultBool.kind = "Bool"
  BY DefaultBoolIsType DEF RInv
<1>3. \A x \in Variables : IsNode(Variable(x))
  BY VariablesAssumption, NodesAreNodes DEF Variable
<1>4. ASSUME ~SafeBool(expr.label), RefuseBranch(expr, DefaultBool) PROVE RInv'
  <2>1. ~SafeCast(DefaultBool, expr.label)
    BY <1>4 DEF SafeBool
  <2>2. expr.label # DefaultBool
    <3>1. SafeCast(DefaultBool, DefaultBool)
      BY <1>2 DEF SafeCast, BoolSafeCast
    <3> QED BY <2>1, <3>1
  <2>3. ~SafeBranch(expr, DefaultBool)
    BY <2>1, <2>2 DEF SafeBranch
  <2> QED BY <1>2, <1>4, <2>3, RefusedBranchIsLossy
<1> QED BY <1>1, <1>3, <1>4, BecomeIsNode

\* RefusesOnlyLossyCasts: what is refused would lose a value, whatever the
\* variables, the literals and the number of operators are
\* (NodeBinaryOp::checkSafeToCastTo, Node::checkSafeToCastTo).
THEOREM RefusalsAreLossy == FullSpec => []RefusesOnlyLossyCasts
<1>1. Init => RInv
  BY OperandsAreNodes DEF Init, RInv, RefusesOnlyLossyCasts, None, TypeOf, Numeric
<1>2. RInv /\ [FullNext]_vars => RInv'
  <2> SUFFICES ASSUME RInv, [FullNext]_vars PROVE RInv'
    OBVIOUS
  <2>1. CASE UNCHANGED vars
    BY <2>1 DEF vars, RInv, RefusesOnlyLossyCasts, IsNode
  <2> QED
    BY <2>1, NextIsNode, BitwiseBinaryIsNode, LogicalIsNode, BangIsNode, TwiddleIsNode, PlusIsNode,
       IncrementIsNode, BitwiseAssignIsNode, ShiftAssignIsNode, ConditionalIsNode, ConditionIsNode
    DEF FullNext
<1>3. RInv => RefusesOnlyLossyCasts
  BY DEF RInv
<1> QED BY <1>1, <1>2, <1>3, PTL DEF FullSpec

------------------------------------------------------------------------------
\* What is combined bit by bit has no more bits.

LEMMA SumsOfParts ==
  ASSUME NEW p \in Nat \ {0}, NEW u \in Int, NEW x \in {0, 1}, NEW r \in 0 .. p - 1
  PROVE  /\ p * ((2 * u) + x) = ((2 * p) * u) + (p * x)
         /\ p * x + r \in 0 .. (2 * p) - 1
<1>1. CASE x = 0
  BY <1>1
<1>2. CASE x = 1
  BY <1>2
<1> QED BY <1>1, <1>2

LEMMA NextBit ==
  ASSUME NEW n \in Nat, NEW k \in Nat
  PROVE  /\ BitAt(n, k) \in {0, 1}
         /\ n % TwoTo[k + 1] = (n % TwoTo[k]) + TwoTo[k] * BitAt(n, k)
         /\ n < TwoTo[k] => BitAt(n, k) = 0
<1> DEFINE p == TwoTo[k]
<1>1. p \in Nat \ {0} /\ TwoTo[k + 1] = 2 * p
  BY Powers
<1> DEFINE q == n \div p
<1> DEFINE r == n % p
<1> HIDE DEF p
<1>2. q \in Nat /\ r \in 0 .. p - 1 /\ n = (p * q) + r /\ (n < p => q = 0)
  <2>1. q \in Nat /\ (n < p => q = 0)
    BY <1>1, QuotientsOfPowers
  <2>2. r \in 0 .. p - 1 /\ n = (p * q) + r
    <3>1. n \in Int
      OBVIOUS
    <3> QED BY <1>1, <3>1, Division, Zenon
  <2> QED BY <2>1, <2>2
<1> DEFINE u == q \div 2
<1> DEFINE x == q % 2
<1> HIDE DEF q, r
<1>3. u \in Int /\ x \in {0, 1} /\ q = (2 * u) + x
  BY <1>2
<1>4. BitAt(n, k) = x
  BY DEF BitAt, p, q
<1> HIDE DEF u, x
<1>5. p * q = ((2 * p) * u) + (p * x) /\ (p * x) + r \in 0 .. (2 * p) - 1
  BY <1>1, <1>2, <1>3, SumsOfParts
<1>6. n = ((2 * p) * u) + ((p * x) + r)
  <2> DEFINE a == (2 * p) * u
  <2> DEFINE b == p * x
  <2>1. a \in Int /\ b \in Int
    BY <1>1, <1>3
  <2>2. p * q = a + b
    BY <1>5
  <2> HIDE DEF a, b
  <2>3. n = a + (b + r)
    BY <1>2, <2>1, <2>2
  <2> QED BY <2>3 DEF a, b
<1>7. n % (2 * p) = (p * x) + r
  <2>1. 2 * p \in Nat \ {0} /\ n \in Int
    BY <1>1
  <2>2. /\ n \div (2 * p) \in Int /\ n % (2 * p) \in 0 .. (2 * p) - 1
        /\ n = ((2 * p) * (n \div (2 * p))) + (n % (2 * p))
    BY <2>1, Division
  <2> DEFINE w == 2 * p
  <2> DEFINE y == n \div w
  <2> DEFINE z == n % w
  <2> DEFINE v == (p * x) + r
  <2>3. w \in Nat \ {0} /\ y \in Int /\ z \in 0 .. w - 1 /\ n = (w * y) + z
    BY <2>1, <2>2, Zenon
  <2>4. v \in 0 .. w - 1 /\ n = (w * u) + v
    BY <1>5, <1>6, Zenon
  <2> HIDE DEF w, y, z, v
  <2>5. z = v
    BY <1>3, <2>3, <2>4, DivisionIsUnique
  <2> QED BY <2>5 DEF w, z, v
<1>8. n < p => x = 0
  BY <1>2, <1>3 DEF u, x
<1>9. (p * x) + r = r + (p * x)
  BY <1>1, <1>2, <1>3
<1> QED BY <1>1, <1>3, <1>4, <1>7, <1>8, <1>9 DEF p, r

\* The function that defines the ones in common exists.
CommonOnes(low, a, b) ==
  low = [k \in 0 .. MAXBITSPERLONG |->
           IF k = 0 THEN 0 ELSE low[k - 1] + TwoTo[k - 1] * (BitAt(a, k - 1) * BitAt(b, k - 1))]

LEMMA CommonOnesExist ==
  ASSUME NEW a \in Nat, NEW b \in Nat
  PROVE  \E low \in [0 .. MAXBITSPERLONG -> Int] : CommonOnes(low, a, b)
<1> DEFINE L == MAXBITSPERLONG
<1> DEFINE ones(k) == TwoTo[k - 1] * (BitAt(a, k - 1) * BitAt(b, k - 1))
<1>1. L \in Nat
  BY WordsAssumption
<1>2. ASSUME NEW k \in 1 .. L PROVE ones(k) \in Int
  <2>1. k - 1 \in Nat
    BY <1>1
  <2>2. TwoTo[k - 1] \in Nat /\ BitAt(a, k - 1) \in {0, 1} /\ BitAt(b, k - 1) \in {0, 1}
    BY <2>1, Powers, NextBit
  <2>3. BitAt(a, k - 1) * BitAt(b, k - 1) \in Int
    BY <2>2
  <2> QED BY <2>2, <2>3
<1> DEFINE F == [x \in (1 .. L) \X Int |-> x[2] + ones(x[1])]
<1>3. F \in [(1 .. L) \X Int -> Int]
  <2> HIDE DEF ones, L
  <2>1. ASSUME NEW x \in (1 .. L) \X Int PROVE x[2] + ones(x[1]) \in Int
    <3>1. x[1] \in 1 .. L /\ x[2] \in Int
      OBVIOUS
    <3>2. ones(x[1]) \in Int
      BY <1>2, <3>1
    <3> QED BY <3>1, <3>2
  <2> QED BY <2>1
<1>4. PICK g \in [0 .. L -> Int] : Recurs(g, L, 0, F)
  <2> HIDE DEF F, L
  <2>1. 0 \in Int
    OBVIOUS
  <2> QED BY <1>1, <1>3, <2>1, IntervalRecursion, Zenon
<1>5. g = [k \in 0 .. L |-> IF k = 0 THEN 0 ELSE F[<<k, g[k - 1]>>]]
  BY <1>4 DEF Recurs
<1>6. ASSUME NEW k \in 0 .. L, k # 0 PROVE F[<<k, g[k - 1]>>] = g[k - 1] + ones(k)
  <2> HIDE DEF ones, L
  <2>1. k \in 1 .. L /\ g[k - 1] \in Int
    BY <1>1, <1>6
  <2>2. <<k, g[k - 1]>> \in (1 .. L) \X Int
    BY <2>1
  <2> QED BY <2>2
<1>7. g = [k \in 0 .. L |-> IF k = 0 THEN 0 ELSE g[k - 1] + ones(k)]
  <2> HIDE DEF F, ones, L
  <2> QED BY <1>5, <1>6
<1> QED BY <1>7 DEF CommonOnes

LEMMA AndIsCommonOnes ==
  ASSUME NEW a \in Nat, NEW b \in Nat
  PROVE  \E low \in [0 .. MAXBITSPERLONG -> Int] :
           CommonOnes(low, a, b) /\ BitwiseAnd(a, b) = low[MAXBITSPERLONG]
<1> DEFINE low == CHOOSE f : CommonOnes(f, a, b)
<1>1. CommonOnes(low, a, b)
  <2>1. \E f : CommonOnes(f, a, b)
    BY CommonOnesExist
  <2> QED BY <2>1, Zenon
<1>2. BitwiseAnd(a, b) = low[MAXBITSPERLONG]
  BY Zenon DEF BitwiseAnd, CommonOnes
<1> HIDE DEF low
<1>3. low \in [0 .. MAXBITSPERLONG -> Int]
  <2> DEFINE T == {k \in 0 .. MAXBITSPERLONG : low[k] \in Int}
  <2>1. MAXBITSPERLONG \in Nat
    BY WordsAssumption
  <2>2. low = [k \in 0 .. MAXBITSPERLONG |->
           IF k = 0 THEN 0 ELSE low[k - 1] + TwoTo[k - 1] * (BitAt(a, k - 1) * BitAt(b, k - 1))]
    BY <1>1 DEF CommonOnes
  <2>3. 0 \in T
    BY <2>1, <2>2
  <2>4. ASSUME NEW k \in 0 .. MAXBITSPERLONG - 1, k \in T PROVE k + 1 \in T
    <3>1. k \in Nat /\ k + 1 \in 0 .. MAXBITSPERLONG /\ (k + 1) - 1 = k /\ k + 1 # 0 /\ low[k] \in Int
      BY <2>1, <2>4
    <3>2. low[k + 1] = low[k] + TwoTo[k] * (BitAt(a, k) * BitAt(b, k))
      BY <2>2, <3>1
    <3>3. TwoTo[k] \in Nat /\ BitAt(a, k) \in {0, 1} /\ BitAt(b, k) \in {0, 1}
      BY <3>1, Powers, NextBit
    <3>4. BitAt(a, k) * BitAt(b, k) \in Int
      BY <3>3
    <3> HIDE DEF T
    <3>5. low[k + 1] \in Int
      BY <3>1, <3>2, <3>3, <3>4
    <3> QED BY <3>1, <3>5 DEF T
  <2> HIDE DEF T
  <2>5. 0 .. MAXBITSPERLONG \subseteq T
    BY <2>1, <2>3, <2>4, IntervalInduction
  <2>6. \A k \in 0 .. MAXBITSPERLONG : low[k] \in Int
    BY <2>5 DEF T
  <2> QED BY <2>2, <2>6
<1> QED BY <1>1, <1>2, <1>3

\* Of two numbers below p, with the ones z in common, and the next bits x and y.
LEMMA NextOnes ==
  ASSUME NEW p \in Nat \ {0}, NEW a \in 0 .. p - 1, NEW b \in 0 .. p - 1, NEW z \in Nat,
         z <= a, z <= b, a + b - z <= p - 1, NEW x \in {0, 1}, NEW y \in {0, 1}
  PROVE  /\ z + p * (x * y) \in Nat
         /\ z + p * (x * y) <= a + p * x /\ z + p * (x * y) <= b + p * y
         /\ (a + p * x) + (b + p * y) - (z + p * (x * y)) <= (2 * p) - 1
<1>1. CASE x = 0
  <2>1. p * x = 0 /\ x * y = 0 /\ p * (x * y) = 0
    BY <1>1
  <2>2. p * y \in Nat /\ p * y <= p
    BY <1>1
  <2> QED BY <2>1, <2>2
<1>2. CASE x = 1
  <2>1. p * x = p /\ x * y = y /\ p * (x * y) = p * y
    BY <1>2
  <2>2. p * y \in Nat /\ p * y <= p
    BY <1>2
  <2> QED BY <2>1, <2>2
<1> QED BY <1>1, <1>2

LEMMA OnesInCommon ==
  ASSUME NEW s \in 1 .. MAXBITSPERLONG, NEW a \in 0 .. TwoTo[s] - 1, NEW b \in 0 .. TwoTo[s] - 1
  PROVE  /\ BitwiseAnd(a, b) \in Nat /\ BitwiseAnd(a, b) <= a /\ BitwiseAnd(a, b) <= b
         /\ a + b - BitwiseAnd(a, b) <= TwoTo[s] - 1
<1>1. MAXBITSPERLONG \in Nat /\ s \in Nat /\ s <= MAXBITSPERLONG /\ TwoTo[s] \in Nat \ {0}
  BY WordsAssumption, Powers
<1>2. a \in Nat /\ b \in Nat /\ a < TwoTo[s] /\ b < TwoTo[s]
  BY <1>1
<1>3. PICK low \in [0 .. MAXBITSPERLONG -> Int] :
        CommonOnes(low, a, b) /\ BitwiseAnd(a, b) = low[MAXBITSPERLONG]
  BY <1>2, AndIsCommonOnes
<1>4. low[0] = 0
  BY <1>1, <1>3 DEF CommonOnes
<1>5. ASSUME NEW k \in 0 .. MAXBITSPERLONG - 1
      PROVE  low[k + 1] = low[k] + TwoTo[k] * (BitAt(a, k) * BitAt(b, k))
  <2>1. k \in Nat /\ k + 1 \in 0 .. MAXBITSPERLONG /\ (k + 1) - 1 = k /\ k + 1 # 0
    BY <1>1
  <2> QED BY <1>3, <2>1 DEF CommonOnes
<1> DEFINE Good(k) == /\ low[k] \in Nat /\ low[k] <= a % TwoTo[k] /\ low[k] <= b % TwoTo[k]
                      /\ (a % TwoTo[k]) + (b % TwoTo[k]) - low[k] <= TwoTo[k] - 1
<1>6. Good(s)
  <2> DEFINE T == {k \in 0 .. s : Good(k)}
  <2>1. 0 \in T
    <3>1. TwoTo[0] = 1 /\ a % 1 = 0 /\ b % 1 = 0
      BY <1>2, Powers
    <3> QED BY <1>1, <1>4, <3>1
  <2>2. ASSUME NEW k \in 0 .. s - 1, k \in T PROVE k + 1 \in T
    <3>1. k \in Nat /\ k \in 0 .. MAXBITSPERLONG - 1 /\ k + 1 \in 0 .. s
      BY <1>1
    <3>2. /\ BitAt(a, k) \in {0, 1} /\ a % TwoTo[k + 1] = (a % TwoTo[k]) + TwoTo[k] * BitAt(a, k)
          /\ BitAt(b, k) \in {0, 1} /\ b % TwoTo[k + 1] = (b % TwoTo[k]) + TwoTo[k] * BitAt(b, k)
      BY <1>2, <3>1, NextBit
    <3>3. TwoTo[k] \in Nat \ {0} /\ TwoTo[k + 1] = 2 * TwoTo[k]
      BY <3>1, Powers
    <3>4. a % TwoTo[k] \in 0 .. TwoTo[k] - 1 /\ b % TwoTo[k] \in 0 .. TwoTo[k] - 1
      <4>1. a \in Int /\ b \in Int
        BY <1>2
      <4> QED BY <3>3, <4>1, Division, Zenon
    <3>5. Good(k)
      BY <2>2
    <3>6. low[k + 1] = low[k] + TwoTo[k] * (BitAt(a, k) * BitAt(b, k))
      BY <1>5, <3>1
    <3> DEFINE p == TwoTo[k]
    <3> DEFINE x == BitAt(a, k)
    <3> DEFINE y == BitAt(b, k)
    <3> DEFINE u == a % p
    <3> DEFINE v == b % p
    <3> DEFINE z == low[k]
    <3> HIDE DEF T, Good
    <3>7. /\ p \in Nat \ {0} /\ u \in 0 .. p - 1 /\ v \in 0 .. p - 1 /\ x \in {0, 1} /\ y \in {0, 1}
          /\ z \in Nat /\ z <= u /\ z <= v /\ u + v - z <= p - 1
      BY <3>2, <3>3, <3>4, <3>5, Zenon DEF Good
    <3>8. /\ low[k + 1] = z + p * (x * y) /\ a % TwoTo[k + 1] = u + p * x
          /\ b % TwoTo[k + 1] = v + p * y /\ TwoTo[k + 1] = 2 * p
      BY <3>2, <3>3, <3>6, Zenon
    <3> HIDE DEF p, x, y, u, v, z
    <3>9. /\ z + p * (x * y) \in Nat
          /\ z + p * (x * y) <= u + p * x /\ z + p * (x * y) <= v + p * y
          /\ (u + p * x) + (v + p * y) - (z + p * (x * y)) <= (2 * p) - 1
      BY <3>7, NextOnes
    <3>10. Good(k + 1)
      BY <3>8, <3>9, Zenon DEF Good
    <3> QED BY <3>1, <3>10 DEF T
  <2> HIDE DEF T, Good
  <2>3. 0 .. s \subseteq T
    BY <1>1, <2>1, <2>2, IntervalInduction
  <2>4. s \in T
    BY <1>1, <2>3
  <2> QED BY <2>4 DEF T
<1>7. low[MAXBITSPERLONG] = low[s]
  <2> DEFINE T == {k \in s .. MAXBITSPERLONG : low[k] = low[s]}
  <2>1. s \in T
    BY <1>1
  <2>2. ASSUME NEW k \in s .. MAXBITSPERLONG - 1, k \in T PROVE k + 1 \in T
    <3>1. /\ k \in Nat /\ k \in 0 .. MAXBITSPERLONG - 1 /\ k + 1 \in s .. MAXBITSPERLONG /\ s <= k
          /\ k \in 0 .. MAXBITSPERLONG
      BY <1>1
    <3>2. TwoTo[k] \in Nat /\ TwoTo[s] <= TwoTo[k]
      BY <1>1, <3>1, Powers
    <3>3. a < TwoTo[k]
      BY <1>1, <1>2, <3>2
    <3>4. BitAt(a, k) = 0 /\ BitAt(b, k) \in {0, 1}
      BY <1>2, <3>1, <3>3, NextBit
    <3>5. low[k + 1] = low[k] + TwoTo[k] * (BitAt(a, k) * BitAt(b, k))
      BY <1>5, <3>1
    <3>6. low[k] \in Int
      BY <1>3, <3>1
    <3>7. TwoTo[k] * (BitAt(a, k) * BitAt(b, k)) = 0
      BY <3>2, <3>4
    <3>8. low[k + 1] = low[k]
      BY <3>5, <3>6, <3>7
    <3> QED BY <2>2, <3>1, <3>8
  <2> HIDE DEF T
  <2>3. s .. MAXBITSPERLONG \subseteq T
    BY <1>1, <2>1, <2>2, IntervalInduction
  <2>4. MAXBITSPERLONG \in T
    BY <1>1, <2>3
  <2> QED BY <2>4 DEF T
<1>8. a % TwoTo[s] = a /\ b % TwoTo[s] = b
  BY <1>1, <1>2, SmallRemainder
<1> QED BY <1>3, <1>6, <1>7, <1>8

LEMMA CombinedBits ==
  ASSUME NEW s \in 1 .. MAXBITSPERLONG, NEW a \in 0 .. TwoTo[s] - 1, NEW b \in 0 .. TwoTo[s] - 1,
         NEW op \in BitwiseOps
  PROVE  BitsApply(op, a, b) \in 0 .. TwoTo[s] - 1
<1> DEFINE c == BitwiseAnd(a, b)
<1>1. TwoTo[s] \in Nat \ {0}
  BY WordsAssumption, Powers
<1>2. c \in Nat /\ c <= a /\ c <= b /\ a + b - c <= TwoTo[s] - 1
  BY OnesInCommon
<1>3. /\ BitsApply("&", a, b) = c /\ BitsApply("|", a, b) = a + b - c
      /\ BitsApply("^", a, b) = a + b - 2 * c
  BY DEF BitsApply, BitwiseOr, BitwiseXor
<1> HIDE DEF c
<1>4. c \in 0 .. TwoTo[s] - 1 /\ a + b - c \in 0 .. TwoTo[s] - 1 /\ a + b - 2 * c \in 0 .. TwoTo[s] - 1
  BY <1>1, <1>2
<1> QED BY <1>3, <1>4 DEF BitwiseOps

------------------------------------------------------------------------------
\* ValueIsExact, for the other operators.

\* A node of one type.
LEMMA BecomesValue ==
  ASSUME VInv, NEW t \in Type(Kinds), NEW const \in BOOLEAN, NEW term \in BOOLEAN, NEW n, NEW e, NEW why,
         Become(Node(t, t, const, term, n), e, why), why = "none" => n \in Values(t) /\ n = e
  PROVE  VInv'
<1>1. Node(t, t, const, term, n).val = n
  BY DEF Node
<1>2. why = "none" => NodeOk(Node(t, t, const, term, n))
  BY NodesAreOk
<1> QED BY <1>1, <1>2, BecomeIsExact

LEMMA BitwiseBinaryIsExact == VInv /\ BitwiseBinary => VInv'
<1> SUFFICES ASSUME VInv, BitwiseBinary PROVE VInv'
  OBVIOUS
<1>1. PICK p \in Pairs, op \in BitwiseOps :
        LET l == p[1]
            r == p[2]
            t == BitwiseType(l.label, r.label)
        IN IF ~BothSafe(l, r, t) THEN RefusePair(l, r, t)
           ELSE \E cl \in CastTo(l, t), cr \in CastTo(r, t) :
                  Become(Node(t, t, l.const /\ r.const, l.const /\ r.const,
                              BitsApply(op, Read(cl, t), Read(cr, t))),
                         BitsApply(op, Pattern(l.val, l.type), Pattern(r.val, r.type)),
                         IF cl.type # t \/ cr.type # t THEN "stale type" ELSE "none")
  BY Zenon DEF BitwiseBinary
<1> DEFINE l == p[1]
<1> DEFINE r == p[2]
<1> DEFINE t == BitwiseType(l.label, r.label)
<1>2. NodeOk(l) /\ NodeOk(r)
  BY ReadyIsOk, PairsAreOk DEF BitwiseBinary
<1>3. /\ l.label \in Type(Kinds) /\ r.label \in Type(Kinds) /\ l.const \in BOOLEAN /\ r.const \in BOOLEAN
  BY <1>2, NodeFacts
<1>4. t \in Type(Kinds) /\ t.kind = "Bits" /\ l.label.size <= t.size /\ r.label.size <= t.size
  BY <1>3, WidestBitsIsType DEF BitwiseType
<1>5. \/ RefusePair(l, r, t)
      \/ /\ BothSafe(l, r, t)
         /\ \E cl \in CastTo(l, t), cr \in CastTo(r, t) :
              Become(Node(t, t, l.const /\ r.const, l.const /\ r.const,
                          BitsApply(op, Read(cl, t), Read(cr, t))),
                     BitsApply(op, Pattern(l.val, l.type), Pattern(r.val, r.type)),
                     IF cl.type # t \/ cr.type # t THEN "stale type" ELSE "none")
  BY <1>1
<1> HIDE DEF l, r, t
<1>6. ASSUME BothSafe(l, r, t), NEW cl \in CastTo(l, t), NEW cr \in CastTo(r, t),
             Become(Node(t, t, l.const /\ r.const, l.const /\ r.const,
                         BitsApply(op, Read(cl, t), Read(cr, t))),
                    BitsApply(op, Pattern(l.val, l.type), Pattern(r.val, r.type)),
                    IF cl.type # t \/ cr.type # t THEN "stale type" ELSE "none")
      PROVE  VInv'
  <2> DEFINE n == BitsApply(op, Read(cl, t), Read(cr, t))
  <2> DEFINE e == BitsApply(op, Pattern(l.val, l.type), Pattern(r.val, r.type))
  <2>1. /\ NodeOk(cl) /\ cl.val = Meaning(l, t) /\ NodeOk(cr) /\ cr.val = Meaning(r, t)
    BY <1>2, <1>4, <1>6, CastsKeepMeanings DEF BothSafe
  <2>2. cl.val = Pattern(l.val, l.type) /\ cr.val = Pattern(r.val, r.type)
    BY <1>4, <2>1 DEF Meaning
  <2>3. ASSUME cl.type = t, cr.type = t PROVE n \in Values(t) /\ n = e
    <3>1. Read(cl, t) = cl.val /\ Read(cr, t) = cr.val
      BY <2>3, ReadsItself
    <3>2. cl.val \in Values(t) /\ cr.val \in Values(t)
      BY <2>1, <2>3, NodeFacts
    <3>3. Values(t) = 0 .. TwoTo[t.size] - 1 /\ t.size \in 1 .. MAXBITSPERLONG
      BY <1>4, SizesAreNumbers DEF Values, BitsValues
    <3>4. BitsApply(op, cl.val, cr.val) \in Values(t)
      BY <3>2, <3>3, CombinedBits
    <3> QED BY <2>2, <3>1, <3>4
  <2>4. (l.const /\ r.const) \in BOOLEAN
    OBVIOUS
  <2> HIDE DEF n, e
  <2>5. (IF cl.type # t \/ cr.type # t THEN "stale type" ELSE "none") = "none" => n \in Values(t) /\ n = e
    BY <2>3
  <2>6. Become(Node(t, t, l.const /\ r.const, l.const /\ r.const, n), e,
               IF cl.type # t \/ cr.type # t THEN "stale type" ELSE "none")
    BY <1>6 DEF n, e
  <2> QED BY <1>4, <2>4, <2>5, <2>6, BecomesValue
<1> QED BY <1>5, <1>6, RefusePairIsExact

\* What may stand for a truth value is 0 or 1, and stays it.
LEMMA TruthsAreKept ==
  ASSUME NEW o, NodeOk(o), SafeBool(o.label), NEW t \in Type(Kinds), t.kind = "Bool", NEW c \in CastTo(o, t)
  PROVE  o.val \in {0, 1} /\ c.val = o.val
<1>1. /\ o.type \in Type(Kinds) /\ o.label \in Type(Kinds) /\ o.label.kind = o.type.kind
      /\ o.val \in Values(o.type)
  BY NodeFacts
<1>2. o.label.kind # "Bits" /\ Values(o.label) \subseteq Values(DefaultBool)
  BY <1>1, DefaultBoolIsType, SafeCastsLoseNothing DEF SafeBool
<1>3. o.val \in Values(o.label)
  <2>1. o.label.kind \in Numeric \/ o.label.kind = "Bool"
    BY <1>1, <1>2, SizesAreNumbers DEF Kinds
  <2> QED BY <1>1, <2>1, NodeFacts
<1>4. o.val \in {0, 1} /\ o.val \in Values(t)
  BY <1>2, <1>3, DefaultBoolIsType DEF Values, BoolValues
<1>5. c.val = o.val
  <2>1. CASE o.label = t
    BY <2>1 DEF CastTo
  <2>2. CASE o.label # t /\ o.type = t
    <3>1. c = [o EXCEPT !.label = t]
      BY <2>2 DEF CastTo
    <3>2. c = Again(o)
      BY <2>2, <3>1 DEF Again
    <3> QED BY <3>2, AgainIsOk
  <2>3. CASE o.label # t /\ o.type # t
    <3>1. PICK n \in Converted(o.val, o.type, t) : c = Node(t, t, o.const, FALSE, n)
      BY <2>3 DEF CastTo
    <3>2. n = o.val
      BY <1>1, <1>2, <1>4, ConvertedKeeps
    <3> QED BY <3>1, <3>2 DEF Node
  <2> QED BY <2>1, <2>2, <2>3
<1> QED BY <1>4, <1>5

LEMMA LogicalIsExact == VInv /\ Logical => VInv'
<1> SUFFICES ASSUME VInv, Logical PROVE VInv'
  OBVIOUS
<1>1. PICK p \in Pairs, op \in {"&&", "||"} :
        LET l == p[1]
            r == p[2]
            t == LogicalType(l.label, r.label)
        IN CASE ~SafeBool(l.label) \/ ~SafeBool(r.label) -> Stop("error")
             [] OTHER ->
                  \E cl \in CastTo(l, t), cr \in CastTo(r, t) :
                    IF TooWideToDecide(t) THEN Stop("aborted")
                    ELSE Become(Node(t, t, l.const /\ r.const, l.const /\ r.const,
                                     LogicalApply(op, cl.val, cr.val)),
                                Bit(IF op = "&&" THEN l.val = 1 /\ r.val = 1 ELSE l.val = 1 \/ r.val = 1),
                                "none")
  BY Zenon DEF Logical, Abort
<1> DEFINE l == p[1]
<1> DEFINE r == p[2]
<1> DEFINE t == LogicalType(l.label, r.label)
<1> DEFINE e == Bit(IF op = "&&" THEN l.val = 1 /\ r.val = 1 ELSE l.val = 1 \/ r.val = 1)
<1>2. NodeOk(l) /\ NodeOk(r)
  BY ReadyIsOk, PairsAreOk DEF Logical
<1>3. t \in Type(Kinds) /\ t.kind = "Bool"
  BY <1>2, NodeFacts, LogicalTypeIsType
<1>4. \/ Stop("error") \/ Stop("aborted")
      \/ /\ SafeBool(l.label) /\ SafeBool(r.label)
         /\ \E cl \in CastTo(l, t), cr \in CastTo(r, t) :
              Become(Node(t, t, l.const /\ r.const, l.const /\ r.const, LogicalApply(op, cl.val, cr.val)), e, "none")
  BY <1>1
<1> HIDE DEF l, r, t
<1>5. ASSUME SafeBool(l.label), SafeBool(r.label), NEW cl \in CastTo(l, t), NEW cr \in CastTo(r, t),
             Become(Node(t, t, l.const /\ r.const, l.const /\ r.const, LogicalApply(op, cl.val, cr.val)), e, "none")
      PROVE  VInv'
  <2>1. l.val \in {0, 1} /\ cl.val = l.val /\ r.val \in {0, 1} /\ cr.val = r.val
    BY <1>2, <1>3, <1>5, TruthsAreKept
  <2>2. e = LogicalApply(op, cl.val, cr.val)
    BY <2>1 DEF LogicalApply, LogicalAnd, LogicalOr, Bit
  <2>3. LogicalApply(op, cl.val, cr.val) \in {0, 1}
    BY <2>1 DEF LogicalApply, LogicalAnd, LogicalOr
  <2>4. LogicalApply(op, cl.val, cr.val) \in Values(t)
    BY <1>3, <2>3 DEF Values, BoolValues
  <2>5. (l.const /\ r.const) \in BOOLEAN
    OBVIOUS
  <2> HIDE DEF e
  <2> QED BY <1>3, <1>5, <2>2, <2>4, <2>5, BecomesValue
<1> QED BY <1>4, <1>5, StopIsExact

LEMMA BangIsExact == VInv /\ Bang => VInv'
<1> SUFFICES ASSUME VInv, Bang PROVE VInv'
  OBVIOUS
<1> DEFINE t == BangType(expr.label)
<1>1. NodeOk(expr)
  BY ReadyIsOk DEF Bang
<1>2. t \in Type(Kinds) /\ t.kind = "Bool" /\ expr.const \in BOOLEAN
  BY <1>1, NodeFacts, BangTypeIsType
<1>3. \/ Stop("error")
      \/ /\ SafeBool(expr.label)
         /\ \E c \in CastTo(expr, t) :
              Become(Node(t, t, expr.const, expr.const, 1 - c.val), 1 - expr.val, "none")
  BY DEF Bang
<1> HIDE DEF t
<1>4. ASSUME SafeBool(expr.label), NEW c \in CastTo(expr, t),
             Become(Node(t, t, expr.const, expr.const, 1 - c.val), 1 - expr.val, "none")
      PROVE  VInv'
  <2>1. expr.val \in {0, 1} /\ c.val = expr.val
    BY <1>1, <1>2, <1>4, TruthsAreKept
  <2>2. 1 - c.val \in {0, 1} /\ 1 - c.val = 1 - expr.val
    BY <2>1
  <2>3. 1 - c.val \in Values(t)
    BY <1>2, <2>2 DEF Values, BoolValues
  <2> QED BY <1>2, <1>4, <2>2, <2>3, BecomesValue
<1> QED BY <1>3, <1>4, StopIsExact

\* Where bits are needed a cast to a type as large as the label keeps them.
LEMMA LabelsHavePatterns ==
  ASSUME NEW o, NodeOk(o), NEW t \in Type(Kinds), t.kind = "Bits", o.label.size <= t.size,
         NEW n \in Converted(o.val, o.type, t)
  PROVE  n = Pattern(o.val, o.type)
<1>1. /\ o.type \in Type(Kinds) /\ o.label \in Type(Kinds) /\ o.label.kind = o.type.kind
      /\ o.val \in Values(o.type)
      /\ o.type.size \in Nat /\ o.label.size \in Nat /\ t.size \in Nat
  BY NodeFacts, SizesAreNumbers
<1>2. CASE o.type.size <= o.label.size
  <2>1. o.type.size <= t.size
    BY <1>1, <1>2
  <2> QED BY <1>1, <2>1, PatternsAreKept
<1>3. CASE ~(o.type.size <= o.label.size)
  <2>1. o.label # o.type
    BY <1>1, <1>3
  <2>2. o.type.kind = "Bits" /\ o.val \in Values(o.label)
    BY <1>3, <2>1 DEF NodeOk, Numeric
  <2>3. Pattern(o.val, o.type) = o.val
    BY <1>1, <2>2, PatternsAreBits
  <2>4. TwoTo[o.label.size] \in Nat /\ TwoTo[t.size] \in Nat \ {0} /\ TwoTo[o.label.size] <= TwoTo[t.size]
    BY <1>1, Powers
  <2>5. o.val \in 0 .. TwoTo[o.label.size] - 1
    BY <1>1, <2>2 DEF Values, BitsValues
  <2>6. o.val \in Nat /\ o.val < TwoTo[t.size]
    BY <2>4, <2>5
  <2>7. n = o.val % TwoTo[t.size]
    BY <2>3 DEF Converted, BitsConverted
  <2> QED BY <2>3, <2>4, <2>6, <2>7, SmallRemainder
<1> QED BY <1>2, <1>3

LEMMA TwiddleIsExact == VInv /\ Twiddle => VInv'
<1> SUFFICES ASSUME VInv, Twiddle PROVE VInv'
  OBVIOUS
<1> DEFINE t == TwiddleType(expr.label)
<1>1. NodeOk(expr)
  BY ReadyIsOk DEF Twiddle
<1>2. /\ expr.type \in Type(Kinds) /\ expr.label \in Type(Kinds) /\ expr.const \in BOOLEAN
      /\ expr.val \in Values(expr.type) /\ expr.label.kind = expr.type.kind
  BY <1>1, NodeFacts
<1>3. t \in Type(Kinds) /\ t.kind = "Bits" /\ t.size = expr.label.size /\ t.size \in Nat
  BY <1>2, TwiddleTypeIsType, SizesAreNumbers
<1>4. PICK c \in CastTo(expr, t) :
        Become(Node(t, t, expr.const, expr.const, Top(t.size) - Read(c, t)),
               Top(t.size) - Pattern(expr.val, expr.type),
               IF c.type # t THEN "stale type" ELSE "none")
  BY DEF Twiddle, Complement
<1> HIDE DEF t
<1>5. ASSUME c.type = t
      PROVE  /\ Top(t.size) - Read(c, t) \in Values(t)
             /\ Top(t.size) - Read(c, t) = Top(t.size) - Pattern(expr.val, expr.type)
  <2>1. Read(c, t) = c.val
    BY <1>5, ReadsItself
  <2>2. c.val = Pattern(expr.val, expr.type)
    <3>1. CASE expr.type = t
      <4>1. c.val = expr.val
        <5>1. CASE expr.label = t
          BY <5>1 DEF CastTo
        <5>2. CASE expr.label # t
          <6>1. c = Again(expr)
            BY <3>1, <5>2 DEF CastTo, Again
          <6> QED BY <1>1, <6>1, AgainIsOk
        <5> QED BY <5>1, <5>2
      <4> QED BY <1>2, <1>3, <3>1, <4>1, PatternsAreBits
    <3>2. CASE expr.type # t
      <4>1. expr.label # t
        BY <1>5, <3>2 DEF CastTo
      <4>2. PICK n \in Converted(expr.val, expr.type, t) : c = Node(t, t, expr.const, FALSE, n)
        BY <3>2, <4>1 DEF CastTo
      <4>3. expr.label.size <= t.size
        BY <1>3
      <4> QED BY <1>1, <1>3, <4>2, <4>3, LabelsHavePatterns DEF Node
    <3> QED BY <3>1, <3>2
  <2>3. c.val \in Values(t)
    <3>1. NodeOk(c)
      <4>1. CASE expr.label = t
        BY <1>1, <4>1 DEF CastTo
      <4>2. CASE expr.label # t /\ expr.type = t
        <5>1. c = Again(expr)
          BY <4>2 DEF CastTo, Again
        <5> QED BY <1>1, <5>1, AgainIsOk
      <4>3. CASE expr.label # t /\ expr.type # t
        <5>1. PICK n \in Converted(expr.val, expr.type, t) : c = Node(t, t, expr.const, FALSE, n)
          BY <4>3 DEF CastTo
        <5>2. n \in Values(t)
          BY <1>2, <1>3, ConvertedIsValue
        <5> QED BY <1>2, <1>3, <5>1, <5>2, NodesAreOk
      <4> QED BY <4>1, <4>2, <4>3
    <3> QED BY <1>5, <3>1, NodeFacts
  <2>4. Values(t) = 0 .. TwoTo[t.size] - 1 /\ TwoTo[t.size] \in Nat
    BY <1>3, Powers DEF Values, BitsValues
  <2>5. Top(t.size) - c.val \in Values(t)
    BY <2>3, <2>4 DEF Top
  <2> QED BY <2>1, <2>2, <2>5
<1> DEFINE n == Top(t.size) - Read(c, t)
<1> DEFINE e == Top(t.size) - Pattern(expr.val, expr.type)
<1> DEFINE why == IF c.type # t THEN "stale type" ELSE "none"
<1>6. why = "none" => n \in Values(t) /\ n = e
  BY <1>5
<1>7. Become(Node(t, t, expr.const, expr.const, n), e, why)
  BY <1>4
<1> HIDE DEF n, e, why
<1> QED BY <1>2, <1>3, <1>6, <1>7, BecomesValue

LEMMA TermIsOk ==
  ASSUME NEW o, NodeOk(o), NEW term \in BOOLEAN, term => o.term
  PROVE  NodeOk([o EXCEPT !.term = term]) /\ [o EXCEPT !.term = term].val = o.val
<1>1. PICK t \in Type(Kinds), label \in Type(Kinds) :
        label.kind = t.kind /\ \E const, old, n : o = Node(t, label, const, old, n)
  BY Zenon DEF NodeOk, IsNode
<1>2. PICK const, old, n : o = Node(t, label, const, old, n)
  BY <1>1, Zenon
<1>3. [o EXCEPT !.term = term] = Node(t, label, const, term, n)
  BY <1>2 DEF Node
<1>4. IsNode(Node(t, label, const, term, n))
  BY <1>1, NodesAreNodes
<1>5. /\ o.type = t /\ o.label = label /\ o.const = const /\ o.val = n /\ o.term = old
      /\ \A x : /\ Node(t, label, const, x, n).type = t /\ Node(t, label, const, x, n).label = label
                /\ Node(t, label, const, x, n).const = const /\ Node(t, label, const, x, n).val = n
                /\ Node(t, label, const, x, n).term = x
  BY <1>2 DEF Node
<1>6. term => old
  BY <1>5
<1>7. NodeOk(Node(t, label, const, term, n))
  BY <1>4, <1>5, <1>6 DEF NodeOk
<1> QED BY <1>3, <1>5, <1>7

LEMMA PlusIsExact == VInv /\ Plus => VInv'
<1> SUFFICES ASSUME VInv, Plus PROVE VInv'
  OBVIOUS
<1>1. NodeOk(expr)
  BY ReadyIsOk DEF Plus
<1>2. /\ expr.label \in Type(Kinds) /\ expr.val \in Values(expr.type)
  BY <1>1, NodeFacts
<1> DEFINE n == Read(expr, expr.label)
<1> DEFINE why == IF expr.type # expr.label THEN "stale type" ELSE "none"
<1>3. \/ Become(Node(expr.label, expr.label, TRUE, TRUE, n), expr.val, why)
      \/ Become([expr EXCEPT !.term = FALSE], expr.val, "none")
  BY Zenon DEF Plus
<1>4. why = "none" => n \in Values(expr.label) /\ n = expr.val
  <2>1. ASSUME expr.type = expr.label PROVE n = expr.val
    BY <2>1, ReadsItself
  <2> HIDE DEF n
  <2> QED BY <1>2, <2>1
<1> HIDE DEF n, why
<1>5. ASSUME Become(Node(expr.label, expr.label, TRUE, TRUE, n), expr.val, why) PROVE VInv'
  <2>1. TRUE \in BOOLEAN
    OBVIOUS
  <2> QED BY <1>2, <1>4, <1>5, <2>1, BecomesValue
<1>6. ASSUME NEW term \in BOOLEAN, ~term, Become([expr EXCEPT !.term = term], expr.val, "none") PROVE VInv'
  <2>1. NodeOk([expr EXCEPT !.term = term]) /\ [expr EXCEPT !.term = term].val = expr.val
    BY <1>1, <1>6, TermIsOk
  <2> QED BY <1>6, <2>1, BecomeIsExact, Zenon
<1>7. FALSE \in BOOLEAN /\ ~FALSE
  OBVIOUS
<1> QED BY <1>3, <1>5, <1>6, <1>7, Zenon

\* What becomes of a variable.
LEMMA VariableIsExact ==
  ASSUME VInv, NEW x \in Variables, NEW n, NEW e, NEW why,
         Become(Node(x.type, x.type, FALSE, FALSE, n), e, why), why = "none" => n \in Values(x.type) /\ n = e
  PROVE  VInv'
<1>1. x.type \in Type(Kinds) /\ FALSE \in BOOLEAN
  BY VariablesAssumption
<1> QED BY <1>1, BecomesValue

LEMMA IncrementIsExact == VInv /\ Increment => VInv'
<1> SUFFICES ASSUME VInv, Increment PROVE VInv'
  OBVIOUS
<1>1. PICK x \in Variables, op \in IncrementOps :
        \/ Refuse(Literal(One), x.type)
        \/ Become(Node(x.type, x.type, FALSE, FALSE, Incremented(op, x.val, x.type)),
                  Incremented(op, x.val, x.type), "none")
  BY Zenon DEF Increment
<1> DEFINE n == Incremented(op, x.val, x.type)
<1>2. x.type \in Type(Kinds) /\ x.val \in Values(x.type) /\ x.val \in Int
  BY VariablesAssumption, ValuesAreNumbers
<1>3. Clamp(x.val + 1, x.type) \in Values(x.type) /\ Clamp(x.val - 1, x.type) \in Values(x.type)
  BY <1>2, Clamps
<1>4. n \in Values(x.type)
  BY <1>2, <1>3
  DEF Incremented, IncrementOps, PreIncrement, PreDecrement, PostIncrement, PostDecrement
<1> HIDE DEF n
<1> QED BY <1>1, <1>4, RefuseIsExact, VariableIsExact DEF n

LEMMA BitwiseAssignIsExact == VInv /\ BitwiseAssign => VInv'
<1> SUFFICES ASSUME VInv, BitwiseAssign PROVE VInv'
  OBVIOUS
<1>1. NodeOk(expr)
  BY ReadyIsOk DEF BitwiseAssign
<1>2. PICK x \in Variables, op \in BitwiseOps :
        \/ Stop("error")
        \/ Refuse(expr, x.type)
        \/ /\ x.type.kind = "Bits"
           /\ \E c \in CastTo(expr, x.type) :
                Become(Node(x.type, x.type, FALSE, FALSE, BitsApply(op, x.val, Read(c, x.type))),
                       BitsApply(op, x.val, Pattern(expr.val, expr.type) % TwoTo[x.type.size]),
                       IF c.type # x.type THEN "stale type" ELSE "none")
  BY DEF BitwiseAssign
<1> DEFINE t == x.type
<1>3. /\ t \in Type(Kinds) /\ x.val \in Values(t)
      /\ expr.type \in Type(Kinds) /\ expr.label \in Type(Kinds) /\ expr.val \in Values(expr.type)
  BY <1>1, VariablesAssumption, NodeFacts
<1>4. t.size \in 1 .. MAXBITSPERLONG /\ TwoTo[t.size] \in Nat \ {0}
  BY <1>3, SizesAreNumbers, Powers
<1>5. ASSUME t.kind = "Bits", NEW c \in CastTo(expr, t),
             Become(Node(t, t, FALSE, FALSE, BitsApply(op, x.val, Read(c, t))),
                    BitsApply(op, x.val, Pattern(expr.val, expr.type) % TwoTo[t.size]),
                    IF c.type # t THEN "stale type" ELSE "none")
      PROVE  VInv'
  <2> DEFINE n == BitsApply(op, x.val, Read(c, t))
  <2> DEFINE e == BitsApply(op, x.val, Pattern(expr.val, expr.type) % TwoTo[t.size])
  <2> DEFINE why == IF c.type # t THEN "stale type" ELSE "none"
  <2>1. Values(t) = 0 .. TwoTo[t.size] - 1
    BY <1>5 DEF Values, BitsValues
  <2>2. ASSUME c.type = t PROVE Read(c, t) = Pattern(expr.val, expr.type) % TwoTo[t.size] /\ Read(c, t) \in Values(t)
    <3>1. Read(c, t) = c.val
      BY <2>2, ReadsItself
    <3>2. CASE expr.type = t
      <4>1. c.val = expr.val
        <5>1. CASE expr.label = t
          BY <5>1 DEF CastTo
        <5>2. CASE expr.label # t
          <6>1. c = Again(expr)
            BY <3>2, <5>2 DEF CastTo, Again
          <6> QED BY <1>1, <6>1, AgainIsOk
        <5> QED BY <5>1, <5>2
      <4>2. Pattern(expr.val, expr.type) = expr.val
        BY <1>3, <1>5, <3>2, PatternsAreBits
      <4>3. expr.val \in 0 .. TwoTo[t.size] - 1
        BY <1>3, <2>1, <3>2
      <4>4. expr.val \in Nat /\ expr.val < TwoTo[t.size]
        BY <1>4, <4>3
      <4>5. expr.val % TwoTo[t.size] = expr.val
        BY <1>4, <4>4, SmallRemainder
      <4> QED BY <2>1, <3>1, <4>1, <4>2, <4>3, <4>5
    <3>3. CASE expr.type # t
      <4>1. expr.label # t
        BY <2>2, <3>3 DEF CastTo
      <4>2. PICK m \in Converted(expr.val, expr.type, t) : c = Node(t, t, expr.const, FALSE, m)
        BY <3>3, <4>1 DEF CastTo
      <4>3. m = Pattern(expr.val, expr.type) % TwoTo[t.size]
        BY <1>5 DEF Converted, BitsConverted
      <4>4. m \in Values(t)
        BY <1>3, ConvertedIsValue
      <4> QED BY <3>1, <4>2, <4>3, <4>4 DEF Node
    <3> QED BY <3>2, <3>3
  <2>3. ASSUME c.type = t PROVE n \in Values(t) /\ n = e
    <3>1. x.val \in 0 .. TwoTo[t.size] - 1 /\ Read(c, t) \in 0 .. TwoTo[t.size] - 1
      BY <1>3, <2>1, <2>2, <2>3
    <3>2. BitsApply(op, x.val, Read(c, t)) \in 0 .. TwoTo[t.size] - 1
      BY <1>4, <3>1, CombinedBits
    <3> QED BY <2>1, <2>2, <2>3, <3>2
  <2> HIDE DEF n, e
  <2>4. why = "none" => n \in Values(t) /\ n = e
    BY <2>3
  <2>5. Become(Node(t, t, FALSE, FALSE, n), e, why)
    BY <1>5 DEF n, e
  <2> HIDE DEF why
  <2> QED BY <2>4, <2>5, VariableIsExact
<1> QED BY <1>2, <1>5, StopIsExact, RefuseIsExact

\* Shifted bits stay within their size.
LEMMA MovedWithin ==
  ASSUME NEW op \in {"<<", ">>"}, NEW s \in Nat, NEW p \in 0 .. TwoTo[s] - 1, NEW d \in Nat
  PROVE  Moved(op, p, d, s) \in 0 .. TwoTo[s] - 1
<1>1. TwoTo[s] \in Nat \ {0} /\ TwoTo[d] \in Nat \ {0} /\ p \in Nat
  BY Powers
<1>2. CASE d >= s
  BY <1>1, <1>2 DEF Moved
<1>3. CASE d < s /\ op = "<<"
  <2>1. Moved(op, p, d, s) = (p * TwoTo[d]) % TwoTo[s]
    BY <1>3 DEF Moved
  <2>2. p * TwoTo[d] \in Int
    BY <1>1
  <2> QED BY <1>1, <2>1, <2>2, Division
<1>4. CASE d < s /\ op = ">>"
  <2>1. Moved(op, p, d, s) = p \div TwoTo[d]
    BY <1>4 DEF Moved
  <2>2. p \div TwoTo[d] \in Nat /\ p \div TwoTo[d] <= p
    BY <1>1, QuotientsOfPowers
  <2> QED BY <1>1, <2>1, <2>2
<1> QED BY <1>2, <1>3, <1>4

LEMMA ShiftAssignIsExact == VInv /\ ShiftAssign => VInv'
<1> SUFFICES ASSUME VInv, ShiftAssign PROVE VInv'
  OBVIOUS
<1>1. NodeOk(expr)
  BY ReadyIsOk DEF ShiftAssign
<1>2. PICK x \in Variables, op \in {"<<", ">>"} :
        \/ Stop("error")
        \/ Refuse(expr, Distance)
        \/ /\ x.type.kind = "Bits" /\ Safe(expr, Distance)
           /\ \E c \in AsDistance(expr) :
                Become(Node(x.type, x.type, FALSE, FALSE, Moved(op, x.val, c.val % TwoTo[x.type.size], x.type.size)),
                       Moved(op, x.val, c.val, x.type.size),
                       IF c.val >= TwoTo[x.type.size] THEN "cut distance" ELSE "none")
  BY DEF ShiftAssign
<1> DEFINE t == x.type
<1> DEFINE s == t.size
<1>3. t \in Type(Kinds) /\ x.val \in Values(t) /\ s \in Nat /\ TwoTo[s] \in Nat \ {0}
  BY VariablesAssumption, SizesAreNumbers, Powers
<1>4. ASSUME t.kind = "Bits", Safe(expr, Distance), NEW c \in AsDistance(expr),
             Become(Node(t, t, FALSE, FALSE, Moved(op, x.val, c.val % TwoTo[s], s)),
                    Moved(op, x.val, c.val, s),
                    IF c.val >= TwoTo[s] THEN "cut distance" ELSE "none")
      PROVE  VInv'
  <2>1. c.val \in Nat
    <3>1. c.type \in Type(Kinds) /\ c.val \in 0 .. TwoTo[c.type.size] - 1
      BY <1>1, <1>4, DistanceToShift
    <3> QED BY <3>1
  <2>2. x.val \in 0 .. TwoTo[s] - 1
    BY <1>3, <1>4 DEF Values, BitsValues
  <2> DEFINE n == Moved(op, x.val, c.val % TwoTo[s], s)
  <2> DEFINE e == Moved(op, x.val, c.val, s)
  <2> DEFINE why == IF c.val >= TwoTo[s] THEN "cut distance" ELSE "none"
  <2>3. ASSUME c.val < TwoTo[s] PROVE n \in Values(t) /\ n = e
    <3>1. c.val % TwoTo[s] = c.val
      BY <1>3, <2>1, <2>3, SmallRemainder
    <3>2. e \in 0 .. TwoTo[s] - 1
      BY <1>3, <2>1, <2>2, MovedWithin
    <3>3. e \in Values(t)
      BY <1>4, <3>2 DEF Values, BitsValues
    <3> HIDE DEF e
    <3> QED BY <3>1, <3>3 DEF e
  <2>4. Become(Node(t, t, FALSE, FALSE, n), e, why)
    BY <1>4
  <2> HIDE DEF n, e
  <2>5. why = "none" => n \in Values(t) /\ n = e
    BY <1>3, <2>1, <2>3
  <2> HIDE DEF why
  <2> QED BY <2>4, <2>5, VariableIsExact
<1> QED BY <1>2, <1>4, StopIsExact, RefuseIsExact

------------------------------------------------------------------------------
\* The branches of a choice.

\* A cast of a branch leaves what it means.
LEMMA BranchesKeepMeanings ==
  ASSUME NEW o, NodeOk(o), NEW t \in Type(Kinds), SafeBranch(o, t), NEW c \in CastTo(o, t)
  PROVE  /\ NodeOk(c) /\ c.type \in Type(Kinds) /\ c.type.kind = t.kind /\ c.label = t
         /\ c.val = Meaning(o, t)
<1>1. /\ o.type \in Type(Kinds) /\ o.label \in Type(Kinds) /\ o.label.kind = o.type.kind
      /\ o.val \in Values(o.type) /\ o.const \in BOOLEAN
  BY NodeFacts
<1>2. ASSUME o.type.kind = t.kind PROVE Meaning(o, t) = o.val
  <2>1. o.type.kind = "Bits" => Pattern(o.val, o.type) = o.val
    BY <1>1, PatternsAreBits
  <2> QED BY <1>2, <2>1 DEF Meaning
<1>3. CASE o.label = t
  <2>1. c = o
    BY <1>3 DEF CastTo
  <2> QED BY <1>1, <1>2, <1>3, <2>1
<1>4. CASE o.label # t /\ o.type = t
  <2>1. c = Again(o)
    BY <1>4 DEF CastTo, Again
  <2> QED BY <1>2, <1>4, <2>1, AgainIsOk
<1>5. CASE o.label # t /\ o.type # t
  <2>1. PICK n \in Converted(o.val, o.type, t) : c = Node(t, t, o.const, FALSE, n)
    BY <1>5 DEF CastTo
  <2>2. n \in Values(t)
    BY <1>1, ConvertedIsValue
  <2>3. NodeOk(c)
    BY <1>1, <2>1, <2>2, NodesAreOk
  <2>4. c.type = t /\ c.label = t /\ c.val = n
    BY <2>1 DEF Node
  <2>5. SafeCast(t, o.label)
    BY <1>5 DEF SafeBranch
  <2>6. n = Meaning(o, t)
    <3>1. CASE t.kind = "Bits"
      <4>1. o.label.size <= t.size
        BY <1>1, <2>5, <3>1, SizesAreNumbers DEF SafeCast, BitsSafeCast
      <4>2. n = Pattern(o.val, o.type)
        BY <3>1, <4>1, LabelsHavePatterns
      <4> QED BY <3>1, <4>2 DEF Meaning
    <3>2. CASE t.kind # "Bits"
      <4>1. o.label.kind # "Bits" /\ Values(o.label) \subseteq Values(t)
        BY <1>1, <2>5, <3>2, SafeCastsLoseNothing
      <4>2. o.label.kind \in Numeric \/ o.label.kind = "Bool"
        BY <1>1, <4>1, SizesAreNumbers DEF Kinds
      <4>3. o.val \in Values(t)
        BY <1>1, <4>1, <4>2, NodeFacts
      <4>4. n = o.val
        BY <1>1, <3>2, <4>1, <4>3, ConvertedKeeps
      <4> QED BY <3>2, <4>4 DEF Meaning
    <3> QED BY <3>1, <3>2
  <2> QED BY <1>1, <2>3, <2>4, <2>6
<1> QED BY <1>3, <1>4, <1>5

\* Words of sizes.
LEMMA WordsOfSizes ==
  ASSUME NEW a \in Nat, NEW b \in Nat, NEW s \in Nat
  PROVE  /\ a <= b => WordSize(a) <= WordSize(b)
         /\ WordSize(a) <= WordSize(s) /\ WordSize(b) <= WordSize(s)
              => WordSize(Larger(a, b)) <= WordSize(s)
<1>1. /\ MAXBITSPERINT \in Nat /\ MAXBITSPERLONG \in Nat /\ MAXBITSPERINT <= MAXBITSPERLONG
  BY WordsAssumption
<1>2. \A n : WordSize(n) = IF n <= MAXBITSPERINT THEN MAXBITSPERINT ELSE MAXBITSPERLONG
  BY DEF WordSize
<1>3. Larger(a, b) = a \/ Larger(a, b) = b
  BY DEF Larger
<1> QED BY <1>1, <1>2, <1>3

\* The next pass finds no larger type for the casts than the first one did.
LEMMA NextTypeIsNoLarger ==
  ASSUME NEW t \in Type(Kinds), NEW l \in Type(Kinds), NEW r \in Type(Kinds),
         l.kind = t.kind, r.kind = t.kind,
         WordSize(l.size) <= WordSize(t.size), WordSize(r.size) <= WordSize(t.size),
         t.kind # "Bits" => l.size <= t.size /\ r.size <= t.size
  PROVE  LET again == BranchType(l, r)
         IN /\ again \in Type(Kinds) /\ again.kind = t.kind
            /\ t.kind \in Numeric => again.size <= t.size
            /\ t.kind = "Bits" => WordSize(again.size) <= WordSize(t.size)
<1> DEFINE again == BranchType(l, r)
<1>1. again \in Type(Kinds) /\ again.kind = t.kind
  BY BranchTypeIsType
<1>2. l.size \in Nat \ {0} /\ r.size \in Nat \ {0} /\ t.size \in Nat \ {0} /\ WordSize(t.size) \in Nat
  BY SizesAreNumbers, WordsAreSizes
<1>3. CASE l = r
  <2>1. again = l
    BY <1>3 DEF BranchType
  <2> QED BY <1>1, <2>1 DEF Numeric
<1>4. CASE l # r /\ t.kind = "Bits"
  <2>1. again = WidestBits(l, r)
    BY <1>4 DEF BranchType
  <2>2. again.size = Larger(l.size, r.size)
    BY <2>1 DEF WidestBits, TypeOf
  <2>3. WordSize(again.size) <= WordSize(t.size)
    BY <1>2, <2>2, WordsOfSizes
  <2> HIDE DEF again
  <2> QED BY <1>1, <1>4, <2>3 DEF again, Numeric
<1>5. CASE l # r /\ t.kind \in Numeric
  <2>1. again = TypeOf(l.kind, WidestSize(l, r))
    BY <1>5 DEF BranchType, Numeric
  <2>2. again.size = WidestSize(l, r)
    BY <2>1 DEF TypeOf
  <2>3. SideSize(l, r) <= t.size /\ SideSize(r, l) <= t.size /\ SideSize(l, r) \in Nat /\ SideSize(r, l) \in Nat
    <3>1. SideSize(l, r) = CountedSize(l) /\ SideSize(r, l) = CountedSize(r)
      BY DEF SideSize
    <3>2. \A n \in 1 .. MAXBITSPERLONG : LogBase2(n) \in Nat /\ LogBase2(n) + 1 <= n
      <4> TAKE n \in 1 .. MAXBITSPERLONG
      <4>1. n \in Nat \ {0} /\ n <= MAXBITSPERLONG
        BY WordsAssumption
      <4>2. LogBase2(n) \in Nat /\ TwoTo[LogBase2(n)] <= n
        BY <4>1, LogarithmOf
      <4>3. LogBase2(n) < TwoTo[LogBase2(n)] /\ TwoTo[LogBase2(n)] \in Nat
        BY <4>2, NumbersAreLess, Powers
      <4> QED BY <4>1, <4>2, <4>3
    <3>3. l.size \in 1 .. MAXBITSPERLONG /\ r.size \in 1 .. MAXBITSPERLONG
      BY SizesAreNumbers
    <3>4. l.size <= t.size /\ r.size <= t.size
      BY <1>5 DEF Numeric
    <3> QED BY <1>2, <3>1, <3>2, <3>3, <3>4 DEF CountedSize
  <2>4. ResultWord(l, r) \in Nat
    BY ResultWords, WordsAssumption
  <2>5. WidestSize(l, r) <= t.size
    BY <1>2, <2>3, <2>4 DEF WidestSize, Smaller, Larger
  <2> QED BY <1>1, <1>5, <2>2, <2>5 DEF Numeric
<1>6. CASE t.kind = "Bool"
  BY <1>1, <1>6 DEF Numeric
<1>7. t.kind \in Kinds
  BY SizesAreNumbers
<1> QED BY <1>3, <1>4, <1>5, <1>6, <1>7 DEF Kinds

\* What a cast returned fits the type that it was asked for.
LEMMA CastsFit ==
  ASSUME NEW c, NodeOk(c)
  PROVE  /\ WordSize(c.type.size) <= WordSize(c.label.size)
         /\ c.label.kind # "Bits" => c.type.size <= c.label.size
         /\ c.label.kind = "Bits" => c.val \in Values(c.label)
<1>1. /\ c.type \in Type(Kinds) /\ c.label \in Type(Kinds) /\ c.label.kind = c.type.kind
      /\ c.val \in Values(c.type) /\ c.type.kind \in Kinds
      /\ c.type.size \in Nat /\ c.label.size \in Nat /\ WordSize(c.type.size) \in Nat
  BY NodeFacts, SizesAreNumbers, WordsAreSizes
<1>2. CASE c.label = c.type
  BY <1>1, <1>2
<1>3. CASE c.label # c.type /\ c.type.kind \in Numeric /\ c.type.size <= c.label.size
  BY <1>1, <1>3, WordsOfSizes DEF Numeric
<1>4. CASE c.type.kind = "Bits" /\ c.val \in Values(c.label) /\ WordSize(c.type.size) <= WordSize(c.label.size)
  BY <1>1, <1>4
<1> QED BY <1>2, <1>3, <1>4 DEF NodeOk

LEMMA ChooseIsExact ==
  ASSUME VInv, NEW o, NEW c, NodeOk(c), NEW const \in BOOLEAN,
         NEW t \in Type(Kinds), NEW first \in Type(Kinds), first.kind = t.kind,
         ~const => /\ c.label = t /\ c.type = t
                   /\ t = first \/ (t.kind \in Numeric /\ t.size <= first.size)
                        \/ (t.kind = "Bits" /\ c.val \in Values(first) /\ WordSize(t.size) <= WordSize(first.size)),
         c.val = Meaning(o, t), Choose(o, c, const, t, first)
  PROVE  VInv'
<1>1. Become(IF const THEN Again(c) ELSE Node(t, first, FALSE, FALSE, c.val), Meaning(o, t), "none")
  BY DEF Choose
<1>2. CASE const
  <2>1. NodeOk(Again(c)) /\ Again(c).val = c.val
    BY AgainIsOk
  <2>2. Become(Again(c), Meaning(o, t), "none")
    BY <1>1, <1>2
  <2> QED BY <2>1, <2>2, BecomeIsExact
<1>3. CASE ~const
  <2>1. c.val \in Values(t)
    BY <1>3, NodeFacts
  <2>2. IsNode(Node(t, first, FALSE, FALSE, c.val))
    BY NodesAreNodes
  <2>3. NodeOk(Node(t, first, FALSE, FALSE, c.val)) /\ Node(t, first, FALSE, FALSE, c.val).val = c.val
    BY <1>3, <2>1, <2>2 DEF NodeOk, Node
  <2>4. Become(Node(t, first, FALSE, FALSE, c.val), Meaning(o, t), "none")
    BY <1>1, <1>3
  <2> QED BY <2>3, <2>4, BecomeIsExact
<1> QED BY <1>2, <1>3

\* The second pass casts what the first one cast: the value stays.
LEMMA NextCastsKeepMeanings ==
  ASSUME NEW o, NodeOk(o), o.type.kind = o.label.kind, NEW t \in Type(Kinds), t.kind = o.label.kind,
         SafeBranch(Again(o), t), NEW c \in CastTo(Again(o), t)
  PROVE  NodeOk(c) /\ c.type = t /\ c.label = t /\ c.val = o.val
<1>1. NodeOk(Again(o)) /\ Again(o).label = o.type /\ Again(o).type = o.type /\ Again(o).val = o.val
  BY AgainIsOk
<1>2. NodeOk(c) /\ c.label = t /\ c.val = Meaning(Again(o), t)
  BY <1>1, BranchesKeepMeanings
<1>3. c.type = t
  <2>1. CASE o.type = t
    BY <1>1, <2>1 DEF CastTo
  <2>2. CASE o.type # t
    <3>1. PICK n : c = Node(t, t, Again(o).const, FALSE, n)
      BY <1>1, <2>2 DEF CastTo
    <3> QED BY <3>1 DEF Node
  <2> QED BY <2>1, <2>2
<1>4. Meaning(Again(o), t) = o.val
  <2>1. o.type \in Type(Kinds) /\ o.val \in Values(o.type)
    BY NodeFacts
  <2>2. t.kind = "Bits" => Pattern(o.val, o.type) = o.val
    BY <2>1, PatternsAreBits
  <2> QED BY <1>1, <2>2 DEF Meaning
<1> QED BY <1>2, <1>3, <1>4

LEMMA CastBranchesIsExact ==
  ASSUME VInv, NEW b, NEW const \in BOOLEAN, NEW l, NEW r, NodeOk(l), NodeOk(r),
         NEW t \in Type(Kinds), SafeBranch(l, t), SafeBranch(r, t),
         t.kind = "Bool" => l.label = t /\ r.label = t,
         CastBranches(b, const, l, r, t)
  PROVE  VInv'
<1>1. PICK cl \in CastTo(l, t), cr \in CastTo(r, t) :
        LET chosen == IF b = 1 THEN cl ELSE cr
            again == BranchType(cl.type, cr.type)
        IN CASE const -> Choose(IF b = 1 THEN l ELSE r, chosen, TRUE, t, t)
             [] ~const /\ ~(SafeBranch(Again(cl), again) /\ SafeBranch(Again(cr), again)) ->
                  \E o \in {Again(cl), Again(cr)} : ~SafeBranch(o, again) /\ RefuseBranch(o, again)
             [] OTHER ->
                  \E c \in CastTo(Again(chosen), again) :
                    Choose(IF b = 1 THEN l ELSE r, c, FALSE, again, t)
  BY Zenon DEF CastBranches
<1> DEFINE chosen == IF b = 1 THEN cl ELSE cr
<1> DEFINE branch == IF b = 1 THEN l ELSE r
<1> DEFINE again == BranchType(cl.type, cr.type)
<1>2. /\ NodeOk(cl) /\ cl.type \in Type(Kinds) /\ cl.type.kind = t.kind /\ cl.label = t /\ cl.val = Meaning(l, t)
      /\ NodeOk(cr) /\ cr.type \in Type(Kinds) /\ cr.type.kind = t.kind /\ cr.label = t /\ cr.val = Meaning(r, t)
  BY BranchesKeepMeanings
<1>3. NodeOk(chosen) /\ chosen.type.kind = t.kind /\ chosen.label = t /\ chosen.val = Meaning(branch, t)
  BY <1>2
<1>4. /\ again \in Type(Kinds) /\ again.kind = t.kind
      /\ t.kind \in Numeric => again.size <= t.size
      /\ t.kind = "Bits" => WordSize(again.size) <= WordSize(t.size)
  BY <1>2, CastsFit, NextTypeIsNoLarger
<1>5. t.kind = "Bool" => again = t
  <2>1. ASSUME t.kind = "Bool" PROVE cl.type = t /\ cr.type = t
    BY <1>2, <2>1, NodeFacts
  <2> QED BY <2>1 DEF BranchType
<1>6. \/ Choose(branch, chosen, TRUE, t, t)
      \/ \E o : RefuseBranch(o, again)
      \/ /\ SafeBranch(Again(cl), again) /\ SafeBranch(Again(cr), again)
         /\ \E c \in CastTo(Again(chosen), again) : Choose(branch, c, FALSE, again, t)
  BY <1>1
<1>7. SafeBranch(Again(cl), again) /\ SafeBranch(Again(cr), again) => SafeBranch(Again(chosen), again)
  OBVIOUS
<1> HIDE DEF chosen, branch, again
<1>8. ASSUME NEW o, RefuseBranch(o, again) PROVE VInv'
  BY <1>8, RefuseIsExact DEF RefuseBranch
<1>9. ASSUME NEW yes \in BOOLEAN, yes, Choose(branch, chosen, yes, t, t) PROVE VInv'
  BY <1>3, <1>9, ChooseIsExact
<1>10. ASSUME SafeBranch(Again(chosen), again), NEW c \in CastTo(Again(chosen), again),
              NEW no \in BOOLEAN, ~no, Choose(branch, c, no, again, t)
       PROVE  VInv'
  <2>1. NodeOk(c) /\ c.type = again /\ c.label = again /\ c.val = chosen.val
    BY <1>3, <1>4, <1>10, NextCastsKeepMeanings
  <2>2. c.val = Meaning(branch, again)
    BY <1>3, <1>4, <2>1 DEF Meaning
  <2>3. t.kind = "Bits" => c.val \in Values(t)
    BY <1>3, <2>1, CastsFit
  <2>4. t.kind \in Numeric \/ t.kind = "Bool" \/ t.kind = "Bits"
    BY SizesAreNumbers DEF Kinds
  <2>5. \/ again = t \/ (again.kind \in Numeric /\ again.size <= t.size)
        \/ (again.kind = "Bits" /\ c.val \in Values(t) /\ WordSize(again.size) <= WordSize(t.size))
    BY <1>4, <1>5, <2>3, <2>4
  <2> QED BY <1>4, <1>10, <2>1, <2>2, <2>5, ChooseIsExact
<1>11. TRUE \in BOOLEAN /\ FALSE \in BOOLEAN /\ ~FALSE /\ TRUE
  OBVIOUS
<1> QED BY <1>6, <1>7, <1>8, <1>9, <1>10, <1>11, Zenon

LEMMA ConditionalIsExact == VInv /\ Conditional => VInv'
<1> SUFFICES ASSUME VInv, Conditional PROVE VInv'
  OBVIOUS
<1>1. PICK p \in Pairs, b \in {0, 1}, const \in BOOLEAN :
        LET l == p[1]
            r == p[2]
            t == BranchType(l.label, r.label)
        IN CASE HasNoSize(l.label, r.label) -> Stop("aborted")
             [] ~HasNoSize(l.label, r.label) /\ ~(SafeBranch(l, t) /\ SafeBranch(r, t)) ->
                  \E o \in {l, r} : ~SafeBranch(o, t) /\ RefuseBranch(o, t)
             [] OTHER -> CastBranches(b, const, l, r, t)
  BY Zenon DEF Conditional, Abort
<1> DEFINE l == p[1]
<1> DEFINE r == p[2]
<1> DEFINE t == BranchType(l.label, r.label)
<1>2. NodeOk(l) /\ NodeOk(r)
  BY ReadyIsOk, PairsAreOk DEF Conditional
<1>3. \/ Stop("aborted")
      \/ \E o : RefuseBranch(o, t)
      \/ /\ ~HasNoSize(l.label, r.label) /\ SafeBranch(l, t) /\ SafeBranch(r, t)
         /\ CastBranches(b, const, l, r, t)
  BY <1>1
<1>4. l.label \in Type(Kinds) /\ r.label \in Type(Kinds)
  BY <1>2, NodeFacts
<1>5. ASSUME ~HasNoSize(l.label, r.label)
      PROVE  t \in Type(Kinds) /\ (t.kind = "Bool" => l.label = t /\ r.label = t)
  <2>1. t \in Type(Kinds)
    BY <1>4, <1>5, BranchTypeIsType
  <2>2. CASE l.label = r.label
    BY <2>1, <2>2 DEF BranchType
  <2>3. CASE l.label # r.label
    <3>1. CASE "Bits" \in {l.label.kind, r.label.kind}
      <4>1. t.kind = "Bits"
        BY <1>4, <1>5, <3>1, BranchTypeIsType
      <4> QED BY <2>1, <4>1
    <3>2. CASE "Bits" \notin {l.label.kind, r.label.kind}
      <4>1. l.label.kind # "Bool" /\ r.label.kind # "Bool"
        BY <1>5, <2>3, <3>2 DEF HasNoSize
      <4>2. t.kind # "Bool"
        <5>1. CASE l.label.kind = r.label.kind
          <6>1. t.kind = l.label.kind
            BY <1>4, <5>1, BranchTypeIsType
          <6> QED BY <4>1, <6>1
        <5>2. CASE l.label.kind # r.label.kind
          BY <2>3, <3>2, <5>2 DEF BranchType, ResultType, ResultKind, TypeOf
        <5> QED BY <5>1, <5>2
      <4> QED BY <2>1, <4>2
    <3> QED BY <3>1, <3>2
  <2> QED BY <2>2, <2>3
<1> HIDE DEF l, r, t
<1>6. ASSUME ~HasNoSize(l.label, r.label), SafeBranch(l, t), SafeBranch(r, t), CastBranches(b, const, l, r, t)
      PROVE  VInv'
  BY <1>2, <1>5, <1>6, CastBranchesIsExact
<1>7. ASSUME NEW o, RefuseBranch(o, t) PROVE VInv'
  BY <1>7, RefuseIsExact DEF RefuseBranch
<1> QED BY <1>3, <1>6, <1>7, StopIsExact, Zenon

LEMMA ConditionIsExact == VInv /\ Condition => VInv'
<1> SUFFICES ASSUME VInv, Condition PROVE VInv'
  OBVIOUS
<1>1. NodeOk(expr)
  BY ReadyIsOk DEF Condition
<1>2. PICK x \in Variables, y \in Variables :
        \/ RefuseBranch(expr, DefaultBool)
        \/ /\ SafeBool(expr.label)
           /\ \E c \in CastTo(expr, DefaultBool) :
                Become(Variable(IF c.val = 1 THEN x ELSE y), IF expr.val = 1 THEN x.val ELSE y.val, "none")
  BY Zenon DEF Condition
<1>3. ASSUME SafeBool(expr.label), NEW c \in CastTo(expr, DefaultBool),
             Become(Variable(IF c.val = 1 THEN x ELSE y), IF expr.val = 1 THEN x.val ELSE y.val, "none")
      PROVE  VInv'
  <2>1. c.val = expr.val
    BY <1>1, <1>3, DefaultBoolIsType, TruthsAreKept
  <2> DEFINE z == IF c.val = 1 THEN x ELSE y
  <2>2. z \in Variables /\ z.val = IF expr.val = 1 THEN x.val ELSE y.val
    BY <2>1
  <2>3. Become(Variable(z), z.val, "none")
    BY <1>3, <2>2
  <2> HIDE DEF z
  <2>4. Variable(z) \in Operands /\ Variable(z).val = z.val
    BY <2>2 DEF Operands, Variable, Node
  <2> QED BY <2>3, <2>4, OperandsAreOk, BecomeIsExact
<1>4. ASSUME RefuseBranch(expr, DefaultBool) PROVE VInv'
  BY <1>4, RefuseIsExact DEF RefuseBranch
<1> QED BY <1>2, <1>3, <1>4

\* ValueIsExact: what is accepted has the value that it has without any sizes,
\* unless one of the four hazards was met, whatever the variables, the literals
\* and the number of operators are (every resultBitsize and safeCast, and the
\* casts that are made before the operands are combined).
THEOREM ValuesAreExact == FullSpec => []ValueIsExact
<1>1. Init => VInv
  <2> SUFFICES ASSUME Init PROVE NodeOk(expr) /\ expr.val = exact
    BY DEF VInv
  <2> QED BY OperandsAreOk DEF Init
<1>2. VInv /\ [FullNext]_vars => VInv'
  <2> SUFFICES ASSUME VInv, [FullNext]_vars PROVE VInv'
    OBVIOUS
  <2>1. CASE UNCHANGED vars
    BY <2>1, NothingChanges DEF vars
  <2> QED
    BY <2>1, NextIsExact, BitwiseBinaryIsExact, LogicalIsExact, BangIsExact, TwiddleIsExact, PlusIsExact,
       IncrementIsExact, BitwiseAssignIsExact, ShiftAssignIsExact, ConditionalIsExact, ConditionIsExact
    DEF FullNext
<1>3. VInv => ValueIsExact
  BY Zenon DEF VInv, ValueIsExact
<1> QED BY <1>1, <1>2, <1>3, PTL DEF FullSpec
==============================================================================
