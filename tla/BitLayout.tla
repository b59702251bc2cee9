------------------------------ MODULE BitLayout ------------------------------
(***************************************************************************)
(* Where the bits of a class are, and what is in them.  A class is packed  *)
(* when something asks for it: its data members and its base classes get   *)
(* their positions.  Its default value is put together from those of its   *)
(* members, of the constants it declares and of its base classes; each of  *)
(* them may have to be packed and built first.  Both are tried while the   *)
(* classes are labelled, for a constant whose type is a class, when some   *)
(* of the classes have no size and some no types yet; and once more for    *)
(* every class in the passes behind the loop.                              *)
(* A bit is named for the value it belongs to: <<c, i, k>> is bit k of the *)
(* value that class c gives its data member i, <<c, -j, k>> bit k of entry *)
(* j of the list of its constant, << >> a bit that nothing has written.    *)
(***************************************************************************)
EXTENDS ClassSizing

UNRELIABLEPOS == 9999

(***************************************************************************)
(* A class may declare one constant whose type is a class,                 *)
(*     constant D k = { .x = ... };                                        *)
(* behind its data members.  The list names primitive data members of D,   *)
(* its own and inherited ones, <<b, i>> being member i of class b.         *)
(* The classes are numbered in the order of their types, which is that of  *)
(* a set of base classes.                                                  *)
(***************************************************************************)
NoObject == [of |-> 0, list |-> << >>]

Inherits(p, c, b) ==
  \A S \in SUBSET Class : c \in S /\ (\A d \in S : ToSet(p.bases[d]) \subseteq S) => b \in S

Lists(p, c, e) ==
  /\ e[1] \in Class /\ Inherits(p, p.object[c].of, e[1]) /\ e[2] \in DOMAIN p.members[e[1]]
  /\ p.members[e[1]][e[2]].kind \in {"int", "sizeof", "const"}

ASSUME ObjectsAssumption ==
  /\ Class \subseteq Nat \ {0}
  /\ \A p \in Programs :
       \A c \in Class : \/ p.object[c] = NoObject
                        \/ /\ p.object[c].of \in Class
                           /\ p.object[c].list \in Seq(Class \X Nat)
                           /\ \A e \in ToSet(p.object[c].list) : Lists(p, c, e)

VARIABLES
  pos,      \* the position of each data member in its class
  rel,      \* the position of the base classes in each class
  packed,   \* m_bitsPacked
  ready,    \* m_isreadyDefaultValue
  value,    \* m_defaultValue
  object    \* the value of the constant of each class: none till it is ready

layout == <<pos, rel, packed, ready, value, object>>
allvars == <<vars, layout>>

HoldsClass(m) == m.kind \in {"class", "array"}
HasObject(c) == prog.object[c] # NoObject

Width(m) == CASE m.kind = "int" -> m.n
              [] m.kind = "const" -> konst[m.of]
              [] m.kind = "array" -> m.n * bits[m.of]
              [] OTHER -> bits[m.of]

(***************************************************************************)
(* Packing and building call each other.  They take the layout so far and  *)
(* leave another: with the members whose types are known, the class whose  *)
(* constant is being folded, the classes whose default values are being    *)
(* built, the WAIT messages and errors given, and whether it went well.    *)
(***************************************************************************)
Bit == (Class \X Int \X Int) \cup {<< >>}

Layout ==
  [pos : [Class -> Seq(Int)], rel : [Class -> [Class -> Int]], packed : SUBSET Class,
   ready : SUBSET Class, value : [Class -> Seq(Bit)], object : [Class -> Seq(Seq(Bit))],
   known : [Class -> SUBSET Nat], folding : Class \cup {0}, building : SUBSET Class,
   waits : Nat, errors : Nat, ok : BOOLEAN]

\* There is a position for each member, and a value that is ready is all there.
Layouts ==
  {t \in Layout : \A c \in Class : /\ Len(t.pos[c]) = Len(members[c])
                                   /\ t.known[c] \subseteq DOMAIN members[c]
                                   /\ c \in t.ready => Len(t.value[c]) = bits[c]}

LayoutNow(k, c) ==
  [pos |-> pos, rel |-> rel, packed |-> packed, ready |-> ready, value |-> value,
   object |-> object, known |-> k, folding |-> c, building |-> {},
   waits |-> 0, errors |-> 0, ok |-> TRUE]

Good(t) == [t EXCEPT !.ok = TRUE]
NotReady(t) == [t EXCEPT !.ok = FALSE]
Wait(t) == [t EXCEPT !.ok = FALSE, !.waits = @ + 1]
Err(t) == [t EXCEPT !.ok = FALSE, !.errors = @ + 1]

\* What failed before is not mended by what is done after it.
And(t, u) == [u EXCEPT !.ok = @ /\ t.ok]

Ascending(S) ==
  CHOOSE s \in [1 .. Cardinality(S) -> S] : \A i, j \in DOMAIN s : i < j => s[i] < s[j]

\* The base classes of c, the direct ones first, then the others as in a set.
InOrder(c) == bases[c] \o Ascending(BaseSet(c) \ ToSet(bases[c]))

\* The steps 1 .. n one after the other, each on what the one before has left.
InTurn(step, t, n) ==
  LET left[i \in 0 .. n] == IF i = 0 THEN t ELSE step[<<i, left[i - 1]>>]
  IN  left[n]

-----------------------------------------------------------------------------
BitsOf(c, I) == SumFunction([i \in I |-> Width(members[c][i])])
BaseBits(B) == SumFunction([b \in B |-> base[b]])

\* Where member i of class c begins, if the members in K have types.
Offset(c, i, K) == IF c \in prog.unions THEN 0 ELSE BitsOf(c, {j \in K : j < i})

\* The base classes of c before b.
Before(c, b) ==
  {InOrder(c)[j] : j \in {j \in DOMAIN InOrder(c) : \A k \in 1 .. j : InOrder(c)[k] # b}}

(***************************************************************************)
(* packBitsForVariableDataMembers: the data members in their order, those  *)
(* of a union on top of each other; the direct base classes in their       *)
(* order; the other ones in the order of their types.  A member whose type *)
(* is not known is passed over and takes no room.                          *)
(***************************************************************************)
PackBits(t, c) ==
  LET K == t.known[c]
      all == K = DOMAIN members[c]
  IN  [t EXCEPT !.pos[c] = [i \in DOMAIN @ |-> IF i \in K THEN Offset(c, i, K) ELSE @[i]],
                !.rel[c] = [b \in Class |->
                              IF b \in BaseSet(c)
                              THEN Offset(c, Len(members[c]) + 1, K) + BaseBits(Before(c, b))
                              ELSE @[b]],
                !.packed = IF all THEN @ \cup {c} ELSE @,
                !.ok = all]

\* packBitsForClassVariableDataMembers: once packed, for ever.
PackClass(t, c) ==
  IF c \in t.packed THEN Good(t) ELSE IF IsComplete(c) THEN PackBits(t, c) ELSE NotReady(t)

\* A class, then its base classes, depth first, as long as it goes well.
Hierarchy(t, c, pack) ==
  LET bs == bases[c]
      PackBase == [x \in (DOMAIN bs) \X Layouts |-> pack[<<bs[x[1]], x[2]>>]]
  IN  IF IsComplete(c)
      THEN InTurn(PackBase, IF t.ok /\ bits[c] # 0 THEN PackClass(t, c) ELSE t, Len(bs))
      ELSE NotReady(t)

PackHierarchy[x \in Class \X Layouts] == Hierarchy(x[2], x[1], PackHierarchy)

TryToPackAClassHierarchy(t, c) == PackHierarchy[<<c, Good(t)>>]

-----------------------------------------------------------------------------
\* Bits, and how many of those of a value are before the place they go to.
Patch(w, n) == [bits |-> w, at |-> n]

\* CopyBV: the patches are copied into v, and a later one over an earlier one.
Patched(v, patches) ==
  LET On(k) == {j \in DOMAIN patches : k - patches[j].at \in DOMAIN patches[j].bits}
      Bit_(p, k) == p.bits[k - p.at]
  IN  [k \in DOMAIN v |-> IF On(k) = {} THEN v[k] ELSE Bit_(patches[Max(On(k))], k)]

\* The value of member i of class c in its default value.
MemberValue(t, c, i) ==
  LET m == members[c][i]
  IN  [k \in 1 .. Width(m) |->
         IF HoldsClass(m) THEN t.value[m.of][1 + ((k - 1) % bits[m.of])] ELSE <<c, i, k>>]

\* What buildDefaultValue writes once all the parts are there: of a base class
\* only the bits of its own data members.
DefaultValue(t, c) ==
  LET Own(i) == Patch(MemberValue(t, c, i), t.pos[c][i])
      Inherited(b) == Patch(SubSeq(t.value[b], 1, base[b]), t.rel[c][b])
  IN  Patched([k \in 1 .. bits[c] |-> << >>],
              [i \in DOMAIN members[c] |-> Own(i)]
                \o [j \in DOMAIN InOrder(c) |-> Inherited(InOrder(c)[j])])

Reliable(t, c, i) == t.pos[c][i] # UNRELIABLEPOS

\* Class d is packed if that may give member i of class c its position.
Place(t, c, i, d) == IF Reliable(t, c, i) THEN t ELSE TryToPackAClassHierarchy(t, d)

\* buildDefaultValue of a data member: a class it holds is tried first, then
\* the class that it belongs to.  Its default value is had by get.
BuildMember(t, c, i, get) ==
  LET m == members[c][i]
      Placed(s) == IF ~ Reliable(s, c, i) THEN NotReady(s)
                   ELSE IF HoldsClass(m) THEN get[<<m.of, s>>] ELSE Good(s)
  IN  Placed(Place(IF HoldsClass(m) THEN Place(t, c, i, m.of) ELSE t, c, i, c))

\* Mutant: an inherited member is taken for one of the class itself.
BugNoBasePosition(t, d, e) == t.pos[e[1]][e[2]]

\* The position of member e in class d; an inherited one is looked for without
\* its base class if that has no position.
PositionIn(t, d, e) ==
  t.pos[e[1]][e[2]] + (IF e[1] = d \/ t.rel[d][e[1]] = Unknown THEN 0 ELSE t.rel[d][e[1]])

\* initDataMembersConstantValue: the listed values replace the default ones; a
\* bit may be listed only once.
InitDataMembers(t, c) ==
  LET d == prog.object[c].of
      list == prog.object[c].list
      At(j) == PositionIn(t, d, list[j])
      Size(j) == Width(members[list[j][1]][list[j][2]])
      Room(j) == At(j) + 1 .. At(j) + Size(j)
      Listed(j) == Patch([k \in 1 .. Size(j) |-> <<c, 0 - j, k>>], At(j))
  IN  IF \E e \in ToSet(list) : t.pos[e[1]][e[2]] = UNRELIABLEPOS THEN NotReady(t)
      ELSE IF \E i, j \in DOMAIN list : i < j /\ Room(i) \cap Room(j) # {} THEN Err(t)
      ELSE [t EXCEPT !.object[c] = <<Patched(t.value[d], [j \in DOMAIN list |-> Listed(j)])>>,
                     !.ok = TRUE]

\* buildDefaultValueForClassConstantDefs of the constant of class c.
BuildConstant(t, c, get) ==
  LET u == get[<<prog.object[c].of, t>>]
  IN  IF t.object[c] # << >> THEN Good(t) ELSE IF u.ok THEN InitDataMembers(u, c) ELSE u

\* buildDefaultValue of the constant: it has no type before it was folded.
BuildMemberConstant(t, c, get) ==
  LET u == BuildConstant(t, c, get)
  IN  IF ~ HasObject(c) THEN Good(t)
      ELSE IF t.object[c] = << >> /\ c # t.folding THEN Wait(t)
      ELSE IF u.ok THEN u ELSE Err(u)

\* buildDefaultValue of the class block.  All the members are tried, also after
\* one that is not ready; then the base classes.
BuildMembers(t, c, get) ==
  LET Build == [x \in (DOMAIN members[c]) \X Layouts |-> And(x[2], BuildMember(x[2], c, x[1], get))]
  IN  InTurn(Build, t, Len(members[c]))

BuildBases(t, c, get) ==
  LET bs == InOrder(c)
      Build == [x \in (DOMAIN bs) \X Layouts |-> And(x[2], get[<<bs[x[1]], x[2]>>])]
  IN  InTurn(Build, t, Len(bs))

BuildDefaultValue(t, c, get) ==
  LET inside == BuildMembers([Good(t) EXCEPT !.building = @ \cup {c}], c, get)
      outside == [And(inside, BuildMemberConstant(inside, c, get)) EXCEPT !.building = @ \ {c}]
  IN  IF c \in t.building THEN Err(t)
      ELSE IF outside.ok THEN BuildBases(outside, c, get) ELSE Wait(outside)

\* getDefaultValue of class c: once built, for ever.
GetDefaultValue(t, c, get) ==
  LET u == IF bits[c] = 0 THEN Good(t) ELSE BuildDefaultValue(t, c, get)
  IN  IF c \in t.ready THEN Good(t)
      ELSE IF ~ IsComplete(c) THEN Wait(t)
      ELSE IF u.ok THEN [u EXCEPT !.ready = @ \cup {c}, !.value[c] = DefaultValue(u, c)]
      ELSE u

\* getDefaultClassValue: a class without bits has no value to wait for.
ClassValue(t, c, get) ==
  LET u == PackClass(t, c)
  IN  IF bits[c] = 0 THEN Good(t) ELSE IF u.ok THEN GetDefaultValue(u, c, get) ELSE u

GetDefaultClassValue[x \in Class \X Layouts] == ClassValue(x[2], x[1], GetDefaultClassValue)

-----------------------------------------------------------------------------
LayoutIs(t) ==
  /\ pos' = t.pos /\ rel' = t.rel /\ packed' = t.packed
  /\ ready' = t.ready /\ value' = t.value /\ object' = t.object

\* The part of checkAndLabelType of the constant that is about its value.
FoldConstant(t, c) ==
  LET d == prog.object[c].of
      u == BuildConstant(IF prog.object[c].list # << >> THEN TryToPackAClassHierarchy(t, d) ELSE t,
                         c, GetDefaultClassValue)
  IN  IF ~ HasObject(c) \/ t.object[c] # << >> THEN t
      ELSE IF ~ IsComplete(d) THEN Wait(t)
      ELSE IF u.ok THEN u ELSE Wait(u)

\* Class c is labelled; the types of its data members are known by the time
\* that its constant is looked at.
CheckAndLabel(c) ==
  \E t \in {FoldConstant(LayoutNow([known EXCEPT ![c] = KnownAfter(c)], c), c)} :
    Label(c, t.waits, t.errors) /\ LayoutIs(t)

\* The passes behind the loop, in the order of the table: all the classes are
\* packed, nobody looks at the result, then all the default values are built.
PackAll(t) ==
  InTurn([x \in (DOMAIN prog.order) \X Layouts |-> PackClass(x[2], prog.order[x[1]])],
         t, Len(prog.order))

BuildAll(t) ==
  InTurn([x \in (DOMAIN prog.order) \X Layouts |->
            GetDefaultValue(x[2], prog.order[x[1]], GetDefaultClassValue)], t, Len(prog.order))

PackAndBuild ==
  \E t \in {BuildAll(PackAll(LayoutNow(known, 0)))} :
    /\ EndPasses(t.waits, t.errors)
    /\ IF errors = 0 THEN LayoutIs(t) ELSE UNCHANGED layout

Init ==
  /\ InitSizes
  /\ pos = [c \in Class |-> [i \in DOMAIN members[c] |-> UNRELIABLEPOS]]
  /\ rel = [c \in Class |-> [b \in Class |-> Unknown]]
  /\ packed = {} /\ ready = {}
  /\ value = [c \in Class |-> << >>] /\ object = value

Done == phase = "done" /\ UNCHANGED allvars

Next ==
  \/ \E c \in Class : SetBitSize(c) /\ UNCHANGED layout
  \/ \E c \in Class : CheckAndLabel(c)
  \/ (EndSizing \/ EndFirstLabelling \/ EndRound) /\ UNCHANGED layout
  \/ PackAndBuild
  \/ Done

Spec == Init /\ [][Next]_allvars

-----------------------------------------------------------------------------
\* What the program finds in value v of class d where the code reads member i
\* of class b.
Read(v, d, b, i) ==
  LET start == pos[b][i] + (IF b = d THEN 0 ELSE rel[d][b])
  IN  SubSeq(v, start + 1, start + Width(members[b][i]))

Family(c) == {c} \cup BaseSet(c)

\* The members of b that nothing lies on top of: in a union the last one only,
\* in a union with base classes none of its own.
Distinct(b) ==
  IF b \notin prog.unions THEN DOMAIN members[b]
  ELSE IF bases[b] # << >> THEN {} ELSE {Len(members[b])}

\* Entry e of a list for class d is member i of class b, or lies on top of it.
Covers(e, d, b, i) == e = <<b, i>> \/ (e[1] \in prog.unions /\ e[1] \in {b, d})

\* The value that member i of class b has by default.
Default(b, i) ==
  LET m == members[b][i]
  IN  [k \in 1 .. Width(m) |-> IF HoldsClass(m) THEN value[m.of][1 + ((k - 1) % bits[m.of])]
                               ELSE <<b, i, k>>]

\* Every member of a class, its own or inherited, has its default value at the
\* place where it will be looked for, in the default value of the class and in
\* a constant of it, where the list has given it no other; whenever the class
\* was packed and built, and whatever was known of the other classes by then.
DefaultsAreReadBack ==
  /\ \A d \in ready : \A b \in Family(d) : \A i \in Distinct(b) :
       Read(value[d], d, b, i) = Default(b, i)
  /\ \A c \in Class : object[c] # << >> =>
       LET d == prog.object[c].of
           list == prog.object[c].list
           v == object[c][1]
       IN  /\ \A j \in DOMAIN list :
                LET w == Read(v, d, list[j][1], list[j][2])
                IN  w = [k \in DOMAIN w |-> <<c, 0 - j, k>>]
           /\ \A b \in Family(d) : \A i \in Distinct(b) :
                (\A e \in ToSet(list) : ~ Covers(e, d, b, i)) => Read(v, d, b, i) = Default(b, i)

\* A program is accepted only if all its classes have their sizes, positions
\* and default values and all its constants their values, though a loop that
\* reaches its limit reports nothing, and nobody looks at what packing says:
\* if no class is so large that a position looks as if it were none.
AcceptedMeansPacked ==
  Accepted /\ (\A c \in Class : bits[c] < UNRELIABLEPOS)
  => /\ \A c \in Class : IsComplete(c) /\ (HasObject(c) => object[c] # << >>)
     /\ packed = Class /\ ready = Class

\* What the default value of a class is put together from.
Builds(c) ==
  ToSet(bases[c]) \cup {m.of : m \in {x \in ToSet(members[c]) : HoldsClass(x)}}
    \cup (IF HasObject(c) THEN {prog.object[c].of} ELSE {})

\* The list of c's constant gives two values to the same bits.
Clobbers(c) ==
  LET list == prog.object[c].list
  IN  \E i, j \in DOMAIN list : /\ i < j /\ list[i][1] = list[j][1]
                                /\ list[i] = list[j] \/ list[i][1] \in prog.unions

\* A program whose sizes and default values exist is never rejected, in any
\* order of the table, if the limit allows the rounds that its longest chain of
\* classes needs.
NoFalseRejection ==
  /\ phase = "done" /\ prog.limit >= 2 * Cardinality(Class) /\ WellFounded
  /\ \A c \in Class : c \notin Closure(Builds, c) /\ ~ Clobbers(c)
  => errors = 0
=============================================================================
