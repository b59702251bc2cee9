----------------------------- MODULE ClassSizing -----------------------------
(***************************************************************************)
(* The resolving loop of checkAndTypeLabelProgram.  A round first sizes    *)
(* the classes, one after the other: the bits of a class are those of its  *)
(* data members and of all its base classes, and a data member of a class  *)
(* without a size is sized on the way.  Then it labels the classes: the    *)
(* types and constants that wait for a size or for a constant of another   *)
(* class are looked at again.  The loop ends with a round that leaves      *)
(* nothing waiting, with an error, or after its limit.                     *)
(* The classes are quarks and unions that the program defines; templates,  *)
(* elements and the limits on a size are not modelled here.  The layout of *)
(* the classes goes on in the same rounds: BitLayout adds it to these      *)
(* actions, and has the specification of both.                             *)
(***************************************************************************)
EXTENDS Integers, SequencesExt

CONSTANTS
  Class,      \* the classes of the program table
  Programs    \* the programs to try

Unknown == -2     \* UNKNOWNSIZE
Cycle == -12      \* CYCLEFLAG

(***************************************************************************)
(* A data member: Int(n); Int(d.sizeof); Int(d.cK), with d's constant;     *)
(* one of class d; or an array of n of class d.  The constant cK of a      *)
(* class is a literal, or that of another class.  A program also says how  *)
(* many rounds its compilation allows, MAX_ITERATIONS.                     *)
(***************************************************************************)
Int_(n) == [kind |-> "int", n |-> n]
Sizeof(d) == [kind |-> "sizeof", of |-> d]
ByConst(d) == [kind |-> "const", of |-> d]
Of(d) == [kind |-> "class", of |-> d]
ArrayOf(d, n) == [kind |-> "array", of |-> d, n |-> n]
Member == [kind : {"int"}, n : Nat \ {0}] \cup [kind : {"sizeof", "const", "class"}, of : Class]
            \cup [kind : {"array"}, of : Class, n : Nat \ {0}]
Constant == [kind : {"literal"}, n : Nat \ {0}] \cup [kind : {"from"}, of : Class]

Program == [bases : [Class -> Seq(Class)], members : [Class -> Seq(Member)],
            konst : [Class -> Constant], order : Seq(Class), unions : SUBSET Class,
            limit : Nat \ {0}]

ASSUME ProgramsAssumption ==
  \A p \in Programs :
    /\ p.bases \in [Class -> Seq(Class)] /\ p.konst \in [Class -> Constant]
    /\ p.members \in [Class -> Seq(Member)]
    /\ p.order \in Seq(Class) /\ ToSet(p.order) = Class /\ IsInjective(p.order)
    /\ \A c \in p.unions : p.members[c] # << >>
    /\ p.limit \in Nat \ {0}

VARIABLES
  prog,        \* the program being compiled
  phase,       \* the first labelling, sizing, labelling, the default values, the end
  at,          \* position of the iterator in the table of classes
  infcounter,  \* rounds made; the first labelling comes before them
  lost,        \* lostClassesIds: classes this round could not size
  goAgain,     \* m_goAgain
  waitMode,    \* m_waitMode: a WAIT message is not an error yet
  errors,      \* m_errorCount, since the start of the round
  bits,        \* the size of each class
  base,        \* m_bitsizeAsBaseClass: its size without its bases
  linked,      \* the base classes of each class that are no longer holders
  known,       \* its data members that have a complete type
  konst        \* the value of its constant

loop == <<phase, at, infcounter, lost, goAgain, waitMode, errors>>
sizes == <<bits, base>>
labels == <<linked, known, konst>>
vars == <<prog, loop, sizes, labels>>

bases == prog.bases
members == prog.members

\* UlamTypeClass::isComplete
IsComplete(c) == bits[c] >= 0 /\ base[c] # Unknown

\* All the base classes of c, shared as every one of them is.
BaseSet(c) ==
  LET up[n \in Nat] == IF n = 0 THEN ToSet(bases[c])
                       ELSE UNION {{b} \cup ToSet(bases[b]) : b \in up[n - 1]}
  IN  up[Cardinality(Class)]

-----------------------------------------------------------------------------
(***************************************************************************)
(* trySetBitsizeWithUTIValues and determineSharedBasesAndTotalBitsize for  *)
(* class c: what they leave in s, the sizes so far, the classes seen on    *)
(* the way and the errors; total is the size of c and mine the part of its *)
(* data members, total is Unknown or Cycle if it has no size yet.          *)
(***************************************************************************)
Sizing == [bits : [Class -> Nat \cup {Unknown, Cycle}], base : [Class -> Int],
           seen : SUBSET Class, errors : Nat, mine : Int, total : Int]

Fail(s, why) == [s EXCEPT !.total = why]

\* Mutant: the sum goes on after a member whose size is unknown.
BugOnlyCycleEnds(total) == total = Cycle

\* A member without a size ends the sum.
Ends(total) == total < 0

\* A member of u.total bits is added to the t.total before it.
AddBits(c, t, u) ==
  IF Ends(u.total) THEN u
  ELSE Fail(u, IF c \notin prog.unions THEN t.total + u.total
               ELSE IF u.total > t.total THEN u.total ELSE t.total)

\* Mutant: the base size of a member class is its whole size.
BugBaseIsTotal(s, c, tried, d) ==
  CASE tried.total >= 0 ->
         [tried EXCEPT !.bits[d] = tried.total,
                       !.base[d] = IF c \in prog.unions THEN Unknown ELSE tried.total]
    [] tried.total = Cycle -> [tried EXCEPT !.total = Unknown, !.errors = @ + 1]
    [] OTHER -> tried

\* A member class without a size, seen for the first time, is sized now;
\* a union's max loses the base size that was just set.
AddMember(s, c, tried, d) ==
  CASE tried.total >= 0 ->
         [tried EXCEPT !.bits[d] = tried.total,
                       !.base[d] = IF c \in prog.unions THEN Unknown ELSE tried.mine]
    [] tried.total = Cycle -> [tried EXCEPT !.total = Unknown, !.errors = @ + 1]
    [] OTHER -> tried

\* A member of class d, beside those of t: its size, or that of an attempt.
ClassSize(c, t, d, try) ==
  CASE t.bits[d] >= 0 -> Fail(t, t.bits[d])
    [] t.bits[d] = Cycle -> [Fail(t, Cycle) EXCEPT !.errors = @ + 1]
    [] t.bits[d] = Unknown /\ d = c -> [Fail(t, Unknown) EXCEPT !.errors = @ + 1]
    [] t.bits[d] = Unknown /\ d # c /\ d \in t.seen ->
         [Fail(t, Cycle) EXCEPT !.bits[d] = Cycle, !.errors = @ + 1]
    [] t.bits[d] = Unknown /\ d # c /\ d \notin t.seen ->
         AddMember(t, c, try[<<d, [t EXCEPT !.seen = @ \cup {d}]>>], d)

MemberSize(c, t, i, try) ==
  LET m == members[c][i]
  IN  IF i \notin known[c] /\ m.kind \in {"sizeof", "const", "array"} THEN Fail(t, Unknown)
      ELSE CASE m.kind = "int" -> Fail(t, m.n)
             [] m.kind = "sizeof" -> Fail(t, t.bits[m.of])
             [] m.kind = "const" -> Fail(t, konst[m.of])
             [] m.kind = "array" -> Fail(t, m.n * t.bits[m.of])
             [] m.kind = "class" -> ClassSize(c, t, m.of, try)

\* The sums over the first data members of c, beginning with none of them.
NextSum(c, t, i, try) ==
  IF Ends(t.total) THEN t ELSE AddBits(c, t, MemberSize(c, t, i, try))

MemberSums(c, s, try) ==
  LET sum[i \in 0 .. Len(members[c])] ==
        IF i = 0 THEN Fail(s, 0) ELSE NextSum(c, sum[i - 1], i, try)
  IN  sum

\* Then the sizes of the base classes.
AddBases(c, s) ==
  IF \E b \in BaseSet(c) : s.base[b] = Unknown THEN Fail(s, Unknown)
  ELSE [s EXCEPT !.mine = s.total, !.total = @ + SumFunction([b \in BaseSet(c) |-> s.base[b]])]

SizeOf(c, s, try) ==
  LET mine == MemberSums(c, s, try)[Len(members[c])]
  IN  IF ToSet(bases[c]) \ linked[c] # {} THEN Fail(s, Unknown)
      ELSE IF mine.total < 0 THEN mine ELSE AddBases(c, mine)

TrySetBitsize[x \in Class \X Sizing] == SizeOf(x[1], x[2], TrySetBitsize)

InitSizes ==
  /\ prog \in Programs
  /\ phase = "first" /\ at = 1 /\ infcounter = 0
  /\ lost = {} /\ goAgain = FALSE /\ waitMode = TRUE /\ errors = 0
  /\ bits = [c \in Class |-> Unknown] /\ base = bits
  /\ linked = [c \in Class |-> {}] /\ known = linked
  /\ konst = [c \in Class |-> Unknown]

\* The class at the iterator.
Visit(c) == at <= Len(prog.order) /\ c = prog.order[at]

\* setBitSizeOfClassInstances: a complete class keeps its size.
SetBitSize(c) ==
  /\ phase = "sizing" /\ Visit(c)
  /\ at' = at + 1
  /\ IF IsComplete(c)
     THEN UNCHANGED <<bits, base, lost, errors>>
     ELSE LET s == TrySetBitsize[<<c, [bits |-> bits, base |-> base, seen |-> {c},
                                       errors |-> errors, mine |-> 0, total |-> 0]>>]
          IN  /\ errors' = IF s.total = Cycle THEN s.errors + 1 ELSE s.errors
              /\ bits' = IF s.total < 0 THEN s.bits ELSE [s.bits EXCEPT ![c] = s.total]
              /\ base' = IF s.total < 0 THEN s.base ELSE [s.base EXCEPT ![c] = s.mine]
              /\ lost' = IF s.total < 0 THEN lost \cup {c} ELSE lost
  /\ UNCHANGED <<prog, phase, infcounter, goAgain, waitMode, labels>>

EndSizing ==
  /\ phase = "sizing" /\ at > Len(prog.order)
  /\ phase' = "labelling" /\ at' = 1 /\ goAgain' = FALSE
  /\ UNCHANGED <<prog, infcounter, lost, waitMode, errors, sizes, labels>>

-----------------------------------------------------------------------------
\* The value that class c's constant has when c is labelled.
ConstantOf(c) ==
  LET k == prog.konst[c]
  IN  IF konst[c] # Unknown THEN konst[c]
      ELSE IF k.kind = "literal" THEN k.n ELSE konst[k.of]

\* The members of class c whose type is complete once it is labelled; v is the
\* value its own constant has by then.
Resolved(c, v) ==
  {i \in DOMAIN members[c] :
     LET m == members[c][i]
     IN  \/ m.kind = "int"
         \/ m.kind \in {"sizeof", "array", "class"} /\ IsComplete(m.of)
         \/ m.kind = "const" /\ (IF m.of = c THEN v ELSE konst[m.of]) # Unknown}

KnownAfter(c) == known[c] \cup Resolved(c, ConstantOf(c))

\* Mutant: a base class is linked before it is complete.
BugLinksIncomplete(c, moreWaits, moreErrors) ==
  /\ phase \in {"first", "labelling"} /\ Visit(c)
  /\ linked' = [linked EXCEPT ![c] = ToSet(bases[c])]
  /\ konst' = [konst EXCEPT ![c] = ConstantOf(c)]
  /\ known' = [known EXCEPT ![c] = KnownAfter(c)]
  /\ goAgain' = TRUE
  /\ at' = at + 1
  /\ UNCHANGED <<prog, phase, infcounter, lost, waitMode, errors, sizes>>

\* Mutant: a base class that was linked is looked up again.
BugLinksForgotten(c, moreWaits, moreErrors) ==
  /\ phase \in {"first", "labelling"} /\ Visit(c)
  /\ linked' = [linked EXCEPT ![c] = {b \in ToSet(bases[c]) \ linked[c] : IsComplete(b)}]
  /\ konst' = [konst EXCEPT ![c] = ConstantOf(c)]
  /\ known' = [known EXCEPT ![c] = KnownAfter(c)]
  /\ goAgain' = TRUE
  /\ at' = at + 1
  /\ UNCHANGED <<prog, phase, infcounter, lost, waitMode, errors, sizes>>

(***************************************************************************)
(* checkAndLabelType of the class block: a base class that is complete     *)
(* takes the place of its holder, and calls for another round as one that  *)
(* is not complete does; then the constant and the data members.  What is  *)
(* still incomplete is a WAIT message.  Whatever else the class declares   *)
(* may give more of them, or errors.                                       *)
(***************************************************************************)
Label(c, moreWaits, moreErrors) ==
  /\ phase \in {"first", "labelling"} /\ Visit(c)
  /\ LET v == ConstantOf(c)
         holders == ToSet(bases[c]) \ linked[c]
         incomplete == {b \in holders : ~ IsComplete(b)}
         hazy == DOMAIN members[c] \ KnownAfter(c)
         waits == Cardinality(incomplete) + Cardinality(hazy) + (IF v = Unknown THEN 1 ELSE 0)
                    + moreWaits
     IN  /\ linked' = [linked EXCEPT ![c] = @ \cup (holders \ incomplete)]
         /\ konst' = [konst EXCEPT ![c] = v]
         /\ known' = [known EXCEPT ![c] = KnownAfter(c)]
         /\ goAgain' = (goAgain \/ holders # {} \/ hazy # {} \/ v = Unknown \/ moreWaits > 0)
         /\ errors' = errors + moreErrors + (IF waitMode THEN 0 ELSE waits)
  /\ at' = at + 1
  /\ UNCHANGED <<prog, phase, infcounter, lost, waitMode, sizes>>

\* A round begins; the counts of the last one are forgotten.
StartRound == phase' = "sizing" /\ at' = 1 /\ lost' = {} /\ errors' = 0

\* The first labelling, before the loop.
EndFirstLabelling ==
  /\ phase = "first" /\ at > Len(prog.order)
  /\ StartRound
  /\ UNCHANGED <<prog, infcounter, goAgain, waitMode, sizes, labels>>

\* The end of a round: another one, in which a WAIT message may be an error,
\* or the passes that follow the loop.
EndRound ==
  /\ phase = "labelling" /\ at > Len(prog.order)
  /\ infcounter' = infcounter + 1
  /\ waitMode' = (waitMode /\ infcounter' # prog.limit)
  /\ IF (lost # {} \/ goAgain) /\ infcounter' <= prog.limit /\ errors = 0
     THEN StartRound
     ELSE phase' = "defaults" /\ UNCHANGED <<at, lost, errors>>
  /\ UNCHANGED <<prog, goAgain, sizes, labels>>

\* Mutant: wait mode is not left again for the passes that follow.
BugStillWaiting(waits, moreErrors) ==
  /\ phase = "defaults"
  /\ phase' = "done"
  /\ errors' = IF errors > 0 THEN errors ELSE moreErrors
  /\ UNCHANGED <<prog, at, infcounter, lost, goAgain, waitMode, sizes, labels>>

\* The passes behind the loop end.  Their WAIT messages are errors after a loop
\* that reached its limit.
EndPasses(waits, moreErrors) ==
  /\ phase = "defaults"
  /\ phase' = "done"
  /\ errors' = IF errors > 0 THEN errors
               ELSE moreErrors + (IF infcounter < prog.limit THEN 0 ELSE waits)
  /\ UNCHANGED <<prog, at, infcounter, lost, goAgain, waitMode, sizes, labels>>

\* The rounds by themselves.
SizingNext ==
  \/ \E c \in Class : SetBitSize(c)
  \/ \E c \in Class, moreWaits, moreErrors \in Nat : Label(c, moreWaits, moreErrors)
  \/ EndSizing \/ EndFirstLabelling \/ EndRound
  \/ \E waits, moreErrors \in Nat : EndPasses(waits, moreErrors)

SizingSpec == InitSizes /\ [][SizingNext]_vars

-----------------------------------------------------------------------------
\* The size of a data member, from the sizes b and the constants k.
ValueOf(m, b, k) ==
  CASE m.kind = "int" -> m.n
    [] m.kind = "const" -> k[m.of]
    [] m.kind = "array" -> IF b[m.of] < 0 THEN Unknown ELSE m.n * b[m.of]
    [] m.kind \in {"sizeof", "class"} -> b[m.of]

\* What the data members of c add up to, or the largest of them in a union.
OwnBits(c, b, k) ==
  LET value == [i \in DOMAIN members[c] |-> ValueOf(members[c][i], b, k)]
  IN  IF \E i \in DOMAIN value : value[i] < 0 THEN Unknown
      ELSE IF c \in prog.unions THEN Max(Range(value)) ELSE SumFunction(value)

\* What follows from c in the relation Next_, in one step or more.
Closure(Next_(_), c) ==
  LET within[n \in Nat] == IF n = 0 THEN Next_(c)
                           ELSE within[n - 1] \cup UNION {Next_(d) : d \in within[n - 1]}
  IN  within[Cardinality(Class)]

Holds(c) == {m.of : m \in {x \in ToSet(members[c]) : x.kind = "class"}}
Needs(c) == ToSet(bases[c]) \cup
            {m.of : m \in {x \in ToSet(members[c]) : x.kind \in {"class", "array", "sizeof"}}}
Copies(c) == IF prog.konst[c].kind = "from" THEN {prog.konst[c].of} ELSE {}

\* Every class has a size, and every constant a value.
WellFounded == \A c \in Class : c \notin Closure(Needs, c) /\ c \notin Closure(Copies, c)

Accepted == phase = "done" /\ errors = 0

\* A size is the right one from the moment it is there, whether the class was
\* sized at its own turn or on the way to the size of another, and in
\* whichever round: every data member counts once, and so does every base
\* class, on however many paths it is inherited.
SizesAddUp ==
  \A c \in Class :
    LET Own(d) == OwnBits(d, bits, konst)
    IN  /\ bits[c] >= 0 => /\ Own(c) # Unknown
                           /\ bits[c] = Own(c) + SumFunction([b \in BaseSet(c) |-> Own(b)])
        /\ base[c] # Unknown => base[c] = Own(c)

\* Nothing that another class may have used changes in a later step.
KnownStaysKnown ==
  [][\A c \in Class : /\ bits[c] >= 0 => bits'[c] = bits[c]
                      /\ IsComplete(c) => IsComplete(c)'
                      /\ konst[c] # Unknown => konst'[c] = konst[c]
                      /\ linked[c] \subseteq linked'[c]]_vars

\* determineSharedBasesAndTotalBitsize asserts that every base class it adds
\* up is complete: the direct ones are when the class is linked to them, the
\* others because those could only be sized after theirs.
BasesAreComplete ==
  \A c \in Class :
    (\A i \in DOMAIN bases[c] : bases[c][i] \in linked[c]) => \A b \in BaseSet(c) : IsComplete(b)

\* A class is flagged as a cycle only if it does contain itself: a class that
\* is met again on another path, still without a size, is not taken for one.
CycleFlagsAreTrue == \A c \in Class : bits[c] = Cycle => c \in Closure(Holds, c)
=============================================================================
