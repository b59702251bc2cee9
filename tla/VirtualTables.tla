---------------------------- MODULE VirtualTables ----------------------------
(***************************************************************************)
(* The virtual function tables of the classes.  Once every class is        *)
(* labelled, checkAndTypeLabelProgram goes round the table of classes      *)
(* until each class has its table: a class whose bases have theirs copies  *)
(* the slots its ancestors originated, puts the overriding functions in    *)
(* them, and appends a slot for each virtual function it originates.  A    *)
(* round that left a class waiting is followed by another, at most         *)
(* MaxIterations of them; in the last one a class that waits is an error.  *)
(***************************************************************************)
EXTENDS Integers, SequencesExt

CONSTANTS
  Class,          \* the classes of the program table
  NoClass,        \* Nouti
  Fn,             \* function signatures: a name with its parameter types
  Programs,       \* the programs to try
  MaxIterations   \* MAX_ITERATIONS

Unknown == -2     \* UNKNOWNSIZE

\* How a function is declared: "override" is virtual with the @Override flag.
Kinds == {"plain", "virtual", "pure", "override"}

(***************************************************************************)
(* A program: the base classes of each class, the super class first; its   *)
(* functions in the order of their declaration; the order of the classes   *)
(* in the program table; those that must not be abstract, elements and     *)
(* concrete classes; and those whose type is complete.                     *)
(***************************************************************************)
Program == [bases : [Class -> Seq(Class)],
            decls : [Class -> Seq([fn : Fn, kind : Kinds])],
            order : {s \in Seq(Class) : ToSet(s) = Class},
            concrete : SUBSET Class, complete : SUBSET Class]

ASSUME ProgramsAssumption == NoClass \notin Class /\ Programs \subseteq Program
ASSUME IterationsAssumption == MaxIterations \in Nat \ {0}

VARIABLES
  prog,         \* the program being compiled
  phase,        \* the loop, the check for abstract classes, the end, a failed assert
  at,           \* position of the iterator in the table of classes
  aok,          \* no class of this round is without a table
  infcounter2,  \* rounds made
  waitMode,     \* m_waitMode: a WAIT message is not an error yet
  errors,       \* m_errorCount
  reported,     \* the loop has given up
  maxidx,       \* m_virtualmethodMaxIdx of each class
  vtable,       \* m_vtable
  vowned,       \* m_vownedVT: the slots the class originated
  start,        \* m_basesVTstart: first slot of each originating class
  virtual,      \* the functions of each class that are virtual
  slot          \* per function: m_virtualOrigUTI and m_virtualMethodIdx

loop == <<phase, at, aok, infcounter2, waitMode, errors, reported>>
tables == <<maxidx, vtable, vowned, start, virtual, slot>>
vars == <<prog, loop, tables>>

bases == prog.bases
Declared(c, f) == {i \in DOMAIN prog.decls[c] : prog.decls[c][i].fn = f}
IsPure(c, f) == \E i \in Declared(c, f) : prog.decls[c][i].kind = "pure"

\* Mutant: a shared base class is visited once for each path to it.
BugNoSeenSet(c, breadthfirst) ==
  LET visit[todo \in Seq(Class)] ==
        IF todo = << >> THEN << >>
        ELSE <<Head(todo)>> \o visit[IF breadthfirst THEN Tail(todo) \o bases[Head(todo)]
                                                     ELSE bases[Head(todo)] \o Tail(todo)]
  IN  visit[bases[c]]

(***************************************************************************)
(* BaseclassWalker: a worklist of base classes, each visited once; the     *)
(* bases of the class just visited go to the back or to the front of it.   *)
(***************************************************************************)
WalkOn(todo, seen, breadthfirst, visit) ==
  LET b == Head(todo)
      next == IF breadthfirst THEN Tail(todo) \o bases[b] ELSE bases[b] \o Tail(todo)
  IN  IF todo = << >> THEN << >>
      ELSE IF b \in seen THEN visit[<<Tail(todo), seen>>]
      ELSE <<b>> \o visit[<<next, seen \cup {b}>>]

Walk(c, breadthfirst) ==
  LET visit[x \in Seq(Class) \X SUBSET Class] == WalkOn(x[1], x[2], breadthfirst, visit)
  IN  visit[<<bases[c], {}>>]

Ancestors(c) == ToSet(Walk(c, FALSE))
IsClassASubclassOf(c, b) == b \in Ancestors(c)

\* Mutant: the breadth-first search stops at the first match.
BugFirstMatch(c, f) ==
  FoldLeft(LAMBDA found, b : IF f \in virtual[b] /\ found = NoClass THEN b ELSE found,
           NoClass, Walk(c, TRUE))

\* The ancestor whose function f takes the place of the originator's: the
\* first virtual one in breadth-first order, or a subclass of that one.
Better(f, found, b) ==
  IF f \in virtual[b] /\ (found = NoClass \/ IsClassASubclassOf(b, found)) THEN b ELSE found

FindOverride(c, f) ==
  LET w == Walk(c, TRUE)
      found[n \in 0 .. Len(w)] == IF n = 0 THEN NoClass ELSE Better(f, found[n - 1], w[n])
  IN  found[Len(w)]

\* Mutant: a second, unrelated originator is not an error.
BugConflictIgnored(c, f) ==
  LET Earlier(s, b) ==
        IF f \in virtual[b] /\ (s.class = NoClass \/ IsClassASubclassOf(s.class, b))
        THEN [s EXCEPT !.class = b, !.fsym = b] ELSE s
  IN  FoldLeft(Earlier, [class |-> NoClass, fsym |-> NoClass, errors |-> 0], Walk(c, FALSE))

\* The ancestor that first declared f virtual; two unrelated ones are an error
\* for each of them after the first, and leave no function to take a slot from.
NoOrigin == [class |-> NoClass, fsym |-> NoClass, errors |-> 0]

Earlier(f, s, b) ==
  IF f \notin virtual[b] THEN s
  ELSE IF s.class = NoClass \/ IsClassASubclassOf(s.class, b)
       THEN [s EXCEPT !.class = b, !.fsym = b]
  ELSE IF IsClassASubclassOf(b, s.class) THEN s
  ELSE [s EXCEPT !.fsym = NoClass, !.errors = @ + 1]

FindOriginating(c, f) ==
  LET w == Walk(c, FALSE)
      org[n \in 0 .. Len(w)] == IF n = 0 THEN NoOrigin ELSE Earlier(f, org[n - 1], w[n])
  IN  org[Len(w)]

Entry(of, orig, vidx, f) ==
  [of |-> of, orig |-> orig, vidx |-> vidx, fn |-> f, pure |-> IsPure(of, f)]

\* An inherited slot, as class c fills it: a base class may override it.
InheritedEntry(c, b, ve) ==
  LET o == FindOverride(c, ve.fn)
  IN  IF o # NoClass /\ o # b /\ IsClassASubclassOf(o, b)
      THEN Entry(o, ve.orig, ve.vidx, ve.fn)
      ELSE ve

\* The slots that ancestor b originated go to the end, and their offset is kept.
Copy(c, t, b) ==
  [start |-> [x \in DOMAIN t.start \cup {b} |-> IF x = b THEN Len(t.table) ELSE t.start[x]],
   table |-> t.table \o [i \in DOMAIN vowned[b] |-> InheritedEntry(c, b, vowned[b][i])]]

\* initVTable: the slots of every ancestor in depth-first order, then c's own.
InitVTable(c) ==
  LET w == Walk(c, FALSE)
      copy[n \in 0 .. Len(w)] == IF n = 0 THEN [start |-> << >>, table |-> << >>]
                                           ELSE Copy(c, copy[n - 1], w[n])
      all == copy[Len(w)]
  IN  [table |-> all.table,
       start |-> [x \in DOMAIN all.start \cup {c} |->
                    IF x = c THEN Len(all.table) ELSE all.start[x]],
       vowned |-> << >>, virtual |-> virtual[c], slot |-> << >>,
       errors |-> 0, asserts |-> TRUE]

(***************************************************************************)
(* calcMaxIndexOfVirtualFunction for one declaration d of class c: virtual *)
(* if it says so or if an ancestor's function is; it takes the slot of the *)
(* originator, or the next new one (updateVTable, with its assertions).    *)
(***************************************************************************)
UpdateVTable(t, c, f, vidx, orig) ==
  LET idx == IF orig \in DOMAIN t.start THEN t.start[orig] + vidx ELSE Len(t.table)
      e == Entry(c, orig, vidx, f)
      u == [t EXCEPT !.slot = [x \in DOMAIN @ \cup {f} |->
                                 IF x = f THEN [orig |-> orig, vidx |-> vidx] ELSE @[x]],
                     !.virtual = @ \cup {f}]
  IN  IF idx < Len(t.table)
      THEN LET old == t.table[idx + 1]
           IN  [u EXCEPT !.table[idx + 1] = [e EXCEPT !.orig = old.orig, !.vidx = old.vidx],
                         !.asserts = @ /\ old.orig = orig /\ old.vidx = vidx]
      ELSE [u EXCEPT !.table = Append(@, e), !.vowned = Append(@, e),
                     !.asserts = @ /\ orig \in DOMAIN t.start /\ Len(t.table) = idx
                                   /\ Len(t.vowned) = vidx]

\* Mutant: the slot is looked up in the overridden class, not the originator.
BugSlotOfOverridden(t, c, d) ==
  LET o == FindOverride(c, d.fn)
  IN  IF o # NoClass THEN UpdateVTable(t, c, d.fn, slot[o][d.fn].vidx, o)
      ELSE IF d.kind = "plain" THEN t ELSE UpdateVTable(t, c, d.fn, Len(t.vowned), c)

CalcMaxIndexOfVirtualFunction(t, c, d) ==
  LET overriding == FindOverride(c, d.fn) # NoClass
      org == FindOriginating(c, d.fn)
      inherits == overriding /\ org.fsym # NoClass
      u == IF inherits
           THEN UpdateVTable(t, c, d.fn, slot[org.fsym][d.fn].vidx, org.class)
           ELSE UpdateVTable(t, c, d.fn, Len(t.vowned), c)
      flagged == IF d.kind = "override" /\ ~overriding THEN 1 ELSE 0
  IN  IF d.kind = "plain" /\ ~overriding THEN t
      ELSE [u EXCEPT !.errors = @ + flagged + (IF overriding THEN org.errors ELSE 0)]

CalcVTable(c) ==
  LET d == prog.decls[c]
      t[n \in 0 .. Len(d)] == IF n = 0 THEN InitVTable(c)
                              ELSE CalcMaxIndexOfVirtualFunction(t[n - 1], c, d[n])
  IN  t[Len(d)]

Init ==
  /\ prog \in Programs
  /\ phase = "looping" /\ at = 1 /\ aok = TRUE /\ infcounter2 = 0
  /\ waitMode = TRUE /\ errors = 0 /\ reported = FALSE
  /\ maxidx = [c \in Class |-> Unknown]
  /\ vtable = [c \in Class |-> << >>] /\ vowned = vtable
  /\ start = [c \in Class |-> << >>] /\ slot = start
  /\ virtual = [c \in Class |-> {f \in Fn : \E i \in Declared(c, f) : prog.decls[c][i].kind # "plain"}]

\* The class at the iterator.
Visit(c) == phase = "looping" /\ at <= Len(prog.order) /\ c = prog.order[at]

\* A class that has its table, or that is still incomplete, is passed over.
SkipClass(c) ==
  /\ Visit(c)
  /\ c \notin prog.complete \/ maxidx[c] # Unknown
  /\ at' = at + 1
  /\ UNCHANGED <<prog, phase, aok, infcounter2, waitMode, errors, reported, tables>>

\* Mutant: only the super class is asked for its table.
BugOnlySuperAsked(c) == {i \in DOMAIN bases[c] : i = 1 /\ maxidx[bases[c][i]] < 0}

BasesNotReady(c) == {i \in DOMAIN bases[c] : maxidx[bases[c][i]] < 0}

\* Mutant: a class that waits does not call for another round.
BugWaitNotNoted(c) ==
  /\ Visit(c) /\ c \in prog.complete /\ maxidx[c] = Unknown
  /\ BasesNotReady(c) # {}
  /\ at' = at + 1
  /\ errors' = IF waitMode THEN errors ELSE errors + Cardinality(BasesNotReady(c))
  /\ UNCHANGED <<prog, phase, aok, infcounter2, waitMode, reported, tables>>

\* A class with a base that has no table yet waits for the next round.
WaitForBases(c) ==
  /\ Visit(c) /\ c \in prog.complete /\ maxidx[c] = Unknown
  /\ BasesNotReady(c) # {}
  /\ at' = at + 1 /\ aok' = FALSE
  /\ errors' = IF waitMode THEN errors ELSE errors + Cardinality(BasesNotReady(c))
  /\ UNCHANGED <<prog, phase, infcounter2, waitMode, reported, tables>>

\* Mutant: called again for a class that has its table, it appends to it.
BugAppendsAgain(c) ==
  /\ Visit(c) /\ c \in prog.complete /\ BasesNotReady(c) = {}
  /\ LET t == CalcVTable(c)
     IN  /\ maxidx' = [maxidx EXCEPT ![c] = Len(t.table)]
         /\ vtable' = [vtable EXCEPT ![c] = @ \o t.table]
         /\ vowned' = [vowned EXCEPT ![c] = t.vowned]
         /\ start' = [start EXCEPT ![c] = t.start]
         /\ virtual' = [virtual EXCEPT ![c] = t.virtual]
         /\ slot' = [slot EXCEPT ![c] = t.slot]
  /\ at' = at + 1
  /\ UNCHANGED <<prog, aok, infcounter2, waitMode, reported, errors, phase>>

\* The vtable of c is set up; a failed assertion ends the compiler.
CalcMaxIndexOfVirtualFunctions(c) ==
  /\ Visit(c) /\ c \in prog.complete /\ maxidx[c] = Unknown
  /\ BasesNotReady(c) = {}
  /\ LET t == CalcVTable(c)
     IN  /\ maxidx' = [maxidx EXCEPT ![c] = Len(InitVTable(c).table) + Len(t.vowned)]
         /\ vtable' = [vtable EXCEPT ![c] = t.table]
         /\ vowned' = [vowned EXCEPT ![c] = t.vowned]
         /\ start' = [start EXCEPT ![c] = t.start]
         /\ virtual' = [virtual EXCEPT ![c] = t.virtual]
         /\ slot' = [slot EXCEPT ![c] = t.slot]
         /\ errors' = errors + t.errors
         /\ phase' = IF t.asserts THEN phase ELSE "aborted"
  /\ at' = at + 1
  /\ UNCHANGED <<prog, aok, infcounter2, waitMode, reported>>

\* Mutant: the loop gives up in the last round that is allowed.
BugLimitOffByOne ==
  /\ phase = "looping" /\ at > Len(prog.order)
  /\ infcounter2' = infcounter2 + 1
  /\ reported' = (infcounter2' >= MaxIterations)
  /\ errors' = IF reported' THEN errors + 1 ELSE errors
  /\ waitMode' = (waitMode /\ infcounter2' # MaxIterations)
  /\ phase' = IF aok \/ reported' THEN "checking" ELSE "looping"
  /\ at' = 1 /\ aok' = TRUE
  /\ UNCHANGED <<prog, tables>>

\* The end of a round: the counter is looked at before the round's result.
EndRound ==
  /\ phase = "looping" /\ at > Len(prog.order)
  /\ infcounter2' = infcounter2 + 1
  /\ reported' = (infcounter2' > MaxIterations)
  /\ errors' = IF reported' THEN errors + 1 ELSE errors
  /\ waitMode' = (waitMode /\ infcounter2' # MaxIterations)
  /\ phase' = IF aok \/ reported' THEN "checking" ELSE "looping"
  /\ at' = 1 /\ aok' = TRUE
  /\ UNCHANGED <<prog, tables>>

\* Mutant: only the slots the class originated are looked at.
BugOwnSlotsOnly(c) == \E i \in DOMAIN vowned[c] : vowned[c][i].pure

IsAbstract(c) == \E i \in DOMAIN vtable[c] : vtable[c][i].pure

\* Elements and concrete classes must not be abstract.
CheckAbstractInstanceErrors ==
  /\ phase = "checking"
  /\ phase' = "done"
  /\ errors' = IF errors > 0 THEN errors
               ELSE Cardinality({c \in ToSet(prog.order) \cap prog.concrete : IsAbstract(c)})
  /\ UNCHANGED <<prog, at, aok, infcounter2, waitMode, reported, tables>>

Done == phase \in {"done", "aborted"} /\ UNCHANGED vars

Next ==
  \/ \E c \in Class : SkipClass(c) \/ WaitForBases(c) \/ CalcMaxIndexOfVirtualFunctions(c)
  \/ EndRound
  \/ CheckAbstractInstanceErrors
  \/ Done

Spec == Init /\ [][Next]_vars

-----------------------------------------------------------------------------
Related(c) == Ancestors(c) \cup {c}
Built(c) == maxidx[c] # Unknown
Accepted == phase = "done" /\ errors = 0

\* The classes that declare f virtual, from c up, and the first of them.
Declarers(c, f) == {x \in Related(c) : f \in virtual[x]}
Originators(c, f) ==
  {x \in Declarers(c, f) : ~ \E y \in Declarers(c, f) : IsClassASubclassOf(x, y)}

\* The class whose f runs when it is called on an object of class c through
\* class d, which declares f virtual (NodeFunctionCall).
Called(c, d, f) == vtable[c][start[c][slot[d][f].orig] + slot[d][f].vidx + 1].of

\* The overriders in c's ancestry of the f that o originated which no other
\* of them overrides; siblings may share one slot, and one of them has it (t41391).
MostDerived(c, o, f) ==
  LET over == {x \in Declarers(c, f) : x = o \/ IsClassASubclassOf(x, o)}
  IN  {x \in over : ~ \E y \in over : IsClassASubclassOf(y, x)}

\* No assertion of updateVTable fails, whatever the hierarchy: the slot that
\* an overriding function looks up is the one its originator was given.
NoAssertFails == phase # "aborted"

\* The table of a class holds, from the start offset recorded for each class
\* it is related to, the slots that class originated, and nothing else: a
\* caller that only knows the originator finds them in any subclass.
TablesLaidOut ==
  \A c \in {x \in Class : Built(x)} :
    /\ Len(vtable[c]) = maxidx[c]
    /\ DOMAIN start[c] = Related(c)
    /\ \A o \in Related(c) : \A i \in DOMAIN vowned[o] :
         LET e == vtable[c][start[c][o] + i]
         IN  e.orig = o /\ e.vidx = i - 1 /\ e.fn = vowned[o][i].fn
    /\ maxidx[c] = SumFunction([o \in Related(c) |-> Len(vowned[o])])

\* A class has its table only when every base class has: the round in which
\* it is built never reads a table that is still empty.
BasesBuiltFirst ==
  \A c \in Class : Built(c) => \A i \in DOMAIN bases[c] : maxidx[bases[c][i]] # Unknown

\* Subclasses copy a table, so once set it never changes again, in any
\* later round.
TableSetOnce ==
  [][\A c \in Class : Built(c) => /\ maxidx'[c] = maxidx[c] /\ vtable'[c] = vtable[c]
                                  /\ start'[c] = start[c] /\ slot'[c] = slot[c]]_vars

\* In an accepted program a function that a class declares has one origin
\* (t41312): all its callers, through any base class, use the same slot.
OriginsAreUnique ==
  Accepted => \A c \in Class, f \in Fn :
    f \in virtual[c] /\ Built(c) => Cardinality(Originators(c, f)) = 1

\* In an accepted program a virtual call runs a most derived override of its
\* slot, where no two unrelated bases originate a function of that name and
\* types.
DispatchIsMostDerived ==
  Accepted => \A c \in Class, f \in Fn :
    Built(c) /\ Cardinality(Originators(c, f)) = 1 =>
      \A d \in Declarers(c, f) : Called(c, d, f) \in MostDerived(c, slot[d][f].orig, f)

\* The same without the restriction to one originator: what initVTable's
\* comment asks for any "virtual func ... overridden by a subclass of baseuti
\* in cuti ancestory".
OverridesAreNeverLost ==
  Accepted => \A c \in Class, f \in Fn : \A d \in Declarers(c, f) :
    Built(c) => Called(c, d, f) \in MostDerived(c, slot[d][f].orig, f)

\* In an accepted program no virtual call on an element or a concrete class
\* can reach a pure function.
ConcreteCallsReachCode ==
  Accepted => \A c \in prog.concrete, f \in Fn : \A d \in Declarers(c, f) :
    Built(c) => ~ IsPure(Called(c, d, f), f)

\* A program without errors leaves no complete class without its table.
AcceptedMeansBuilt == Accepted => \A c \in prog.complete : Built(c)

\* n classes, each with the next one among its bases.
BaseChains(n) ==
  {s \in [1 .. n -> Class] : \A i \in 1 .. n - 1 : s[i + 1] \in ToSet(bases[s[i]])}

\* The loop gives up for a reason: an "INCOMPLETE Super class", or a hierarchy
\* with more classes in line than the limit of rounds.  In whatever order the
\* classes are visited, a class has its table by the round that is its depth.
IncompleteIsTrue ==
  reported => \/ \E c \in prog.complete : ~ ToSet(bases[c]) \subseteq prog.complete
              \/ BaseChains(MaxIterations + 1) # {}
=============================================================================
