---------------------------- MODULE FunctionCalls ----------------------------
(***************************************************************************)
(* Which function a call is for.  The classes that the caller inherits are *)
(* searched for a function of the name whose parameters have exactly the   *)
(* types of the arguments; if there is none, or more than one, they are    *)
(* searched again for one whose parameters the arguments can safely be     *)
(* cast to.  A search has a worklist of classes, and goes no further up    *)
(* from a class that decides it.  A call that stays ambiguous is reported  *)
(* with its candidates, which a third search counts.                       *)
(* There is one name, and every argument is a primitive value.             *)
(***************************************************************************)
EXTENDS PrimitiveTypes, SequencesExt

CONSTANTS
  Class,          \* the classes of the program
  Caller,         \* the class whose function is called
  NoClass,        \* Nouti: no class has been found
  Conflict,       \* Nav: two classes were found, neither a subclass of the other
  Programs        \* the programs to try

\* A function: the types of its parameters, and takesVariableArgs.
Function == [params : Seq(Type(Kinds)), more : BOOLEAN]

\* An argument: its type, its value, and whether it is a constant.
Argument == [type : Type(Kinds), val : Int, term : BOOLEAN]

\* The bases of each class, the super class first; its functions of the name
\* that is called; and the arguments.
Program == [bases : [Class -> Seq(Class)], functions : [Class -> SUBSET Function],
            args : Seq(Argument)]

ASSUME ClassesAssumption ==
  Caller \in Class /\ NoClass \notin Class /\ Conflict \notin Class /\ NoClass # Conflict
ASSUME ProgramsAssumption ==
  \A p \in Programs : p \in Program /\ \A c \in Class : IsFiniteSet(p.functions[c])

\* The value of an argument is one of its type.
ASSUME ArgumentsAssumption ==
  \A p \in Programs : \A i \in DOMAIN p.args : p.args[i].val \in Values(p.args[i].type)

\* c and the classes it inherits, where b has the bases of each class.
Closed(b, S) == \A c \in S : \A i \in DOMAIN b[c] : b[c][i] \in S
AncestryIn(b, c) == {d \in Class : \A S \in SUBSET Class : c \in S /\ Closed(b, S) => d \in S}

\* No class inherits itself: no program with one that does has its sizes.
ASSUME HierarchiesAssumption ==
  \A b \in {p.bases : p \in Programs} : \A c, d \in Class :
    d \in AncestryIn(b, c) /\ c \in AncestryIn(b, d) => c = d

VARIABLES
  prog,      \* the program
  phase,     \* which search goes on, or how it ended
  walk,      \* m_bases of the BaseclassWalker
  seen,      \* m_seenset
  found,     \* the class found so far
  chosen,    \* the function found so far, {} where the code has NULL
  count,     \* matchingFuncCount
  noted,     \* the classes in classsafematchmap
  received   \* the values that the parameters get

search == <<walk, seen, found, chosen, count>>
vars == <<prog, phase, search, noted, received>>

bases == prog.bases
functions == prog.functions
args == prog.args

Ancestry(c) == AncestryIn(bases, c)

\* isClassASubclassOf
IsSubclass(c, d) == c # d /\ d \in Ancestry(c)

------------------------------------------------------------------------------
\* Matching the arguments of the call with the parameters of function f.

TakesAsMany(f) ==
  Len(args) = Len(f.params) \/ (Len(args) > Len(f.params) /\ f.more)

\* matchingTypesStrictly
Exact(f) == TakesAsMany(f) /\ \A i \in DOMAIN f.params : args[i].type = f.params[i]

\* A constant is looked at, not its type.
CanPass(a, t) ==
  \/ a.type = t
  \/ a.term /\ TRUE \in ConstantSafeToCast(a, t)
  \/ ~a.term /\ SafeCast(t, a.type)

\* Mutant: only the first argument is looked at.
BugAccepts(f) ==
  TakesAsMany(f) /\ \A i \in DOMAIN f.params \cap {1} : CanPass(args[i], f.params[i])

\* matchingTypes
Accepts(f) == TakesAsMany(f) /\ \A i \in DOMAIN f.params : CanPass(args[i], f.params[i])

SameKinds(f) ==
  Len(args) = Len(f.params) /\ \A i \in DOMAIN f.params : args[i].type.kind = f.params[i].kind

ExactIn(c) == {f \in functions[c] : Exact(f)}
AcceptingIn(c) == {f \in functions[c] : Accepts(f)}

\* findMatchingFunctionWithSafeCasts: of several functions those count that
\* change the kind of no argument, unless these are several too.
BestIn(c) ==
  LET same == {f \in AcceptingIn(c) : SameKinds(f)}
  IN IF Cardinality(AcceptingIn(c)) <= 1 \/ Cardinality(same) > 1 THEN AcceptingIn(c) ELSE same

------------------------------------------------------------------------------
Init ==
  /\ prog \in Programs
  /\ phase = "name"
  /\ walk = << >> /\ seen = {} /\ found = NoClass /\ chosen = {} /\ count = 0
  /\ noted = {} /\ received = << >>

\* A search begins with the caller.
StartWalk == walk' = <<Caller>> /\ seen' = {}
StartSearch == StartWalk /\ found' = NoClass /\ chosen' = {} /\ count' = 0

\* isFuncIdInAClassScopeOrAncestor: without the name there is nothing to match.
LookUp ==
  /\ phase = "name"
  /\ IF \E c \in Ancestry(Caller) : functions[c] # {}
     THEN phase' = "exact" /\ StartSearch
     ELSE phase' = "undefined" /\ UNCHANGED search
  /\ UNCHANGED <<prog, noted, received>>

\* getNextBase: the next class is the first in the worklist that was not seen;
\* the classes behind it stay.
Unseen == {i \in DOMAIN walk : walk[i] \notin seen}
IsNext(i) == i \in Unseen /\ \A j \in Unseen : i <= j
Behind(i) == SubSeq(walk, i + 1, Len(walk))

\* addAncestorsOf
Climb(i) == walk' = bases[walk[i]] \o Behind(i)

\* A class with an exact match hides its bases if no class is left to visit.
VisitExactly(i) ==
  /\ phase = "exact"
  /\ LET c == walk[i]
     IN /\ seen' = seen \cup {c}
        /\ count' = count + Cardinality(ExactIn(c))
        /\ IF Cardinality(ExactIn(c)) = 1
           THEN /\ found' = c /\ chosen' = ExactIn(c)
                /\ IF Behind(i) = << >> THEN walk' = << >> ELSE Climb(i)
           ELSE UNCHANGED <<found, chosen>> /\ Climb(i)
  /\ UNCHANGED <<prog, phase, noted, received>>

EndExactly ==
  /\ phase = "exact" /\ Unseen = {}
  /\ IF count = 1 THEN phase' = "called" /\ UNCHANGED search
     ELSE phase' = "safe" /\ StartSearch
  /\ UNCHANGED <<prog, noted, received>>

\* Mutant: the count is not begun anew.
BugFind(c) == found' = c /\ chosen' = BestIn(c) /\ count' = count + 1 /\ UNCHANGED phase

\* The class found is c now, whatever was counted before.
Find(c) == found' = c /\ chosen' = BestIn(c) /\ count' = 1 /\ UNCHANGED phase

\* Mutant: the second match is not counted.
BugMeetConflict == found' = Conflict /\ chosen' = {} /\ UNCHANGED <<count, phase>>

\* c is no relative of the class found.
MeetConflict == found' = Conflict /\ chosen' = {} /\ count' = count + 1 /\ UNCHANGED phase

Skip == UNCHANGED <<phase, found, chosen, count>>

\* isClassASubclassOf asserts that it is asked about a class.
Abort == phase' = "aborted" /\ UNCHANGED <<found, chosen, count>>

\* Mutant: a subclass does not take the place of the class found.
BugMeetMatch(c) ==
  CASE found = NoClass -> Find(c)
    [] found = Conflict -> Abort
    [] found \in Class /\ ~IsSubclass(c, found) /\ ~IsSubclass(found, c) -> MeetConflict
    [] OTHER -> Skip

\* Class c decides for itself.
MeetMatch(c) ==
  CASE found = NoClass -> Find(c)
    [] found = Conflict -> Abort
    [] found \in Class /\ IsSubclass(c, found) -> Find(c)
    [] found \in Class /\ ~IsSubclass(c, found) /\ ~IsSubclass(found, c) -> MeetConflict
    [] OTHER -> Skip

VisitSafely(i) ==
  /\ phase = "safe"
  /\ LET c == walk[i]
     IN /\ seen' = seen \cup {c}
        /\ IF Cardinality(BestIn(c)) = 1 THEN MeetMatch(c) /\ walk' = Behind(i)
           ELSE /\ count' = count + Cardinality(BestIn(c))
                /\ Climb(i)
                /\ UNCHANGED <<phase, found, chosen>>
  /\ UNCHANGED <<prog, noted, received>>

EndSafely ==
  /\ phase = "safe" /\ Unseen = {}
  /\ CASE count = 0 -> phase' = "no match" /\ UNCHANGED <<walk, seen>>
       [] count = 1 -> phase' = "called" /\ UNCHANGED <<walk, seen>>
       [] OTHER -> phase' = "ambiguous" /\ StartWalk
  /\ UNCHANGED <<prog, found, chosen, count, noted, received>>

\* What argument i may be for function f: it is cast to the type of its
\* parameter, if there is one.
Passed(f, i) ==
  IF i \in DOMAIN f.params THEN Converted(args[i].val, args[i].type, f.params[i]) ELSE {args[i].val}

PassArguments ==
  /\ phase = "called"
  /\ \E f \in chosen :
       \E values \in [DOMAIN args -> UNION {Passed(f, i) : i \in DOMAIN args}] :
         /\ \A i \in DOMAIN args : values[i] \in Passed(f, i)
         /\ received' = values
  /\ phase' = "passed"
  /\ UNCHANGED <<prog, search, noted>>

------------------------------------------------------------------------------
\* noteAmbiguousFunctionSignaturesInAClassHierarchy

IsHidden(c) == \E d \in noted : IsSubclass(d, c)

\* Class c is noted in the place of one that it is a subclass of, if there is any.
Note(c) ==
  LET above == {d \in noted : IsSubclass(c, d)}
  IN IF above = {} THEN noted' = noted \cup {c}
     ELSE \E d \in above : noted' = (noted \ {d}) \cup {c}

VisitToNote(i) ==
  /\ phase = "ambiguous"
  /\ LET c == walk[i]
     IN /\ seen' = seen \cup {c}
        /\ IF functions[c] = {} \/ IsHidden(c) THEN noted' = noted ELSE Note(c)
        /\ IF ~IsHidden(c) /\ Cardinality(AcceptingIn(c)) = 1 THEN walk' = Behind(i) ELSE Climb(i)
  /\ UNCHANGED <<prog, phase, found, chosen, count, received>>

Candidates == FoldSet(LAMBDA c, n : n + Cardinality(AcceptingIn(c)), 0, noted)

\* The number of candidates is asserted to be that of the matches.
EndNotes ==
  /\ phase = "ambiguous" /\ Unseen = {}
  /\ phase' = IF Candidates = count THEN "reported" ELSE "aborted"
  /\ UNCHANGED <<prog, search, noted, received>>

------------------------------------------------------------------------------
Settled == {"undefined", "no match", "passed", "reported", "aborted"}

Done == phase \in Settled /\ UNCHANGED vars

Next ==
  \/ \E i \in DOMAIN walk : IsNext(i) /\ (VisitExactly(i) \/ VisitSafely(i) \/ VisitToNote(i))
  \/ LookUp \/ EndExactly \/ EndSafely \/ PassArguments \/ EndNotes
  \/ Done

Spec == Init /\ [][Next]_vars

------------------------------------------------------------------------------
\* The classes whose functions can be called, and those with a match of their own.
Inherited == Ancestry(Caller)
Deciding == {c \in Inherited : Cardinality(BestIn(c)) = 1}
Matching == {c \in Inherited : ExactIn(c) # {}}

\* The class of S that is a subclass of all the others in it, if there is one.
NearestIn(S) == {c \in S : \A d \in S \ {c} : IsSubclass(c, d)}

\* What is called is one function, and the caller has it: it stands in the
\* class that was found, which the caller is or inherits, and takes the
\* arguments (NODE_ASSERT(m_funcSymbol) of NodeFunctionCall::checkAndLabelType).
CallIsSound ==
  phase \in {"called", "passed"} =>
    /\ found \in Inherited
    /\ \E f \in functions[found] : chosen = {f} /\ Accepts(f)

\* Every argument arrives: the function that was chosen without a cast in the
\* source receives the numbers that it was called with.
ArgumentsArrive ==
  phase = "passed" => \A i \in DOMAIN args :
    (args[i].type.kind \in Numeric /\ \A f \in chosen : i \in DOMAIN f.params => f.params[i].kind \in Numeric)
      => received[i] = args[i].val

\* A function is not hidden from the caller: no class between has one match of
\* its own, an exact one if an exact one is called.
NearestMatchWins ==
  phase \in {"called", "passed"} =>
    \A c \in Deciding : \A f \in chosen :
      IsSubclass(c, found) => Exact(f) /\ ExactIn(c) = {}

\* Two classes of which neither hides the other accept the arguments, or one
\* does more than once.
Ambiguous ==
  \/ \E c, d \in Deciding : c # d /\ ~IsSubclass(c, d) /\ ~IsSubclass(d, c)
  \/ \E c \in Inherited : Cardinality(AcceptingIn(c)) > 1

\* A call that is called ambiguous is; and a call is not matched only if no
\* class has one match for it.
RefusalsAreReal ==
  /\ phase \in {"ambiguous", "reported", "aborted"} => Ambiguous
  /\ phase \in {"undefined", "no match"} => Deciding = {}

\* "Like in C++, exact matches in a subclass overrides any possible exact
\* matches in base classes": if one class with an exact match is below all the
\* others, none of its bases is called.
ExactMatchesOverride ==
  phase = "passed" => \A c \in NearestIn(Matching) : ~IsSubclass(c, found)
=============================================================================
