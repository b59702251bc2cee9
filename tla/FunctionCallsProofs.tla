------------------------- MODULE FunctionCallsProofs -------------------------
(* For every hierarchy, every set of functions and every list of arguments *)
(* a call that is labelled has a function: one that the caller is or       *)
(* inherits the class of, and that takes the arguments.                    *)
EXTENDS FunctionCalls, Induction, FiniteSetTheorems, SequenceTheorems, TLAPS

\* The classes still to visit are the caller's.
WalkIsInherited == walk \in Seq(Inherited)

\* What was found so far, and how it was counted: never one match in all while
\* no class, or no single one, is found.
FoundIsCounted ==
  /\ found \in Class \cup {NoClass, Conflict} /\ count \in Nat
  /\ found \in Class =>
       count >= 1 /\ found \in Inherited /\ \E f \in functions[found] : chosen = {f} /\ Accepts(f)
  /\ found = NoClass => count # 1
  /\ found = Conflict => count > 1

PhaseIsFound == phase \in {"called", "passed"} => found \in Class

IInv == prog \in Programs /\ WalkIsInherited /\ FoundIsCounted /\ PhaseIsFound

\* The ancestry of a class is closed under bases, and begins with the class.
LEMMA InheritedIsClosed ==
  ASSUME prog \in Programs
  PROVE  /\ Caller \in Inherited /\ Inherited \subseteq Class
         /\ \A c \in Inherited : bases[c] \in Seq(Inherited)
<1>1. prog \in Program /\ \A c \in Class : IsFiniteSet(functions[c])
  BY ProgramsAssumption DEF functions
<1>2. bases \in [Class -> Seq(Class)]  BY <1>1 DEF Program, bases
<1>3. Caller \in Inherited /\ Inherited \subseteq Class
  BY ClassesAssumption DEF Inherited, Ancestry, AncestryIn
<1>4. ASSUME NEW c \in Inherited PROVE bases[c] \in Seq(Inherited)
  <2>1. bases[c] \in Seq(Class)  BY <1>2, <1>3
  <2>2. ASSUME NEW i \in DOMAIN bases[c] PROVE bases[c][i] \in Inherited
    <3>1. bases[c][i] \in Class  BY <2>1
    <3> QED  BY <3>1 DEF Inherited, Ancestry, AncestryIn, Closed
  <2> QED  BY <2>1, <2>2
<1> QED  BY <1>3, <1>4

\* A match that is the only one of its kind in its class takes the arguments.
LEMMA ExactIsAccepted ==
  ASSUME NEW f, Exact(f) PROVE Accepts(f)
BY DEF Exact, Accepts, CanPass

LEMMA MatchesAreFinite ==
  ASSUME prog \in Programs, NEW c \in Class
  PROVE  /\ IsFiniteSet(ExactIn(c)) /\ IsFiniteSet(BestIn(c))
         /\ Cardinality(ExactIn(c)) \in Nat /\ Cardinality(BestIn(c)) \in Nat
<1>1. IsFiniteSet(functions[c])  BY ProgramsAssumption DEF functions
<1>2. ExactIn(c) \subseteq functions[c] /\ BestIn(c) \subseteq functions[c]
  BY DEF ExactIn, BestIn, AcceptingIn
<1> QED  BY <1>1, <1>2, FS_Subset, FS_CardinalityType

LEMMA TheOneMatch ==
  ASSUME prog \in Programs, NEW c \in Class, NEW S \in {ExactIn(c), BestIn(c)}, Cardinality(S) = 1
  PROVE  \E f \in functions[c] : S = {f} /\ Accepts(f)
<1>1. IsFiniteSet(S)  BY MatchesAreFinite
<1>2. PICK f : S = {f}  BY <1>1, FS_Singleton
<1>3. \A g \in S : g \in functions[c] /\ Accepts(g)
  <2>1. CASE S = ExactIn(c)  BY <2>1, ExactIsAccepted DEF ExactIn
  <2>2. CASE S = BestIn(c)  BY <2>2 DEF BestIn, AcceptingIn
  <2> QED  BY <2>1, <2>2
<1> QED  BY <1>2, <1>3

\* The next class is the caller's, and so are those that take its place.
LEMMA NextIsInherited ==
  ASSUME IInv, NEW i \in DOMAIN walk
  PROVE  /\ walk[i] \in Inherited /\ walk[i] \in Class
         /\ Behind(i) \in Seq(Inherited) /\ bases[walk[i]] \o Behind(i) \in Seq(Inherited)
<1>1. walk \in Seq(Inherited) /\ prog \in Programs  BY DEF IInv, WalkIsInherited
<1>2. walk[i] \in Inherited  BY <1>1
<1>3. Behind(i) \in Seq(Inherited)
  <2>1. i + 1 \in Int /\ Len(walk) \in Int /\ \A j \in i + 1 .. Len(walk) : walk[j] \in Inherited
    BY <1>1
  <2> QED  BY <2>1, SubSeqProperties DEF Behind
<1>4. bases[walk[i]] \in Seq(Inherited)  BY <1>1, <1>2, InheritedIsClosed
<1> QED  BY <1>1, <1>2, <1>3, <1>4, InheritedIsClosed, ConcatProperties

------------------------------------------------------------------------------
\* CallIsSound.

LEMMA InitFound == Init => IInv
<1> SUFFICES ASSUME Init PROVE IInv
  OBVIOUS
<1>1. walk \in Seq(Inherited)  BY DEF Init
<1> QED  BY <1>1, ClassesAssumption DEF Init, IInv, WalkIsInherited, FoundIsCounted, PhaseIsFound

\* The classes and functions of the program, and what they accept, stay.
LEMMA MeaningStays ==
  ASSUME prog' = prog
  PROVE  /\ Inherited' = Inherited /\ bases' = bases /\ functions' = functions
         /\ \A f : Accepts(f)' = Accepts(f)
BY DEF Inherited, Ancestry, AncestryIn, Closed, bases, functions, Accepts, TakesAsMany, args

LEMMA StartIsFound ==
  ASSUME IInv, StartSearch, prog' = prog, phase' \notin {"called", "passed"} PROVE IInv'
<1>1. walk' \in Seq(Inherited)
  BY InheritedIsClosed DEF IInv, StartSearch, StartWalk
<1> QED
  BY <1>1, MeaningStays, ClassesAssumption
  DEF IInv, StartSearch, WalkIsInherited, FoundIsCounted, PhaseIsFound

LEMMA VisitExactlyFound ==
  ASSUME IInv, NEW i \in DOMAIN walk, VisitExactly(i) PROVE IInv'
<1> DEFINE c == walk[i]
<1> USE DEF VisitExactly
<1>1. c \in Class /\ c \in Inherited /\ prog \in Programs  BY NextIsInherited DEF IInv
<1>2. Cardinality(ExactIn(c)) \in Nat  BY <1>1, MatchesAreFinite
<1>3. walk' \in Seq(Inherited)
  BY NextIsInherited DEF Climb
<1>4. FoundIsCounted'
  <2>1. CASE Cardinality(ExactIn(c)) = 1
    <3>1. \E f \in functions[c] : ExactIn(c) = {f} /\ Accepts(f)
      BY <1>1, <2>1, TheOneMatch
    <3>2. found' = c /\ chosen' = ExactIn(c) /\ count' = count + 1 /\ prog' = prog  BY <2>1
    <3> QED
      BY <1>1, <3>1, <3>2, MeaningStays, ClassesAssumption DEF IInv, FoundIsCounted
  <2>2. CASE Cardinality(ExactIn(c)) # 1
    <3>1. UNCHANGED <<found, chosen, prog>> /\ count' = count + Cardinality(ExactIn(c))  BY <2>2
    <3> QED
      BY <1>2, <2>2, <3>1, MeaningStays DEF IInv, FoundIsCounted
  <2> QED  BY <2>1, <2>2
<1> QED  BY <1>1, <1>3, <1>4, MeaningStays DEF IInv, WalkIsInherited, PhaseIsFound

LEMMA VisitSafelyFound ==
  ASSUME IInv, NEW i \in DOMAIN walk, VisitSafely(i) PROVE IInv'
<1> DEFINE c == walk[i]
<1> USE DEF VisitSafely
<1>1. c \in Class /\ c \in Inherited /\ prog \in Programs  BY NextIsInherited DEF IInv
<1>2. Cardinality(BestIn(c)) \in Nat  BY <1>1, MatchesAreFinite
<1>3. walk' \in Seq(Inherited)
  BY NextIsInherited DEF Climb
<1>4. FoundIsCounted' /\ phase' \in {"safe", "aborted"}
  <2>1. CASE Cardinality(BestIn(c)) = 1
    <3>1. MeetMatch(c) /\ prog' = prog  BY <2>1
    <3>2. \E f \in functions[c] : BestIn(c) = {f} /\ Accepts(f)
      BY <1>1, <2>1, TheOneMatch
    <3>3. CASE Find(c)
      BY <1>1, <3>1, <3>2, <3>3, MeaningStays, ClassesAssumption DEF Find, FoundIsCounted
    <3>4. CASE MeetConflict /\ found \in Class
      BY <3>1, <3>4, ClassesAssumption DEF MeetConflict, IInv, FoundIsCounted
    <3>5. CASE Skip \/ Abort
      BY <3>1, <3>5, MeaningStays DEF Skip, Abort, IInv, FoundIsCounted
    <3> QED  BY <3>1, <3>3, <3>4, <3>5 DEF MeetMatch
  <2>2. CASE Cardinality(BestIn(c)) # 1
    <3>1. UNCHANGED <<found, chosen, prog, phase>> /\ count' = count + Cardinality(BestIn(c))
      BY <2>2
    <3> QED
      BY <1>2, <2>2, <3>1, MeaningStays DEF IInv, FoundIsCounted
  <2> QED  BY <2>1, <2>2
<1> QED  BY <1>1, <1>3, <1>4, MeaningStays DEF IInv, WalkIsInherited, PhaseIsFound

LEMMA OthersFound ==
  ASSUME IInv,
         LookUp \/ EndExactly \/ EndSafely \/ PassArguments \/ EndNotes \/ Done \/ UNCHANGED vars
           \/ \E i \in DOMAIN walk : VisitToNote(i)
  PROVE  IInv'
<1>1. CASE UNCHANGED search /\ prog' = prog /\ (phase' \notin {"called", "passed"} \/ found \in Class)
  BY <1>1, MeaningStays DEF search, IInv, WalkIsInherited, FoundIsCounted, PhaseIsFound
<1>2. CASE LookUp
  BY <1>1, <1>2, StartIsFound DEF LookUp
<1>3. CASE EndExactly
  <2>1. CASE count = 1
    <3>1. phase = "exact" /\ found # NoClass /\ found # Conflict
      BY <1>3, <2>1 DEF EndExactly, IInv, FoundIsCounted
    <3> QED  BY <1>1, <1>3, <2>1, <3>1 DEF EndExactly, IInv, FoundIsCounted
  <2>2. CASE count # 1
    BY <1>3, <2>2, StartIsFound DEF EndExactly
  <2> QED  BY <2>1, <2>2
<1>4. CASE EndSafely
  <2>1. prog' = prog /\ UNCHANGED <<found, chosen, count>>  BY <1>4 DEF EndSafely
  <2>2. FoundIsCounted'  BY <2>1, MeaningStays DEF IInv, FoundIsCounted
  <2>3. WalkIsInherited'
    <3>1. CASE UNCHANGED walk  BY <2>1, <3>1, MeaningStays DEF IInv, WalkIsInherited
    <3>2. CASE StartWalk
      BY <2>1, <3>2, MeaningStays, InheritedIsClosed DEF IInv, StartWalk, WalkIsInherited
    <3> QED  BY <1>4, <3>1, <3>2 DEF EndSafely
  <2>4. PhaseIsFound'
    <3>1. phase' # "passed" /\ (phase' = "called" => count = 1)  BY <1>4 DEF EndSafely
    <3>2. count = 1 => found \in Class  BY DEF IInv, FoundIsCounted
    <3> QED  BY <2>1, <3>1, <3>2, MeaningStays DEF PhaseIsFound
  <2> QED  BY <2>1, <2>2, <2>3, <2>4 DEF IInv
<1>5. CASE PassArguments
  <2>1. UNCHANGED search /\ prog' = prog /\ found \in Class
    BY <1>5 DEF PassArguments, IInv, PhaseIsFound
  <2> QED  BY <1>1, <2>1
<1>6. CASE EndNotes
  <2>1. UNCHANGED search /\ prog' = prog /\ phase' \notin {"called", "passed"}
    BY <1>6 DEF EndNotes
  <2> QED  BY <1>1, <2>1
<1>7. CASE Done \/ UNCHANGED vars
  BY <1>7, MeaningStays
  DEF Done, vars, search, IInv, WalkIsInherited, FoundIsCounted, PhaseIsFound
<1>8. ASSUME NEW i \in DOMAIN walk, VisitToNote(i) PROVE IInv'
  <2>1. UNCHANGED <<prog, phase, found, chosen, count>>  BY <1>8 DEF VisitToNote
  <2>2. walk' \in Seq(Inherited)
    BY <1>8, NextIsInherited DEF VisitToNote, Climb
  <2> QED
    BY <2>1, <2>2, MeaningStays DEF IInv, WalkIsInherited, FoundIsCounted, PhaseIsFound
<1> QED  BY <1>2, <1>3, <1>4, <1>5, <1>6, <1>7, <1>8

\* A call that is labelled is for one function, of a class that the caller is
\* or inherits, and the function takes the arguments: whatever the hierarchy
\* and the order of the bases (NodeFunctionCall::checkAndLabelType asserts it).
THEOREM CallsAreSound == Spec => []CallIsSound
<1>1. IInv /\ [Next]_vars => IInv'
  BY VisitExactlyFound, VisitSafelyFound, OthersFound DEF Next
<1>2. IInv => CallIsSound
  BY DEF IInv, FoundIsCounted, PhaseIsFound, CallIsSound
<1> QED  BY InitFound, <1>1, <1>2, PTL DEF Spec

------------------------------------------------------------------------------
\* RefusalsAreReal: what the safe search knows besides.

Work == seen \cup {walk[j] : j \in DOMAIN walk}

\* More than one match is an ambiguity that is there.
CountIsReal ==
  phase = "safe" =>
    /\ count > 1 \/ found = Conflict => Ambiguous
    /\ found \in Class => found \in Deciding \cap seen

\* While there was no match, what was visited has none, and its bases will be
\* visited.
NothingMissed ==
  phase = "safe" /\ count = 0 =>
    /\ Caller \in Work
    /\ \A c \in seen : BestIn(c) = {} /\ \A i \in DOMAIN bases[c] : bases[c][i] \in Work

RInv == CountIsReal /\ NothingMissed /\ RefusalsAreReal

LEMMA MatchesStay ==
  ASSUME prog' = prog
  PROVE  /\ \A c : BestIn(c)' = BestIn(c) /\ AcceptingIn(c)' = AcceptingIn(c)
         /\ Ambiguous' = Ambiguous /\ Deciding' = Deciding
         /\ \A c, d : IsSubclass(c, d)' = IsSubclass(c, d)
<1>1. \A f : SameKinds(f)' = SameKinds(f)  BY DEF SameKinds, args
<1>2. \A c : AcceptingIn(c)' = AcceptingIn(c)  BY MeaningStays DEF AcceptingIn
<1>3. \A c : BestIn(c)' = BestIn(c)  BY <1>1, <1>2 DEF BestIn
<1>4. Deciding' = Deciding  BY <1>3, MeaningStays DEF Deciding
<1>5. \A c, d : IsSubclass(c, d)' = IsSubclass(c, d)
  BY DEF IsSubclass, Ancestry, AncestryIn, Closed, bases
<1> QED  BY <1>2, <1>3, <1>4, <1>5, MeaningStays DEF Ambiguous

\* What is visited is taken out of the work, nothing else is.
LEMMA WorkGoesOn ==
  ASSUME IInv, NEW i \in DOMAIN walk, IsNext(i), seen' = seen \cup {walk[i]}
  PROVE  \A s \in Seq(Inherited) : walk' = s \o Behind(i) =>
           Work \subseteq Work' /\ \A k \in DOMAIN s : s[k] \in Work'
<1> SUFFICES ASSUME NEW s \in Seq(Inherited), walk' = s \o Behind(i)
             PROVE  Work \subseteq Work' /\ \A k \in DOMAIN s : s[k] \in Work'
  OBVIOUS
<1>1. walk \in Seq(Inherited) /\ Behind(i) \in Seq(Inherited)
  BY NextIsInherited DEF IInv, WalkIsInherited
<1>2. /\ Len(walk') = Len(s) + Len(Behind(i))
      /\ \A k \in 1 .. Len(s) + Len(Behind(i)) :
           walk'[k] = IF k <= Len(s) THEN s[k] ELSE Behind(i)[k - Len(s)]
  BY <1>1, ConcatProperties
<1>3. walk' \in Seq(Inherited)  BY <1>1, ConcatProperties
<1>4. ASSUME NEW k \in DOMAIN s PROVE s[k] \in Work'
  <2>1. k \in DOMAIN walk' /\ walk'[k] = s[k]  BY <1>1, <1>2, <1>3
  <2> QED  BY <2>1 DEF Work
<1>5. ASSUME NEW j \in DOMAIN walk PROVE walk[j] \in Work'
  <2>1. CASE j < i
    <3>1. j \notin Unseen  BY <1>1, <2>1 DEF IsNext
    <3> QED  BY <3>1 DEF Unseen, Work
  <2>2. CASE j = i  BY <2>2 DEF Work
  <2>3. CASE j > i
    <3>1. /\ Len(Behind(i)) = Len(walk) - i
          /\ \A k \in 1 .. Len(walk) - i : Behind(i)[k] = walk[i + k]
      <4>1. i + 1 \in Int /\ Len(walk) \in Int /\ \A k \in i + 1 .. Len(walk) : walk[k] \in Inherited
        BY <1>1
      <4>2. i <= Len(walk)  BY <1>1
      <4>3. /\ Len(Behind(i)) = IF i + 1 <= Len(walk) THEN Len(walk) - (i + 1) + 1 ELSE 0
            /\ \A k \in 1 .. Len(walk) - (i + 1) + 1 : Behind(i)[k] = walk[(i + 1) + k - 1]
        BY <4>1, SubSeqProperties, SMTT(30) DEF Behind
      <4> QED  BY <1>1, <4>2, <4>3, SMTT(30)
    <3>2. j - i \in 1 .. Len(walk) - i /\ Len(s) \in Nat  BY <1>1, <2>3
    <3>3. Behind(i)[j - i] = walk[j]  BY <1>1, <3>1, <3>2
    <3>4. Len(s) + (j - i) \in DOMAIN walk' /\ walk'[Len(s) + (j - i)] = walk[j]
      <4> DEFINE k == Len(s) + (j - i)
      <4>1. k \in 1 .. Len(s) + Len(Behind(i)) /\ ~(k <= Len(s)) /\ k - Len(s) = j - i
        BY <3>1, <3>2
      <4>2. walk'[k] = Behind(i)[k - Len(s)]  BY <1>2, <4>1
      <4>3. DOMAIN walk' = 1 .. Len(walk')  BY <1>3
      <4> QED  BY <1>2, <3>3, <4>1, <4>2, <4>3
    <3> QED  BY <3>4 DEF Work
  <2> QED  BY <1>1, <2>1, <2>2, <2>3
<1>6. Work \subseteq Work'  BY <1>5 DEF Work
<1> QED  BY <1>4, <1>6

\* So that nothing is missed: after c come its bases, or what is behind it.
LEMMA ClimbGoesOn ==
  ASSUME IInv, NEW i \in DOMAIN walk, IsNext(i), seen' = seen \cup {walk[i]}, Climb(i)
  PROVE  Work \subseteq Work' /\ \A k \in DOMAIN bases[walk[i]] : bases[walk[i]][k] \in Work'
BY WorkGoesOn, NextIsInherited, InheritedIsClosed DEF Climb, IInv

LEMMA LeaveGoesOn ==
  ASSUME IInv, NEW i \in DOMAIN walk, IsNext(i), seen' = seen \cup {walk[i]}, walk' = Behind(i)
  PROVE  Work \subseteq Work'
<1>1. Behind(i) = << >> \o Behind(i) /\ << >> \in Seq(Inherited)
  BY NextIsInherited, ConcatEmptySeq
<1> QED  BY <1>1, WorkGoesOn

\* The classes of a program that accept the arguments are counted.
LEMMA BestAreAccepting ==
  ASSUME prog \in Programs, NEW c \in Inherited
  PROVE  /\ Cardinality(BestIn(c)) \in Nat
         /\ Cardinality(BestIn(c)) > 1 => Ambiguous
         /\ Cardinality(BestIn(c)) = 0 => BestIn(c) = {}
<1>1. c \in Class  BY InheritedIsClosed
<1>2. IsFiniteSet(AcceptingIn(c))
  <2>1. IsFiniteSet(functions[c])  BY <1>1, ProgramsAssumption DEF functions
  <2> QED  BY <2>1, FS_Subset DEF AcceptingIn
<1>3. BestIn(c) \subseteq AcceptingIn(c)  BY DEF BestIn
<1>4. /\ Cardinality(AcceptingIn(c)) \in Nat /\ Cardinality(BestIn(c)) \in Nat
      /\ Cardinality(BestIn(c)) <= Cardinality(AcceptingIn(c))
  BY <1>2, <1>3, FS_Subset, FS_CardinalityType
<1>5. Cardinality(BestIn(c)) > 1 => Cardinality(AcceptingIn(c)) > 1  BY <1>4
<1> QED  BY <1>1, <1>4, <1>5, MatchesAreFinite, FS_EmptySet DEF Ambiguous

LEMMA VisitSafelyReal ==
  ASSUME IInv, RInv, NEW i \in DOMAIN walk, IsNext(i), VisitSafely(i) PROVE RInv'
<1> DEFINE c == walk[i]
<1> DEFINE n == Cardinality(BestIn(c))
<1>1. /\ c \in Class /\ c \in Inherited /\ prog \in Programs /\ count \in Nat /\ n \in Nat
      /\ prog' = prog /\ seen' = seen \cup {c} /\ phase = "safe"
  BY NextIsInherited, BestAreAccepting DEF IInv, FoundIsCounted, VisitSafely
<1>2. CASE n = 1
  <2>1. c \in Deciding /\ MeetMatch(c)  BY <1>1, <1>2 DEF Deciding, VisitSafely
  <2>2. CASE Find(c)
    BY <1>1, <2>1, <2>2, MatchesStay, ClassesAssumption
    DEF Find, RInv, CountIsReal, NothingMissed, RefusalsAreReal
  <2>3. CASE MeetConflict /\ found \in Class /\ ~IsSubclass(c, found) /\ ~IsSubclass(found, c)
    <3>1. found \in Deciding  BY <1>1, <2>3 DEF RInv, CountIsReal
    <3>2. count >= 1  BY <2>3 DEF IInv, FoundIsCounted
    <3>3. Ambiguous
      <4>1. c # found  BY <1>1, <2>3 DEF IsNext, Unseen, RInv, CountIsReal
      <4> QED  BY <2>1, <2>3, <3>1, <4>1 DEF Ambiguous
    <3> QED
      BY <1>1, <2>3, <3>2, <3>3, MatchesStay, ClassesAssumption
      DEF MeetConflict, RInv, CountIsReal, NothingMissed, RefusalsAreReal
  <2>4. CASE Abort /\ found = Conflict
    BY <1>1, <2>4, MatchesStay DEF Abort, RInv, CountIsReal, NothingMissed, RefusalsAreReal
  <2>5. CASE Skip /\ found \in Class
    <3>1. count >= 1  BY <2>5 DEF IInv, FoundIsCounted
    <3> QED
      BY <1>1, <2>5, <3>1, MatchesStay
      DEF Skip, RInv, CountIsReal, NothingMissed, RefusalsAreReal
  <2> QED  BY <2>1, <2>2, <2>3, <2>4, <2>5 DEF MeetMatch, IInv, FoundIsCounted
<1>3. CASE n # 1
  <2>1. UNCHANGED <<found, phase>> /\ count' = count + n /\ Climb(i)
    BY <1>3 DEF VisitSafely
  <2>2. CountIsReal'
    <3>1. count' > 1 => count > 1 \/ n > 1  BY <1>1, <1>3, <2>1
    <3> QED
      BY <1>1, <2>1, <3>1, MatchesStay, BestAreAccepting DEF RInv, CountIsReal
  <2>3. NothingMissed'
    <3> SUFFICES ASSUME count' = 0 PROVE NothingMissed'
      BY DEF NothingMissed
    <3>1. count = 0 /\ n = 0  BY <1>1, <2>1
    <3>2. BestIn(c) = {}  BY <1>1, <3>1, BestAreAccepting
    <3>3. /\ Work \subseteq Work'
          /\ \A k \in DOMAIN bases[c] : bases[c][k] \in Work'
      BY <1>1, <2>1, ClimbGoesOn
    <3> QED
      BY <1>1, <3>1, <3>2, <3>3, MatchesStay, MeaningStays DEF RInv, NothingMissed
  <2> QED  BY <1>1, <2>1, <2>2, <2>3 DEF RInv, RefusalsAreReal
<1> QED  BY <1>2, <1>3

\* A walk that ends without a match has been everywhere.
LEMMA EndSafelyReal == IInv /\ RInv /\ EndSafely => RInv'
<1> SUFFICES ASSUME IInv, RInv, EndSafely PROVE RInv'
  OBVIOUS
<1>1. prog' = prog /\ phase = "safe" /\ Unseen = {} /\ count \in Nat /\ prog \in Programs
  BY DEF EndSafely, IInv, FoundIsCounted
<1>2. phase' \in {"no match", "called", "ambiguous"}
  BY DEF EndSafely
<1>3. phase' = "no match" => Deciding = {}
  <2> SUFFICES ASSUME count = 0 PROVE Deciding = {}
    BY DEF EndSafely
  <2>1. Work = seen  BY <1>1 DEF Work, Unseen
  <2>2. Closed(bases, seen \cap Class) /\ Caller \in seen \cap Class
    <3>1. Caller \in seen /\ \A c \in seen : \A i \in DOMAIN bases[c] : bases[c][i] \in seen
      BY <1>1, <2>1 DEF RInv, NothingMissed
    <3>2. bases \in [Class -> Seq(Class)]
      <4>1. prog \in Program  BY <1>1, ProgramsAssumption
      <4> QED  BY <4>1 DEF Program, bases
    <3>3. \A c \in Class : \A i \in DOMAIN bases[c] : bases[c][i] \in Class  BY <3>2
    <3> QED  BY <3>1, <3>3, ClassesAssumption DEF Closed
  <2>3. Inherited \subseteq seen
    BY <2>2 DEF Inherited, Ancestry, AncestryIn
  <2>4. \A c \in Inherited : BestIn(c) = {}
    BY <1>1, <2>3 DEF RInv, NothingMissed
  <2> QED  BY <2>4, FS_EmptySet DEF Deciding
<1>4. phase' = "ambiguous" => Ambiguous
  <2> SUFFICES ASSUME count # 0, count # 1 PROVE Ambiguous
    BY DEF EndSafely
  <2>1. count > 1  BY <1>1
  <2> QED  BY <1>1, <2>1 DEF RInv, CountIsReal
<1> QED
  BY <1>1, <1>2, <1>3, <1>4, MatchesStay DEF RInv, CountIsReal, NothingMissed, RefusalsAreReal

LEMMA StartIsReal ==
  ASSUME IInv, RInv, StartSearch, prog' = prog, phase' \in {"exact", "safe"} PROVE RInv'
<1>1. seen' = {} /\ walk' = <<Caller>> /\ found' = NoClass /\ count' = 0
  BY DEF StartSearch, StartWalk
<1>2. Caller \in Work'
  <2>1. 1 \in DOMAIN walk' /\ walk'[1] = Caller  BY <1>1
  <2> QED  BY <2>1 DEF Work
<1>3. CountIsReal'  BY <1>1, ClassesAssumption DEF CountIsReal
<1>4. NothingMissed'  BY <1>1, <1>2 DEF NothingMissed
<1>5. RefusalsAreReal'  BY DEF RefusalsAreReal
<1> QED  BY <1>3, <1>4, <1>5 DEF RInv

LEMMA LookUpReal == IInv /\ RInv /\ LookUp => RInv'
<1> SUFFICES ASSUME IInv, RInv, LookUp PROVE RInv'
  OBVIOUS
<1>1. CASE phase' = "exact"
  BY <1>1, StartIsReal DEF LookUp
<1>2. CASE phase' = "undefined"
  <2>1. \A c \in Inherited : functions[c] = {}  BY <1>2 DEF LookUp, Inherited
  <2>2. \A c \in Inherited : BestIn(c) = {}  BY <2>1 DEF BestIn, AcceptingIn
  <2>3. Deciding = {}  BY <2>2, FS_EmptySet DEF Deciding
  <2> QED
    BY <1>2, <2>3, MatchesStay DEF LookUp, RInv, CountIsReal, NothingMissed, RefusalsAreReal
<1> QED  BY <1>1, <1>2 DEF LookUp

LEMMA OthersReal ==
  ASSUME IInv, RInv,
         EndExactly \/ PassArguments \/ EndNotes \/ Done \/ UNCHANGED vars
           \/ \E i \in DOMAIN walk : VisitExactly(i) \/ VisitToNote(i)
  PROVE  RInv'
<1> USE MatchesStay DEF RInv, CountIsReal, NothingMissed, RefusalsAreReal
<1>1. CASE EndExactly
  <2>1. CASE count = 1  BY <1>1, <2>1 DEF EndExactly
  <2>2. CASE count # 1  BY <1>1, <2>2, StartIsReal DEF EndExactly
  <2> QED  BY <2>1, <2>2
<1>2. CASE PassArguments  BY <1>2 DEF PassArguments
<1>3. CASE EndNotes  BY <1>3 DEF EndNotes
<1>4. CASE Done \/ UNCHANGED vars
  <2>1. UNCHANGED vars  BY <1>4 DEF Done
  <2>2. Work' = Work /\ bases' = bases  BY <2>1 DEF vars, search, Work, bases
  <2> QED  BY <2>1, <2>2 DEF vars, search
<1>5. ASSUME NEW i \in DOMAIN walk, VisitExactly(i) PROVE RInv'
  BY <1>5 DEF VisitExactly
<1>6. ASSUME NEW i \in DOMAIN walk, VisitToNote(i) PROVE RInv'
  BY <1>6 DEF VisitToNote
<1> QED  BY <1>1, <1>2, <1>3, <1>4, <1>5, <1>6

\* Nothing is refused but for a reason, in every hierarchy and order of bases:
\* the worklist misses no class while there is no match, and two matches are
\* counted only of classes of which neither hides the other, or of one class.
THEOREM RefusedForAReason == Spec => []RefusalsAreReal
<1>1. Init => RInv
  BY DEF Init, RInv, CountIsReal, NothingMissed, RefusalsAreReal
<1>2. IInv /\ RInv /\ [Next]_vars => IInv' /\ RInv'
  BY VisitExactlyFound, VisitSafelyFound, OthersFound, VisitSafelyReal, EndSafelyReal,
     LookUpReal, OthersReal
  DEF Next
<1>3. RInv => RefusalsAreReal  BY DEF RInv
<1> QED  BY InitFound, <1>1, <1>2, <1>3, PTL DEF Spec

------------------------------------------------------------------------------
\* NearestMatchWins: what a search knows of the classes it visited.

ClimbedFrom(c) == \A i \in DOMAIN bases[c] : bases[c][i] \in Work

\* One exact match is the only one among what was visited; and only its class
\* may have been left without a look at its bases, at the end.
ExactIsOnly ==
  phase = "exact" =>
    /\ Caller \in Work
    /\ \A c \in seen : ClimbedFrom(c) \/ (c = found /\ walk = << >>)
    /\ count = 0 => \A c \in seen : ExactIn(c) = {}
    /\ count = 1 => \A c \in seen \ {found} : ExactIn(c) = {}
    /\ count = 1 => chosen = ExactIn(found)

\* The class found hides every other one that has a match and was visited.
FoundIsNearest ==
  phase = "safe" =>
    /\ Caller \in Work
    /\ \A c \in seen : c \in Deciding \/ ClimbedFrom(c)
    /\ found \in Class => \A c \in seen \cap Deciding : c = found \/ IsSubclass(found, c)
    /\ found = NoClass => seen \cap Deciding = {}

NInv == ExactIsOnly /\ FoundIsNearest /\ NearestMatchWins

\* The bases of a base are inherited.
LEMMA SubclassOfBase ==
  ASSUME prog \in Programs, NEW c \in Class, NEW d \in Ancestry(c), NEW i \in DOMAIN bases[d]
  PROVE  bases[d][i] \in Ancestry(c)
<1>1. prog \in Program  BY ProgramsAssumption
<1>2. d \in Class /\ bases \in [Class -> Seq(Class)]
  BY <1>1 DEF Program, bases, Ancestry, AncestryIn
<1>3. bases[d] \in Seq(Class)  BY <1>2
<1>4. bases[d][i] \in Class  BY <1>3
<1> QED  BY <1>4 DEF Ancestry, AncestryIn, Closed

LEMMA AncestryProperties ==
  ASSUME prog \in Programs, NEW c \in Class
  PROVE  /\ c \in Ancestry(c) /\ Ancestry(c) \subseteq Class
         /\ \A d \in Ancestry(c) : Ancestry(d) \subseteq Ancestry(c)
         /\ \A d \in Ancestry(c) : c \in Ancestry(d) => c = d
<1>1. c \in Ancestry(c) /\ Ancestry(c) \subseteq Class  BY DEF Ancestry, AncestryIn
<1>2. ASSUME NEW d \in Ancestry(c) PROVE Ancestry(d) \subseteq Ancestry(c)
  <2>1. Closed(bases, Ancestry(c))  BY SubclassOfBase DEF Closed
  <2> QED  BY <1>1, <2>1 DEF Ancestry, AncestryIn
<1>3. ASSUME NEW d \in Ancestry(c), c \in Ancestry(d) PROVE c = d
  BY <1>1, <1>3, HierarchiesAssumption DEF Ancestry, bases
<1> QED  BY <1>1, <1>2, <1>3

LEMMA SubclassOrder ==
  ASSUME prog \in Programs, NEW b \in Class, NEW c \in Class, NEW d \in Class
  PROVE  /\ IsSubclass(b, c) /\ IsSubclass(c, d) => IsSubclass(b, d)
         /\ ~(IsSubclass(b, c) /\ IsSubclass(c, b))
<1>1. ~(IsSubclass(b, c) /\ IsSubclass(c, b))  BY AncestryProperties DEF IsSubclass
<1>2. ASSUME IsSubclass(b, c), IsSubclass(c, d) PROVE IsSubclass(b, d)
  <2>1. d \in Ancestry(b)  BY <1>2, AncestryProperties DEF IsSubclass
  <2>2. b # d  BY <1>1, <1>2
  <2> QED  BY <2>1, <2>2 DEF IsSubclass
<1> QED  BY <1>1, <1>2

\* A class that a walk did not visit is behind one whose bases it left alone.
LEMMA NotVisited ==
  ASSUME prog \in Programs, Work = seen, Caller \in seen, NEW S,
         \A c \in seen : c \in S \/ ClimbedFrom(c),
         NEW d \in Inherited, d \notin seen
  PROVE  \E c \in seen \cap S \cap Class : IsSubclass(c, d)
<1> DEFINE Behinds == {e \in Class : e \in seen \/ \E c \in seen \cap S \cap Class : IsSubclass(c, e)}
<1>1. Caller \in Behinds  BY ClassesAssumption
<1>2. ASSUME NEW e \in Behinds, NEW i \in DOMAIN bases[e] PROVE bases[e][i] \in Behinds
  <2> DEFINE b == bases[e][i]
  <2>1. b \in Ancestry(e) /\ b \in Class  BY AncestryProperties, SubclassOfBase
  <2>2. CASE e \in seen /\ ClimbedFrom(e)  BY <2>1, <2>2 DEF ClimbedFrom
  <2>3. CASE e \in seen /\ e \in S  BY <2>1, <2>3 DEF IsSubclass
  <2>4. ASSUME NEW c \in seen \cap S \cap Class, IsSubclass(c, e) PROVE b \in Behinds
    <3>1. b \in Ancestry(c)  BY <2>1, <2>4, AncestryProperties DEF IsSubclass
    <3> QED  BY <2>1, <3>1 DEF IsSubclass
  <2> QED  BY <2>2, <2>3, <2>4
<1>3. Inherited \subseteq Behinds
  BY <1>1, <1>2 DEF Inherited, Ancestry, AncestryIn, Closed
<1> QED  BY <1>3

LEMMA HidingStays ==
  ASSUME prog' = prog
  PROVE  /\ \A f : Exact(f)' = Exact(f)
         /\ \A c : ExactIn(c)' = ExactIn(c)
BY DEF Exact, ExactIn, TakesAsMany, args, functions

LEMMA NearestStays ==
  ASSUME NInv, UNCHANGED <<prog, found, chosen>>, phase' \notin {"exact", "safe"},
         phase' \in {"called", "passed"} => phase \in {"called", "passed"}
  PROVE  NInv'
BY MatchesStay, HidingStays DEF NInv, ExactIsOnly, FoundIsNearest, NearestMatchWins

LEMMA StartIsNearest ==
  ASSUME IInv, StartSearch, prog' = prog, phase' \in {"exact", "safe"} PROVE NInv'
<1>1. seen' = {} /\ walk' = <<Caller>> /\ found' = NoClass /\ count' = 0
  BY DEF StartSearch, StartWalk
<1>2. Caller \in Work'
  <2>1. 1 \in DOMAIN walk' /\ walk'[1] = Caller  BY <1>1
  <2> QED  BY <2>1 DEF Work
<1> QED
  BY <1>1, <1>2, ClassesAssumption DEF NInv, ExactIsOnly, FoundIsNearest, NearestMatchWins

LEMMA VisitExactlyNearest ==
  ASSUME IInv, NInv, NEW i \in DOMAIN walk, IsNext(i), VisitExactly(i) PROVE NInv'
<1> DEFINE c == walk[i]
<1> DEFINE n == Cardinality(ExactIn(c))
<1>1. /\ c \in Class /\ prog \in Programs /\ count \in Nat /\ n \in Nat
      /\ prog' = prog /\ seen' = seen \cup {c} /\ count' = count + n
      /\ phase = "exact" /\ phase' = "exact" /\ c \notin seen /\ walk # << >>
  BY NextIsInherited, MatchesAreFinite DEF IInv, FoundIsCounted, VisitExactly, IsNext, Unseen
<1>2. n = 0 => ExactIn(c) = {}  BY <1>1, MatchesAreFinite, FS_EmptySet
<1>3. \A x \in seen : ClimbedFrom(x)  BY <1>1 DEF NInv, ExactIsOnly
<1>4. /\ Work \subseteq Work'
      /\ \/ \A k \in DOMAIN bases[c] : bases[c][k] \in Work'
         \/ c = found' /\ walk' = << >>
  <2>1. CASE Climb(i)  BY <1>1, <2>1, ClimbGoesOn
  <2>2. CASE Behind(i) = << >> /\ walk' = << >> /\ found' = c
    BY <1>1, <2>2, LeaveGoesOn
  <2> QED  BY <2>1, <2>2 DEF VisitExactly
<1>5. \A x \in seen' : ClimbedFrom(x)' \/ (x = found' /\ walk' = << >>)
  BY <1>1, <1>3, <1>4, MeaningStays DEF ClimbedFrom
<1>6. Caller \in Work'  BY <1>1, <1>4 DEF NInv, ExactIsOnly
<1>7. CASE n = 1
  <2>1. found' = c /\ chosen' = ExactIn(c)  BY <1>7 DEF VisitExactly
  <2>2. count' = 1 => count = 0  BY <1>1, <1>7
  <2>3. count' # 0  BY <1>1, <1>7
  <2>4. count' = 1 => \A x \in seen' \ {found'} : ExactIn(x)' = {}
    BY <1>1, <2>1, <2>2, HidingStays DEF NInv, ExactIsOnly
  <2>5. chosen' = ExactIn(found)'
    BY <1>1, <2>1, HidingStays DEF ExactIn, functions
  <2> QED
    BY <1>1, <1>5, <1>6, <2>3, <2>4, <2>5
    DEF NInv, ExactIsOnly, FoundIsNearest, NearestMatchWins
<1>8. CASE n # 1
  <2>1. UNCHANGED <<found, chosen>>  BY <1>8 DEF VisitExactly
  <2>2. count' \in {0, 1} => n = 0 /\ count' = count  BY <1>1, <1>8
  <2>3. count' = 0 => \A x \in seen' : ExactIn(x)' = {}
    BY <1>1, <1>2, <2>2, HidingStays DEF NInv, ExactIsOnly
  <2>4. count' = 1 => \A x \in seen' \ {found'} : ExactIn(x)' = {}
    BY <1>1, <1>2, <2>1, <2>2, HidingStays DEF NInv, ExactIsOnly
  <2>5. count' = 1 => chosen' = ExactIn(found)'
    BY <1>1, <2>1, <2>2, HidingStays DEF NInv, ExactIsOnly, ExactIn, functions
  <2> QED
    BY <1>1, <1>5, <1>6, <2>3, <2>4, <2>5
    DEF NInv, ExactIsOnly, FoundIsNearest, NearestMatchWins
<1> QED  BY <1>7, <1>8

LEMMA VisitSafelyNearest ==
  ASSUME IInv, RInv, NInv, NEW i \in DOMAIN walk, IsNext(i), VisitSafely(i) PROVE NInv'
<1> DEFINE c == walk[i]
<1> DEFINE n == Cardinality(BestIn(c))
<1>1. /\ c \in Class /\ c \in Inherited /\ prog \in Programs
      /\ prog' = prog /\ seen' = seen \cup {c} /\ phase = "safe" /\ c \notin seen
      /\ phase' \in {"safe", "aborted"}
  <2>1. phase' \in {"safe", "aborted"}
    BY DEF VisitSafely, MeetMatch, Find, MeetConflict, Skip, Abort, IInv, FoundIsCounted
  <2> QED  BY <2>1, NextIsInherited DEF IInv, VisitSafely, IsNext, Unseen
<1>2. c \in Deciding <=> n = 1  BY <1>1 DEF Deciding
<1>3. Work \subseteq Work' /\ (c \in Deciding \/ \A k \in DOMAIN bases[c] : bases[c][k] \in Work')
  <2>1. CASE n = 1
    <3>1. walk' = Behind(i)  BY <2>1 DEF VisitSafely
    <3> QED  BY <1>1, <1>2, <2>1, <3>1, LeaveGoesOn
  <2>2. CASE n # 1
    <3>1. Climb(i)  BY <2>2 DEF VisitSafely
    <3> QED  BY <1>1, <3>1, ClimbGoesOn
  <2> QED  BY <2>1, <2>2
<1>4. \A x \in seen' : x \in Deciding' \/ ClimbedFrom(x)'
  BY <1>1, <1>3, MatchesStay, MeaningStays DEF NInv, FoundIsNearest, ClimbedFrom
<1>5. Caller \in Work'  BY <1>1, <1>3 DEF NInv, FoundIsNearest
<1> DEFINE Nearest(x) == \A y \in seen' \cap Deciding : y = x \/ IsSubclass(x, y)
<1>6. /\ found' \in Class => Nearest(found')
      /\ found' = NoClass => seen' \cap Deciding = {}
  <2>1. CASE n # 1
    <3>1. UNCHANGED found  BY <2>1 DEF VisitSafely
    <3> QED  BY <1>1, <1>2, <2>1, <3>1 DEF NInv, FoundIsNearest
  <2>2. CASE n = 1
    <3>1. MeetMatch(c)  BY <2>2 DEF VisitSafely
    <3>2. CASE Find(c) /\ found = NoClass
      BY <1>1, <3>2, ClassesAssumption DEF Find, NInv, FoundIsNearest
    <3>3. CASE Find(c) /\ found \in Class /\ IsSubclass(c, found)
      <4>1. \A y \in seen \cap Deciding : IsSubclass(c, y)
        <5>1. \A y \in seen \cap Deciding : y = found \/ IsSubclass(found, y)
          BY <1>1, <3>3 DEF NInv, FoundIsNearest
        <5>2. Deciding \subseteq Class  BY <1>1, InheritedIsClosed DEF Deciding
        <5> QED  BY <1>1, <3>3, <5>1, <5>2, SubclassOrder
      <4> QED  BY <1>1, <3>3, <4>1, ClassesAssumption DEF Find
    <3>4. CASE MeetConflict
      BY <3>4, ClassesAssumption DEF MeetConflict
    <3>5. CASE Abort /\ found = Conflict
      BY <3>5, ClassesAssumption DEF Abort
    <3>6. CASE Skip /\ found \in Class /\ IsSubclass(found, c)
      BY <1>1, <3>6, ClassesAssumption DEF Skip, NInv, FoundIsNearest
    <3> QED
      BY <3>1, <3>2, <3>3, <3>4, <3>5, <3>6 DEF MeetMatch, IInv, FoundIsCounted
  <2> QED  BY <2>1, <2>2
<1>7. FoundIsNearest'
  BY <1>1, <1>4, <1>5, <1>6, MatchesStay DEF FoundIsNearest
<1> QED  BY <1>1, <1>7 DEF NInv, ExactIsOnly, NearestMatchWins

LEMMA EndExactlyNearest == IInv /\ NInv /\ EndExactly => NInv'
<1> SUFFICES ASSUME IInv, NInv, EndExactly PROVE NInv'
  OBVIOUS
<1>1. CASE count # 1  BY <1>1, StartIsNearest DEF EndExactly
<1>2. CASE count = 1
  <2>1. /\ UNCHANGED <<prog, found, chosen>> /\ phase = "exact" /\ phase' = "called"
        /\ Work = seen /\ prog \in Programs /\ found \in Class
    BY <1>2 DEF EndExactly, search, Work, Unseen, IInv, FoundIsCounted, NInv, ExactIsOnly
  <2>2. ASSUME NEW c \in Deciding, NEW f \in chosen, IsSubclass(c, found)
        PROVE  Exact(f) /\ ExactIn(c) = {}
    <3>1. Exact(f)  BY <1>2, <2>1 DEF NInv, ExactIsOnly, ExactIn
    <3>2. c \in Inherited /\ c \in Class  BY <2>1, InheritedIsClosed DEF Deciding
    <3>3. c \in seen
      <4> SUFFICES ASSUME c \notin seen PROVE FALSE
        OBVIOUS
      <4>1. \A x \in seen : x \in {found} \/ ClimbedFrom(x)
        BY <2>1 DEF NInv, ExactIsOnly
      <4>2. Caller \in seen  BY <2>1 DEF NInv, ExactIsOnly
      <4> DEFINE S == {found}
      <4>3. \A x \in seen : x \in S \/ ClimbedFrom(x)  BY <4>1
      <4>4. PICK x \in seen \cap S \cap Class : IsSubclass(x, c)
        <5> HIDE DEF S
        <5> QED  BY <2>1, <3>2, <4>2, <4>3, NotVisited
      <4>5. IsSubclass(found, c)  BY <4>4
      <4> QED  BY <2>1, <2>2, <3>2, <4>5, SubclassOrder
    <3>4. c # found  BY <2>2 DEF IsSubclass
    <3> QED  BY <1>2, <2>1, <3>1, <3>3, <3>4 DEF NInv, ExactIsOnly
  <2> QED
    BY <2>1, <2>2, MatchesStay, HidingStays
    DEF NInv, ExactIsOnly, FoundIsNearest, NearestMatchWins
<1> QED  BY <1>1, <1>2

LEMMA EndSafelyNearest == IInv /\ NInv /\ EndSafely => NInv'
<1> SUFFICES ASSUME IInv, NInv, EndSafely PROVE NInv'
  OBVIOUS
<1>1. /\ UNCHANGED <<prog, found, chosen>> /\ phase = "safe" /\ phase' \notin {"exact", "safe", "passed"}
      /\ (phase' = "called" => count = 1) /\ prog \in Programs
  BY DEF EndSafely, IInv
<1>2. ASSUME count = 1, NEW c \in Deciding, IsSubclass(c, found) PROVE FALSE
  <2>1. found \in Class /\ Work = seen
    BY <1>2 DEF EndSafely, IInv, FoundIsCounted, Work, Unseen
  <2>2. c \in Inherited /\ c \in Class  BY <1>1, InheritedIsClosed DEF Deciding
  <2>3. \A x \in seen \cap Deciding : x = found \/ IsSubclass(found, x)
    BY <1>1, <2>1 DEF NInv, FoundIsNearest
  <2>4. CASE c \in seen
    <3>1. c # found  BY <1>2 DEF IsSubclass
    <3>2. IsSubclass(found, c)  BY <2>3, <2>4, <3>1
    <3> QED  BY <1>1, <1>2, <2>1, <2>2, <3>2, SubclassOrder
  <2>5. CASE c \notin seen
    <3>1. Caller \in seen /\ \A x \in seen : x \in Deciding \/ ClimbedFrom(x)
      BY <1>1, <2>1 DEF NInv, FoundIsNearest
    <3>2. PICK x \in seen \cap Deciding \cap Class : IsSubclass(x, c)
      BY <1>1, <2>1, <2>2, <2>5, <3>1, NotVisited
    <3>3. IsSubclass(found, c)
      <4>1. CASE x = found  BY <3>2, <4>1
      <4>2. CASE IsSubclass(found, x)  BY <1>1, <2>1, <2>2, <3>2, <4>2, SubclassOrder
      <4> QED  BY <2>3, <4>1, <4>2
    <3> QED  BY <1>1, <1>2, <2>1, <2>2, <3>3, SubclassOrder
  <2> QED  BY <2>4, <2>5
<1> QED
  BY <1>1, <1>2, MatchesStay, HidingStays
  DEF NInv, ExactIsOnly, FoundIsNearest, NearestMatchWins

LEMMA OthersNearest ==
  ASSUME IInv, NInv,
         LookUp \/ PassArguments \/ EndNotes \/ Done \/ UNCHANGED vars
           \/ \E i \in DOMAIN walk : VisitToNote(i)
  PROVE  NInv'
<1>1. CASE LookUp
  <2>1. CASE phase' = "exact"  BY <1>1, <2>1, StartIsNearest DEF LookUp
  <2>2. CASE phase' = "undefined"
    BY <1>1, <2>2, NearestStays DEF LookUp, search
  <2> QED  BY <1>1, <2>1, <2>2 DEF LookUp
<1>2. CASE PassArguments  BY <1>2, NearestStays DEF PassArguments, search
<1>3. CASE EndNotes  BY <1>3, NearestStays DEF EndNotes, search
<1>4. CASE Done \/ UNCHANGED vars
  <2>1. UNCHANGED vars  BY <1>4 DEF Done
  <2>2. Work' = Work /\ bases' = bases  BY <2>1 DEF vars, search, Work, bases
  <2>3. \A c : ClimbedFrom(c)' = ClimbedFrom(c)  BY <2>2 DEF ClimbedFrom
  <2>4. ExactIn(found)' = ExactIn(found)
    BY <2>1, HidingStays DEF vars, search, ExactIn, functions
  <2> QED
    BY <2>1, <2>2, <2>3, <2>4, MatchesStay, HidingStays
    DEF vars, search, NInv, ExactIsOnly, FoundIsNearest, NearestMatchWins
<1>5. ASSUME NEW i \in DOMAIN walk, VisitToNote(i) PROVE NInv'
  BY <1>5, NearestStays DEF VisitToNote
<1> QED  BY <1>1, <1>2, <1>3, <1>4, <1>5

\* The function that is called is not hidden: in every hierarchy and order of
\* the bases no class between it and the caller has one match of its own.  It
\* is here that the order in which the worklist is gone through might matter.
THEOREM NearestIsCalled == Spec => []NearestMatchWins
<1>1. Init => RInv /\ NInv
  BY DEF Init, RInv, CountIsReal, NothingMissed, RefusalsAreReal,
     NInv, ExactIsOnly, FoundIsNearest, NearestMatchWins
<1>2. IInv /\ RInv /\ NInv /\ [Next]_vars => IInv' /\ RInv' /\ NInv'
  <2> SUFFICES ASSUME IInv, RInv, NInv, [Next]_vars PROVE IInv' /\ RInv' /\ NInv'
    OBVIOUS
  <2>1. IInv' /\ RInv'
    BY VisitExactlyFound, VisitSafelyFound, OthersFound, VisitSafelyReal, EndSafelyReal,
       LookUpReal, OthersReal
    DEF Next
  <2>2. NInv'
    BY VisitExactlyNearest, VisitSafelyNearest, EndExactlyNearest, EndSafelyNearest, OthersNearest
    DEF Next
  <2> QED  BY <2>1, <2>2
<1>3. NInv => NearestMatchWins  BY DEF NInv
<1> QED  BY InitFound, <1>1, <1>2, <1>3, PTL DEF Spec

------------------------------------------------------------------------------
\* ArgumentsArrive: a cast that is safe keeps the number.

LEMMA Powers ==
  /\ TwoTo[0] = 1
  /\ \A n \in Nat : TwoTo[n] \in Nat \ {0} /\ TwoTo[n + 1] = 2 * TwoTo[n]
  /\ \A n, m \in Nat : n <= m => TwoTo[n] <= TwoTo[m]
<1>1. TwoTo = [n \in Nat |-> IF n = 0 THEN 1 ELSE 2 * TwoTo[n - 1]]
  BY PowersExist, Zenon DEF TwoTo
<1> QED BY <1>1, PowersOfTwo, Zenon

LEMMA LogarithmOf ==
  ASSUME NEW x \in 1 .. MAXBITSPERLONG
  PROVE  /\ LogBase2(x) \in 0 .. MAXBITSPERLONG
         /\ TwoTo[LogBase2(x)] <= x /\ x < TwoTo[LogBase2(x) + 1]
<1>1. TwoTo = [n \in Nat |-> IF n = 0 THEN 1 ELSE 2 * TwoTo[n - 1]]
  BY PowersExist, Zenon DEF TwoTo
<1>2. MAXBITSPERLONG \in Nat /\ x \in Nat \ {0} /\ x <= MAXBITSPERLONG
  BY WordsAssumption
<1>3. \E k \in 0 .. MAXBITSPERLONG : TwoTo[k] <= x /\ x < TwoTo[k + 1]
  BY <1>1, <1>2, Logarithm, Zenon
<1> QED BY <1>3, Zenon DEF LogBase2

LEMMA SizesAreNumbers ==
  ASSUME NEW k, NEW t \in Type(k)
  PROVE  t.kind \in k /\ t.size \in 1 .. MAXBITSPERLONG /\ t.size \in Nat \ {0} /\ t.size - 1 \in Nat
BY WordsAssumption DEF Type

\* Every number of a type is one of each type that it is safely cast to.
LEMMA SafeCastsKeepNumbers ==
  ASSUME NEW t \in Type(Numeric), NEW to \in Type(Numeric), SafeCast(to, t), NEW n \in Values(t)
  PROVE  n \in Values(to)
<1>1. /\ t.kind \in Numeric /\ t.size \in Nat \ {0} /\ t.size - 1 \in Nat
      /\ to.kind \in Numeric /\ to.size \in Nat \ {0} /\ to.size - 1 \in Nat
      /\ t.size \in 1 .. MAXBITSPERLONG
  BY SizesAreNumbers
<1>2. /\ TwoTo[t.size] \in Nat /\ TwoTo[t.size - 1] \in Nat
      /\ TwoTo[to.size] \in Nat /\ TwoTo[to.size - 1] \in Nat
  BY <1>1, Powers
<1>3. CASE t.kind = "Int"
  <2>1. to.kind = "Int" /\ to.size >= t.size
    BY <1>1, <1>3 DEF SafeCast, IntSafeCast, UnsignedSafeCast, UnarySafeCast, Numeric
  <2>2. TwoTo[t.size - 1] <= TwoTo[to.size - 1]
    BY <1>1, <2>1, Powers
  <2>3. n \in IntValues(t.size)
    BY <1>3 DEF Values
  <2>4. n \in IntValues(to.size)
    BY <1>2, <2>2, <2>3 DEF IntValues
  <2> QED BY <2>1, <2>4 DEF Values
<1>4. CASE t.kind = "Unsigned"
  <2>1. n \in 0 .. TwoTo[t.size] - 1
    BY <1>4 DEF Values, UnsignedValues
  <2>2. CASE to.kind = "Int"
    <3>1. t.size <= to.size - 1
      BY <1>1, <1>4, <2>2 DEF SafeCast, IntSafeCast
    <3>2. TwoTo[t.size] <= TwoTo[to.size - 1]
      BY <1>1, <3>1, Powers
    <3>3. n \in IntValues(to.size)
      BY <1>2, <2>1, <3>2 DEF IntValues
    <3> QED BY <2>2, <3>3 DEF Values
  <2>3. CASE to.kind = "Unsigned"
    <3>1. t.size <= to.size
      BY <1>1, <1>4, <2>3 DEF SafeCast, UnsignedSafeCast
    <3>2. TwoTo[t.size] <= TwoTo[to.size]
      BY <1>1, <3>1, Powers
    <3>3. n \in UnsignedValues(to.size)
      BY <1>2, <2>1, <3>2 DEF UnsignedValues
    <3> QED BY <2>3, <3>3 DEF Values
  <2>4. CASE to.kind = "Unary"
    <3>1. to.size >= TwoTo[t.size] - 1
      BY <1>1, <1>4, <2>4 DEF SafeCast, UnarySafeCast
    <3>2. n \in UnaryValues(to.size)
      BY <1>1, <1>2, <2>1, <3>1 DEF UnaryValues
    <3> QED BY <2>4, <3>2 DEF Values
  <2> QED BY <1>1, <2>2, <2>3, <2>4 DEF Numeric
<1>5. CASE t.kind = "Unary"
  <2>1. n \in 0 .. t.size
    BY <1>5 DEF Values, UnaryValues
  <2>2. LogBase2(t.size) + 1 \in Nat /\ t.size < TwoTo[LogBase2(t.size) + 1]
    BY <1>1, LogarithmOf
  <2>3. CASE to.kind = "Int"
    <3>1. LogBase2(t.size) + 1 <= to.size - 1
      BY <1>1, <1>5, <2>2, <2>3 DEF SafeCast, IntSafeCast
    <3>2. TwoTo[LogBase2(t.size) + 1] <= TwoTo[to.size - 1]
      BY <1>1, <2>2, <3>1, Powers
    <3>3. TwoTo[LogBase2(t.size) + 1] \in Nat
      BY <2>2, Powers
    <3>4. n \in IntValues(to.size)
      BY <1>1, <1>2, <2>1, <2>2, <3>2, <3>3 DEF IntValues
    <3> QED BY <2>3, <3>4 DEF Values
  <2>4. CASE to.kind = "Unsigned"
    <3>1. LogBase2(t.size) + 1 <= to.size
      BY <1>1, <1>5, <2>2, <2>4 DEF SafeCast, UnsignedSafeCast
    <3>2. TwoTo[LogBase2(t.size) + 1] <= TwoTo[to.size]
      BY <1>1, <2>2, <3>1, Powers
    <3>3. TwoTo[LogBase2(t.size) + 1] \in Nat
      BY <2>2, Powers
    <3>4. n \in UnsignedValues(to.size)
      BY <1>1, <1>2, <2>1, <2>2, <3>2, <3>3 DEF UnsignedValues
    <3> QED BY <2>4, <3>4 DEF Values
  <2>5. CASE to.kind = "Unary"
    <3>1. to.size >= t.size
      BY <1>1, <1>5, <2>5 DEF SafeCast, UnarySafeCast
    <3>2. n \in UnaryValues(to.size)
      BY <1>1, <2>1, <3>1 DEF UnaryValues
    <3> QED BY <2>5, <3>2 DEF Values
  <2> QED BY <1>1, <2>3, <2>4, <2>5 DEF Numeric
<1> QED BY <1>1, <1>3, <1>4, <1>5 DEF Numeric

\* A number that the type has is kept by the conversion to it.
LEMMA NumbersAreKept ==
  ASSUME NEW t \in Type(Numeric), NEW to \in Type(Numeric), NEW n \in Values(to)
  PROVE  Converted(n, t, to) = {n}
<1>1. /\ t.kind \in Numeric /\ to.kind \in Numeric
      /\ to.size \in Nat \ {0} /\ to.size - 1 \in Nat
  BY SizesAreNumbers
<1>2. TwoTo[to.size] \in Nat /\ TwoTo[to.size - 1] \in Nat
  BY <1>1, Powers
<1>3. t.kind # "Bits"
  BY <1>1 DEF Numeric
<1>4. CASE to.kind = "Int"
  <2>1. n \in -TwoTo[to.size - 1] .. TwoTo[to.size - 1] - 1
    BY <1>4 DEF Values, IntValues
  <2>2. Clamp(n, TypeOf("Int", to.size)) = n
    BY <1>2, <2>1 DEF Clamp, TypeOf, Larger, Smaller
  <2> QED BY <1>3, <1>4, <2>2 DEF Converted, IntConverted
<1>5. CASE to.kind = "Unsigned"
  <2>1. n \in 0 .. TwoTo[to.size] - 1
    BY <1>5 DEF Values, UnsignedValues
  <2>2. Clamp(n, TypeOf("Unsigned", to.size)) = n
    BY <1>2, <2>1 DEF Clamp, TypeOf, Larger, Smaller
  <2> QED BY <1>3, <1>5, <2>2 DEF Converted, UnsignedConverted
<1>6. CASE to.kind = "Unary"
  <2>1. n \in 0 .. to.size
    BY <1>6 DEF Values, UnaryValues
  <2>2. Clamp(n, TypeOf("Unary", to.size)) = n
    BY <1>1, <2>1 DEF Clamp, TypeOf, Larger, Smaller
  <2> QED BY <1>3, <1>6, <2>2 DEF Converted, UnaryConverted
<1> QED BY <1>1, <1>4, <1>5, <1>6 DEF Numeric

\* What is passed to a function that takes the arguments is their values.
LEMMA PassedIsKept ==
  ASSUME prog \in Programs, NEW c \in Class, NEW f \in functions[c], Accepts(f),
         NEW i \in DOMAIN args, args[i].type.kind \in Numeric,
         i \in DOMAIN f.params => f.params[i].kind \in Numeric
  PROVE  Passed(f, i) = {args[i].val}
<1>1. CASE i \notin DOMAIN f.params
  BY <1>1 DEF Passed
<1>2. CASE i \in DOMAIN f.params
  <2> DEFINE a == args[i]
  <2> DEFINE t == f.params[i]
  <2>1. prog \in Program
    BY ProgramsAssumption
  <2>2. f \in Function
    BY <2>1 DEF Program, functions
  <2>3. t \in Type(Kinds) /\ t.kind \in Numeric
    BY <1>2, <2>2 DEF Function
  <2>4. a \in Argument
    BY <2>1 DEF Program, args
  <2>5. t \in Type(Numeric) /\ a.type \in Type(Numeric)
    BY <2>3, <2>4 DEF Type, Argument
  <2>6. a.val \in Values(a.type)
    BY ArgumentsAssumption DEF args
  <2>7. CanPass(a, t)
    BY <1>2 DEF Accepts
  <2> HIDE DEF a, t
  <2>8. a.val \in Values(t)
    <3>1. CASE a.type = t
      BY <2>6, <3>1
    <3>2. CASE TRUE \in ConstantSafeToCast(a, t)
      <4>1. a.type.kind \notin {"Bool", "Bits"} /\ t.kind \notin {"Bool", "Bits"}
        BY <2>5, SizesAreNumbers DEF Numeric
      <4> QED BY <3>2, <4>1 DEF ConstantSafeToCast, FitsInBits
    <3>3. CASE SafeCast(t, a.type)
      BY <2>5, <2>6, <3>3, SafeCastsKeepNumbers
    <3> QED BY <2>7, <3>1, <3>2, <3>3 DEF CanPass
  <2>9. Converted(a.val, a.type, t) = {a.val}
    BY <2>5, <2>8, NumbersAreKept
  <2> QED BY <1>2, <2>9 DEF Passed, a, t
<1> QED BY <1>1, <1>2

LEMMA PassArgumentsArrive == IInv /\ PassArguments => ArgumentsArrive'
<1> SUFFICES ASSUME IInv, PassArguments PROVE ArgumentsArrive'
  OBVIOUS
<1>1. /\ prog \in Programs /\ found \in Class /\ UNCHANGED <<prog, chosen>>
      /\ \E f \in functions[found] : chosen = {f} /\ Accepts(f)
  BY DEF PassArguments, IInv, FoundIsCounted, PhaseIsFound, search
<1>2. PICK f \in functions[found] : chosen = {f} /\ Accepts(f)
  BY <1>1
<1>3. \A i \in DOMAIN args : received'[i] \in Passed(f, i)
  BY <1>2 DEF PassArguments
<1>4. args' = args
  BY <1>1 DEF args
<1>5. ASSUME NEW i \in DOMAIN args, args[i].type.kind \in Numeric,
             i \in DOMAIN f.params => f.params[i].kind \in Numeric
      PROVE  received'[i] = args[i].val
  BY <1>1, <1>2, <1>3, <1>5, PassedIsKept
<1> QED BY <1>1, <1>2, <1>4, <1>5 DEF ArgumentsArrive

\* Every number arrives as it was: the casts that matchingTypes found safe
\* lose no value of the argument, whatever the sizes of the types and whichever
\* function the search chose.
THEOREM NumbersArrive == Spec => []ArgumentsArrive
<1>1. Init => ArgumentsArrive
  BY DEF Init, ArgumentsArrive
<1>2. IInv /\ ArgumentsArrive /\ [Next]_vars => IInv' /\ ArgumentsArrive'
  <2> SUFFICES ASSUME IInv, ArgumentsArrive, [Next]_vars PROVE IInv' /\ ArgumentsArrive'
    OBVIOUS
  <2>1. IInv'
    BY VisitExactlyFound, VisitSafelyFound, OthersFound DEF Next
  <2>2. phase' # "passed" \/ PassArguments \/ UNCHANGED vars
    BY DEF Next, VisitExactly, VisitSafely, VisitToNote, MeetMatch, Find, MeetConflict, Skip, Abort,
           LookUp, EndExactly, EndSafely, EndNotes, Done
  <2>3. CASE phase' # "passed"
    BY <2>1, <2>3 DEF ArgumentsArrive
  <2>4. CASE UNCHANGED vars
    BY <2>1, <2>4 DEF vars, search, ArgumentsArrive, args
  <2> QED BY <2>1, <2>2, <2>3, <2>4, PassArgumentsArrive
<1> QED BY InitFound, <1>1, <1>2, PTL DEF Spec
=============================================================================
