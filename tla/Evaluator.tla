------------------------------ MODULE Evaluator -------------------------------
(***************************************************************************)
(* The evaluator: it runs the test() of a class, and all it calls, on the  *)
(* nodes of ControlFlow, with two stacks that outlive an evaluation.  The  *)
(* node stack has a frame for every node under evaluation, whose value is  *)
(* left just below its frame; the call stack has a frame for every         *)
(* function, above the arguments of its caller.                            *)
(*                                                                         *)
(* A status ends an evaluation: NORMAL, or RETURN, BREAK, CONTINUE (which  *)
(* a function or a loop takes), UNEVALUABLE (a native function) or, where  *)
(* an assertion ends the compiler, ABORTED.                                *)
(***************************************************************************)
EXTENDS ControlFlow

CONSTANTS
    Classes,    \* the classes to test: functions by name, one of them test()
    Initial,    \* the values that the data member of a class may start with
    MaxTests,   \* how many tests are run one after the other
    MaxWork     \* how many turns of loops and calls an evaluation may make

ASSUME WorkAssumption == MaxWork \in Nat /\ MaxTests \in Nat /\ Initial \subseteq Int

VARIABLES
    source, \* the class that is tested
    class,  \* the nodes of its functions
    state,  \* the evaluator's part of CompilerState
    last,   \* the last test: what it started with, how it ended, its value and effect
    tests   \* how many there were

vars == <<source, class, state, last, tests>>

(***************************************************************************)
(* The stacks.  A pointer is the site in the event window, a place that    *)
(* counts from the bottom of the call stack, or one relative to the frame. *)
(***************************************************************************)
EmptyStack == [frames |-> <<-1>>, cur |-> 0]

Push(S, v)       == [S EXCEPT !.frames = Append(@, v)]
PopN(S, n)       == [S EXCEPT !.frames = SubSeq(@, 1, Len(@) - n)]
Load(S, slot)    == S.frames[S.cur + slot + 1]
Store(S, slot, v) == [S EXCEPT !.frames[S.cur + slot + 1] = v]

AddFrameSlots(S, depth) ==
    [frames |-> S.frames \o <<S.cur>> \o [i \in 1..depth |-> 0], cur |-> Len(S.frames)]

ReturnFrame(S) ==
    [frames |-> SubSeq(S.frames, 1, S.cur), cur |-> Load(S, 0)]

Site    == <<"site">>
Abs(i)  == <<"abs", i>>
Rel(i)  == <<"rel", i>>
NoPtr   == <<"none">>

\* A pointer is passed as it is.
BugAbsolute(S, ptr) == ptr

\* getAbsoluteStackIndexOfSlot: the same place for another frame.
Absolute(S, ptr) == IF ptr[1] = "rel" THEN Abs(S.cur + ptr[2]) ELSE ptr

\* An assertion of the call stack: the place a pointer says is still there.
InStack(s, ptr) == ptr[1] = "abs" => ptr[2] < Len(s.calls.frames)

Target(s, ptr) ==
    CASE ptr = Site       -> s.site
      [] ptr[1] = "abs"   -> s.calls.frames[ptr[2] + 1]
      [] ptr[1] = "rel"   -> Load(s.calls, ptr[2])

Assign(s, ptr, v) ==
    CASE ptr = Site       -> [s EXCEPT !.site = v]
      [] ptr[1] = "abs"   -> [s EXCEPT !.calls.frames[ptr[2] + 1] = v]
      [] ptr[1] = "rel"   -> [s EXCEPT !.calls = Store(@, ptr[2], v)]

(***************************************************************************)
(* What every node does: a frame, room for a value, leaving with a status. *)
(***************************************************************************)
Prolog(s)     == [s EXCEPT !.nodes = AddFrameSlots(@, 0)]
Epilog(s)     == [s EXCEPT !.nodes = ReturnFrame(@)]
Room(s)       == [s EXCEPT !.nodes = Push(@, 0)]
Top(s)        == Last(s.nodes.frames)
PopTop(s)     == [s EXCEPT !.nodes = PopN(@, 1)]
Result(s, v)  == [s EXCEPT !.nodes = Store(@, -1, v)]
Value1(s)     == Load(s.nodes, 1)
Value2(s)     == Load(s.nodes, 2)
Normal(s)     == s.evs = "NORMAL"
With(s, evs)  == [s EXCEPT !.evs = evs]

\* A node leaves its frame, with the status of an operand that was not NORMAL.
IfNormal(s, next(_)) == IF Normal(s) THEN next(s) ELSE Epilog(s)

\* Blocks, labels and simple statements have the type Void: they leave no value.
LeavesValue(n) == n.k \notin {"block", "empty", "break", "continue", "label", "do"}

RoomFor(n, s) == IF LeavesValue(n) THEN Room(s) ELSE s

\* The functions of the class, and the variables of the function that runs.
Fn(s)       == class[s.fn]
Symbol(s, x) == <<s.fn, x>>
IsRefParameter(s, x) == \E i \in DOMAIN Fn(s).params : Fn(s).params[i] = [x |-> x, ref |-> TRUE]

\* makeUlamValuePtr: a data member is in the current object; a reference has
\* its pointer in its SYMBOL once its declaration was evaluated; a parameter
\* that is a reference has it on the stack.
PtrOf(s, x) ==
    CASE x = "d"                            -> s.obj
      [] s.auto[Symbol(s, x)] # NoPtr       -> s.auto[Symbol(s, x)]
      [] IsRefParameter(s, x)               -> Load(s.calls, Fn(s).slot[x])
      [] OTHER                              -> Rel(Fn(s).slot[x])

\* NodeIdent::evalToStoreInto
EvalToStoreInto(x, s) == Epilog(Result(Prolog(s), PtrOf(s, x)))

RECURSIVE Eval(_, _), EvalStatements(_, _), EvalLoop(_, _), EvalArguments(_, _, _)

EvalTerminal(v, s) == Epilog(Result(Prolog(s), v))

EvalIdent(x, s) ==
    LET p == Prolog(s)
    IN  IF InStack(p, PtrOf(p, x)) THEN Epilog(Result(p, Target(p, PtrOf(p, x))))
        ELSE Epilog(With(p, "ABORTED"))

Computed(k, x, y) == IF k = "plus" THEN x + y ELSE IF x = y THEN 1 ELSE 0

EvalBinary(e, s) ==
    IfNormal(Eval(e.a, Room(Prolog(s))), LAMBDA l :
    IfNormal(Eval(e.b, Room(l)), LAMBDA r :
        Epilog(Result(r, Computed(e.k, Value1(r), Value2(r))))))

\* The right side only where the left one does not decide.
EvalLogical(e, s) ==
    IfNormal(Eval(e.a, Room(Prolog(s))), LAMBDA l :
        IF Value1(l) = (IF e.k = "or" THEN 1 ELSE 0) THEN Epilog(Result(l, Value1(l)))
        ELSE IfNormal(Eval(e.b, Room(l)), LAMBDA r : Epilog(Result(r, Value2(r)))))

EvalQuestionColon(e, s) ==
    IfNormal(Eval(e.c, Room(Prolog(s))), LAMBDA c :
    IfNormal(Eval(IF Value1(c) = 0 THEN e.b ELSE e.a, Room(c)), LAMBDA r :
        Epilog(Result(r, Value2(r)))))

\* The second value is stored where the first one points.
Stored(s) ==
    IF InStack(s, Value1(s)) THEN Epilog(Result(Assign(s, Value1(s), Value2(s)), Value2(s)))
    ELSE Epilog(With(s, "ABORTED"))

EvalEqual(e, s) ==
    IfNormal(Eval(e.e, Room(EvalToStoreInto(e.x, Room(Prolog(s))))), Stored)

\* The condition `as` leaves the pointer for the declaration in the true block.
EvalConditionalAs(e, s) ==
    LET p == EvalToStoreInto(e.y, Room(Prolog(s)))
    IN  Epilog(Result([p EXCEPT !.autoObj = IF e.is THEN Value1(p) ELSE NoPtr],
                      IF e.is THEN 1 ELSE 0))

(***************************************************************************)
(* Calls.  The arguments are evaluated for the CALLER's self, the last one *)
(* first, and pushed on the call stack; r.pushed counts them.              *)
(***************************************************************************)
PushArgument(r, s, v) ==
    IF ~Normal(s) THEN [r EXCEPT !.s = s]
    ELSE [s |-> [PopTop(s) EXCEPT !.calls = Push(@, v)], pushed |-> r.pushed + 1]

PassValue(r, s)     == PushArgument(r, s, Top(s))
PassReference(r, s) == PushArgument(r, s, Absolute(s.calls, Top(s)))

EvalArguments(e, i, r) ==
    IF i = 0 \/ ~Normal(r.s) THEN r
    ELSE EvalArguments(e, i - 1,
            IF class[e.f].params[i].ref
            THEN PassReference(r, EvalToStoreInto(e.args[i].x, Room(r.s)))
            ELSE PassValue(r, Eval(e.args[i], Room(r.s))))

\* NodeBlockFunctionDefinition::eval, before and behind the body of f.
EnterFunction(f, s) ==
    LET in == Room(Prolog([s EXCEPT !.fn = f, !.autoObj = NoPtr, !.blocks = @ + 1]))
    IN  [in EXCEPT !.calls = AddFrameSlots(@, class[f].frame), !.work = @ - 1]

LeaveFunction(caller, s) ==
    LET out == [s EXCEPT !.blocks = @ - 1, !.fn = caller]
        v   == IF s.evs = "RETURN" THEN Load(s.calls, -1) ELSE Value1(s)
        back(r) == Epilog([r EXCEPT !.calls = ReturnFrame(@)])
    IN  IF s.evs \in {"RETURN", "NORMAL"} THEN With(back(Result(out, v)), "NORMAL") ELSE back(out)

EvalFunction(f, s) ==
    IF class[f].native \/ s.work = 0 THEN With(s, "UNEVALUABLE")
    ELSE LeaveFunction(s.fn, Eval(class[f].body[1], EnterFunction(f, s)))

\* The arguments are those of the object that was selected.
BugForTheCaller(s) == Prolog(s)

ForTheCaller(s) == [Prolog(s) EXCEPT !.obj = s.self]

\* The room for the value on both stacks, the object and its effective self.
HiddenArguments(obj, s) ==
    [Room(s) EXCEPT !.calls = Push(Push(Push(@, obj), 0), 0), !.obj = obj, !.self = obj]

\* The call's arguments are gone, and the object and self are those of the caller s.
BackFromCall(s, pushed, out) ==
    LET done == [out EXCEPT !.calls = PopN(@, pushed + 3), !.obj = s.obj, !.self = s.self]
    IN  IF Normal(done) THEN Epilog(Result(done, Value1(done))) ELSE Epilog(done)

CallWith(e, s, args) ==
    IF ~Normal(args.s) THEN Epilog(args.s)
    ELSE BackFromCall(s, args.pushed,
            EvalFunction(e.f, HiddenArguments(Absolute(args.s.calls, s.obj), args.s)))

EvalFunctionCall(e, s) ==
    CallWith(e, s, EvalArguments(e, Len(e.args), [s |-> ForTheCaller(s), pushed |-> 0]))

\* x.f(...): x is the current object while f is called.
Selected(s) == Room([s EXCEPT !.obj = Value1(s)])

EvalMemberSelect(e, s) ==
    IfNormal(EvalFunctionCall(e, Selected(EvalToStoreInto(e.on, Room(Prolog(s))))), LAMBDA r :
        Epilog(Result([r EXCEPT !.obj = s.obj, !.self = s.self], Value2(r))))

(***************************************************************************)
(* Statements.                                                             *)
(***************************************************************************)
EvalStatements(ss, s) ==
    IF ss = <<>> THEN s
    ELSE IfNormal(Eval(Head(ss), RoomFor(Head(ss), Prolog(s))), LAMBDA r :
            EvalStatements(Tail(ss), Epilog(r)))

LeaveBlock(s) == [s EXCEPT !.blocks = @ - 1]

EvalBlock(n, s) == LeaveBlock(EvalStatements(n.ss, [s EXCEPT !.blocks = @ + 1]))

EvalWay(n, s) == IF n = None THEN s ELSE Eval(n, RoomFor(n, s))

EvalIf(n, s) ==
    IfNormal(Eval(n.c, Room(Prolog(s))), LAMBDA c :
        Epilog(Result(EvalWay(IF Value1(c) = 0 THEN n.b ELSE n.a, c), Value1(c))))

\* After the statements of a loop.
AfterTurn(s, again(_)) ==
    CASE s.evs = "BREAK"                   -> Epilog(Result(With(s, "NORMAL"), 1))
      [] s.evs \in {"NORMAL", "CONTINUE"} -> again(With(s, "NORMAL"))
      [] OTHER                             -> Epilog(s)

\* The loop, once its condition is on top of the node stack.
EvalLoop(n, s) ==
    IfNormal(s, LAMBDA c :
        IF Top(c) = 0 THEN Epilog(Result(PopTop(c), 0))
        ELSE IF c.work = 0 THEN Epilog(With(PopTop(c), "UNEVALUABLE"))
        ELSE AfterTurn(EvalStatements(n.ss, [PopTop(c) EXCEPT !.work = @ - 1]), LAMBDA b :
                EvalLoop(n, Eval(n.c, Room(b)))))

EvalWhile(n, s) == EvalLoop(n, Eval(n.c, Room(Prolog(s))))

\* The break out of a loop ends the statements up to it, that of a which does not.
EvalBreak(n, s) == IF n.to = 0 THEN With(s, "BREAK") ELSE s

EvalContinue(n, s) == With(s, "CONTINUE")

ReturnWith(s) == Epilog(With([s EXCEPT !.calls = Store(@, -1, Value1(s))], "RETURN"))

\* The frame of the node stays where the value fails.
BugEvalReturn(n, s) ==
    LET r == Eval(n.e, Room(Prolog(s))) IN IF Normal(r) THEN ReturnWith(r) ELSE r

EvalReturn(n, s) == IfNormal(Eval(n.e, Room(Prolog(s))), ReturnWith)

EvalSimple(n, s) == Epilog(Eval(n.e, Room(Prolog(s))))

\* A declaration pushes a slot that nothing uses: the variable has one in the frame.
EvalVarDecl(n, s) ==
    LET made == [s EXCEPT !.calls = Store(Push(@, 0), Fn(s).slot[n.x], 0)]
    IN  IfNormal(Eval(n.e, Room(EvalToStoreInto(n.x, Room(Prolog(made))))), Stored)

Bound(x, s) ==
    Epilog([PopTop(s) EXCEPT !.auto[Symbol(s, x)] = Top(s),
                             !.calls = Store(@, Fn(s).slot[x], Top(s))])

EvalVarRef(n, s) == Bound(n.x, EvalToStoreInto(n.y, Room(Prolog(s))))

EvalVarRefAs(n, s) ==
    [s EXCEPT !.auto[Symbol(s, n.x)] = s.autoObj, !.autoObj = NoPtr]

Eval(n, s) ==
    CASE n.k = "block"    -> EvalBlock(n, s)
      [] n.k \in {"empty", "label"} -> s
      [] n.k = "if"       -> EvalIf(n, s)
      [] n.k = "while"    -> EvalWhile(n, s)
      [] n.k = "break"    -> EvalBreak(n, s)
      [] n.k = "continue" -> EvalContinue(n, s)
      [] n.k = "return"   -> EvalReturn(n, s)
      [] n.k = "do"       -> EvalSimple(n, s)
      [] n.k = "decl"     -> EvalVarDecl(n, s)
      [] n.k = "ref"      -> EvalVarRef(n, s)
      [] n.k = "refas"    -> EvalVarRefAs(n, s)
      [] n.k = "set"      -> EvalEqual(n, s)
      [] n.k = "as"       -> EvalConditionalAs(n, s)
      [] n.k = "num"      -> EvalTerminal(n.v, s)
      [] n.k = "id"       -> EvalIdent(n.x, s)
      [] n.k \in {"plus", "eq"} -> EvalBinary(n, s)
      [] n.k \in {"or", "and"}  -> EvalLogical(n, s)
      [] n.k = "quest"    -> EvalQuestionColon(n, s)
      [] n.k = "call"     -> IF n.on = "self" THEN EvalFunctionCall(n, s) ELSE EvalMemberSelect(n, s)

(***************************************************************************)
(* Testing a class: SymbolClass::testThisClass and NodeBlockClass::eval.   *)
(***************************************************************************)
\* The object with its default value, and room for test()'s hidden arguments.
SetupCenterSite(s, d) ==
    [s EXCEPT !.site = d, !.obj = Site, !.self = Site, !.work = MaxWork, !.evs = "NORMAL",
              !.calls = Push(Push(Push(@, Site), -1), -1)]

TestReturned(s) == IF Normal(s) THEN Epilog(Result(PopTop(s), Top(s))) ELSE Epilog(s)

EvalClass(s) == TestReturned(EvalFunction("test", Room(Prolog(s))))

TestThisClass(d) ==
    LET set == [SetupCenterSite(state, d) EXCEPT !.blocks = @ + 1, !.nodes = AddFrameSlots(@, 1)]
    IN  /\ tests < MaxTests
        /\ last # None => last.evs # "ABORTED"
        /\ \E end \in {EvalClass(set)} :
             LET leaves == end.evs \in {"NORMAL", "BREAK"}
                 popped == IF leaves THEN PopTop(end) ELSE end
             IN  /\ state' = [popped EXCEPT !.nodes = ReturnFrame(@), !.blocks = @ - 1]
                 /\ last' = [d0 |-> d, evs |-> end.evs, d |-> end.site,
                             value |-> IF leaves THEN Top(end) ELSE 0]
        /\ tests' = tests + 1
        /\ UNCHANGED <<source, class>>

\* A place for every symbol that a function of the class declares.
Symbols(c) == UNION {{<<f, x>> : x \in DOMAIN c[f].slot} : f \in {g \in DOMAIN c : ~c[g].native}}

Init ==
    /\ source \in Classes
    /\ class = [f \in DOMAIN source |-> CompiledFunction(source[f])]
    /\ state = [nodes |-> EmptyStack, calls |-> EmptyStack, site |-> 0, obj |-> Site, self |-> Site,
                autoObj |-> NoPtr, auto |-> [sym \in Symbols(class) |-> NoPtr],
                blocks |-> 0, fn |-> "test", work |-> 0, evs |-> "NORMAL"]
    /\ last = None
    /\ tests = 0

\* A class that does not parse is not tested.
Next == (\A f \in DOMAIN class : class[f].ok) /\ \E d \in Initial : TestThisClass(d)

Spec == Init /\ [][Next]_vars

(***************************************************************************)
(* Where the evaluator is known not to agree with the generated code.      *)
(***************************************************************************)
Kids(n) ==
    CASE n.k \in {"do", "decl", "return", "set"}  -> {n.e}
      [] n.k \in {"if", "quest"}                 -> {n.c, n.a, n.b}
      [] n.k \in {"as", "plus", "eq", "or", "and"} -> {n.a, n.b}
      [] n.k = "while" -> {n.c, n.b}
      [] n.k = "for"   -> {n.i, n.c, n.s, n.b}
      [] n.k = "which" -> {n.v} \cup UNION {{cs.b} \cup ToSet(cs.on) : cs \in ToSet(n.cs)}
      [] n.k = "block" -> ToSet(n.ss)
      [] n.k = "call"  -> ToSet(n.args)
      [] OTHER         -> {}

RECURSIVE Parts(_)
Parts(n) == {n} \cup UNION {Parts(kid) : kid \in Kids(n)}

PartsOf(f) == IF source[f].native THEN {} ELSE UNION {Parts(s) : s \in ToSet(source[f].body)}

\* The statements that a break (continue) in n would end, were it right below n.
RECURSIVE Free(_, _)
Free(n, kinds) == {n} \cup UNION {Free(kid, kinds) : kid \in {m \in Kids(n) : m.k \notin kinds}}

Breakable == {"while", "for", "which"}

\* A break that leaves a `which`: the evaluator goes on behind it.
BreaksAWhich == \E f \in DOMAIN source : \E n \in PartsOf(f) :
    n.k = "which" /\ \E m \in Free(n, Breakable) : m.k = "break"

\* A continue in a `for`: the evaluator leaves out the assignment of the loop.
ContinuesAFor == \E f \in DOMAIN source : \E n \in PartsOf(f) :
    n.k = "for" /\ \E m \in Free(n.b, {"while", "for"}) : m.k = "continue"

\* Two operands or arguments of which one may see what the other did.
OrderMatters == \E f \in DOMAIN source : \E n \in PartsOf(f) :
    /\ n.k \in {"plus", "eq", "call"}
    /\ Cardinality(Kids(n)) > 1
    /\ \E kid \in Kids(n) : \E m \in Parts(kid) : m.k \in {"call", "set"}

\* A function that binds a reference and is called while it runs.
Calls(f) == {n.f : n \in {m \in PartsOf(f) : m.k = "call"}}
RECURSIVE CallsFrom(_)
CallsFrom(fs) ==
    LET more == fs \cup UNION {Calls(f) : f \in fs} IN IF more = fs THEN fs ELSE CallsFrom(more)
BindsInRecursion == \E f \in DOMAIN source :
    f \in CallsFrom(Calls(f)) /\ \E n \in PartsOf(f) : n.k \in {"ref", "as"}

KnownToDiffer == BreaksAWhich \/ ContinuesAFor \/ OrderMatters \/ BindsInRecursion

(***************************************************************************)
(* Properties.                                                             *)
(***************************************************************************)
Answer(r) == <<r.how, r.value, r.d>>
Evaluated == <<IF last.evs = "NORMAL" THEN "go" ELSE "stuck", last.value, last.d>>

\* How a run ends and, if it ends well, what test() returns and leaves in the object.
Same(x, y) == x[1] = y[1] /\ (x[1] = "go" => x = y)

\* The blocks, gotos and labels that a class is compiled to do what its
\* statements say: every break, continue and case arrives where it should.
GeneratedRunsTheSource ==
    last # None =>
        Same(Answer(Test(class, last.d0, FALSE, MaxWork)), Answer(Test(source, last.d0, FALSE, MaxWork)))

\* The evaluator does what the statements say, whatever was evaluated before,
\* but for the classes that it is known to get wrong.
EvaluatorRunsTheSource ==
    last # None /\ ~BreaksAWhich /\ ~ContinuesAFor /\ ~BindsInRecursion =>
        Same(Evaluated, Answer(Test(source, last.d0, TRUE, MaxWork)))

\* What a test of the evaluator returns is what the generated code returns,
\* unless one operand sees what another one did.
TestsPredictTheCode ==
    last # None /\ ~KnownToDiffer =>
        Same(Evaluated, Answer(Test(class, last.d0, FALSE, MaxWork)))

\* Whatever way an evaluation ends, both stacks and the class context are as
\* it found them, but for the three slots that each test leaves.
StacksRestored ==
    /\ state.nodes = EmptyStack
    /\ state.calls.cur = 0 /\ Len(state.calls.frames) = 1 + 3 * tests
    /\ state.blocks = 0
    /\ state.obj = Site /\ state.self = Site
===============================================================================
