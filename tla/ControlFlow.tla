----------------------------- MODULE ControlFlow -----------------------------
(***************************************************************************)
(* Statements of an Ulam function: what the parser makes of them, the      *)
(* stack slots their variables get, and what they mean.                    *)
(*                                                                         *)
(* A source statement is a record with a kind k:                           *)
(*   do e | decl x e | ref x y | return e | block ss | break | continue    *)
(*   if c a b | as x y is a b   ("if (y as T)": x is y's name in a)        *)
(*   while c b | for i c s b | which v cs                                  *)
(* and an expression is num | id | eq | plus | or | and | quest | set |    *)
(* call on f args.  A case of a `which` has the values that lead to its    *)
(* body b, and `other`, set for the case `otherwise`.                      *)
(*                                                                         *)
(* Parser.cpp turns them into nodes of fewer kinds: a `for` is a block     *)
(* with a while, a `which` is a chain of ifs, and `break` and `continue`   *)
(* carry the number of a label.                                            *)
(***************************************************************************)
EXTENDS Integers, Sequences, FiniteSets, SequencesExt, FiniteSetsExt

None == [k |-> "none"]

(***************************************************************************)
(* Parsing.  A context has the loops and switches around the statement     *)
(* (with their label numbers and how often a break or continue uses them), *)
(* the next free number, and whether all was accepted.                     *)
(***************************************************************************)
NoContext == [loops |-> <<>>, next |-> 1, ok |-> TRUE]

\* A loop's record starts with one use: the assertion before its body counts one.
PushLoopSwitch(c, kw) ==
    [c EXCEPT !.loops = Append(@, [kw |-> kw, num |-> c.next,
                                   uses |-> IF kw = "which" THEN 0 ELSE 1]),
              !.next = @ + 1]

PopLoopSwitch(c) == [c EXCEPT !.loops = Front(@)]

UseLoop(c, i) == [c EXCEPT !.loops[i].uses = @ + 1]

OkToParseABreak(c) == c.loops # <<>>

\* 0 stands for the break of C++, a number for a goto to the end of the switch.
NearestBreakExit(c) == IF Last(c.loops).kw = "which" THEN Last(c.loops).num ELSE 0

ParseBreak(c) ==
    IF ~OkToParseABreak(c) THEN [n |-> None, c |-> [c EXCEPT !.ok = FALSE]]
    ELSE [n |-> [k |-> "break", to |-> NearestBreakExit(c)],
          c |-> IF NearestBreakExit(c) = 0 THEN c ELSE UseLoop(c, Len(c.loops))]

LoopsAround(c) == {i \in DOMAIN c.loops : c.loops[i].kw # "which"}

ParseContinue(c) ==
    IF LoopsAround(c) = {} THEN [n |-> None, c |-> [c EXCEPT !.ok = FALSE]]
    ELSE [n |-> [k |-> "continue", to |-> c.loops[Max(LoopsAround(c))].num],
          c |-> UseLoop(c, Max(LoopsAround(c)))]

RECURSIVE Parse(_, _), ParseStatements(_, _), ParseCases(_, _, _)

ParseStatements(ss, c) ==
    IF ss = <<>> THEN [n |-> <<>>, c |-> c]
    ELSE LET h == Parse(Head(ss), c)
             t == ParseStatements(Tail(ss), h.c)
         IN  [n |-> <<h.n>> \o t.n, c |-> t.c]

ParseBlock(ss, c) ==
    LET p == ParseStatements(ss, c)
    IN  [n |-> [k |-> IF ss = <<>> THEN "empty" ELSE "block", ss |-> p.n], c |-> p.c]

\* A single statement gets a block of its own, so that a declaration has a scope.
ParseStatementAsBlock(s, c) ==
    ParseBlock(IF s.k = "block" THEN s.ss ELSE <<s>>, c)

ParseIf(s, c) ==
    LET a == ParseStatementAsBlock(s.a, c)
        b == IF s.b = None THEN [n |-> None, c |-> a.c] ELSE ParseStatementAsBlock(s.b, a.c)
    IN  [n |-> [k |-> "block", ss |-> <<[k |-> "if", c |-> s.c, a |-> a.n, b |-> b.n]>>],
         c |-> b.c]

\* if (y as T): the condition leaves a pointer, which the declaration of x
\* at the head of the true block takes.
ParseAs(s, c) ==
    LET a == ParseStatementAsBlock(s.a, c)
        b == IF s.b = None THEN [n |-> None, c |-> a.c] ELSE ParseStatementAsBlock(s.b, a.c)
        body == [k |-> "block", ss |-> <<[k |-> "refas", x |-> s.x]>> \o a.n.ss]
    IN  [n |-> [k |-> "block",
                ss |-> <<[k |-> "if", c |-> [k |-> "as", y |-> s.y, is |-> s.is],
                          a |-> body, b |-> b.n]>>],
         c |-> b.c]

\* The label is behind the assignment of the `for`.
BugWhileNode(cond, body, c, step) ==
    [k |-> "while", c |-> cond,
     ss |-> <<body>> \o (IF step = None THEN <<>> ELSE <<step>>)
            \o <<[k |-> "label", num |-> Last(c.loops).num]>>]

\* The statements of the body, its end label and, for a `for`, the assignment.
WhileNode(cond, body, c, step) ==
    LET num == Last(c.loops).num
    IN  [k |-> "while", c |-> cond,
         ss |-> <<body>>
                \o (IF Last(c.loops).uses > 0 THEN <<[k |-> "label", num |-> num]>> ELSE <<>>)
                \o (IF step = None THEN <<>> ELSE <<step>>)]

ParseWhile(s, c) ==
    LET b == ParseStatementAsBlock(s.b, PushLoopSwitch(c, "while"))
    IN  [n |-> [k |-> "block", ss |-> <<WhileNode(s.c, b.n, b.c, None)>>],
         c |-> PopLoopSwitch(b.c)]

ParseFor(s, c) ==
    LET b == ParseStatementAsBlock(s.b, PushLoopSwitch(c, "for"))
    IN  [n |-> [k |-> "block", ss |-> <<s.i, WhileNode(s.c, b.n, b.c, s.s)>>],
         c |-> PopLoopSwitch(b.c)]

\* The conditions that share a body, joined by ||; `otherwise` makes them true.
CaseCondition(sw, cs) ==
    LET on(e) == IF sw = None THEN e ELSE [k |-> "eq", a |-> [k |-> "id", x |-> sw.x], b |-> e]
    IN  IF cs.other THEN [k |-> "num", v |-> 1]
        ELSE FoldLeft(LAMBDA acc, e : [k |-> "or", a |-> acc, b |-> on(e)],
                      on(cs.on[1]), Tail(cs.on))

\* The cases from the first of cs on, as an if with the later ones in its else.
\* `first`: no if precedes, so that an `otherwise` needs one.
ParseCases(sw, cs, pc) ==
    IF cs = <<>> THEN [n |-> None, c |-> pc.c]
    ELSE LET h == Head(cs)
             b == ParseStatementAsBlock(h.b, pc.c)
             t == ParseCases(sw, Tail(cs), [c |-> b.c, first |-> FALSE])
             misplaced == h.other /\ Tail(cs) # <<>>
         IN  [n |-> IF h.other /\ ~pc.first THEN b.n
                    ELSE [k |-> "if", c |-> CaseCondition(sw, h), a |-> b.n, b |-> t.n],
              c |-> [t.c EXCEPT !.ok = @ /\ ~misplaced]]

ParseWhich(s, c) ==
    LET cs  == ParseCases(s.v, s.cs, [c |-> PushLoopSwitch(c, "which"), first |-> TRUE])
        end == Last(cs.c.loops)
    IN  [n |-> [k |-> "block",
                ss |-> (IF s.v = None THEN <<>> ELSE <<s.v>>)
                       \o (IF cs.n = None THEN <<>> ELSE <<cs.n>>)
                       \o (IF end.uses > 0 THEN <<[k |-> "label", num |-> end.num]>> ELSE <<>>)],
         c |-> PopLoopSwitch(cs.c)]

Parse(s, c) ==
    CASE s.k = "block"    -> ParseBlock(s.ss, c)
      [] s.k = "if"       -> ParseIf(s, c)
      [] s.k = "as"       -> ParseAs(s, c)
      [] s.k = "while"    -> ParseWhile(s, c)
      [] s.k = "for"      -> ParseFor(s, c)
      [] s.k = "which"    -> ParseWhich(s, c)
      [] s.k = "break"    -> ParseBreak(c)
      [] s.k = "continue" -> ParseContinue(c)
      [] OTHER            -> [n |-> s, c |-> c]

(***************************************************************************)
(* Slots of the stack frame.  d: slots in use so far, m: the most in use,  *)
(* slot: where each variable is, relative to the frame pointer.            *)
(***************************************************************************)
RECURSIVE CalcMaxDepth(_, _)

DepthOfAll(ss, r) == FoldLeft(LAMBDA acc, n : CalcMaxDepth(n, acc), r, ss)

\* Either of two ways follows the first: their depth is ADDED to what is in use.
DepthOfEither(c, a, b, r) ==
    LET rc == CalcMaxDepth(c, r)
        ra == CalcMaxDepth(a, rc)
        rb == CalcMaxDepth(b, [ra EXCEPT !.d = rc.d])
    IN  [rb EXCEPT !.d = rc.d + Max({ra.d, rb.d})]

\* An argument takes a slot or what its own calls need; then the returned
\* value, the object and its effective self.
DepthOfCall(e, r) ==
    LET depth(a) == CalcMaxDepth(a, [d |-> 0, m |-> 0, slot |-> <<>>]).d
    IN  [r EXCEPT !.d = @ + FoldLeft(LAMBDA acc, a : acc + Max({1, depth(a)}), 0, e.args) + 3]

DepthOfDecl(x, r) ==
    [r EXCEPT !.slot = (x :> r.d + 1) @@ @, !.d = @ + 1]

DepthOfBlock(ss, r) ==
    LET in == DepthOfAll(ss, r) IN [in EXCEPT !.m = Max({@, in.d}), !.d = r.d]

CalcMaxDepth(n, r) ==
    CASE n.k = "block"             -> DepthOfBlock(n.ss, r)
      [] n.k = "if"                -> DepthOfEither(n.c, n.a, n.b, r)
      [] n.k = "quest"             -> DepthOfEither(n.c, n.a, n.b, r)
      [] n.k = "while"             -> DepthOfAll(n.ss, CalcMaxDepth(n.c, r))
      [] n.k = "decl"              -> CalcMaxDepth(n.e, DepthOfDecl(n.x, r))
      [] n.k \in {"ref", "refas"}  -> DepthOfDecl(n.x, r)
      [] n.k = "return"            -> CalcMaxDepth(n.e, r)
      [] n.k = "set"               -> CalcMaxDepth(n.e, r)
      [] n.k \in {"plus", "eq", "or", "and"} -> CalcMaxDepth(n.b, CalcMaxDepth(n.a, r))
      [] n.k = "call"              -> DepthOfCall(n, r)
      [] OTHER                     -> r

\* Below the frame: the returned value, the effective self, the object, then
\* the parameters, the last one lowest.
ParameterSlot(f, i) == - (3 + i)

\* A function: its parameters, its nodes, its slots and the size of its frame.
CompiledFunction(f) ==
    IF f.native THEN [ok |-> TRUE] @@ f
    ELSE LET p    == ParseBlock(f.body, NoContext)
             r    == CalcMaxDepth(p.n, [d |-> 0, m |-> 0, slot |-> <<>>])
             args == [x \in {f.params[i].x : i \in DOMAIN f.params} |->
                        ParameterSlot(f, CHOOSE i \in DOMAIN f.params : f.params[i].x = x)]
         IN  [params |-> f.params, native |-> FALSE, body |-> <<p.n>>, ok |-> p.c.ok,
              slot |-> args @@ r.slot, frame |-> r.m + 1 + 3 + Len(f.params)]

(***************************************************************************)
(* What statements mean: m has the values of all variables that were made  *)
(* (at[1] is the data member of the object in the event window), how the   *)
(* last statement ended, a value, and the work that is left.  The same     *)
(* definitions run source statements and the C++ that is generated for     *)
(* the nodes, where a label is the target of gotos.  `leftFirst` is the    *)
(* order of operands: the generated code computes the right one first, and *)
(* arguments from first to last; the evaluator does both the other way.    *)
(***************************************************************************)
Stop(m, how) == [m EXCEPT !.how = how]
Going(m) == m.how = "go"
IfGoing(m, next(_)) == IF Going(m) THEN next(m) ELSE m

\* A variable is made, with a value.
New(m, v) == [m EXCEPT !.at = Append(@, v)]

RECURSIVE Run(_, _, _, _), RunList(_, _, _, _), Value(_, _, _, _), Arguments(_, _, _, _, _)

Both(p, e, env, m) ==
    IfGoing(Value(p, IF m.leftFirst THEN e.a ELSE e.b, env, m), LAMBDA x :
    IfGoing(Value(p, IF m.leftFirst THEN e.b ELSE e.a, env, x), LAMBDA y :
        [y EXCEPT !.v = IF e.k = "plus" THEN x.v + y.v ELSE IF x.v = y.v THEN 1 ELSE 0]))

\* Argument i and those evaluated after it; env2 is what the callee will see.
Passed(x, v, env2) == [m |-> New(v, v.v), env2 |-> (x :> Len(v.at) + 1) @@ env2]

Arguments(p, e, i, env, r) ==
    IF i \notin DOMAIN e.args \/ ~Going(r.m) THEN r
    ELSE LET param == p[e.f].params[i]
         IN  Arguments(p, e, IF r.m.leftFirst THEN i - 1 ELSE i + 1, env,
                IF param.ref
                THEN [r EXCEPT !.env2 = (param.x :> env[e.args[i].x]) @@ @]
                ELSE Passed(param.x, Value(p, e.args[i], env, r.m), r.env2))

Returned(m) ==
    IF m.how = "return" THEN Stop(m, "go") ELSE IF Going(m) THEN [m EXCEPT !.v = 0] ELSE m

Enter(p, f, r) ==
    IF ~Going(r.m) THEN r.m
    ELSE IF p[f].native \/ r.m.work = 0 THEN Stop(r.m, "stuck")
    ELSE Returned(RunList(p, p[f].body, r.env2, [r.m EXCEPT !.work = @ - 1]))

CallFunction(p, e, env, m) ==
    Enter(p, e.f, Arguments(p, e, IF m.leftFirst THEN Len(e.args) ELSE 1, env,
                    [m |-> m, env2 |-> ("d" :> env[IF e.on = "self" THEN "d" ELSE e.on])]))

Value(p, e, env, m) ==
    CASE e.k = "num"   -> [m EXCEPT !.v = e.v]
      [] e.k = "id"    -> [m EXCEPT !.v = m.at[env[e.x]]]
      [] e.k = "as"    -> [m EXCEPT !.v = IF e.is THEN 1 ELSE 0, !.as = env[e.y]]
      [] e.k \in {"plus", "eq"} -> Both(p, e, env, m)
      [] e.k \in {"or", "and"}  -> IfGoing(Value(p, e.a, env, m), LAMBDA l :
            IF l.v = (IF e.k = "or" THEN 1 ELSE 0) THEN l ELSE Value(p, e.b, env, l))
      [] e.k = "quest" -> IfGoing(Value(p, e.c, env, m), LAMBDA c :
            Value(p, IF c.v = 1 THEN e.a ELSE e.b, env, c))
      [] e.k = "set"   -> IfGoing(Value(p, e.e, env, m), LAMBDA v : [v EXCEPT !.at[env[e.x]] = v.v])
      [] e.k = "call"  -> CallFunction(p, e, env, m)

\* The last statement of ss that has this label, 0 if none.
LabelAt(ss, num) ==
    Max({0} \cup {i \in DOMAIN ss : ss[i].k = "label" /\ ss[i].num = num})

\* After a statement: on with the others, perhaps from the label of a goto.
GoOn(p, ss, env, m) ==
    IF Going(m) THEN RunList(p, ss, env, m)
    ELSE IF m.how = "goto" /\ LabelAt(ss, m.to) # 0
    THEN RunList(p, SubSeq(ss, LabelAt(ss, m.to), Len(ss)), env, Stop(m, "go"))
    ELSE m

\* Statements one after the other; a declaration is seen by those after it.
RunList(p, ss, env, m) ==
    IF ss = <<>> THEN m
    ELSE LET s == Head(ss)
         IN  CASE s.k = "decl"  -> IfGoing(Value(p, s.e, env, m), LAMBDA v :
                    RunList(p, Tail(ss), (s.x :> Len(v.at) + 1) @@ env, New(v, v.v)))
               [] s.k = "ref"   -> RunList(p, Tail(ss), (s.x :> env[s.y]) @@ env, m)
               [] s.k = "refas" -> RunList(p, Tail(ss), (s.x :> m.as) @@ env, m)
               [] OTHER         -> GoOn(p, Tail(ss), env, Run(p, s, env, m))

\* A loop from its condition on; step is None but for a `for`.
EndOfTurn(m, next(_)) ==
    CASE m.how = "break"              -> Stop(m, "go")
      [] m.how \in {"go", "continue"} -> next(Stop(m, "go"))
      [] OTHER                        -> m

RECURSIVE RunLoop(_, _, _, _, _, _)
RunLoop(p, cond, body, step, env, m) ==
    IfGoing(Value(p, cond, env, m), LAMBDA c :
        IF c.v = 0 THEN c
        ELSE IF c.work = 0 THEN Stop(c, "stuck")
        ELSE EndOfTurn(RunList(p, body, env, [c EXCEPT !.work = @ - 1]), LAMBDA b :
             IfGoing(IF step = None THEN b ELSE Value(p, step, env, b), LAMBDA n :
                RunLoop(p, cond, body, step, env, n))))

\* The first case one of whose values is that of the which (or is true).
RECURSIVE RunCases(_, _, _, _, _)
RunCases(p, sw, cs, env, m) ==
    IF cs = <<>> THEN m
    ELSE IfGoing(Value(p, CaseCondition(sw, Head(cs)), env, m), LAMBDA c :
            IF c.v = 1 THEN Run(p, Head(cs).b, env, c) ELSE RunCases(p, sw, Tail(cs), env, c))

EndOfWhich(m) == IF m.how = "break" THEN Stop(m, "go") ELSE m

RunWhich(p, s, env, m) ==
    EndOfWhich(IF s.v = None THEN RunCases(p, None, s.cs, env, m)
               ELSE IfGoing(Value(p, s.v.e, env, m), LAMBDA v :
                        RunCases(p, s.v, s.cs, (s.v.x :> Len(v.at) + 1) @@ env, New(v, v.v))))

RunIf(p, s, env, m) ==
    IfGoing(Value(p, s.c, env, m), LAMBDA c :
        IF c.v = 1 THEN Run(p, s.a, env, c) ELSE IF s.b = None THEN c ELSE Run(p, s.b, env, c))

\* A node's break or continue has the label it goes to, one of the source has none.
Leaving(s, m) ==
    IF "to" \in DOMAIN s /\ s.to # 0 THEN [m EXCEPT !.how = "goto", !.to = s.to]
    ELSE Stop(m, s.k)

Run(p, s, env, m) ==
    CASE s.k \in {"block", "empty"}    -> RunList(p, s.ss, env, m)
      [] s.k \in {"break", "continue"} -> Leaving(s, m)
      [] s.k = "label"  -> m
      [] s.k = "do"     -> Value(p, s.e, env, m)
      [] s.k = "set"    -> Value(p, s, env, m)
      [] s.k = "return" -> IfGoing(Value(p, s.e, env, m), LAMBDA v : Stop(v, "return"))
      [] s.k = "if"     -> RunIf(p, s, env, m)
      [] s.k = "as"     -> IF s.is THEN Run(p, s.a, (s.x :> env[s.y]) @@ env, m)
                           ELSE IF s.b = None THEN m ELSE Run(p, s.b, env, m)
      [] s.k = "while"  -> RunLoop(p, s.c, IF "ss" \in DOMAIN s THEN s.ss ELSE <<s.b>>, None, env, m)
      [] s.k = "for"    -> RunList(p, <<s.i, [s EXCEPT !.k = "loop"]>>, env, m)
      [] s.k = "loop"   -> RunLoop(p, s.c, <<s.b>>, s.s, env, m)
      [] s.k = "which"  -> RunWhich(p, s, env, m)

\* Calling test() on an object whose data member has the value d.
Outcome(m) == [how |-> m.how, value |-> m.v, d |-> m.at[1]]

Test(p, d, leftFirst, work) ==
    Outcome(CallFunction(p, [k |-> "call", on |-> "self", f |-> "test", args |-> <<>>], ("d" :> 1),
                         [at |-> <<d>>, how |-> "go", to |-> 0, as |-> 0, v |-> 0,
                          leftFirst |-> leftFirst, work |-> work]))
===============================================================================
