----------------------------- MODULE MCEvaluator -----------------------------
(***************************************************************************)
(* Classes for Evaluator: every way to leave a loop, a which or a function *)
(* from within another one, and calls with references, recursion, objects  *)
(* and native functions in every place where an operand is evaluated.      *)
(***************************************************************************)
EXTENDS Evaluator

Num(v) == [k |-> "num", v |-> v]
Id(x)  == [k |-> "id", x |-> x]
Plus(a, b) == [k |-> "plus", a |-> a, b |-> b]
Is(x, v)   == [k |-> "eq", a |-> Id(x), b |-> Num(v)]
IsNot(x, v) == [k |-> "eq", a |-> Is(x, v), b |-> Num(0)]
Set(x, e)  == [k |-> "set", x |-> x, e |-> e]
Do(e)      == [k |-> "do", e |-> e]
Add(x, v)  == Do(Set(x, Plus(Id(x), Num(v))))
Decl(x, e) == [k |-> "decl", x |-> x, e |-> e]
Return(e)  == [k |-> "return", e |-> e]
Block(ss)  == [k |-> "block", ss |-> ss]
If(c, a, b) == [k |-> "if", c |-> c, a |-> a, b |-> b]
While(c, ss) == [k |-> "while", c |-> c, b |-> Block(ss)]
For(x, n, ss) == [k |-> "for", i |-> Decl(x, Num(0)), c |-> IsNot(x, n), s |-> Set(x, Plus(Id(x), Num(1))), b |-> Block(ss)]
Case(on, ss)   == [on |-> on, other |-> FALSE, b |-> Block(ss)]
Otherwise(ss)  == [on |-> <<>>, other |-> TRUE, b |-> Block(ss)]
Which(x, e, cs) == [k |-> "which", v |-> Decl(x, e), cs |-> cs]
WhichTrue(cs)   == [k |-> "which", v |-> None, cs |-> cs]
CallOf(on, f, args) == [k |-> "call", on |-> on, f |-> f, args |-> args]
Function(params, body) == [params |-> params, native |-> FALSE, body |-> body]
Val(x) == [x |-> x, ref |-> FALSE]
Ref(x) == [x |-> x, ref |-> TRUE]
Break == [k |-> "break"]
Continue == [k |-> "continue"]

(***************************************************************************)
(* Loops.  i counts to 3; d, the data member, records what was done.       *)
(***************************************************************************)
Exits == {Break, Continue, Return(Id("d")), Add("d", 5)}

Inner(exit) ==
    {If(Is("i", 1), Block(<<exit>>), None),
     If(Is("i", 2), Block(<<Add("d", 2)>>), exit),
     Which("sw", Id("i"), <<Case(<<Num(0), Num(1)>>, <<exit, Add("d", 100)>>), Otherwise(<<Add("d", 1)>>)>>),
     Which("sw", Id("i"), <<Case(<<Num(2)>>, <<Add("d", 100)>>), Otherwise(<<exit>>)>>),
     WhichTrue(<<Case(<<Is("i", 1), Is("d", 0)>>, <<If(Is("d", 0), Block(<<exit>>), None), Add("d", 100)>>)>>),
     WhichTrue(<<Otherwise(<<exit>>)>>),
     Block(<<Decl("j", Num(0)), While(IsNot("j", 2), <<Add("j", 1), exit, Add("d", 1000)>>)>>),
     For("j", 2, <<If(Is("i", 1), exit, None), Add("d", 1000)>>)}

Outer(s) ==
    {Block(<<Decl("i", Num(0)), While(IsNot("i", 3), <<Add("i", 1), s, Add("d", 10)>>)>>),
     For("i", 3, <<s, Add("d", 10)>>),
     Block(<<Decl("i", Num(1)), s, Add("d", 10)>>)}

Looping(ss) == [test |-> Function(<<>>, ss \o <<Decl("r", Id("d")), Return(Id("r"))>>)]

Loops == {Looping(<<o>>) : o \in UNION {Outer(s) : s \in UNION {Inner(exit) : exit \in Exits}}}

(***************************************************************************)
(* Calls: f(n, b) with a reference b, get(v) of an object, and nat().      *)
(***************************************************************************)
Native == CallOf("self", "nat", <<>>)
F(n, x) == CallOf("self", "f", <<n, Id(x)>>)
Pred(x) == Plus(Id(x), Num(-1))

\* What f does with its arguments: all of it may call f again, for n - 1.
Bind(y, body(_)) ==
    {<<[k |-> "ref", x |-> "r", y |-> y]>> \o body("r"),
     <<[k |-> "as", x |-> "r", y |-> y, is |-> TRUE, a |-> Block(body("r")), b |-> None],
       Return(Num(-1))>>,
     <<[k |-> "as", x |-> "r", y |-> y, is |-> FALSE, a |-> Block(body("r")), b |-> Block(<<Add("d", 3)>>)]>>
         \o body(y)}

Recurse(c) == If(IsNot("n", 0), Block(<<Do(Set("t", F(Pred("n"), c)))>>), None)

Bodies ==
    LET after(x)  == <<Recurse("c"), Do(Set(x, Plus(Id(x), Id("t")))), Return(Plus(Id(x), Id("d")))>>
        leaf(x)   == <<Add(x, 4), Return(Plus(Id(x), Id("n")))>>
        head      == <<Decl("c", Num(70)), Decl("t", Num(0))>>
    IN  {head \o b : b \in Bind("b", after) \cup Bind("c", after) \cup Bind("b", leaf) \cup {after("b"), after("c")}}
        \cup {<<Return([k |-> "quest", c |-> Is("n", 0), a |-> Id("b"), b |-> F(Pred("n"), "b")])>>,
              <<Add("b", 1), If([k |-> "or", a |-> Is("n", 0), b |-> F(Pred("n"), "b")], Block(<<Add("d", 20)>>), None),
                Return([k |-> "and", a |-> Is("b", 2), b |-> Is("d", 21)])>>}

Recursions == {[f |-> Function(<<Val("n"), Ref("b")>>, b),
                test |-> Function(<<>>, <<Decl("a", Id("d")), Do(Set("d", F(Num(n), "a"))), Return(Plus(Id("a"), Id("d")))>>)]
               : b \in Bodies, n \in 1..2}

\* An object o whose data member is changed by its own function, with an
\* argument that is the data member of the caller's object.
Objects ==
    LET put(v) == CallOf("o", "put", <<v>>)
        with(ss) == [put  |-> Function(<<Val("v")>>, <<Do(Set("d", Plus(Id("d"), Id("v")))), Return(Id("d"))>>),
                     bump |-> Function(<<>>, <<Add("d", 1)>>),
                     nat  |-> [params |-> <<>>, native |-> TRUE],
                     test |-> Function(<<>>, <<Decl("o", Num(5))>> \o ss \o <<Return(Id("o"))>>)]
    IN  {with(ss) : ss \in {
            <<Do(put(Id("d"))), Add("d", 1)>>,
            <<Do(put(put(Id("d"))))>>,
            <<Do(CallOf("o", "bump", <<>>)), Add("o", 1)>>,
            <<Decl("x", Plus(CallOf("self", "bump", <<>>), Id("d"))), Do(Set("o", Id("x")))>>,
            <<Do(Native)>>, <<Do(put(Native))>>, <<Decl("x", Plus(Num(1), Native))>>,
            <<If(Native, Block(<<Add("d", 1)>>), None)>>,
            <<If(Is("d", 0), Block(<<Return(Native)>>), None)>>,
            <<If([k |-> "or", a |-> Is("d", 0), b |-> Native], Block(<<Add("o", 1)>>), None)>>,
            <<For("i", 2, <<If(Is("i", 1), Block(<<Do(put(Native))>>), None), Add("d", 1)>>)>>,
            <<Decl("x", [k |-> "quest", c |-> Is("d", 0), a |-> Num(1), b |-> Native])>>}}

\* A break or continue that has nothing to end.
Strays == {Looping(<<s>>) : s \in {Break, Continue, Which("sw", Id("d"), <<Case(<<Num(1)>>, <<Continue>>)>>)}}

AllClasses == Loops \cup Recursions \cup Objects \cup Strays
===============================================================================
