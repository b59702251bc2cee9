--------------------------- MODULE MCFunctionCalls ---------------------------
(* Calls of one function from class C, which inherits up to three others   *)
(* in either order, on one path or two.  Each class may have an exact      *)
(* match, one or two wider ones of the same kind, one of another kind and  *)
(* one of each, which is enough for a class to be ambiguous by itself, to  *)
(* be decided by the kinds, and to be in conflict with one or two others.  *)
EXTENDS FunctionCalls

MCClass == {"C", "A", "B", "R"}

Above(c, a, b) ==
  [d \in MCClass |-> CASE d = "C" -> c [] d = "A" -> a [] d = "B" -> b [] d = "R" -> << >>]

Hierarchies ==
  {Above(c, a, b) :
     c \in {<<"A">>, <<"A", "B">>, <<"B", "A">>, <<"A", "R">>, <<"R", "A">>, <<"A", "B", "R">>, <<"R", "B", "A">>},
     a \in {<< >>, <<"R">>, <<"B">>}, b \in {<< >>, <<"R">>}}

FewHierarchies ==
  {Above(c, a, << >>) : c \in {<<"A", "B">>, <<"B", "A">>}, a \in {<< >>, <<"R">>}}

Variable(k, s, n) == [type |-> TypeOf(k, s), val |-> n, term |-> FALSE]
Literal(k, s, n) == [type |-> TypeOf(k, s), val |-> n, term |-> TRUE]
F(ts) == [params |-> ts, more |-> FALSE]
One(k, s) == F(<<TypeOf(k, s)>>)

\* Functions of each class, of those that match as e, w, v and o do.
Overloads(e, w, v, o) ==
  [C : {{}, {e}, {w, v}},
   A : {{}, {e}, {w}, {e, w}, {w, v}, {w, o}, {w, v, o}},
   B : {{}, {e}, {w}, {v, o}}, R : {{}, {e}, {w}, {w, v}}]

Calls(above, a, e, w, v, o) ==
  {[bases |-> h, functions |-> fs, args |-> <<a>>] : h \in above, fs \in Overloads(e, w, v, o)}

\* The literal does not fit an Int of two bits; an Unsigned has to grow to be an Int.
OneArgument ==
  Calls(Hierarchies, Variable("Int", 3, -4), One("Int", 3), One("Int", 4), One("Int", 6), One("Bits", 8))
    \cup Calls(FewHierarchies, Variable("Unsigned", 3, 7),
               One("Unsigned", 3), One("Int", 3), One("Unsigned", 6), One("Int", 4))
    \cup Calls(FewHierarchies, Literal("Int", 3, 3),
               One("Int", 3), One("Int", 2), One("Int", 8), One("Unsigned", 2))

\* Two arguments, to functions of one, of two and of one and more.
TwoArguments ==
  LET i == TypeOf("Int", 3)
      u == TypeOf("Unsigned", 3)
      both == {F(<<i, u>>), F(<<TypeOf("Int", 4), TypeOf("Unsigned", 2)>>), F(<<TypeOf("Int", 4), u>>),
               F(<<i>>), [params |-> <<TypeOf("Int", 5)>>, more |-> TRUE]}
  IN  {[bases |-> h, functions |-> [C |-> {}, A |-> fa, B |-> fb, R |-> {}],
        args |-> <<Variable("Int", 3, -4), Variable("Unsigned", 3, 7)>>] :
         h \in FewHierarchies, fa \in SUBSET both, fb \in SUBSET both}

MCPrograms == OneArgument \cup TwoArguments
=============================================================================
