--------------------------- MODULE MCVirtualTables ---------------------------
(* Hierarchies of four classes.  What the slots hold: each class with an   *)
(* ordered choice of the earlier ones as its bases, and every choice of    *)
(* how each declares one function, which is enough for two unrelated       *)
(* originators, an override of one of them, and a class below both.  The   *)
(* rounds of the loop: every order of the program table, two functions     *)
(* declared in different orders, and hierarchies that need four rounds,    *)
(* two more than are allowed.                                              *)
EXTENDS VirtualTables

MCClass == 1 .. 4

Bases(of(_)) == {<<b1, b2, b3, b4>> : b1 \in of(1), b2 \in of(2), b3 \in of(3), b4 \in of(4)}
BaseLists(c) == UNION {{s \in [1 .. n -> 1 .. c - 1] : IsInjective(s)} : n \in 0 .. c - 1}
BaseSets(c) == {SetToSeq(s) : s \in SUBSET (1 .. c - 1)}

\* No function, or f in one of the kinds.
Decl(kinds) == {<< >>} \cup {<<[fn |-> "f", kind |-> k]>> : k \in kinds}

OneFunction ==
  {[bases |-> b, decls |-> <<d1, d2, d3, d4>>, order |-> <<1, 2, 3, 4>>,
    concrete |-> {4}, complete |-> MCClass] :
     b \in Bases(BaseLists),
     d1 \in Decl({"virtual", "pure"}) \ {<< >>}, d2 \in Decl({"plain", "virtual"}),
     d3 \in Decl({"virtual", "override"}), d4 \in Decl({"plain"})}

TwoFunctions ==
  LET F == [fn |-> "f", kind |-> "virtual"]
      G == [fn |-> "g", kind |-> "virtual"]
      Plain == [fn |-> "g", kind |-> "plain"]
  IN  {<< <<F>>, <<Plain>>, <<G, F>>, <<F, Plain>> >>, << <<F, G>>, <<G>>, << >>, <<F>> >>}

MCPrograms ==
  OneFunction \cup
  {[bases |-> b, decls |-> d, order |-> o, concrete |-> {}, complete |-> c] :
     b \in Bases(BaseSets), d \in TwoFunctions, o \in SetToSeqs(MCClass), c \in {MCClass, 1 .. 3}}
=============================================================================
