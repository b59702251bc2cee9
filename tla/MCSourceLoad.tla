---------------------------- MODULE MCSourceLoad ----------------------------
(* Two classes with files, one that may have none, and two texts to load.  *)
(* The files load each other and themselves, define the class of another   *)
(* file or none, and repeat definitions; three open files are more than    *)
(* any nesting without a cycle of two texts needs.                         *)
EXTENDS SourceLoad

MCClass == {"A", "B", "C"}
MCText == {"t", "u"}
MCLocal == {"k", "m"}

TextsOfA == {<<Define("A", {"B"})>>, <<Load("t"), Define("A", {"B", "C"})>>,
             <<Use("B"), Load("t"), Load("u"), Locally("m", {"C"}), Define("A", {})>>,
             <<Load("B"), Define("A", {"B"})>>, <<Load("A")>>}
TextsOfB == {<<Load("t"), Define("B", {"A"})>>, <<Locally("k", {"A"}), Define("B", {"C"})>>,
             <<Define("B", {}), Define("C", {})>>, <<Define("C", {"B"})>>, <<Load("u")>>}
TextsOfC == {<<Define("C", {})>>, <<Load("t"), Define("C", {"A"})>>}
TextsOfT == {<<Locally("k", {})>>, <<Locally("k", {"B"}), Load("u")>>, <<Load("u"), Load("u")>>,
             <<Use("B"), Locally("k", {"C"})>>}
TextsOfU == {<<Locally("m", {})>>, <<Define("C", {"B"})>>, <<Load("t")>>, << >>}

MCPrograms ==
  {[text |-> [f \in {"A", "t", "u"} \cup (IF b = << >> THEN {} ELSE {"B"}) \cup (IF c = << >> THEN {} ELSE {"C"}) |->
                CASE f = "A" -> a [] f = "B" -> b [] f = "C" -> c [] f = "t" -> t [] f = "u" -> u],
    given |-> g] :
     a \in TextsOfA, b \in TextsOfB \cup {<< >>}, c \in TextsOfC \cup {<< >>},
     t \in TextsOfT, u \in TextsOfU, g \in {<<"A">>, <<"A", "B">>, <<"B", "A">>}}
=============================================================================
