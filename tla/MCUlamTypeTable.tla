--------------------------- MODULE MCUlamTypeTable ---------------------------
(* A small instance of UlamTypeTable: the sizes are chosen so that one of  *)
(* them is more than an element may have (MAXSTATEBITS).  It grows in      *)
(* three regions.  Everything may happen in a table that ends with         *)
(* MaxOfAll.  Up to MaxOfMost the parser may make one more type, and what  *)
(* a type is then linked to or takes after is known.  Up to MaxUTI only    *)
(* the class template lives, with its stubs and at most one name that is   *)
(* unknown when it is met: instances are merged and sized while a holder   *)
(* is linked to one of them.                                               *)
EXTENDS UlamTypeTable

CONSTANTS MaxOfAll, MaxOfMost

MCLimit == [c \in Ctypes |-> IF c = "Element" THEN 71 ELSE IF c = "Quark" THEN 64 ELSE 8192]

First == Holder + 1
Last == table.size - 1

\* Every known type is linked to itself or to one with its key.
LinksAgree ==
  \A u \in Complete : table.root[u] \in Complete /\ table.key[table.root[u]] = table.key[u]

LabelWithKnown ==
  \/ \E h \in UTI, u \in Complete : CleanupExistingHolder(h, u)
  \/ \E td \in UTI, u \in Complete :
       \/ ReplaceGeneratedTypedef(td, u)
       \/ td \notin Complete /\ LinkTypedef(td, u)
  \/ \E s, u \in UTI : AliasStub(s, u) \/ MergeStub(s, u)
  \/ \E s \in UTI : Instantiate(s)
  \/ \E c \in Classes, b \in Sizes : SizeClass(c, b)
  \/ \E u \in UTI, b \in Sizes : SizeInstance(u, b)
  \/ \E r, u \in UTI : CompleteAReference(r, u)
  \/ \E a, s \in UTI, n \in Lengths \cup {Unknown} : SizeArray(a, s, n)

OnlyStubs ==
  /\ DOMAIN prog \subseteq Templates
  /\ \A u \in First .. Last :
       /\ table.key[u].name \in Templates \cup {NoName} \/ (u = First /\ generated = {u})
       /\ ~table.key[u].ref /\ IsScalar(table, u)

OfTemplate ==
  \/ \E c \in Templates :
       AddIncompleteClass(c) \/ SeeClass(c, "Quark") \/ FinishClass(c) \/ MakeStub(c)
  \/ StartLabelling
  \/ \E u \in UTI : ReplaceGeneratedTypedef(First, u)
  \/ \E s, u \in UTI : AliasStub(s, u) \/ MergeStub(s, u)
  \/ \E s \in UTI : Instantiate(s)
  \/ \E u \in UTI, b \in Sizes : SizeInstance(u, b)

MCNext ==
  \/ Last <= MaxOfAll /\ Next /\ Last' <= MaxOfAll
  \/ Last <= MaxOfMost /\ LinksAgree /\ (Parse \/ LabelWithKnown) /\ Last' <= MaxOfMost
  \/ Last >= MaxOfMost /\ OnlyStubs /\ OfTemplate

MCSpec == Init /\ [][MCNext]_vars
=============================================================================
