----------------------------- MODULE MCBitLayout -----------------------------
(* Three classes in every order of the table.  Their data members hold     *)
(* each other, have arrays of each other and take their bits from the size *)
(* or the constant of another, with and without cycles; class 3 may        *)
(* inherit from 1 and 2, and 2 from 1, which 3 then shares; 3 may be a    *)
(* union.  There may be a constant of one class in another, which lists    *)
(* all the primitive members that it can.  Six rounds are more than any of *)
(* the programs needs, one is too few.                                     *)
EXTENDS BitLayout

MCClass == 1 .. 3

Literal(n) == [kind |-> "literal", n |-> n]
From(d) == [kind |-> "from", of |-> d]

MCBases == {<< << >>, << >>, << >> >>, << << >>, <<1>>, << >> >>, << << >>, <<1>>, <<2>> >>,
            << << >>, <<1>>, <<1, 2>> >>}

MCMembers ==
  {<<m1, m2, m3>> :
     m1 \in {<<Int_(2)>>, <<Of(2)>>, <<Sizeof(2)>>, <<ByConst(3), Int_(1)>>},
     m2 \in {<<Int_(5)>>, <<Of(1), Int_(1)>>, <<ArrayOf(1, 2)>>},
     m3 \in {<<Int_(3), Int_(1)>>, <<Of(1), Of(2)>>, <<ArrayOf(2, 2), Of(1)>>, <<Of(3)>>}}

\* All that a constant of class d may list: of its base classes first.
All(b, m, d) ==
  LET family == SetToSortSeq({d} \cup ToSet(b[d]), <)
      Own(c) == SelectSeq([i \in DOMAIN m[c] |-> <<c, i>>],
                          LAMBDA e : m[c][e[2]].kind \in {"int", "sizeof", "const"})
  IN  FlattenSeq([k \in DOMAIN family |-> Own(family[k])])

Object(b, m, d) == [of |-> d, list |-> All(b, m, d)]

MCObjects(b, m) ==
  <<<<NoObject, NoObject, NoObject>>,
   <<NoObject, NoObject, Object(b, m, 2)>>,
   <<Object(b, m, 3), NoObject, NoObject>>,
   <<NoObject, [of |-> 3, list |-> << >>], [of |-> 1, list |-> << >>]>>>>

MCOrders == SetToSeqs(MCClass)

MCPrograms ==
  {[bases |-> b, members |-> m, konst |-> <<Literal(1), Literal(2), From(2)>>,
    order |-> o, unions |-> u, limit |-> n, object |-> MCObjects(b, m)[k]] :
     b \in MCBases, m \in MCMembers, o \in MCOrders, u \in {{}, {3}}, n \in {1, 6}, k \in 1 .. 4}
=============================================================================
