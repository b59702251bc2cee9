---------------------------- MODULE MCOperators -----------------------------
EXTENDS LogicOperators

\* A word is of 4 bits, a long one of 8: sizes below, at and above the
\* word, and the largest.
MCTypes ==
  {TypeOf(k, s) : k \in {"Int", "Unsigned"}, s \in {2, 4, 5, 8}}
    \cup {TypeOf("Int", 1), TypeOf("Unsigned", 1)}
    \cup {TypeOf("Unary", 3), TypeOf("Unary", 5), TypeOf("Bool", 1), TypeOf("Bool", 5), TypeOf("Bits", 3), TypeOf("Bits", 8)}

\* The least value and the greatest, and one and minus one.
MCBoundary(t) ==
  {n \in Values(t) : \A m \in Values(t) : n <= m}
    \cup {n \in Values(t) : \A m \in Values(t) : n >= m} \cup (Values(t) \cap {-1, 1})

\* And a distance that the word has no room for, but a shift within it.
MCVariables ==
  UNION {{[type |-> t, val |-> n] : n \in MCBoundary(t)} : t \in MCTypes}
    \cup {[type |-> TypeOf("Unary", 5), val |-> 3]}

MCLiterals ==
  {[kind |-> "Int", val |-> n] : n \in {-8, 1, 3, 6}} \cup {[kind |-> "Unsigned", val |-> 9]}
=============================================================================
