---------------------------- MODULE MCSizeLimits ----------------------------
(* The limits and the word in the proportions of the code's, small enough  *)
(* to try every kind of class with up to two data members: one byte for a  *)
(* word of 32 bits, so that 8 and 32 bits stand for 64 and 8192.           *)
EXTENDS SizeLimits

MCAllotted == [quark |-> 8, element |-> 9, transient |-> 32]

\* Up to the largest array size that is not negative.
Sizes == {Scalar, 0, 1, 2, 4, 5, 8, 11, 22, 33, 64, 127}

Plain == [isElement : {FALSE}, bits : {1, 4, 8}, n : Sizes]
Elements == [isElement : {TRUE}, bits : {0, 1, 9}, n : Sizes]

MCClasses ==
  [kind : {"quark", "element"}, members : {<<m>> : m \in Plain} \cup (Plain \X Plain)]
    \cup [kind : {"transient"}, members : {<<m>> : m \in Plain \cup Elements}
                                            \cup ((Plain \cup Elements) \X (Plain \cup Elements))]
=============================================================================
