-------------------------- MODULE MCStructRecursion --------------------------
(* Three structs with up to two fields each, every way a field can hold a      *)
(* struct; the declaration order is any.                                       *)
EXTENDS StructRecursion
CONSTANTS a, b, c
Three == {a, b, c}
Chains == {<<>>, <<"Box">>, <<"Array">>}
Inlined == {[chain |-> <<>>, leaf |-> s] : s \in Three}
FieldLists == {<<>>, <<[chain |-> <<>>, leaf |-> Scalar]>>, <<[chain |-> <<"Ref", "Array">>, leaf |-> a]>>}
              \cup {<<[chain |-> w, leaf |-> s]>> : w \in Chains, s \in Three}
              \cup {<<f, g>> : f \in Inlined, g \in Inlined}
Permutations3 == {o \in [1..3 -> Three] : {o[i] : i \in 1..3} = Three}
SomeCrates == [Three -> FieldLists]
=============================================================================
