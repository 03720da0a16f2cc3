-------------------------- MODULE MCGeneratedHelpers --------------------------
(* Two structs of up to two fields that hold integers, () and each other in    *)
(* all ways, one of them perhaps called unit, and bodies with up to two uses.  *)
EXTENDS GeneratedHelpers
CONSTANTS s, t
Two == {s, t}
Names == {"S", "T", Unit}
Chains == {<<>>, <<"Box">>, <<"Vec">>, <<"Ref">>, <<"RefMut">>, <<"Array", "Box">>}
T(chain, leaf) == [chain |-> chain, leaf |-> leaf]
FieldTys == {T(c, x) : c \in Chains, x \in Two} \cup {T(<<>>, Scalar), T(<<>>, Unit), T(<<"Vec", "Array">>, Scalar)}
FieldsOf(x) == {<<>>} \cup {<<f>> : f \in FieldTys}
               \cup {<<f, g>> : f \in {T(<<"Vec">>, s), T(<<"Box">>, s)}, g \in {T(<<"Box">>, t), T(<<"Vec">>, t)}}
\* Types of infinite size have been rejected.
Finite(f) == /\ \A i \in DOMAIN f[s] : f[s][i] # T(<<>>, s) /\ f[s][i] # T(<<>>, t)
             /\ \A i \in DOMAIN f[t] : f[t][i] # T(<<>>, t)
SomeCrates == {c \in [fields : {f \in [Two -> FieldsOf(s)] : Finite(f)},
                      name : {[x \in Two |-> IF x = s THEN "S" ELSE n] : n \in {"T", Unit}},
                      traits : SUBSET (Two \X Kinds)] :
                 <<t, "eq">> \in c.traits /\ <<t, "clone">> \in c.traits}
UseTys == {T(<<>>, t), T(<<"Ref", "Vec">>, s), T(<<"Box">>, t), T(<<"Array", "RefMut">>, t),
           T(<<"Ref", "Box", "Array">>, t), T(<<"Vec", "Ref">>, t), T(<<"Vec">>, Unit)}
Uses == [kind : Kinds, ty : UseTys]
SomeLowered == {<<u>> : u \in Uses}
               \cup {<<u, [kind |-> "eq", ty |-> T(<<"Vec">>, t)]>> : u \in Uses}
               \cup {<<u, [kind |-> "clone", ty |-> T(<<"Vec", "Ref">>, Unit)]>> : u \in Uses}
=============================================================================
