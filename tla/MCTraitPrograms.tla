---------------------------- MODULE MCTraitPrograms ----------------------------
(***************************************************************************)
(* Small programs for TraitCheck and DeriveFixpoint.  Struct recursion by  *)
(* value has been rejected before the pass runs, so the structs contain    *)
(* each other by value in item order only; through Box, Vec or a reference *)
(* they may be cyclic.                                                     *)
(***************************************************************************)
EXTENDS TraitRules

CONSTANTS A, B, C       \* structs
AllItems == <<A, B, C>>

ChainsWide == {<< >>, <<"RefMut">>, <<"Array", "Ref">>, <<"Ref", "RefMut">>, <<"Vec", "RefMut">>}
ChainsDeep == {<< >>, <<"Box">>}

\* An inline field of struct Items[i] is of an earlier struct.
InlineOK(i, ty) ==
    (\A c \in DOMAIN ty.chain : ty.chain[c] = "Array") =>
        ty.leaf = Scalar \/ \E j \in 1 .. i - 1 : Items[j] = ty.leaf

IndexOf(s) == CHOOSE i \in DOMAIN Items : Items[i] = s

Leaves(ch, structs) == IF ch = << >> THEN structs \cup {Scalar} ELSE structs
FieldTypes(s, structs, chains) ==
    {ty \in UNION {[chain : {ch}, leaf : Leaves(ch, structs)] : ch \in chains} : InlineOK(IndexOf(s), ty)}

\* Every choice of at most max fields for some structs, the others being empty.
FieldLists(structs, chains, max) ==
    {f \in [Struct -> UNION {[1 .. n -> UNION {FieldTypes(s, structs, chains) : s \in structs}] : n \in 0 .. max}] :
        \A s \in Struct : IF s \in structs THEN \A k \in DOMAIN f[s] : f[s][k] \in FieldTypes(s, structs, chains)
                          ELSE f[s] = << >>}

Small(structs, chains, max, kinds) ==
    [fields : FieldLists(structs, chains, max), declared : SUBSET (structs \X kinds)]

\* Every kind of field type and every set of derives; cycles of three structs;
\* structs of two fields.
WidePrograms == Small({A, B}, ChainsWide, 1, Trait)
CyclicPrograms == Small({A, B, C}, ChainsDeep, 1, {"Clone", "Copy"})
PairPrograms == Small({A, B}, ChainsDeep, 2, {"Clone", "Copy"})
AllPrograms == WidePrograms \cup CyclicPrograms
=============================================================================
