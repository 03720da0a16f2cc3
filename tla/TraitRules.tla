----------------------------- MODULE TraitRules -----------------------------
(***************************************************************************)
(* The rules by which the Rx compiler decides that a type has a trait:     *)
(* TraitChecker::field_requirement, used once to validate the derives of   *)
(* the structs, and SemanticCtx::implements_trait, used everywhere else.   *)
(* The two are separate pieces of code that have to agree.                 *)
(***************************************************************************)
EXTENDS Integers, SequencesExt

CONSTANTS Struct,    \* the user's structs (StructDef behind a TypeId)
          Items,     \* the structs in the order of their items
          Programs   \* the programs considered

\* TraitKind, the four derivable traits.
Trait == {"Clone", "Copy", "PartialEq", "Eq"}

\* A derive of a struct: the nodes of the checker's graph.
TraitCheckNode == Struct \X Trait

(***************************************************************************)
(* A type is the chain of its constructors, outermost first, around a      *)
(* leaf: a struct, or one of the types that have every trait.              *)
(***************************************************************************)
Constructor == {"Ref", "RefMut", "Array", "Box", "Vec"}
Scalar      == "Scalar"      \* I32, U32, ISize, USize, Bool, Unit, Never

Ty == [chain : Seq(Constructor), leaf : Struct \cup {Scalar}]

\* What a constructor says of a trait without looking inside: yes, no, or
\* "look at the inner type".
Verdict_SharesMut(c, tr) ==   \* mutant: &mut T copied like &T
    CASE c \in {"Ref", "RefMut"} /\ tr \in {"Copy", "Clone"} -> "yes"
      [] c \in {"Box", "Vec"} /\ tr = "Copy"                -> "no"
      [] OTHER                                              -> "inner"

Verdict(c, tr) ==
    CASE c = "Ref"    /\ tr \in {"Copy", "Clone"} -> "yes"
      [] c = "RefMut" /\ tr \in {"Copy", "Clone"} -> "no"
      [] c \in {"Box", "Vec"} /\ tr = "Copy"      -> "no"
      [] OTHER                                    -> "inner"

\* A requirement holds outright, never, or when the derives it is on hold.
Requirement   == [ok : BOOLEAN, on : SUBSET TraitCheckNode]
Satisfied     == [ok |-> TRUE,  on |-> {}]
Unsatisfied   == [ok |-> FALSE, on |-> {}]
Dependency(n) == [ok |-> TRUE,  on |-> {n}]

\* The loop of field_requirement peels constructors until one of them
\* decides, or the leaf is reached.
field_requirement(ty, tr) ==
    LET Deciding(i) == /\ Verdict(ty.chain[i], tr) # "inner"
                       /\ \A j \in 1 .. i - 1 : Verdict(ty.chain[j], tr) = "inner"
    IN  IF \E i \in DOMAIN ty.chain : Deciding(i)
        THEN IF \E i \in DOMAIN ty.chain :
                   Deciding(i) /\ Verdict(ty.chain[i], tr) = "yes"
             THEN Satisfied ELSE Unsatisfied
        ELSE IF ty.leaf = Scalar THEN Satisfied ELSE Dependency(<<ty.leaf, tr>>)

\* The recursion of implements_trait, which trusts the declared derives of a
\* struct: traits is the set of the derive bits that are set.
implements_trait(ty, tr, traits) ==
    LET n == Len(ty.chain)
        impl[i \in 1 .. n + 1] ==
            IF i = n + 1
            THEN ty.leaf = Scalar \/ <<ty.leaf, tr>> \in traits
            ELSE CASE ty.chain[i] \in {"Ref", "RefMut"} ->
                        IF tr \in {"Copy", "Clone"} THEN ty.chain[i] = "Ref"
                                                    ELSE impl[i + 1]
                   [] ty.chain[i] = "Array"        -> impl[i + 1]
                   [] ty.chain[i] \in {"Box", "Vec"} -> tr # "Copy" /\ impl[i + 1]
    IN  impl[1]

(***************************************************************************)
(* What a derive needs.  Reason 0 is the prerequisite trait on the same    *)
(* struct, reason i > 0 is the i-th field; fs is the field types of the    *)
(* struct, in declaration order.                                           *)
(***************************************************************************)
HasPrerequisite(tr) == tr \in {"Copy", "Eq"}
Prerequisite(tr)    == IF tr = "Copy" THEN "Clone" ELSE "PartialEq"

FirstReason(tr) == IF HasPrerequisite(tr) THEN 0 ELSE 1

RequirementOf(n, r, fs) ==
    IF r = 0 THEN Dependency(<<n[1], Prerequisite(n[2])>>)
             ELSE field_requirement(fs[r], n[2])

(* The requirement is met when the derives in D are the ones that hold. *)
Met(req, D) == req.ok /\ req.on \subseteq D

Supported(n, fields, D) ==
    \A r \in FirstReason(n[2]) .. Len(fields[n[1]]) :
        Met(RequirementOf(n, r, fields[n[1]]), D)

\* Every derive of D is supported by the others.
Consistent(D, fields) == \A n \in D : Supported(n, fields, D)

\* A program, as far as derives are concerned.
Program == [fields : [Struct -> Seq(Ty)], declared : SUBSET TraitCheckNode]

ASSUME ItemsAssumption    == Items \in Seq(Struct) /\ ToSet(Items) = Struct
ASSUME ProgramsAssumption == Programs \subseteq Program
=============================================================================
