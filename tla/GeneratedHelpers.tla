--------------------------- MODULE GeneratedHelpers ---------------------------
(* The comparison and clone functions the compiler generates per type          *)
(* (lower/equality.rs, lower/clone.rs): a helper is declared where it is first *)
(* needed and defined after all bodies, from two stacks of pending types that  *)
(* grow while they are emptied.                                                *)
EXTENDS Integers, Sequences

CONSTANTS Struct,    \* the user's structs
          Name,      \* identifiers
          Crates,    \* [fields, name, traits]: field types in order, derives that hold
          Lowered    \* what the bodies ask for, in order: sequences of uses

Scalar == "scalar"                  \* I32, U32, ISize, USize, Bool
Unit   == "unit"                    \* Unit, Never
Kinds  == {"eq", "clone"}
Derefs == {"Ref", "RefMut", "Box"}  \* what LoweredExpr::deref follows

Ty     == [chain : Seq(Derefs \cup {"Array", "Vec"}), leaf : Struct \cup {Scalar, Unit}]
Helper == [kind : Kinds, ty : Ty]
Crate  == [fields : [Struct -> Seq(Ty)], name : [Struct -> Name], traits : SUBSET (Struct \X Kinds)]

ASSUME CratesAssumption  == Crates \subseteq Crate
ASSUME LoweredAssumption == Lowered \subseteq Seq(Helper)
ASSUME LeafAssumption    == Scalar \notin Struct /\ Unit \notin Struct
\* define_type refuses a name that is taken, by a struct or by a built-in type; no
\* built-in type is called unit or never.
ASSUME NameAssumption ==
  \A c \in Crates : \A s, t \in Struct : c.name[s] # Scalar /\ (c.name[s] = c.name[t] => s = t)

VARIABLES crate,
          uses,       \* == and clone expressions still to be lowered
          phase,      \* "bodies", "equalities", "clones", "emitted"
          functions,  \* Module::functions: [name, body]
          memo,       \* equality_fns and clone_fns: helpers with their FunctionId
          pending,    \* pending_equality and pending_clone, by kind
          current,    \* the helper being defined: the types it has still to lower
          panicked

vars == <<crate, uses, phase, functions, memo, pending, current, panicked>>

None  == [parts |-> <<>>, kind |-> "none"]
Inner(ty) == [ty EXCEPT !.chain = Tail(ty.chain)]

\* mutant: references are left out of the name
MangleTy_NoRefs(c, ty) ==
  Append(SelectSeq(ty.chain, LAMBDA x : x \notin {"Ref", "RefMut"}), IF ty.leaf \in Struct THEN c.name[ty.leaf] ELSE ty.leaf)
\* mangle_ty, part by part: each is written with its length, so that the text
\* tells the parts apart, but not a struct from a built-in type of the same text.
MangleTy(c, ty) == Append(ty.chain, IF ty.leaf \in Struct THEN c.name[ty.leaf] ELSE ty.leaf)
FunctionName(c, h) == [kind |-> h.kind, ty |-> MangleTy(c, h.ty)]

\* implements_trait: equality looks through every constructor; cloning a
\* reference copies it.
IsRef(ty, i) == ty.chain[i] \in {"Ref", "RefMut"}
LeafHas(c, ty, kind) == ty.leaf \in Struct => <<ty.leaf, kind>> \in c.traits
\* mutant: a mutable reference is cloned like a shared one
Implements_SharesMut(c, ty, kind) ==
  \/ kind = "clone" /\ \E i \in DOMAIN ty.chain : IsRef(ty, i)
  \/ LeafHas(c, ty, kind)
Implements(c, ty, kind) ==
  \/ /\ kind = "eq" \/ ~\E i \in DOMAIN ty.chain : IsRef(ty, i)
     /\ LeafHas(c, ty, kind)
  \/ /\ kind = "clone"
     /\ \E i \in DOMAIN ty.chain : /\ ty.chain[i] = "Ref"
                                   /\ \A j \in 1..(i - 1) : ~IsRef(ty, j)

\* The derives that hold are those whose fields have the trait.
Derived(c) == \A s \in Struct, k \in Kinds :
                <<s, k>> \in c.traits => \A i \in DOMAIN c.fields[s] : Implements(c, c.fields[s][i], k)

\* deref_all: the type behind every leading reference and box.
DerefAll(ty) ==
  LET n == CHOOSE n \in 0..Len(ty.chain) :
             /\ \A i \in 1..n : ty.chain[i] \in Derefs
             /\ n < Len(ty.chain) => ty.chain[n + 1] \notin Derefs
  IN  [ty EXCEPT !.chain = SubSeq(ty.chain, n + 1, Len(ty.chain))]

\* mutant: only one reference or box is looked through
Operand_Once(h) ==
  IF h.kind = "eq" /\ h.ty.chain # <<>> /\ Head(h.ty.chain) \in Derefs THEN [h EXCEPT !.ty = Inner(@)] ELSE h
\* What the match of lower_equality and lower_clone is on.
Operand(h) == IF h.kind = "eq" THEN [h EXCEPT !.ty = DerefAll(@)] ELSE h

\* The arms of the match: compared or copied in place, or by a call.  The last is
\* unreachable!.
Inline(h) ==
  \/ h.ty.chain = <<>> /\ h.ty.leaf = Scalar
  \/ h.kind = "clone" /\ h.ty.chain # <<>> /\ Head(h.ty.chain) \in {"Ref", "RefMut"}
Called(h) ==
  \/ h.ty.chain = <<>> /\ h.ty.leaf \in Struct
  \/ h.ty.chain # <<>> /\ (Head(h.ty.chain) \in {"Array", "Vec"} \/ (h.kind = "clone" /\ Head(h.ty.chain) = "Box"))

\* What a helper has to lower: its fields or its elements.
Parts(c, h) == IF h.ty.chain = <<>> THEN c.fields[h.ty.leaf] ELSE <<Inner(h.ty)>>

\* The function of the module that the next declaration adds.
NewEntry(h) == [helper |-> h, id |-> Len(functions) + 1]
Declared(h) ==
  /\ functions' = Append(functions, [name |-> FunctionName(crate, h), body |-> FALSE])
  /\ memo' = memo \cup {NewEntry(h)}
  /\ pending' = [pending EXCEPT ![h.kind] = Append(@, NewEntry(h))]

\* mutant: a helper is declared whenever it is needed
Declare_NoMemo(h) == Declared(h)
\* get_or_declare_equality, get_or_declare_clone
Declare(h) ==
  IF \E e \in memo : e.helper = h THEN UNCHANGED <<functions, memo, pending>> ELSE Declared(h)

\* lower_equality, lower_clone
Lower(h) ==
  LET operand == Operand(h) IN
  \/ Inline(operand) /\ UNCHANGED <<functions, memo, pending, panicked>>
  \/ Called(operand) /\ Declare(operand) /\ UNCHANGED panicked
  \/ /\ ~Inline(operand) /\ ~Called(operand)
     /\ panicked' = TRUE
     /\ UNCHANGED <<functions, memo, pending>>

Init ==
  /\ crate \in {c \in Crates : Derived(c)}
  /\ uses \in {u \in Lowered : \A i \in DOMAIN u : Implements(crate, u[i].ty, u[i].kind)}
  /\ phase = "bodies"
  /\ functions = <<>>
  /\ memo = {}
  /\ pending = [k \in Kinds |-> <<>>]
  /\ current = None
  /\ panicked = FALSE

\* lower_krate lowers the bodies, then the equalities, then the clones.
LowerUse ==
  /\ phase = "bodies" /\ uses # <<>> /\ ~panicked
  /\ Lower(Head(uses))
  /\ uses' = Tail(uses)
  /\ UNCHANGED <<crate, phase, current>>

EndBodies ==
  /\ phase = "bodies" /\ uses = <<>> /\ ~panicked
  /\ phase' = "equalities"
  /\ UNCHANGED <<crate, uses, functions, memo, pending, current, panicked>>

\* mutant: the pending type is looked at and left on the stack
Popped_Peek(kind) == pending[kind]
Popped(kind) == SubSeq(pending[kind], 1, Len(pending[kind]) - 1)

\* while let Some((ty, id)) = pending.pop(): the function gets a body, whose
\* parts are then lowered one by one.
Pop(kind) ==
  /\ current = None /\ pending[kind] # <<>> /\ ~panicked
  /\ LET e == pending[kind][Len(pending[kind])] IN
       /\ functions' = [functions EXCEPT ![e.id].body = TRUE]
       /\ current' = [parts |-> Parts(crate, e.helper), kind |-> kind]
  /\ pending' = [pending EXCEPT ![kind] = Popped(kind)]
  /\ UNCHANGED <<crate, uses, phase, memo, panicked>>

DefineEquality == phase = "equalities" /\ Pop("eq")
DefineClone    == phase = "clones" /\ Pop("clone")

LowerPart ==
  /\ current # None /\ current.parts # <<>> /\ ~panicked
  /\ Lower([kind |-> current.kind, ty |-> Head(current.parts)])
  /\ current' = [current EXCEPT !.parts = Tail(@)]
  /\ UNCHANGED <<crate, uses, phase>>

FinishHelper ==
  /\ current # None /\ current.parts = <<>> /\ ~panicked
  /\ current' = None
  /\ UNCHANGED <<crate, uses, phase, functions, memo, pending, panicked>>

\* mutant: define_equalities takes one round of what is pending
Emptied_First(kind) == Len(pending[kind]) <= 1
\* The while loop of a phase ends when nothing is pending.
Emptied(kind) == pending[kind] = <<>>

EndEqualities ==
  /\ phase = "equalities" /\ current = None /\ Emptied("eq")
  /\ phase' = "clones"
  /\ UNCHANGED <<crate, uses, functions, memo, pending, current, panicked>>

EndClones ==
  /\ phase = "clones" /\ current = None /\ Emptied("clone")
  /\ phase' = "emitted"
  /\ UNCHANGED <<crate, uses, functions, memo, pending, current, panicked>>

Next == \/ LowerUse \/ EndBodies \/ DefineEquality \/ DefineClone
        \/ LowerPart \/ FinishHelper \/ EndEqualities \/ EndClones

Spec == Init /\ [][Next]_vars
\* The lowerer is one call that nothing interrupts.
FairSpec == Spec /\ WF_vars(Next)

(******************************** properties *********************************)
FnName == [kind : Kinds, ty : Seq(Derefs \cup {"Array", "Vec", Scalar, Unit} \cup Name)]
Fn     == [name : FnName, body : BOOLEAN]
Entry  == [helper : Helper, id : Nat]
\* The tables and stacks hold helpers of the crate's types.
TypeOK ==
  /\ crate \in Crates
  /\ uses \in Seq(Helper)
  /\ phase \in {"bodies", "equalities", "clones", "emitted"}
  /\ functions \in Seq(Fn)
  /\ memo \in SUBSET Entry
  /\ pending \in [Kinds -> Seq(Entry)]
  /\ current \in [parts : Seq(Ty), kind : Kinds] \cup {None}
  /\ panicked \in BOOLEAN

\* The clone of a value never contains a copy of a mutable reference, though
\* lower_clone copies any reference it meets: the derives have excluded it.
NoMutableCopies ==
  current.kind = "clone" =>
    \A i \in DOMAIN current.parts : ~(current.parts[i].chain # <<>> /\ Head(current.parts[i].chain) = "RefMut")

\* mangle_ty writes both alike: (), and a struct that the user has called unit.
SpelledAlike(t, u) ==
  /\ t.chain = u.chain
  /\ \E s \in Struct : crate.name[s] = Unit /\ {t.leaf, u.leaf} = {s, Unit}

\* Two functions of the module share a name only if they are of one kind and for two
\* types that differ in () and a struct called unit; nothing is declared twice,
\* though a type is asked for from many bodies and from the helpers of other types.
NamesClashOnlyAtUnit ==
  \A d, e \in memo :
    functions[d.id].name = functions[e.id].name =>
      d = e \/ (d.helper.kind = e.helper.kind /\ SpelledAlike(d.helper.ty, e.helper.ty))

\* In the module that is printed every helper has a body, the ones included that
\* were first needed by another helper.
AllDefined == phase = "emitted" => \A i \in DOMAIN functions : functions[i].body

\* A comparison or a clone that arrives at a (): a clone copies a reference to one.
ArrivesAtUnit(h) == h.ty.leaf = Unit /\ (h.kind = "eq" \/ ~\E i \in DOMAIN h.ty.chain : IsRef(h.ty, i))

\* A use, or a field of a struct with the derive, is such a type.
HasUnitOperand ==
  \/ \E i \in DOMAIN uses : ArrivesAtUnit(uses[i])
  \/ \E s \in Struct, k \in Kinds :
       <<s, k>> \in crate.traits /\ \E i \in DOMAIN crate.fields[s] : ArrivesAtUnit([kind |-> k, ty |-> crate.fields[s][i]])

\* The trait rules and the match of the lowering agree on every type but (): what
\* has the trait has an arm, and so have the types it leads to.
SupportsWhatHasTheTrait == ~HasUnitOperand => []~panicked

\* The stacks run empty although helpers of recursive types ask for each other.
Terminates == ~HasUnitOperand => <>(phase = "emitted")
=============================================================================
