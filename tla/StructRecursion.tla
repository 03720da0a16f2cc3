--------------------------- MODULE StructRecursion ---------------------------
(* The check of recursive layouts at the end of type resolution                *)
(* (semantic/type_res.rs, check_recursive_structs): a depth-first walk over    *)
(* the structs a struct holds inline.  The recursion is an explicit stack of   *)
(* frames: the struct being visited and the first field not yet looked at.     *)
EXTENDS Integers, Sequences

CONSTANTS Struct,       \* TypeIds of the user's structs
          Crates,       \* the crates checked: each a [Struct -> field types in order]
          Orders        \* the orders in which the types may have been declared

Scalar == "Scalar"
Wrappers == {"Ref", "Box", "Vec", "Array"}
\* A resolved field type: the type constructors from the outside in, then the leaf.
Ty == [chain : Seq(Wrappers), leaf : Struct \cup {Scalar}]

ASSUME CratesAssumption == Crates \subseteq [Struct -> Seq(Ty)]
ASSUME OrdersAssumption ==
  \A ids \in Orders : ids \in Seq(Struct) /\ \A s \in Struct : \E i \in DOMAIN ids : ids[i] = s
ASSUME ScalarAssumption == Scalar \notin Struct

\* inline_struct_type is Some: only arrays stand around the struct.
Inline(ty) ==
  /\ ty.leaf \in Struct
  /\ \A i \in DOMAIN ty.chain : ty.chain[i] = "Array"

VARIABLES crate,        \* the fields of every struct
          roots,        \* ids still to be started by check_recursive_structs
          resolving_structs,  \* "New" is an absent entry
          frames,       \* the active calls: [id, next field]
          reports       \* the structs reported, in order

Frame == [id : Struct, next : Nat \ {0}]

layoutVars == <<crate, roots, resolving_structs, frames, reports>>

\* In the crate c, s holds a t inline.
Holds(c, s, t) == \E i \in DOMAIN c[s] : Inline(c[s][i]) /\ c[s][i].leaf = t

LayoutInit ==
  /\ crate \in Crates
  /\ roots \in Orders
  /\ resolving_structs = [s \in Struct |-> "New"]
  /\ frames = <<>>
  /\ reports = <<>>

Active == frames[Len(frames)]
Callers == SubSeq(frames, 1, Len(frames) - 1)

\* The inline targets a frame has still to visit, by field.
Rest(c, frame) == {i \in DOMAIN c[frame.id] : i >= frame.next /\ Inline(c[frame.id][i])}

\* mutant: the walk does not move on from a target
Advanced_Stuck(i) == Append(Callers, [Active EXCEPT !.next = i])
\* The stack of the caller once it has moved on behind field i.
Advanced(i) == Append(Callers, [Active EXCEPT !.next = i + 1])

\* mutant: a struct found on the active path is taken to be checked already
Visit_Silent(s, caller) ==
  \/ /\ resolving_structs[s] \in {"Done", "Visiting"}
     /\ frames' = caller
     /\ UNCHANGED <<resolving_structs, reports>>
  \/ /\ resolving_structs[s] = "New"
     /\ resolving_structs' = [resolving_structs EXCEPT ![s] = "Visiting"]
     /\ frames' = Append(caller, [id |-> s, next |-> 1])
     /\ UNCHANGED reports

\* The head of check_recursive_structs_impl: done, found on the active path, or new.
Visit(s, caller) ==
  \/ /\ resolving_structs[s] = "Done"
     /\ frames' = caller
     /\ UNCHANGED <<resolving_structs, reports>>
  \/ /\ resolving_structs[s] = "Visiting"
     /\ reports' = Append(reports, s)
     /\ frames' = caller
     /\ UNCHANGED resolving_structs
  \/ /\ resolving_structs[s] = "New"
     /\ resolving_structs' = [resolving_structs EXCEPT ![s] = "Visiting"]
     /\ frames' = Append(caller, [id |-> s, next |-> 1])
     /\ UNCHANGED reports

\* check_recursive_structs starts a walk at every struct, in declaration order.
StartRoot ==
  /\ frames = <<>>
  /\ roots # <<>>
  /\ Visit(Head(roots), frames)
  /\ roots' = Tail(roots)
  /\ UNCHANGED crate

VisitTarget ==
  /\ frames # <<>>
  /\ \E i \in Rest(crate, Active) :
       /\ \A j \in Rest(crate, Active) : i <= j
       /\ Visit(crate[Active.id][i].leaf, Advanced(i))
  /\ UNCHANGED <<crate, roots>>

\* mutant: a struct is not marked when its walk ends
FinishStruct_Unmarked ==
  /\ frames # <<>>
  /\ Rest(crate, Active) = {}
  /\ frames' = Callers
  /\ UNCHANGED <<crate, roots, resolving_structs, reports>>

FinishStruct ==
  /\ frames # <<>>
  /\ Rest(crate, Active) = {}
  /\ resolving_structs' = [resolving_structs EXCEPT ![Active.id] = "Done"]
  /\ frames' = Callers
  /\ UNCHANGED <<crate, roots, reports>>

LayoutNext == StartRoot \/ VisitTarget \/ FinishStruct

LayoutSpec == LayoutInit /\ [][LayoutNext]_layoutVars
\* The pass runs to its end: it is an ordinary call.
FairLayoutSpec == LayoutSpec /\ WF_layoutVars(LayoutNext)

(******************************* properties *********************************)
Finished == roots = <<>> /\ frames = <<>>
Reported == {reports[i] : i \in DOMAIN reports}

\* The walk handles structs only, and a frame stands behind a field of its struct.
LayoutTypeOK ==
  /\ crate \in Crates
  /\ roots \in Seq(Struct)
  /\ resolving_structs \in [Struct -> {"New", "Visiting", "Done"}]
  /\ frames \in Seq(Frame)
  /\ reports \in Seq(Struct)

\* resolving_structs says Visiting exactly of the structs whose walk is active.
VisitingIsActive ==
  \A s \in Struct : resolving_structs[s] = "Visiting" <=> \E i \in DOMAIN frames : frames[i].id = s

\* Every set of structs that hold each other inline without end has a member that
\* is reported: no cycle goes by, whatever the declaration order and wherever the
\* walk meets it.
EveryCycleReported ==
  Finished => \A S \in SUBSET Struct :
                (S # {} /\ \A s \in S : \E t \in S : Holds(crate, s, t)) => S \cap Reported # {}

\* t is in every set that has what s holds and is closed under holding.
Closed(c, S) == \A u \in S : \A v \in Struct : Holds(c, u, v) => v \in S
Reaches(c, s, t) ==
  \A S \in SUBSET Struct : (Closed(c, S) /\ \A v \in Struct : Holds(c, s, v) => v \in S) => t \in S

\* A struct is reported only when it does hold itself, directly or through others:
\* references, boxes and vectors break the chain.
OnlyCyclesReported == \A s \in Reported : Reaches(crate, s, s)

\* The walk ends.
WalkEnds == <>Finished
=============================================================================
