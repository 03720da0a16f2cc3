----------------------------- MODULE TraitCheck -----------------------------
(***************************************************************************)
(* The pass trait_check of the semantic analysis: build_graph records for  *)
(* every declared derive the derives it depends on, propagate then clears  *)
(* the derive bits that are not supported, working backwards through the   *)
(* graph with a FIFO queue, and reports each of them.                      *)
(***************************************************************************)
EXTENDS TraitRules

VARIABLES
    prog,         \* the program: field types and declared derives, never changed
    pc,           \* the statement the pass is at
    todo,         \* build_graph: nodes of the two loops not yet visited
    node,         \* build_graph: the node being visited
    reason,       \* build_graph: its next prerequisite (0) or field
    traits,       \* StructDef.traits of all structs: the derive bits that are set
    predecessor,  \* node -> sequence of <<dependent node, reason>>
    derive_spans, \* nodes whose derive attribute has been found
    invalid,      \* <<node, reason>> pairs found invalid while building
    queue_unset,  \* nodes whose bit was cleared, dependents not yet visited
    predecessors, \* propagate: the edges of the popped node still to follow
    diagnostics   \* <<node, reason>> pairs reported

vars == <<prog, pc, todo, node, reason, traits, predecessor, derive_spans,
          invalid, queue_unset, predecessors, diagnostics>>

\* for item in items, for tr in [Clone, Copy, PartialEq, Eq].
TraitOrder == <<"Clone", "Copy", "PartialEq", "Eq">>
VisitOrder ==
    [i \in 1 .. 4 * Len(Items) |->
        <<Items[((i - 1) \div 4) + 1], TraitOrder[((i - 1) % 4) + 1]>>]

NoNode == << >>   \* before the first visit

Init == /\ prog \in Programs
        /\ pc = "visit"
        /\ todo = VisitOrder
        /\ node = NoNode
        /\ reason = 0
        /\ traits = prog.declared
        /\ predecessor = [m \in {} |-> << >>]
        /\ derive_spans = {}
        /\ invalid = << >>
        /\ queue_unset = << >>
        /\ predecessors = << >>
        /\ diagnostics = << >>

-----------------------------------------------------------------------------
(* build_graph *)

\* predecessor.entry(n).or_default().
OrDefault(p, n) == [m \in DOMAIN p \cup {n} |-> IF m \in DOMAIN p THEN p[m] ELSE << >>]

\* A derive that is not declared is skipped, another becomes a graph node.
VisitTrait ==
    /\ pc = "visit"
    /\ todo # << >>
    /\ todo' = Tail(todo)
    /\ IF Head(todo) \in traits
       THEN /\ node' = Head(todo)
            /\ derive_spans' = derive_spans \cup {Head(todo)}
            /\ predecessor' = OrDefault(predecessor, Head(todo))
            /\ reason' = FirstReason(Head(todo)[2])
            /\ pc' = "require"
       ELSE UNCHANGED <<node, derive_spans, predecessor, reason, pc>>
    /\ UNCHANGED <<prog, traits, invalid, queue_unset, predecessors, diagnostics>>

Fields == prog.fields[node[1]]

Needs_CopyRule ==   \* mutant: the fields of every trait are held to Copy's rule
    RequirementOf(<<node[1], "Copy">>, reason, Fields)

Needs == RequirementOf(node, reason, Fields)

\* One prerequisite or field of the node: it holds, it depends on a derive
\* that is declared, or it makes the node invalid.
CheckRequirement ==
    /\ pc = "require"
    /\ reason <= Len(Fields)
    /\ reason' = reason + 1
    /\ IF Met(Needs, traits)
       THEN /\ predecessor' =
                   [m \in DOMAIN predecessor \cup Needs.on |->
                       IF m \in Needs.on
                       THEN Append(OrDefault(predecessor, m)[m], <<node, reason>>)
                       ELSE predecessor[m]]
            /\ UNCHANGED invalid
       ELSE /\ invalid' = Append(invalid, <<node, reason>>)
            /\ UNCHANGED predecessor
    /\ UNCHANGED <<prog, pc, todo, node, traits, derive_spans, queue_unset,
                   predecessors, diagnostics>>

NextTrait ==
    /\ pc = "require"
    /\ reason > Len(Fields)
    /\ pc' = "visit"
    /\ UNCHANGED <<prog, todo, node, reason, traits, predecessor, derive_spans,
                   invalid, queue_unset, predecessors, diagnostics>>

GraphBuilt ==
    /\ pc = "visit"
    /\ todo = << >>
    /\ pc' = "invalid"
    /\ UNCHANGED <<prog, todo, node, reason, traits, predecessor, derive_spans,
                   invalid, queue_unset, predecessors, diagnostics>>

-----------------------------------------------------------------------------
(* propagate *)

\* unset_and_enqueue: a bit that is already clear is left alone; the span of
\* the derive must be known to report it.
UnsetAndEnqueue_Twice(e, stay) ==   \* mutant: a clear bit is enqueued again
    /\ traits' = traits \ {e[1]}
    /\ diagnostics' = Append(diagnostics, e)
    /\ queue_unset' = Append(queue_unset, e[1])
    /\ pc' = stay

UnsetAndEnqueue(e, stay) ==
    IF e[1] \notin traits
    THEN pc' = stay /\ UNCHANGED <<traits, diagnostics, queue_unset>>
    ELSE /\ traits' = traits \ {e[1]}
         /\ IF e[1] \in derive_spans
            THEN /\ diagnostics' = Append(diagnostics, e)
                 /\ queue_unset' = Append(queue_unset, e[1])
                 /\ pc' = stay
            ELSE pc' = "panic" /\ UNCHANGED <<diagnostics, queue_unset>>

UnsetInvalid ==
    /\ pc = "invalid"
    /\ invalid # << >>
    /\ invalid' = Tail(invalid)
    /\ UnsetAndEnqueue(Head(invalid), "invalid")
    /\ UNCHANGED <<prog, todo, node, reason, predecessor, derive_spans, predecessors>>

InvalidDone ==
    /\ pc = "invalid"
    /\ invalid = << >>
    /\ pc' = "pop"
    /\ UNCHANGED <<prog, todo, node, reason, traits, predecessor, derive_spans,
                   invalid, queue_unset, predecessors, diagnostics>>

\* queue_unset.pop_front() and predecessor.remove(&node), which must be there.
PopUnset ==
    /\ pc = "pop"
    /\ queue_unset # << >>
    /\ queue_unset' = Tail(queue_unset)
    /\ IF Head(queue_unset) \in DOMAIN predecessor
       THEN /\ predecessors' = predecessor[Head(queue_unset)]
            /\ predecessor' = [m \in DOMAIN predecessor \ {Head(queue_unset)} |-> predecessor[m]]
            /\ pc' = "walk"
       ELSE pc' = "panic" /\ UNCHANGED <<predecessor, predecessors>>
    /\ UNCHANGED <<prog, todo, node, reason, traits, derive_spans, invalid, diagnostics>>

UnsetPredecessor ==
    /\ pc = "walk"
    /\ predecessors # << >>
    /\ predecessors' = Tail(predecessors)
    /\ UnsetAndEnqueue(Head(predecessors), "walk")
    /\ UNCHANGED <<prog, todo, node, reason, predecessor, derive_spans, invalid>>

WalkDone ==
    /\ pc = "walk"
    /\ predecessors = << >>
    /\ pc' = "pop"
    /\ UNCHANGED <<prog, todo, node, reason, traits, predecessor, derive_spans,
                   invalid, queue_unset, predecessors, diagnostics>>

Propagated_Early ==   \* mutant: one round of the queue only
    /\ pc = "pop"
    /\ pc' = "done"
    /\ UNCHANGED <<prog, todo, node, reason, traits, predecessor, derive_spans,
                   invalid, queue_unset, predecessors, diagnostics>>

Propagated ==
    /\ pc = "pop"
    /\ queue_unset = << >>
    /\ pc' = "done"
    /\ UNCHANGED <<prog, todo, node, reason, traits, predecessor, derive_spans,
                   invalid, queue_unset, predecessors, diagnostics>>

Next == \/ VisitTrait \/ CheckRequirement \/ NextTrait \/ GraphBuilt
        \/ UnsetInvalid \/ InvalidDone
        \/ PopUnset \/ UnsetPredecessor \/ WalkDone \/ Propagated

Spec     == Init /\ [][Next]_vars
FairSpec == Spec /\ WF_vars(Next)

-----------------------------------------------------------------------------
(* Properties *)

Edge == TraitCheckNode \X Nat

\* Types; only declared derives enter the graph.
TypeOK ==
    /\ prog \in Programs
    /\ pc \in {"visit", "require", "invalid", "pop", "walk", "done", "panic"}
    /\ todo \in Seq(TraitCheckNode)
    /\ node \in TraitCheckNode \cup {NoNode}
    /\ reason \in Nat
    /\ traits \in SUBSET TraitCheckNode
    /\ DOMAIN predecessor \subseteq prog.declared
    /\ \A n \in DOMAIN predecessor : predecessor[n] \in Seq(Edge)
    /\ derive_spans \in SUBSET TraitCheckNode
    /\ invalid \in Seq(Edge)
    /\ queue_unset \in Seq(TraitCheckNode)
    /\ predecessors \in Seq(Edge)
    /\ diagnostics \in Seq(Edge)

\* Neither expect of the pass fails: a queued node is still a graph node, and
\* the derive attribute of every reported node is known.
NoPanic == pc # "panic"

\* The withdrawn derives are the reported ones, each of them reported once.
ReportedOnce ==
    /\ {d[1] : d \in ToSet(diagnostics)} = prog.declared \ traits
    /\ \A i, j \in DOMAIN diagnostics :
           diagnostics[i][1] = diagnostics[j][1] => i = j

\* Every report names a prerequisite or field that really lacks the trait,
\* although the trait of that field may be withdrawn long after the report's
\* edge was recorded.
ReasonsHold ==
    \A d \in ToSet(diagnostics) :
        ~Met(RequirementOf(d[1], d[2], prog.fields[d[1][1]]), traits)

\* After a run without diagnostics the shortcut of implements_trait (trust
\* the derive of a struct) is justified: every field of a struct with a
\* derive implements the trait, and Copy and Eq come with their prerequisite.
TrustedDerivesHold ==
    pc = "done" /\ diagnostics = << >> =>
        \A n \in prog.declared :
            /\ \A ty \in ToSet(prog.fields[n[1]]) : implements_trait(ty, n[2], traits)
            /\ HasPrerequisite(n[2]) => <<n[1], Prerequisite(n[2])>> \in traits

KeepsInv ==
    \A D \in SUBSET prog.declared : Consistent(D, prog.fields) => D \subseteq traits

\* The pass ends with a consistent set of derives that has every other one in it:
\* no derive is withdrawn that could have stood, whatever the order of the queue.
GreatestAtEnd == pc = "done" => Consistent(traits, prog.fields) /\ KeepsInv

\* The pass implements the order-free withdrawal of derives: DeriveFixpoint
\* with a Withdraw at every cleared bit and Finish at the end of the pass.
Fixpoint == INSTANCE DeriveFixpoint WITH derives <- traits, finished <- pc = "done"

ComputesFixpoint == Fixpoint!Spec

\* The worklist runs dry: dependencies may be cyclic (through Box, Vec or a
\* reference), but a bit is cleared only once.
Terminates == <>(pc = "done")
=============================================================================
