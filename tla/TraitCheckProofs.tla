-------------------------- MODULE TraitCheckProofs --------------------------
(***************************************************************************)
(* TraitCheck never trips over one of its expects, reports each withdrawn  *)
(* derive once and for a true reason, and implements DeriveFixpoint, for   *)
(* every program; what implements_trait then answers is what the pass has  *)
(* validated.                                                              *)
(***************************************************************************)
EXTENDS TraitCheck, InductionLemmas, TLAPS

-----------------------------------------------------------------------------
(* Sequences as sets of elements. *)

LEMMA EmptyElems == ToSet(<< >>) = {}
BY DEF ToSet

LEMMA AppendElems ==
    ASSUME NEW S, NEW s \in Seq(S), NEW e \in S
    PROVE  /\ ToSet(Append(s, e)) = ToSet(s) \cup {e}
           /\ Append(s, e) \in Seq(S)
<1>1. DOMAIN Append(s, e) = 1 .. Len(s) + 1 /\ DOMAIN s = 1 .. Len(s)
  OBVIOUS
<1>2. \A i \in DOMAIN s : Append(s, e)[i] = s[i]
  OBVIOUS
<1>3. Append(s, e)[Len(s) + 1] = e
  OBVIOUS
<1> QED
  BY <1>1, <1>2, <1>3 DEF ToSet

LEMMA TailElems ==
    ASSUME NEW S, NEW s \in Seq(S), s # << >>
    PROVE  /\ ToSet(s) = ToSet(Tail(s)) \cup {Head(s)}
           /\ Head(s) \in S
           /\ Tail(s) \in Seq(S)
<1>1. DOMAIN Tail(s) = 1 .. Len(s) - 1 /\ DOMAIN s = 1 .. Len(s) /\ Len(s) >= 1
  OBVIOUS
<1>2. \A i \in 1 .. Len(s) - 1 : Tail(s)[i] = s[i + 1]
  OBVIOUS
<1>3. Head(s) = s[1]
  OBVIOUS
<1>4. ASSUME NEW x \in ToSet(s) PROVE x \in ToSet(Tail(s)) \cup {Head(s)}
  <2>1. PICK i \in 1 .. Len(s) : x = s[i]
    BY <1>1 DEF ToSet
  <2>2. CASE i = 1
    BY <2>1, <2>2, <1>3
  <2>3. CASE i # 1
    <3>1. i - 1 \in 1 .. Len(s) - 1 /\ Tail(s)[i - 1] = x
      BY <2>1, <2>3, <1>2
    <3> QED
      BY <3>1, <1>1 DEF ToSet
  <2> QED
    BY <2>2, <2>3
<1>5. ASSUME NEW x \in ToSet(Tail(s)) PROVE x \in ToSet(s)
  <2>1. PICK i \in 1 .. Len(s) - 1 : x = s[i + 1]
    BY <1>1, <1>2 DEF ToSet
  <2> QED
    BY <2>1, <1>1 DEF ToSet
<1>6. Head(s) \in ToSet(s)
  BY <1>1, <1>3 DEF ToSet
<1> QED
  BY <1>4, <1>5, <1>6

Distinct(s) == \A i, j \in DOMAIN s : s[i] = s[j] => i = j

LEMMA AppendDistinct ==
    ASSUME NEW S, NEW s \in Seq(S), NEW e \in S, Distinct(s), e \notin ToSet(s)
    PROVE  Distinct(Append(s, e))
<1>1. DOMAIN Append(s, e) = 1 .. Len(s) + 1 /\ DOMAIN s = 1 .. Len(s)
  OBVIOUS
<1>2. \A i \in DOMAIN s : Append(s, e)[i] = s[i] /\ s[i] # e
  BY DEF ToSet
<1>3. Append(s, e)[Len(s) + 1] = e
  OBVIOUS
<1> QED
  BY <1>1, <1>2, <1>3 DEF Distinct

LEMMA TailDistinct ==
    ASSUME NEW S, NEW s \in Seq(S), s # << >>, Distinct(s)
    PROVE  Distinct(Tail(s)) /\ Head(s) \notin ToSet(Tail(s))
<1>1. DOMAIN Tail(s) = 1 .. Len(s) - 1 /\ DOMAIN s = 1 .. Len(s) /\ Len(s) >= 1
  OBVIOUS
<1>2. \A i \in 1 .. Len(s) - 1 : Tail(s)[i] = s[i + 1] /\ i + 1 \in DOMAIN s
  OBVIOUS
<1>3. Head(s) = s[1] /\ 1 \in DOMAIN s
  OBVIOUS
<1>4. Distinct(Tail(s))
  BY <1>1, <1>2 DEF Distinct
<1>5. Head(s) \notin ToSet(Tail(s))
  BY <1>1, <1>2, <1>3 DEF Distinct, ToSet
<1> QED
  BY <1>4, <1>5

\* Reports whose nodes are distinct, extended by a report of another node.
DistinctNodes(s) == \A i, j \in DOMAIN s : s[i][1] = s[j][1] => i = j

LEMMA AppendDistinctNodes ==
    ASSUME NEW S, NEW s \in Seq(S), NEW e \in S, DistinctNodes(s),
           \A d \in ToSet(s) : d[1] # e[1]
    PROVE  DistinctNodes(Append(s, e))
<1>1. DOMAIN Append(s, e) = 1 .. Len(s) + 1 /\ DOMAIN s = 1 .. Len(s)
  OBVIOUS
<1>2. \A i \in DOMAIN s : Append(s, e)[i] = s[i] /\ s[i][1] # e[1]
  BY DEF ToSet
<1>3. Append(s, e)[Len(s) + 1] = e
  OBVIOUS
<1> QED
  BY <1>1, <1>2, <1>3 DEF DistinctNodes

-----------------------------------------------------------------------------
(* The inductive invariant. *)

Reasons(n) == FirstReason(n[2]) .. Len(prog.fields[n[1]])
Req(e)     == RequirementOf(e[1], e[2], prog.fields[e[1][1]])

\* A reason that is really missing, of a derive that is really declared.
Genuine(e) == /\ e[1] \in prog.declared
              /\ e[2] \in Reasons(e[1])
              /\ ~Met(Req(e), traits)

ReportsGenuine ==
    \A e \in ToSet(invalid) \cup ToSet(predecessors) \cup ToSet(diagnostics) : Genuine(e)

\* An edge leads from a derive to one that needs it.
EdgesGenuine ==
    \A m \in DOMAIN predecessor : \A e \in ToSet(predecessor[m]) :
        /\ e[1] \in prog.declared
        /\ e[2] \in Reasons(e[1])
        /\ m \in Req(e).on

\* The queue holds cleared nodes whose edges are still to be followed.
QueueInv ==
    /\ Distinct(queue_unset)
    /\ \A m \in ToSet(queue_unset) : m \notin traits /\ m \in DOMAIN predecessor

\* A derive that stands is in the graph, unless it has not been visited yet.
VisitedInv ==
    \A n \in traits : n \in ToSet(todo) \/ n \in derive_spans \cap DOMAIN predecessor

\* A reason of a standing derive is still to be looked at, or it is known to
\* be missing, or every derive it needs stands or waits in the queue and leads
\* back to it.
Recorded(n, r) ==
    \/ <<n, r>> \in ToSet(invalid) \cup ToSet(predecessors)
    \/ /\ Req(<<n, r>>).ok
       /\ \A m \in Req(<<n, r>>).on :
             /\ m \in traits \cup ToSet(queue_unset)
             /\ m \in DOMAIN predecessor
             /\ <<n, r>> \in ToSet(predecessor[m])

CompleteInv ==
    \A n \in traits : \A r \in Reasons(n) :
        \/ n \in ToSet(todo)
        \/ pc = "require" /\ n = node /\ r >= reason
        \/ Recorded(n, r)

\* What is exhausted when.
PhaseInv ==
    /\ pc \notin {"visit", "require"} => todo = << >>
    /\ pc \notin {"visit", "require", "invalid"} => invalid = << >>
    /\ pc # "walk" => predecessors = << >>
    /\ pc = "done" => queue_unset = << >>
    /\ pc = "require" => node \in prog.declared /\ reason \in Nat /\ reason >= FirstReason(node[2])
    /\ pc \in {"visit", "require"} => queue_unset = << >>

ReportedInv ==
    /\ traits \subseteq prog.declared
    /\ {d[1] : d \in ToSet(diagnostics)} = prog.declared \ traits
    /\ DistinctNodes(diagnostics)

IInv == /\ TypeOK /\ NoPanic
        /\ ReportsGenuine /\ EdgesGenuine /\ QueueInv /\ VisitedInv
        /\ CompleteInv /\ PhaseInv /\ ReportedInv

-----------------------------------------------------------------------------
(* Typing of the requirements. *)

LEMMA RequirementType ==
    ASSUME NEW p \in Program, NEW n \in TraitCheckNode,
           NEW r \in FirstReason(n[2]) .. Len(p.fields[n[1]])
    PROVE  RequirementOf(n, r, p.fields[n[1]]) \in Requirement
<1> DEFINE fs == p.fields[n[1]]
<1>1. fs \in Seq(Ty) /\ n[1] \in Struct /\ n[2] \in Trait /\ n = <<n[1], n[2]>>
  BY DEF Program, TraitCheckNode
<1>2. CASE r = 0
  BY <1>1, <1>2 DEF RequirementOf, Dependency, Requirement, Prerequisite, TraitCheckNode, Trait
<1>3. CASE r # 0
  <2>1. r \in 1 .. Len(fs)
    BY <1>1, <1>3 DEF FirstReason
  <2>2. fs[r] \in Ty
    BY <1>1, <2>1
  <2>3. fs[r].leaf # Scalar => <<fs[r].leaf, n[2]>> \in TraitCheckNode
    BY <1>1, <2>2 DEF Ty, TraitCheckNode
  <2> QED
    BY <1>3, <2>3
       DEF RequirementOf, field_requirement, Dependency, Satisfied, Unsatisfied, Requirement
<1> QED
  BY <1>2, <1>3

LEMMA ReasonsType ==
    ASSUME NEW p \in Program, NEW n \in TraitCheckNode
    PROVE  FirstReason(n[2]) \in Nat /\ Len(p.fields[n[1]]) \in Nat
BY DEF FirstReason, Program, TraitCheckNode

-----------------------------------------------------------------------------
(* The initial states. *)

LEMMA VisitOrderCovers == ToSet(VisitOrder) = TraitCheckNode /\ VisitOrder \in Seq(TraitCheckNode)
<1>1. Len(Items) \in Nat /\ \A i \in 1 .. Len(Items) : Items[i] \in Struct
  BY ItemsAssumption
<1>2. ASSUME NEW i \in 1 .. 4 * Len(Items)
      PROVE  /\ ((i - 1) \div 4) + 1 \in 1 .. Len(Items)
             /\ ((i - 1) % 4) + 1 \in 1 .. 4
  BY <1>1
<1>3. \A i \in 1 .. 4 : TraitOrder[i] \in Trait
  BY DEF TraitOrder, Trait
<1>4. VisitOrder \in [1 .. 4 * Len(Items) -> TraitCheckNode]
  BY <1>1, <1>2, <1>3 DEF VisitOrder, TraitCheckNode
<1>5. VisitOrder \in Seq(TraitCheckNode)
  BY <1>1, <1>4
<1>6. ASSUME NEW n \in TraitCheckNode PROVE n \in ToSet(VisitOrder)
  <2>1. PICK k \in 1 .. Len(Items) : Items[k] = n[1]
    BY <1>1, ItemsAssumption DEF ToSet, TraitCheckNode
  <2>2. PICK j \in 1 .. 4 : TraitOrder[j] = n[2]
    <3>1. n[2] \in Trait
      BY DEF TraitCheckNode
    <3>2. TraitOrder[1] = "Clone" /\ TraitOrder[2] = "Copy" /\ TraitOrder[3] = "PartialEq" /\ TraitOrder[4] = "Eq"
      BY DEF TraitOrder
    <3> QED
      BY <3>1, <3>2 DEF Trait
  <2> DEFINE i == 4 * (k - 1) + j
  <2>3. i \in 1 .. 4 * Len(Items) /\ ((i - 1) \div 4) + 1 = k /\ ((i - 1) % 4) + 1 = j
    BY <1>1
  <2>4. VisitOrder[i] = <<n[1], n[2]>>
    BY <2>1, <2>2, <2>3 DEF VisitOrder
  <2> QED
    BY <2>3, <2>4, <1>4 DEF ToSet, TraitCheckNode
<1>7. \A x \in ToSet(VisitOrder) : x \in TraitCheckNode
  BY <1>4 DEF ToSet
<1> QED
  BY <1>5, <1>6, <1>7

LEMMA InitInv == Init => IInv
<1> SUFFICES ASSUME Init PROVE IInv
  OBVIOUS
<1> USE DEF Init
<1>1. prog \in Program /\ prog.declared \subseteq TraitCheckNode
  BY ProgramsAssumption DEF Program
<1>2. TypeOK /\ NoPanic
  BY <1>1, VisitOrderCovers DEF TypeOK, NoPanic, NoNode
<1>3. ReportsGenuine /\ EdgesGenuine
  BY EmptyElems DEF ReportsGenuine, EdgesGenuine
<1>4. QueueInv
  BY EmptyElems DEF QueueInv, Distinct
<1>5. VisitedInv /\ CompleteInv
  BY <1>1, VisitOrderCovers DEF VisitedInv, CompleteInv
<1>6. PhaseInv
  BY DEF PhaseInv
<1>7. ReportedInv
  BY EmptyElems DEF ReportedInv, DistinctNodes
<1> QED
  BY <1>2, <1>3, <1>4, <1>5, <1>6, <1>7 DEF IInv

-----------------------------------------------------------------------------
(* The steps. *)

LEMMA VisitTraitInv == IInv /\ VisitTrait => IInv'
<1> SUFFICES ASSUME IInv, VisitTrait PROVE IInv'
  OBVIOUS
<1> DEFINE n == Head(todo)
<1>0. /\ pc = "visit" /\ todo # << >> /\ todo' = Tail(todo)
      /\ UNCHANGED <<prog, traits, invalid, queue_unset, predecessors, diagnostics>>
  BY DEF VisitTrait
<1>1. n \in TraitCheckNode /\ Tail(todo) \in Seq(TraitCheckNode)
      /\ ToSet(todo) = ToSet(Tail(todo)) \cup {n}
  BY <1>0, TailElems DEF IInv, TypeOK
<1>2. prog \in Program
  BY ProgramsAssumption DEF IInv, TypeOK
<1>3. \A e : Genuine(e) => Genuine(e)'
  BY <1>0 DEF Genuine, Req, Reasons
<1>4. CASE n \in traits
  <2>0. /\ node' = n /\ derive_spans' = derive_spans \cup {n}
        /\ predecessor' = OrDefault(predecessor, n)
        /\ reason' = FirstReason(n[2]) /\ pc' = "require"
    BY <1>4 DEF VisitTrait
  <2>1. /\ DOMAIN predecessor' = DOMAIN predecessor \cup {n}
        /\ \A m \in DOMAIN predecessor : predecessor'[m] = predecessor[m]
        /\ n \notin DOMAIN predecessor => predecessor'[n] = << >>
    BY <2>0 DEF OrDefault
  <2>2. TypeOK' /\ NoPanic'
    <3>1. reason' \in Nat
      BY <1>1, <1>2, <2>0, ReasonsType
    <3>2. \A m \in DOMAIN predecessor' : predecessor'[m] \in Seq(Edge)
      <4> TAKE m \in DOMAIN predecessor'
      <4>1. CASE m \in DOMAIN predecessor
        BY <4>1, <2>1 DEF IInv, TypeOK
      <4>2. CASE m \notin DOMAIN predecessor
        <5>1. predecessor'[m] = << >>
          BY <4>2, <2>1
        <5> QED
          BY <5>1
      <4> QED
        BY <4>1, <4>2
    <3>3. DOMAIN predecessor' \subseteq prog.declared
      BY <1>4, <2>1 DEF IInv, TypeOK, ReportedInv
    <3> QED
      BY <1>0, <1>1, <2>0, <3>1, <3>2, <3>3 DEF IInv, TypeOK, NoPanic
  <2>3. ReportsGenuine'
    BY <1>0, <1>3 DEF IInv, ReportsGenuine
  <2>4. EdgesGenuine'
    BY <1>0, <2>1, EmptyElems DEF IInv, EdgesGenuine, Reasons, Req
  <2>5. QueueInv' /\ VisitedInv'
    BY <1>0, <1>1, <2>0, <2>1 DEF IInv, QueueInv, VisitedInv
  <2>6. CompleteInv'
    <3> SUFFICES ASSUME NEW m \in traits, NEW r \in Reasons(m)
                 PROVE  \/ m \in ToSet(todo')
                        \/ m = node' /\ r >= reason'
                        \/ Recorded(m, r)'
      BY <1>0, <2>0 DEF CompleteInv, Reasons
    <3>1. CASE m \in ToSet(todo)
      BY <3>1, <1>0, <1>1, <1>2, <2>0, ReasonsType DEF Reasons
    <3>2. CASE Recorded(m, r)
      BY <3>2, <1>0, <2>1 DEF Recorded, Req
    <3> QED
      BY <3>1, <3>2, <1>0 DEF IInv, CompleteInv
  <2>7. PhaseInv' /\ ReportedInv'
    BY <1>0, <1>1, <1>2, <1>4, <2>0, ReasonsType DEF IInv, PhaseInv, ReportedInv, TypeOK
  <2> QED
    BY <2>2, <2>3, <2>4, <2>5, <2>6, <2>7 DEF IInv
<1>5. CASE n \notin traits
  <2>0. UNCHANGED <<node, derive_spans, predecessor, reason, pc>>
    BY <1>5 DEF VisitTrait
  <2>2. TypeOK' /\ NoPanic'
    BY <1>0, <1>1, <2>0 DEF IInv, TypeOK, NoPanic
  <2>3. ReportsGenuine'
    BY <1>0, <1>3 DEF IInv, ReportsGenuine
  <2>4. EdgesGenuine'
    BY <1>0, <2>0 DEF IInv, EdgesGenuine, Reasons, Req
  <2>5. QueueInv' /\ VisitedInv'
    BY <1>0, <1>1, <1>5, <2>0 DEF IInv, QueueInv, VisitedInv
  <2>6. CompleteInv'
    <3> SUFFICES ASSUME NEW m \in traits, NEW r \in Reasons(m)
                 PROVE  m \in ToSet(todo') \/ Recorded(m, r)'
      BY <1>0, <2>0 DEF CompleteInv, Reasons
    <3>1. m \in ToSet(todo) \/ Recorded(m, r)
      BY <1>0 DEF IInv, CompleteInv
    <3>2. Recorded(m, r) => Recorded(m, r)'
      BY <1>0, <2>0 DEF Recorded, Req
    <3> QED
      BY <3>1, <3>2, <1>0, <1>1, <1>5
  <2>7. PhaseInv' /\ ReportedInv'
    BY <1>0, <2>0 DEF IInv, PhaseInv, ReportedInv
  <2> QED
    BY <2>2, <2>3, <2>4, <2>5, <2>6, <2>7 DEF IInv
<1> QED
  BY <1>4, <1>5

LEMMA CheckRequirementInv == IInv /\ CheckRequirement => IInv'
<1> SUFFICES ASSUME IInv, CheckRequirement PROVE IInv'
  OBVIOUS
<1> DEFINE e == <<node, reason>>
<1>0. /\ pc = "require" /\ reason <= Len(Fields) /\ reason' = reason + 1
      /\ UNCHANGED <<prog, pc, todo, node, traits, derive_spans, queue_unset,
                     predecessors, diagnostics>>
  BY DEF CheckRequirement
<1>1. /\ prog \in Program /\ prog.declared \subseteq TraitCheckNode
      /\ node \in prog.declared /\ reason \in Nat /\ reason >= FirstReason(node[2])
  BY <1>0, ProgramsAssumption DEF IInv, TypeOK, PhaseInv, Program
<1>2. reason \in Reasons(node) /\ e \in Edge /\ e[1] = node /\ e[2] = reason
  BY <1>0, <1>1, ReasonsType DEF Reasons, Fields, Edge
<1>3. Req(e) = Needs /\ Needs \in Requirement
  BY <1>1, <1>2, RequirementType DEF Req, Needs, Fields, Reasons
<1>4. \A x : Genuine(x) => Genuine(x)'
  BY <1>0 DEF Genuine, Req, Reasons
<1>5. CASE Met(Needs, traits)
  <2>0. /\ invalid' = invalid
        /\ DOMAIN predecessor' = DOMAIN predecessor \cup Needs.on
        /\ \A m \in DOMAIN predecessor' :
              predecessor'[m] = IF m \in Needs.on
                                THEN Append(OrDefault(predecessor, m)[m], e)
                                ELSE predecessor[m]
    BY <1>5 DEF CheckRequirement
  <2>1. Needs.on \subseteq TraitCheckNode /\ Needs.on \subseteq traits /\ Needs.ok
    BY <1>3, <1>5 DEF Requirement, Met
  <2>2. \A m \in Needs.on :
           /\ OrDefault(predecessor, m)[m] = IF m \in DOMAIN predecessor THEN predecessor[m] ELSE << >>
           /\ OrDefault(predecessor, m)[m] \in Seq(Edge)
    BY DEF OrDefault, IInv, TypeOK
  <2>3. \A m \in Needs.on :
           /\ predecessor'[m] \in Seq(Edge)
           /\ ToSet(predecessor'[m]) = ToSet(OrDefault(predecessor, m)[m]) \cup {e}
    <3> SUFFICES ASSUME NEW m \in Needs.on
                 PROVE  /\ predecessor'[m] \in Seq(Edge)
                        /\ ToSet(predecessor'[m]) = ToSet(OrDefault(predecessor, m)[m]) \cup {e}
      OBVIOUS
    <3>1. predecessor'[m] = Append(OrDefault(predecessor, m)[m], e)
      BY <2>0
    <3> QED
      BY <3>1, <1>2, <2>2, AppendElems
  <2>4. \A m \in DOMAIN predecessor : ToSet(predecessor[m]) \subseteq ToSet(predecessor'[m])
    BY <2>0, <2>2, <2>3
  <2>5. TypeOK' /\ NoPanic'
    <3>1. DOMAIN predecessor' \subseteq prog.declared
      BY <2>0, <2>1 DEF IInv, TypeOK, ReportedInv
    <3>2. \A m \in DOMAIN predecessor' : predecessor'[m] \in Seq(Edge)
      BY <2>0, <2>3 DEF IInv, TypeOK
    <3> QED
      BY <1>0, <2>0, <3>1, <3>2 DEF IInv, TypeOK, NoPanic
  <2>6. ReportsGenuine' /\ QueueInv' /\ VisitedInv' /\ ReportedInv'
    BY <1>0, <1>4, <2>0 DEF IInv, ReportsGenuine, QueueInv, VisitedInv, ReportedInv
  <2>7. EdgesGenuine'
    <3> SUFFICES ASSUME NEW m \in DOMAIN predecessor', NEW x \in ToSet(predecessor'[m])
                 PROVE  x[1] \in prog.declared /\ x[2] \in Reasons(x[1]) /\ m \in Req(x).on
      BY <1>0 DEF EdgesGenuine, Reasons, Req
    <3>1. CASE m \in Needs.on /\ x = e
      BY <3>1, <1>1, <1>2, <1>3
    <3>2. CASE ~(m \in Needs.on /\ x = e)
      <4>1. m \in DOMAIN predecessor /\ x \in ToSet(predecessor[m])
        BY <3>2, <2>0, <2>2, <2>3, EmptyElems
      <4> QED
        BY <4>1 DEF IInv, EdgesGenuine
    <3> QED
      BY <3>1, <3>2
  <2>8. CompleteInv'
    <3> SUFFICES ASSUME NEW m \in traits, NEW r \in Reasons(m)
                 PROVE  \/ m \in ToSet(todo)
                        \/ m = node /\ r >= reason + 1
                        \/ Recorded(m, r)'
      BY <1>0 DEF CompleteInv, Reasons
    <3>1. CASE m = node /\ r = reason
      <4>1. Needs.on \subseteq DOMAIN predecessor' /\ \A d \in Needs.on : e \in ToSet(predecessor'[d])
        BY <2>0, <2>3
      <4>2. Req(<<m, r>>)' = Needs
        BY <3>1, <1>0, <1>3 DEF Req
      <4> QED
        BY <3>1, <4>1, <4>2, <1>0, <2>1 DEF Recorded
    <3>2. CASE m = node /\ r >= reason /\ r # reason
      BY <3>2, <1>1, <1>2, ReasonsType DEF Reasons
    <3>3. CASE Recorded(m, r)
      BY <3>3, <1>0, <2>0, <2>4 DEF Recorded, Req
    <3> QED
      BY <3>1, <3>2, <3>3, <1>0 DEF IInv, CompleteInv
  <2>9. PhaseInv'
    BY <1>0, <1>1, <2>0, ReasonsType DEF IInv, PhaseInv, TypeOK, FirstReason
  <2> QED
    BY <2>5, <2>6, <2>7, <2>8, <2>9 DEF IInv
<1>6. CASE ~Met(Needs, traits)
  <2>0. invalid' = Append(invalid, e) /\ predecessor' = predecessor
    BY <1>6 DEF CheckRequirement
  <2>1. ToSet(invalid') = ToSet(invalid) \cup {e} /\ invalid' \in Seq(Edge)
    <3>1. invalid \in Seq(Edge)
      BY DEF IInv, TypeOK
    <3> QED
      BY <3>1, <1>2, <2>0, AppendElems
  <2>2. Genuine(e)
    BY <1>1, <1>2, <1>3, <1>6 DEF Genuine
  <2>3. TypeOK' /\ NoPanic'
    BY <1>0, <2>0, <2>1 DEF IInv, TypeOK, NoPanic
  <2>4. ReportsGenuine'
    BY <1>0, <1>4, <2>1, <2>2 DEF IInv, ReportsGenuine
  <2>5. EdgesGenuine' /\ QueueInv' /\ VisitedInv' /\ ReportedInv'
    BY <1>0, <2>0 DEF IInv, EdgesGenuine, QueueInv, VisitedInv, ReportedInv, Reasons, Req
  <2>6. CompleteInv'
    <3> SUFFICES ASSUME NEW m \in traits, NEW r \in Reasons(m)
                 PROVE  \/ m \in ToSet(todo)
                        \/ m = node /\ r >= reason + 1
                        \/ Recorded(m, r)'
      BY <1>0 DEF CompleteInv, Reasons
    <3>1. CASE m = node /\ r = reason
      BY <3>1, <2>1 DEF Recorded
    <3>2. CASE m = node /\ r >= reason /\ r # reason
      BY <3>2, <1>1, <1>2, ReasonsType DEF Reasons
    <3>3. CASE Recorded(m, r)
      BY <3>3, <1>0, <2>0, <2>1 DEF Recorded, Req
    <3> QED
      BY <3>1, <3>2, <3>3, <1>0 DEF IInv, CompleteInv
  <2>7. PhaseInv'
    BY <1>0, <1>1, <2>0, ReasonsType DEF IInv, PhaseInv, TypeOK, FirstReason
  <2> QED
    BY <2>3, <2>4, <2>5, <2>6, <2>7 DEF IInv
<1> QED
  BY <1>5, <1>6

LEMMA NextTraitInv == IInv /\ NextTrait => IInv'
<1> SUFFICES ASSUME IInv, NextTrait PROVE IInv'
  OBVIOUS
<1> USE DEF IInv, NextTrait
<1>1. TypeOK' /\ NoPanic'
  BY DEF TypeOK, NoPanic
<1>2. ReportsGenuine'
  BY DEF ReportsGenuine, Genuine, Req, Reasons
<1>3. EdgesGenuine' /\ QueueInv' /\ VisitedInv' /\ ReportedInv'
  BY DEF EdgesGenuine, QueueInv, VisitedInv, ReportedInv, Req, Reasons
<1>4. CompleteInv'
  <2> SUFFICES ASSUME NEW m \in traits, NEW r \in Reasons(m)
               PROVE  m \in ToSet(todo) \/ Recorded(m, r)'
    BY DEF CompleteInv, Reasons
  <2>1. CASE m = node /\ r >= reason
    <3>1. prog \in Program /\ m \in TraitCheckNode /\ reason \in Nat
      BY ProgramsAssumption DEF TypeOK
    <3>2. r \in Nat /\ r <= Len(Fields)
      BY <2>1, <3>1, ReasonsType DEF Reasons, Fields
    <3> QED
      BY <2>1, <3>1, <3>2, ReasonsType DEF Fields
  <2>2. CASE Recorded(m, r)
    BY <2>2 DEF Recorded, Req
  <2> QED
    BY <2>1, <2>2 DEF CompleteInv
<1>5. PhaseInv'
  BY DEF PhaseInv
<1> QED
  BY <1>1, <1>2, <1>3, <1>4, <1>5

\* The three steps that only move on to the next loop.
LEMMA MoveOnInv == IInv /\ (GraphBuilt \/ InvalidDone \/ WalkDone \/ Propagated) => IInv'
<1> SUFFICES ASSUME IInv, GraphBuilt \/ InvalidDone \/ WalkDone \/ Propagated PROVE IInv'
  OBVIOUS
<1>0. /\ UNCHANGED <<prog, todo, node, reason, traits, predecessor, derive_spans,
                     invalid, queue_unset, predecessors, diagnostics>>
      /\ \/ pc = "visit" /\ todo = << >> /\ pc' = "invalid"
         \/ pc = "invalid" /\ invalid = << >> /\ pc' = "pop"
         \/ pc = "walk" /\ predecessors = << >> /\ pc' = "pop"
         \/ pc = "pop" /\ queue_unset = << >> /\ pc' = "done"
  BY DEF GraphBuilt, InvalidDone, WalkDone, Propagated
<1> USE <1>0 DEF IInv
<1>1. TypeOK' /\ NoPanic'
  BY DEF TypeOK, NoPanic
<1>2. ReportsGenuine'
  BY DEF ReportsGenuine, Genuine, Req, Reasons
<1>3. EdgesGenuine' /\ QueueInv' /\ VisitedInv' /\ ReportedInv'
  BY DEF EdgesGenuine, QueueInv, VisitedInv, ReportedInv, Req, Reasons
<1>4. CompleteInv'
  <2> SUFFICES ASSUME NEW m \in traits, NEW r \in Reasons(m)
               PROVE  m \in ToSet(todo) \/ Recorded(m, r)'
    BY DEF CompleteInv, Reasons
  <2>1. m \in ToSet(todo) \/ Recorded(m, r)
    BY DEF CompleteInv
  <2> QED
    BY <2>1 DEF Recorded, Req
<1>5. PhaseInv'
  BY DEF PhaseInv
<1> QED
  BY <1>1, <1>2, <1>3, <1>4, <1>5

\* unset_and_enqueue on a genuine pair e, taken off the list it was on.
LEMMA UnsetInv ==
    ASSUME IInv, pc \in {"invalid", "walk"}, NEW e \in Edge, Genuine(e),
           UnsetAndEnqueue(e, pc),
           UNCHANGED <<prog, todo, node, reason, predecessor, derive_spans>>,
           invalid' \in Seq(Edge), predecessors' \in Seq(Edge),
           ToSet(invalid') \cup ToSet(predecessors') \subseteq ToSet(invalid) \cup ToSet(predecessors),
           ToSet(invalid) \cup ToSet(predecessors)
               \subseteq ToSet(invalid') \cup ToSet(predecessors') \cup {e},
           pc = "walk" => invalid' = invalid,
           pc = "invalid" => predecessors' = predecessors
    PROVE  IInv'
<1>0. /\ prog \in Program /\ todo = << >>
      /\ e[1] \in TraitCheckNode /\ e = <<e[1], e[2]>> /\ e[1] \in prog.declared
  BY ProgramsAssumption DEF IInv, PhaseInv, TypeOK, Edge, Genuine
<1>1. CASE e[1] \notin traits
  <2>0. UNCHANGED <<pc, traits, diagnostics, queue_unset>>
    BY <1>1 DEF UnsetAndEnqueue
  <2>1. TypeOK' /\ NoPanic'
    BY <2>0 DEF IInv, TypeOK, NoPanic
  <2>2. ReportsGenuine'
    BY <2>0 DEF IInv, ReportsGenuine, Genuine, Req, Reasons
  <2>3. EdgesGenuine' /\ QueueInv' /\ VisitedInv' /\ ReportedInv'
    BY <2>0 DEF IInv, EdgesGenuine, QueueInv, VisitedInv, ReportedInv, Req, Reasons
  <2>4. CompleteInv'
    <3> SUFFICES ASSUME NEW m \in traits, NEW r \in Reasons(m) PROVE Recorded(m, r)'
      BY <2>0 DEF CompleteInv, Reasons
    <3>1. Recorded(m, r)
      BY <1>0, EmptyElems DEF IInv, CompleteInv
    <3>2. <<m, r>> # e
      BY <1>1
    <3> QED
      BY <2>0, <3>1, <3>2 DEF Recorded, Req
  <2>5. PhaseInv'
    BY <2>0 DEF IInv, PhaseInv
  <2> QED
    BY <2>1, <2>2, <2>3, <2>4, <2>5 DEF IInv
<1>2. CASE e[1] \in traits
  <2>1. e[1] \in derive_spans /\ e[1] \in DOMAIN predecessor
    BY <1>0, <1>2, EmptyElems DEF IInv, VisitedInv
  <2>0. /\ pc' = pc /\ traits' = traits \ {e[1]}
        /\ diagnostics' = Append(diagnostics, e)
        /\ queue_unset' = Append(queue_unset, e[1])
    BY <1>2, <2>1 DEF UnsetAndEnqueue
  <2>2. /\ ToSet(diagnostics') = ToSet(diagnostics) \cup {e} /\ diagnostics' \in Seq(Edge)
        /\ ToSet(queue_unset') = ToSet(queue_unset) \cup {e[1]}
        /\ queue_unset' \in Seq(TraitCheckNode)
    BY <1>0, <2>0, AppendElems DEF IInv, TypeOK
  <2>3. TypeOK' /\ NoPanic'
    BY <2>0, <2>2 DEF IInv, TypeOK, NoPanic
  <2>4. ReportsGenuine'
    <3>1. \A x : Genuine(x) => Genuine(x)'
      BY <2>0 DEF Genuine, Met, Req, Reasons
    <3> QED
      BY <2>2, <3>1 DEF IInv, ReportsGenuine
  <2>5. EdgesGenuine'
    BY DEF IInv, EdgesGenuine, Req, Reasons
  <2>6. QueueInv'
    <3>1. e[1] \notin ToSet(queue_unset)
      BY <1>2 DEF IInv, QueueInv
    <3>2. Distinct(queue_unset')
      BY <1>0, <2>0, <3>1, AppendDistinct DEF IInv, QueueInv, TypeOK
    <3> QED
      BY <2>0, <2>1, <2>2, <3>2 DEF IInv, QueueInv
  <2>7. VisitedInv'
    BY <2>0 DEF IInv, VisitedInv
  <2>8. CompleteInv'
    <3> SUFFICES ASSUME NEW m \in traits', NEW r \in Reasons(m) PROVE Recorded(m, r)'
      BY DEF CompleteInv, Reasons
    <3>1. Recorded(m, r) /\ m # e[1]
      BY <1>0, <2>0, EmptyElems DEF IInv, CompleteInv
    <3>2. <<m, r>> # e
      BY <3>1
    <3> QED
      BY <2>0, <2>2, <3>1, <3>2 DEF Recorded, Req
  <2>9. PhaseInv'
    BY <2>0 DEF IInv, PhaseInv
  <2>10. ReportedInv'
    <3>1. \A d \in ToSet(diagnostics) : d[1] # e[1]
      BY <1>2 DEF IInv, ReportedInv
    <3>2. DistinctNodes(diagnostics')
      BY <2>0, <3>1, AppendDistinctNodes DEF IInv, ReportedInv, TypeOK
    <3>3. {d[1] : d \in ToSet(diagnostics')} = {d[1] : d \in ToSet(diagnostics)} \cup {e[1]}
      BY <2>2
    <3> QED
      BY <1>0, <1>2, <2>0, <3>2, <3>3 DEF IInv, ReportedInv
  <2> QED
    BY <2>3, <2>4, <2>5, <2>6, <2>7, <2>8, <2>9, <2>10 DEF IInv
<1> QED
  BY <1>1, <1>2

LEMMA UnsetInvalidInv == IInv /\ UnsetInvalid => IInv'
<1> SUFFICES ASSUME IInv, UnsetInvalid PROVE IInv'
  OBVIOUS
<1>0. /\ pc = "invalid" /\ invalid # << >> /\ invalid' = Tail(invalid)
      /\ UnsetAndEnqueue(Head(invalid), pc)
      /\ UNCHANGED <<prog, todo, node, reason, predecessor, derive_spans, predecessors>>
  BY DEF UnsetInvalid
<1>1. /\ Head(invalid) \in Edge /\ Tail(invalid) \in Seq(Edge)
      /\ ToSet(invalid) = ToSet(Tail(invalid)) \cup {Head(invalid)}
  BY <1>0, TailElems DEF IInv, TypeOK
<1>2. Genuine(Head(invalid)) /\ predecessors \in Seq(Edge)
  BY <1>1 DEF IInv, ReportsGenuine, TypeOK
<1> QED
  BY <1>0, <1>1, <1>2, UnsetInv

LEMMA UnsetPredecessorInv == IInv /\ UnsetPredecessor => IInv'
<1> SUFFICES ASSUME IInv, UnsetPredecessor PROVE IInv'
  OBVIOUS
<1>0. /\ pc = "walk" /\ predecessors # << >> /\ predecessors' = Tail(predecessors)
      /\ UnsetAndEnqueue(Head(predecessors), pc)
      /\ UNCHANGED <<prog, todo, node, reason, predecessor, derive_spans, invalid>>
  BY DEF UnsetPredecessor
<1>1. /\ Head(predecessors) \in Edge /\ Tail(predecessors) \in Seq(Edge)
      /\ ToSet(predecessors) = ToSet(Tail(predecessors)) \cup {Head(predecessors)}
  BY <1>0, TailElems DEF IInv, TypeOK
<1>2. Genuine(Head(predecessors)) /\ invalid \in Seq(Edge)
  BY <1>1 DEF IInv, ReportsGenuine, TypeOK
<1> QED
  BY <1>0, <1>1, <1>2, UnsetInv

LEMMA PopUnsetInv == IInv /\ PopUnset => IInv'
<1> SUFFICES ASSUME IInv, PopUnset PROVE IInv'
  OBVIOUS
<1> DEFINE h == Head(queue_unset)
<1>0. /\ pc = "pop" /\ queue_unset # << >> /\ queue_unset' = Tail(queue_unset)
      /\ UNCHANGED <<prog, todo, node, reason, traits, derive_spans, invalid, diagnostics>>
  BY DEF PopUnset
<1>1. /\ h \in TraitCheckNode /\ Tail(queue_unset) \in Seq(TraitCheckNode)
      /\ ToSet(queue_unset) = ToSet(Tail(queue_unset)) \cup {h}
  BY <1>0, TailElems DEF IInv, TypeOK
<1>2. Distinct(Tail(queue_unset)) /\ h \notin ToSet(Tail(queue_unset))
  BY <1>0, TailDistinct DEF IInv, TypeOK, QueueInv
<1>3. h \notin traits /\ h \in DOMAIN predecessor
  BY <1>1 DEF IInv, QueueInv
<1>4. /\ predecessors' = predecessor[h] /\ pc' = "walk"
      /\ DOMAIN predecessor' = DOMAIN predecessor \ {h}
      /\ \A m \in DOMAIN predecessor' : predecessor'[m] = predecessor[m]
  BY <1>3 DEF PopUnset
<1>5. TypeOK' /\ NoPanic'
  BY <1>0, <1>1, <1>3, <1>4 DEF IInv, TypeOK, NoPanic
<1>6. ReportsGenuine'
  <2>1. \A e \in ToSet(predecessor[h]) : Genuine(e)
    BY <1>3 DEF IInv, EdgesGenuine, Genuine, Met
  <2>2. \A e : Genuine(e) => Genuine(e)'
    BY <1>0 DEF Genuine, Req, Reasons
  <2> QED
    BY <1>0, <1>4, <2>1, <2>2 DEF IInv, ReportsGenuine
<1>7. EdgesGenuine'
  BY <1>0, <1>4 DEF IInv, EdgesGenuine, Req, Reasons
<1>8. QueueInv'
  BY <1>0, <1>1, <1>2, <1>4 DEF IInv, QueueInv
<1>9. VisitedInv' /\ ReportedInv'
  BY <1>0, <1>3, <1>4 DEF IInv, VisitedInv, ReportedInv
<1>10. CompleteInv'
  <2> SUFFICES ASSUME NEW m \in traits, NEW r \in Reasons(m)
               PROVE  m \in ToSet(todo) \/ Recorded(m, r)'
    BY <1>0 DEF CompleteInv, Reasons
  <2>1. CASE Recorded(m, r)
    <3>1. predecessors = << >>
      BY <1>0 DEF IInv, PhaseInv
    <3>2. CASE h \in Req(<<m, r>>).on
      BY <2>1, <3>1, <3>2, <1>0, <1>4, EmptyElems DEF Recorded
    <3>3. CASE h \notin Req(<<m, r>>).on
      BY <2>1, <3>1, <3>3, <1>0, <1>1, <1>4, EmptyElems DEF Recorded, Req
    <3> QED
      BY <3>2, <3>3
  <2> QED
    BY <2>1, <1>0 DEF IInv, CompleteInv
<1>11. PhaseInv'
  BY <1>0, <1>4 DEF IInv, PhaseInv
<1> QED
  BY <1>5, <1>6, <1>7, <1>8, <1>9, <1>10, <1>11 DEF IInv

LEMMA StutterInv == IInv /\ UNCHANGED vars => IInv'
<1> SUFFICES ASSUME IInv, UNCHANGED vars PROVE IInv'
  OBVIOUS
<1> USE DEF IInv, vars
<1>1. TypeOK' /\ NoPanic'
  BY DEF TypeOK, NoPanic
<1>2. ReportsGenuine'
  BY DEF ReportsGenuine, Genuine, Req, Reasons
<1>3. EdgesGenuine' /\ QueueInv' /\ VisitedInv' /\ ReportedInv'
  BY DEF EdgesGenuine, QueueInv, VisitedInv, ReportedInv, Req, Reasons
<1>4. CompleteInv' /\ PhaseInv'
  BY DEF CompleteInv, PhaseInv, Recorded, Req, Reasons
<1> QED
  BY <1>1, <1>2, <1>3, <1>4

THEOREM InductiveInvariant == Spec => []IInv
<1>1. IInv /\ [Next]_vars => IInv'
  BY VisitTraitInv, CheckRequirementInv, NextTraitInv, MoveOnInv, UnsetInvalidInv,
     UnsetPredecessorInv, PopUnsetInv, StutterInv
     DEF Next
<1> QED
  BY InitInv, <1>1, PTL DEF Spec

-----------------------------------------------------------------------------
(* The results. *)

\* The variables of the pass keep their types.
THEOREM TypeCorrect == Spec => []TypeOK
<1>1. IInv => TypeOK
  BY DEF IInv
<1> QED
  BY InductiveInvariant, <1>1, PTL

\* "queued traits must be graph nodes", and the derive attribute of a reported
\* node has always been found: neither lookup of propagate can fail.
THEOREM NeverPanics == Spec => []NoPanic
<1>1. IInv => NoPanic
  BY DEF IInv
<1> QED
  BY InductiveInvariant, <1>1, PTL

\* A withdrawn derive is reported exactly once, and nothing else is reported.
THEOREM EachReportedOnce == Spec => []ReportedOnce
<1>1. IInv => ReportedOnce
  BY DEF IInv, ReportedInv, DistinctNodes, ReportedOnce
<1> QED
  BY InductiveInvariant, <1>1, PTL

\* Every report names a requirement that is missing.
THEOREM ReportsTrue == Spec => []ReasonsHold
<1>1. IInv => ReasonsHold
  BY DEF IInv, ReportsGenuine, Genuine, Req, ReasonsHold
<1> QED
  BY InductiveInvariant, <1>1, PTL

\* At the end of the pass the derives that stand support each other.
LEMMA DoneConsistent == IInv /\ pc \in {"pop", "done"} /\ queue_unset = << >> => Consistent(traits, prog.fields)
<1> SUFFICES ASSUME IInv, pc \in {"pop", "done"}, queue_unset = << >>,
                    NEW n \in traits,
                    NEW r \in FirstReason(n[2]) .. Len(prog.fields[n[1]])
             PROVE  Met(RequirementOf(n, r, prog.fields[n[1]]), traits)
  BY DEF Consistent, Supported
<1>1. todo = << >> /\ invalid = << >> /\ predecessors = << >>
  BY DEF IInv, PhaseInv
<1>2. Recorded(n, r)
  BY <1>1, EmptyElems DEF IInv, CompleteInv, Reasons
<1> QED
  BY <1>1, <1>2, EmptyElems DEF Recorded, Req, Met

\* The rules seen through the instance are the same rules.
LEMMA SameRules ==
    \A n, fields, D : Fixpoint!Supported(n, fields, D) <=> Supported(n, fields, D)
<1>1. \A ty, tr : Fixpoint!field_requirement(ty, tr) = field_requirement(ty, tr)
  BY DEF field_requirement, Fixpoint!field_requirement, Verdict, Fixpoint!Verdict,
         Satisfied, Fixpoint!Satisfied, Unsatisfied, Fixpoint!Unsatisfied,
         Dependency, Fixpoint!Dependency, Scalar, Fixpoint!Scalar
<1>2. \A n, r, fs : Fixpoint!RequirementOf(n, r, fs) = RequirementOf(n, r, fs)
  BY <1>1 DEF RequirementOf, Fixpoint!RequirementOf, Dependency, Fixpoint!Dependency,
              Prerequisite, Fixpoint!Prerequisite
<1> QED
  BY <1>2 DEF Supported, Fixpoint!Supported, Met, Fixpoint!Met,
              FirstReason, Fixpoint!FirstReason, HasPrerequisite, Fixpoint!HasPrerequisite

LEMMA SameConsistent ==
    \A D, fields : Fixpoint!Consistent(D, fields) <=> Consistent(D, fields)
BY SameRules DEF Consistent, Fixpoint!Consistent

\* A bit that is cleared belongs to a derive that the set bits do not support.
LEMMA UnsetWithdraws ==
    ASSUME IInv, NEW e \in Edge, Genuine(e), NEW stay \in {"invalid", "walk"},
           UnsetAndEnqueue(e, stay), UNCHANGED prog, pc = stay, pc' # "panic"
    PROVE  Fixpoint!Withdraw \/ UNCHANGED Fixpoint!vars
<1>1. CASE e[1] \notin traits
  BY <1>1 DEF UnsetAndEnqueue, Fixpoint!vars
<1>2. CASE e[1] \in traits
  <2>1. traits' = traits \ {e[1]} /\ pc' = pc
    BY <1>2 DEF UnsetAndEnqueue
  <2>2. ~Supported(e[1], prog.fields, traits)
    BY DEF Genuine, Supported, Reasons, Req
  <2> QED
    BY <1>2, <2>1, <2>2, SameRules DEF Fixpoint!Withdraw
<1> QED
  BY <1>1, <1>2

LEMMA StepRefines == IInv /\ IInv' /\ [Next]_vars => [Fixpoint!Next]_(Fixpoint!vars)
<1> SUFFICES ASSUME IInv, IInv', [Next]_vars
             PROVE  Fixpoint!Next \/ UNCHANGED Fixpoint!vars
  OBVIOUS
<1>0. pc' # "panic"
  BY DEF IInv, NoPanic
<1>1. CASE VisitTrait
  BY <1>1 DEF VisitTrait, Fixpoint!vars
<1>2. CASE CheckRequirement
  BY <1>2 DEF CheckRequirement, Fixpoint!vars
<1>3. CASE NextTrait \/ GraphBuilt \/ InvalidDone \/ WalkDone
  BY <1>3 DEF NextTrait, GraphBuilt, InvalidDone, WalkDone, Fixpoint!vars
<1>4. CASE PopUnset
  BY <1>4, <1>0 DEF PopUnset, Fixpoint!vars
<1>5. CASE UnsetInvalid
  <2>1. Head(invalid) \in Edge /\ Genuine(Head(invalid))
    BY <1>5, TailElems DEF UnsetInvalid, IInv, TypeOK, ReportsGenuine
  <2> QED
    BY <1>0, <1>5, <2>1, UnsetWithdraws DEF UnsetInvalid, Fixpoint!Next
<1>6. CASE UnsetPredecessor
  <2>1. Head(predecessors) \in Edge /\ Genuine(Head(predecessors))
    BY <1>6, TailElems DEF UnsetPredecessor, IInv, TypeOK, ReportsGenuine
  <2> QED
    BY <1>0, <1>6, <2>1, UnsetWithdraws DEF UnsetPredecessor, Fixpoint!Next
<1>7. CASE Propagated
  <2>1. Consistent(traits, prog.fields)
    BY <1>7, DoneConsistent DEF Propagated
  <2> QED
    BY <1>7, <2>1, SameConsistent DEF Propagated, Fixpoint!Next, Fixpoint!Finish
<1>8. CASE UNCHANGED vars
  BY <1>8 DEF vars, Fixpoint!vars
<1> QED
  BY <1>1, <1>2, <1>3, <1>4, <1>5, <1>6, <1>7, <1>8 DEF Next

\* The worklist implements the abstract withdrawal of unsupported derives, and
\* ends only when the rest is consistent.
THEOREM ImplementsFixpoint == Spec => ComputesFixpoint
<1>1. Init => Fixpoint!Init
  BY DEF Init, Fixpoint!Init
<1> QED
  BY InductiveInvariant, <1>1, StepRefines, PTL DEF Spec, ComputesFixpoint, Fixpoint!Spec

\* A derive supported by some derives is supported by more of them, which is what
\* makes the order of the withdrawals irrelevant.
LEMMA SupportedMonotone ==
    ASSUME NEW n, NEW fields, NEW D, NEW E, D \subseteq E, Supported(n, fields, D)
    PROVE  Supported(n, fields, E)
BY DEF Supported, Met

\* Every consistent set of declared derives survives the withdrawals, and what they
\* end with is consistent: whatever implements DeriveFixpoint, in whatever order, ends
\* with the greatest fixpoint.
THEOREM FixpointIsGreatest == ComputesFixpoint => []GreatestAtEnd
<1> DEFINE FInv == KeepsInv /\ (pc = "done" => Consistent(traits, prog.fields))
<1>1. Fixpoint!Init => FInv
  BY DEF Fixpoint!Init, KeepsInv
<1>2. FInv /\ [Fixpoint!Next]_(Fixpoint!vars) => FInv'
  <2> SUFFICES ASSUME FInv, [Fixpoint!Next]_(Fixpoint!vars) PROVE FInv'
    OBVIOUS
  <2>1. CASE Fixpoint!Withdraw
    <3>1. PICK n \in traits : ~Supported(n, prog.fields, traits) /\ traits' = traits \ {n}
      BY <2>1, SameRules DEF Fixpoint!Withdraw
    <3>2. prog' = prog /\ ~(pc' = "done")
      BY <2>1 DEF Fixpoint!Withdraw
    <3>3. ASSUME NEW D \in SUBSET prog.declared, Consistent(D, prog.fields) PROVE D \subseteq traits'
      <4>1. D \subseteq traits
        BY <3>3 DEF KeepsInv
      <4>2. n \notin D
        BY <3>1, <3>3, <4>1, SupportedMonotone DEF Consistent
      <4> QED
        BY <3>1, <4>1, <4>2
    <3> QED
      BY <3>2, <3>3 DEF KeepsInv
  <2>2. CASE Fixpoint!Finish
    BY <2>2, SameConsistent DEF Fixpoint!Finish, KeepsInv
  <2>3. CASE UNCHANGED Fixpoint!vars
    <3>1. prog' = prog /\ traits' = traits /\ (pc' = "done" <=> pc = "done")
      BY <2>3 DEF Fixpoint!vars
    <3> QED
      BY <3>1 DEF KeepsInv
  <2> QED
    BY <2>1, <2>2, <2>3 DEF Fixpoint!Next
<1>3. FInv => GreatestAtEnd
  BY DEF GreatestAtEnd
<1> QED
  BY <1>1, <1>2, <1>3, PTL DEF ComputesFixpoint, Fixpoint!Spec

\* The pass ends with the greatest consistent set of declared derives: a
\* program is accepted exactly when all its declared derives are consistent,
\* and no derive is reported that could have stood.
THEOREM GreatestDerives == Spec => []GreatestAtEnd
BY ImplementsFixpoint, FixpointIsGreatest, PTL
-----------------------------------------------------------------------------
(* The two rules agree. *)

\* What the chain of ty says from its i-th constructor on: one that decides
\* says yes, or none decides and the leaf has the trait.
HoldsFrom(i, ty, tr, D) ==
    \/ \E k \in i .. Len(ty.chain) :
          /\ Verdict(ty.chain[k], tr) = "yes"
          /\ \A j \in i .. k - 1 : Verdict(ty.chain[j], tr) = "inner"
    \/ /\ \A j \in i .. Len(ty.chain) : Verdict(ty.chain[j], tr) = "inner"
       /\ ty.leaf = Scalar \/ <<ty.leaf, tr>> \in D

LEMMA HoldsFromLeaf ==
    ASSUME NEW ty \in Ty, NEW tr, NEW D
    PROVE  HoldsFrom(Len(ty.chain) + 1, ty, tr, D)
              <=> (ty.leaf = Scalar \/ <<ty.leaf, tr>> \in D)
<1>1. Len(ty.chain) \in Nat
  BY DEF Ty
<1>2. (Len(ty.chain) + 1) .. Len(ty.chain) = {}
  BY <1>1
<1> QED
  BY <1>2 DEF HoldsFrom

LEMMA HoldsFromStep ==
    ASSUME NEW ty \in Ty, NEW tr, NEW D, NEW i \in 1 .. Len(ty.chain)
    PROVE  HoldsFrom(i, ty, tr, D)
              <=> \/ Verdict(ty.chain[i], tr) = "yes"
                  \/ Verdict(ty.chain[i], tr) = "inner" /\ HoldsFrom(i + 1, ty, tr, D)
<1> DEFINE n == Len(ty.chain)
           In(j) == Verdict(ty.chain[j], tr) = "inner"
           Yes(j) == Verdict(ty.chain[j], tr) = "yes"
           Leaf == ty.leaf = Scalar \/ <<ty.leaf, tr>> \in D
<1>1. n \in Nat /\ i \in Int /\ i <= n
  BY DEF Ty
<1>2. \A k : HoldsFrom(k, ty, tr, D)
              <=> \/ \E m \in k .. n : Yes(m) /\ \A j \in k .. m - 1 : In(j)
                  \/ (\A j \in k .. n : In(j)) /\ Leaf
  BY DEF HoldsFrom
<1>3. ~(In(i) /\ Yes(i))
  OBVIOUS
<1> HIDE DEF n, In, Yes, Leaf
<1>4. \A m \in i .. n : m = i \/ m \in i + 1 .. n
  BY <1>1
<1>5. \A m \in i + 1 .. n : i \in i .. m - 1 /\ m \in i .. n /\ (i + 1) .. m - 1 \subseteq i .. m - 1
                               /\ \A j \in i .. m - 1 : j = i \/ j \in (i + 1) .. m - 1
  BY <1>1
<1>6. i \in i .. n /\ i .. i - 1 = {} /\ (i + 1) .. n \subseteq i .. n
  BY <1>1
<1>7. (\E m \in i .. n : Yes(m) /\ \A j \in i .. m - 1 : In(j))
        <=> Yes(i) \/ (In(i) /\ \E m \in (i + 1) .. n : Yes(m) /\ \A j \in (i + 1) .. m - 1 : In(j))
  <2>1. ASSUME NEW m \in i .. n, Yes(m), \A j \in i .. m - 1 : In(j)
        PROVE  Yes(i) \/ (In(i) /\ \E q \in (i + 1) .. n : Yes(q) /\ \A j \in (i + 1) .. q - 1 : In(j))
    BY <2>1, <1>4, <1>5
  <2>2. ASSUME Yes(i) PROVE \E m \in i .. n : Yes(m) /\ \A j \in i .. m - 1 : In(j)
    BY <2>2, <1>6
  <2>3. ASSUME In(i), NEW m \in (i + 1) .. n, Yes(m), \A j \in (i + 1) .. m - 1 : In(j)
        PROVE  \E q \in i .. n : Yes(q) /\ \A j \in i .. q - 1 : In(j)
    BY <2>3, <1>5
  <2> QED
    BY <2>1, <2>2, <2>3
<1>8. (\A j \in i .. n : In(j)) <=> In(i) /\ \A j \in (i + 1) .. n : In(j)
  BY <1>4, <1>6
<1>9. (Yes(i) <=> Verdict(ty.chain[i], tr) = "yes") /\ (In(i) <=> Verdict(ty.chain[i], tr) = "inner")
  BY DEF Yes, In
<1> QED
  BY <1>2, <1>7, <1>8, <1>9

\* implements_trait computes this, whatever the depth of the type.
LEMMA ImplementsFromHead ==
    ASSUME NEW ty \in Ty, NEW tr \in Trait, NEW D
    PROVE  implements_trait(ty, tr, D) <=> HoldsFrom(1, ty, tr, D)
<1> DEFINE n == Len(ty.chain)
           Body(f, i) == IF i = n + 1
                         THEN ty.leaf = Scalar \/ <<ty.leaf, tr>> \in D
                         ELSE CASE ty.chain[i] \in {"Ref", "RefMut"} ->
                                     IF tr \in {"Copy", "Clone"} THEN ty.chain[i] = "Ref"
                                                                 ELSE f[i + 1]
                                [] ty.chain[i] = "Array"        -> f[i + 1]
                                [] ty.chain[i] \in {"Box", "Vec"} -> tr # "Copy" /\ f[i + 1]
           H(i) == HoldsFrom(i, ty, tr, D)
           g == [i \in 1 .. n + 1 |-> H(i)]
<1>1. n \in Nat /\ \A i \in 1 .. n : ty.chain[i] \in Constructor
  BY DEF Ty
<1>2. ASSUME NEW f, NEW i \in 1 .. n + 1, i # n + 1 => (f[i + 1] <=> H(i + 1))
      PROVE  Body(f, i) <=> H(i)
  <2>1. CASE i = n + 1
    BY <2>1, HoldsFromLeaf
  <2>2. CASE i # n + 1
    <3>1. i \in 1 .. n /\ (f[i + 1] <=> H(i + 1))
      BY <1>1, <1>2, <2>2
    <3>2. H(i) <=> \/ Verdict(ty.chain[i], tr) = "yes"
                   \/ Verdict(ty.chain[i], tr) = "inner" /\ H(i + 1)
      BY <3>1, HoldsFromStep
    <3> HIDE DEF H
    <3>3. ty.chain[i] \in Constructor
      BY <1>1, <3>1
    <3> QED
      BY <2>2, <3>1, <3>2, <3>3 DEF Verdict, Constructor
  <2> QED
    BY <2>1, <2>2
<1>3. g = [i \in 1 .. n + 1 |-> Body(g, i)]
  <2>1. ASSUME NEW i \in 1 .. n + 1 PROVE Body(g, i) = H(i)
    <3>1. \A j : H(j) \in BOOLEAN
      BY DEF HoldsFrom
    <3> HIDE DEF H
    <3>2. i # n + 1 => g[i + 1] = H(i + 1)
      BY <1>1
    <3>3. i # n + 1 => g[i + 1] \in BOOLEAN
      BY <3>1, <3>2
    <3>4. Body(g, i) \in BOOLEAN
      <4>1. i # n + 1 => ty.chain[i] \in Constructor
        BY <1>1
      <4> HIDE DEF g
      <4> QED
        BY <3>3, <4>1 DEF Constructor
    <3>5. Body(g, i) <=> H(i)
      BY <1>2, <3>2
    <3> HIDE DEF Body, g
    <3> QED
      BY <3>1, <3>4, <3>5
  <2> HIDE DEF Body, H
  <2> QED
    BY <2>1
<1>4. PICK f : f = [i \in 1 .. n + 1 |-> Body(f, i)] /\ implements_trait(ty, tr, D) = f[1]
  BY <1>3 DEF implements_trait
<1> DEFINE S == {i \in 1 .. n + 1 : f[i] <=> H(i)}
<1>0. \A i \in 1 .. n + 1 : f[i] = Body(f, i)
  <2> HIDE DEF Body
  <2> QED
    BY <1>4
<1>5. n + 1 \in S
  <2>1. f[n + 1] = Body(f, n + 1) /\ n + 1 \in 1 .. n + 1
    BY <1>1, <1>0
  <2> HIDE DEF Body, H
  <2> QED
    BY <1>1, <1>2, <2>1
<1>6. \A i \in 1 .. n : i + 1 \in S => i \in S
  <2> SUFFICES ASSUME NEW i \in 1 .. n, f[i + 1] <=> H(i + 1) PROVE f[i] <=> H(i)
    BY <1>1
  <2>1. i \in 1 .. n + 1
    BY <1>1
  <2> HIDE DEF Body, H
  <2> QED
    BY <1>0, <1>2, <2>1
<1> HIDE DEF S, Body, H
<1>7. 1 .. n + 1 \subseteq S
  <2>1. n + 1 \in Nat /\ n + 1 >= 1 /\ (n + 1) - 1 = n
    BY <1>1
  <2> QED
    BY <1>5, <1>6, <2>1, DownwardInduction
<1>8. f[1] <=> H(1)
  BY <1>1, <1>7 DEF S
<1> QED
  BY <1>4, <1>8 DEF H

\* The loop of field_requirement finds the same answer from the declared
\* derives: the two pieces of code that decide whether a type has a trait agree
\* on every type, for any set of derives.
THEOREM RulesAgree ==
    ASSUME NEW ty \in Ty, NEW tr \in Trait, NEW D
    PROVE  implements_trait(ty, tr, D) <=> Met(field_requirement(ty, tr), D)
<1> DEFINE n == Len(ty.chain)
           In(j) == Verdict(ty.chain[j], tr) = "inner"
           Yes(j) == Verdict(ty.chain[j], tr) = "yes"
           Deciding(i) == ~In(i) /\ \A j \in 1 .. i - 1 : In(j)
<1>1. n \in Nat /\ DOMAIN ty.chain = 1 .. n
  BY DEF Ty
<1>2. ASSUME NEW i \in 1 .. n, NEW k \in 1 .. n, Deciding(i), Deciding(k) PROVE i = k
  <2> HIDE DEF In
  <2>1. ~(i < k) /\ ~(k < i)
    BY <1>2, <1>1
  <2> QED
    BY <2>1
<1>3. (\A j \in 1 .. n : In(j)) <=> ~ \E i \in 1 .. n : Deciding(i)
  <2>1. ASSUME NEW i \in 1 .. n, ~In(i) PROVE \E k \in 1 .. n : Deciding(k)
    <3> DEFINE T == {j \in 1 .. n : ~In(j)}
    <3> HIDE DEF In
    <3>0. T \subseteq Nat /\ T # {}
      BY <2>1
    <3>1. PICK k \in T : \A j \in T : k <= j
      <4> HIDE DEF T
      <4> QED
        BY <3>0, Smallest
    <3>2. \A j \in 1 .. k - 1 : j \notin T /\ j \in 1 .. n
      BY <3>1, <1>1
    <3> QED
      BY <3>1, <3>2
  <2> QED
    BY <2>1
<1>4. \A i : Yes(i) => ~In(i)
  OBVIOUS
<1>5. HoldsFrom(1, ty, tr, D) <=> \/ \E k \in 1 .. n : Yes(k) /\ Deciding(k)
                                  \/ /\ ~ \E i \in 1 .. n : Deciding(i)
                                     /\ ty.leaf = Scalar \/ <<ty.leaf, tr>> \in D
  BY <1>3, <1>4 DEF HoldsFrom
<1>6. Met(field_requirement(ty, tr), D) <=> \/ \E k \in 1 .. n : Yes(k) /\ Deciding(k)
                                  \/ /\ ~ \E i \in 1 .. n : Deciding(i)
                                     /\ ty.leaf = Scalar \/ <<ty.leaf, tr>> \in D
  <2>1. \A i : Deciding(i) <=> /\ Verdict(ty.chain[i], tr) # "inner"
                               /\ \A j \in 1 .. i - 1 : Verdict(ty.chain[j], tr) = "inner"
    OBVIOUS
  <2>2. \A i : Yes(i) <=> Verdict(ty.chain[i], tr) = "yes"
    OBVIOUS
  <2> HIDE DEF Deciding, Yes
  <2>3. CASE \E i \in 1 .. n : Deciding(i)
    BY <1>1, <2>1, <2>2, <2>3 DEF Met, field_requirement, Satisfied, Unsatisfied
  <2>4. CASE ~ \E i \in 1 .. n : Deciding(i)
    BY <1>1, <2>1, <2>2, <2>4 DEF Met, field_requirement, Satisfied, Dependency
  <2> QED
    BY <2>3, <2>4
<1> QED
  BY <1>5, <1>6, ImplementsFromHead

\* A program without reports keeps its derives, each with every field and
\* prerequisite it needs.
THEOREM TrustIsJustified == Spec => []TrustedDerivesHold
<1>1. IInv => TrustedDerivesHold
  <2> SUFFICES ASSUME IInv, pc = "done", diagnostics = << >>, NEW n \in prog.declared
               PROVE  /\ \A ty \in ToSet(prog.fields[n[1]]) : implements_trait(ty, n[2], traits)
                      /\ HasPrerequisite(n[2]) => <<n[1], Prerequisite(n[2])>> \in traits
    BY DEF TrustedDerivesHold
  <2>1. prog \in Program /\ n \in TraitCheckNode
    BY ProgramsAssumption DEF IInv, TypeOK, Program
  <2>2. n \in traits
    BY EmptyElems DEF IInv, ReportedInv
  <2>3. queue_unset = << >>
    BY DEF IInv, PhaseInv
  <2>4. Supported(n, prog.fields, traits)
    BY <2>2, <2>3, DoneConsistent DEF Consistent
  <2>5. ASSUME NEW ty \in ToSet(prog.fields[n[1]])
        PROVE  implements_trait(ty, n[2], traits)
    <3>0. n[1] \in Struct /\ n[2] \in Trait /\ prog.fields[n[1]] \in Seq(Ty)
      BY <2>1 DEF Program, TraitCheckNode
    <3>1. PICK r \in 1 .. Len(prog.fields[n[1]]) : ty = prog.fields[n[1]][r]
      BY <3>0 DEF ToSet
    <3>2. r \in FirstReason(n[2]) .. Len(prog.fields[n[1]]) /\ r # 0
      BY <3>0 DEF FirstReason
    <3>3. Met(field_requirement(ty, n[2]), traits)
      BY <2>4, <3>1, <3>2 DEF Supported, RequirementOf
    <3>4. ty \in Ty
      BY <3>0, <3>1
    <3> QED
      BY <3>0, <3>3, <3>4, RulesAgree
  <2>6. ASSUME HasPrerequisite(n[2]) PROVE <<n[1], Prerequisite(n[2])>> \in traits
    <3>1. 0 \in FirstReason(n[2]) .. Len(prog.fields[n[1]])
      BY <2>1, <2>6, ReasonsType DEF FirstReason
    <3>2. Met(RequirementOf(n, 0, prog.fields[n[1]]), traits)
      BY <2>4, <3>1 DEF Supported
    <3> QED
      BY <3>2 DEF RequirementOf, Met, Dependency
  <2> QED
    BY <2>5, <2>6
<1> QED
  BY InductiveInvariant, <1>1, PTL
=============================================================================
