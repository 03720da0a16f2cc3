---------------------------- MODULE NameResolution ----------------------------
(* The collection of definitions (semantic/def_collect.rs) and the resolution  *)
(* of names (semantic/name_res.rs): two passes over the items for definitions, *)
(* one for uses, with a stack of scopes, each pass only if the one before it   *)
(* has reported nothing.  The recursion of the visitor is a stack of tasks.    *)
EXTENDS Integers, FiniteSets, SequencesExt

CONSTANT Crates        \* the crates considered

(* A crate is a function: a node of the syntax tree has its path as id, and is *)
(* [op, name, size], size being how many nodes are directly below it.          *)
(*   crate   the root, <<>>; below: the items                                  *)
(*   fn      also params, their names in order, and receiver: has it a self;   *)
(*           below: the types of parameters and result, and the body           *)
(*   struct  also params, the names of the fields; below: their types          *)
(*   const   below: the type and the value                                     *)
(*   impl    name: its target's; below: the target, functions and constants    *)
(*   block, let, and expr for every other expression                           *)
(*   use     a path of one segment in an expression; len: in a constant value  *)
(*   member  of::name in an expression; constof: in a constant value           *)
(*   ty      a type; its name is NoName unless it is a path                    *)
NoName == "-"
ValueOps == {"fn", "const"}
ItemOps == ValueOps \cup {"struct", "impl"}
PathOps == {"use", "len", "member", "constof"}
OtherOps == {"block", "let", "expr", "ty"}
Keywords == {NoName, "self", "Self"}
BuiltinTypes == {"Vec"}

\* Nodes are numbered from 1 in the order they are visited.
Tree(c) ==
  /\ <<>> \in DOMAIN c /\ c[<<>>].op = "crate"
  /\ \A p \in DOMAIN c : /\ p \in Seq(Nat \ {0}) /\ c[p].size \in Nat
                         /\ \A i \in 1..c[p].size : Append(p, i) \in DOMAIN c
                         /\ p # <<>> => Front(p) \in DOMAIN c /\ Last(p) \in 1..c[Front(p)].size

\* What the parser makes: where items stand, what is a leaf, and no keyword is a name.
Grammar(c) ==
  \A p \in DOMAIN c \ {<<>>} :
    LET n == c[p]
        above == c[Front(p)] IN
    /\ n.op \in ItemOps \cup PathOps \cup OtherOps
    /\ n.op \in ItemOps <=> above.op = "crate" \/ (above.op = "impl" /\ Last(p) # 1)
    /\ above.op = "impl" /\ Last(p) # 1 => n.op \in ValueOps
    /\ above.op = "impl" /\ Last(p) = 1 => n.op = "ty" /\ n.name = above.name
    /\ n.op \in {"struct"} \cup ValueOps => n.name \notin Keywords
    /\ n.op = "impl" => n.size # 0
    /\ n.op \in {"fn", "struct"} => n.params \in Seq(STRING \ Keywords)
    /\ n.op = "fn" => n.receiver \in BOOLEAN
    /\ n.op = "let" => above.op = "block" /\ n.name \notin Keywords
    /\ n.op \in PathOps => n.size = 0 /\ n.name # NoName

ASSUME CratesAssumption == \A c \in Crates : Tree(c) /\ Grammar(c)

\* A definition: its kind and the node that makes it, <<>> for what is built in.
Def(k, at) == [k |-> k, at |-> at]
NoDef == Def("none", <<>>)
BuiltinValues == {"get_i32"}
BuiltinMembers == {"new"}

VARIABLES crate,
          phase,        \* "collect", "impls", "resolve", then "done" or "rejected"
          todo,         \* the tasks of the pass: the rest of the recursion
          types,        \* the namespace of types
          values,       \* the namespace of functions and constants
          members,      \* associated_values of each type
          scopes,       \* the local names, innermost scope last
          self_ty,      \* current_self_ty
          in_impl,      \* current_impl_target is Some
          node_def,     \* what is recorded of a node
          diagnostics,  \* the nodes reported
          panicked

vars == <<crate, phase, todo, types, values, members, scopes, self_ty, in_impl, node_def, diagnostics, panicked>>
tables == <<types, values, members>>
context == <<scopes, self_ty, in_impl>>

Here(p) == crate[p]

Task(do, p) == [do |-> do, at |-> p]
Children(p) == [i \in 1..Here(p).size |-> Task("visit", Append(p, i))]

\* name |-> d, unless the namespace has the name already.
Defined(names, name, d) == [x \in DOMAIN names \cup {name} |-> IF x \in DOMAIN names THEN names[x] ELSE d]
Bound(names, name, d) == [x \in DOMAIN names \cup {name} |-> IF x = name THEN d ELSE names[x]]

\* A name that stands in a list before.
Repeated(s) == {k \in DOMAIN s : \E j \in 1..(k - 1) : s[j] = s[k]}

ParamId(p, k) == p \o <<0, k>>    \* the receiver is parameter 0

Init ==
  /\ crate \in Crates
  /\ phase = "collect"
  /\ todo = [i \in 1..crate[<<>>].size |-> Task("visit", <<i>>)]
  /\ types = [x \in BuiltinTypes |-> Def("type", <<>>)]
  /\ values = [x \in BuiltinValues |-> Def("value", <<>>)]
  /\ members = [t \in {<<>>} |-> [x \in BuiltinMembers |-> Def("member", <<>>)]]
  /\ scopes = <<>> /\ self_ty = NoDef /\ in_impl = FALSE
  /\ node_def = [p \in {} |-> NoDef]
  /\ diagnostics = {}
  /\ panicked = FALSE

\* The next task is for this handler.
Handles(ph, do, ops) ==
  /\ phase = ph /\ ~panicked
  /\ todo # <<>> /\ Head(todo).do = do
  /\ Here(Head(todo).at).op \in ops
P == Head(todo).at
This == Here(P)
Then(tasks) == todo' = tasks \o Tail(todo)

Report(bad) == diagnostics' = diagnostics \cup bad
\* record_node_def, with its assertion that the node has none; nothing is recorded otherwise.
RecordAll(d) == /\ node_def' = [p \in DOMAIN node_def \cup DOMAIN d |-> IF p \in DOMAIN d THEN d[p] ELSE node_def[p]]
                /\ panicked' = (DOMAIN d \cap DOMAIN node_def # {})
Record(p, d) == RecordAll([q \in {p} |-> d])
unrecorded == <<node_def, panicked>>

(************************ definitions: def_collect.rs ************************)
\* visit_function, visit_const_item
CollectValue ==
  /\ Handles("collect", "visit", ValueOps)
  /\ IF This.name \in DOMAIN values
     THEN Report({P}) /\ UNCHANGED <<values, unrecorded>>
     ELSE /\ values' = Defined(values, This.name, Def("value", P))
          /\ Record(P, Def("value", P))
          /\ UNCHANGED diagnostics
  /\ Then(<<>>)
  /\ UNCHANGED <<crate, phase, types, members, context>>

\* visit_struct; a derive given twice is reported as a field is
CollectStruct ==
  /\ Handles("collect", "visit", {"struct"})
  /\ Report({ParamId(P, k) : k \in Repeated(This.params)} \cup (IF This.name \in DOMAIN types THEN {P} ELSE {}))
  /\ IF This.name \in DOMAIN types
     THEN UNCHANGED <<types, members, unrecorded>>
     ELSE /\ types' = Defined(types, This.name, Def("type", P))
          /\ members' = Bound(members, P, [x \in {} |-> NoDef])
          /\ Record(P, Def("type", P))
  /\ Then(<<>>)
  /\ UNCHANGED <<crate, phase, values, context>>

\* visit_impl does nothing
SkipImpl ==
  /\ Handles("collect", "visit", {"impl"})
  /\ Then(<<>>)
  /\ UNCHANGED <<crate, phase, tables, context, node_def, diagnostics, panicked>>

\* mutant: the next pass is entered whatever was reported
Gate_Open(ph) == phase' = ph
Gate(ph) == phase' = IF diagnostics = {} THEN ph ELSE "rejected"

EndCollect ==
  /\ phase = "collect" /\ todo = <<>>
  /\ Gate("impls")
  /\ todo' = Children(<<>>)
  /\ UNCHANGED <<crate, tables, context, node_def, diagnostics, panicked>>

\* Items other than impls are passed over.
SkipOther ==
  /\ Handles("impls", "visit", {"fn", "const", "struct"}) /\ Len(P) = 1
  /\ Then(<<>>)
  /\ UNCHANGED <<crate, phase, tables, context, node_def, diagnostics, panicked>>

\* The items of an impl, without its target.
Associates(p) == Tail(Children(p))

\* collect_impls, resolve_impl_target: a struct of the user, without arguments.
CollectImpl ==
  /\ Handles("impls", "visit", {"impl"})
  /\ IF This.name \in DOMAIN types \ BuiltinTypes /\ Here(Append(P, 1)).size = 0
     THEN /\ RecordAll([q \in {P, Append(P, 1)} |-> types[This.name]])
          /\ Then(Associates(P))
          /\ UNCHANGED diagnostics
     ELSE Report({P}) /\ Then(<<>>) /\ UNCHANGED unrecorded
  /\ UNCHANGED <<crate, phase, tables, context>>

\* mutant: an associated item is defined, and its node forgotten
RecordMember_Forget(p) == UNCHANGED unrecorded
RecordMember(p) == Record(p, Def("member", p))

CollectAssociated ==
  /\ Handles("impls", "visit", ValueOps) /\ Len(P) = 2
  /\ LET target == node_def[Front(P)].at IN
     IF This.name \in DOMAIN members[target]
     THEN Report({P}) /\ UNCHANGED <<members, unrecorded>>
     ELSE /\ members' = [members EXCEPT ![target] = Defined(@, This.name, Def("member", P))]
          /\ RecordMember(P)
          /\ UNCHANGED diagnostics
  /\ Then(<<>>)
  /\ UNCHANGED <<crate, phase, types, values, context>>

EndImpls ==
  /\ phase = "impls" /\ todo = <<>>
  /\ Gate("resolve")
  /\ todo' = Children(<<>>)
  /\ UNCHANGED <<crate, tables, context, node_def, diagnostics, panicked>>

(****************************** uses: name_res.rs ****************************)
\* mutant: the target of an impl is resolved again
Inside_Target(p) == Children(p)
\* "not visiting target to prevent resolving target again"
Inside(p) == IF Here(p).op = "impl" THEN Associates(p) ELSE Children(p)

\* visit_struct, visit_impl: Self is known inside.
EnterSelf ==
  /\ Handles("resolve", "visit", {"struct", "impl"})
  /\ IF P \notin DOMAIN node_def
     THEN panicked' = TRUE /\ UNCHANGED <<todo, self_ty, in_impl>>
     ELSE /\ self_ty' = node_def[P]
          /\ in_impl' = (This.op = "impl")
          /\ Then(Append(Inside(P), Task("leave", P)))
          /\ UNCHANGED panicked
  /\ UNCHANGED <<crate, phase, tables, scopes, node_def, diagnostics>>

\* mutant: Self stays what it was
SelfAfter_Kept == self_ty
SelfAfter == NoDef

LeaveSelf ==
  /\ Handles("resolve", "leave", {"struct", "impl"})
  /\ self_ty' = SelfAfter /\ in_impl' = FALSE
  /\ Then(<<>>)
  /\ UNCHANGED <<crate, phase, tables, scopes, node_def, diagnostics, panicked>>

\* visit_function: the scope of the receiver and the parameters, around the body's.
VisitFunction ==
  /\ Handles("resolve", "visit", {"fn"})
  /\ LET twice == Repeated(This.params)
         bound == (DOMAIN This.params \ twice) \cup (IF This.receiver /\ in_impl THEN {0} ELSE {})
         nameOf(k) == IF k = 0 THEN "self" ELSE This.params[k] IN
     /\ scopes' = Append(scopes, [x \in {nameOf(k) : k \in bound} |->
                                    Def("local", ParamId(P, CHOOSE k \in bound : nameOf(k) = x))])
     /\ RecordAll([q \in {ParamId(P, k) : k \in bound} |-> Def("local", q)])
     /\ Report({ParamId(P, k) : k \in twice \cup (IF This.receiver /\ ~in_impl THEN {0} ELSE {})})
  /\ Then(Append(Children(P), Task("close", P)))
  /\ UNCHANGED <<crate, phase, tables, self_ty, in_impl>>

VisitBlock ==
  /\ Handles("resolve", "visit", {"block"})
  /\ scopes' = Append(scopes, [x \in {} |-> NoDef])
  /\ Then(Append(Children(P), Task("close", P)))
  /\ UNCHANGED <<crate, phase, tables, self_ty, in_impl, node_def, diagnostics, panicked>>

CloseScope ==
  /\ Handles("resolve", "close", {"fn", "block"})
  /\ scopes' = Front(scopes)
  /\ Then(<<>>)
  /\ UNCHANGED <<crate, phase, tables, self_ty, in_impl, node_def, diagnostics, panicked>>

\* mutant: the name is bound before its initialiser is looked at
LetOrder_Early(p) == <<Task("bind", p)>> \o Children(p)
\* visit_let_stmt
LetOrder(p) == Append(Children(p), Task("bind", p))

VisitLet ==
  /\ Handles("resolve", "visit", {"let"})
  /\ Then(LetOrder(P))
  /\ UNCHANGED <<crate, phase, tables, context, node_def, diagnostics, panicked>>

BindLet ==
  /\ Handles("resolve", "bind", {"let"})
  /\ scopes' = Append(Front(scopes), Bound(Last(scopes), This.name, Def("local", P)))
  /\ Record(P, Def("local", P))
  /\ Then(<<>>)
  /\ UNCHANGED <<crate, phase, tables, self_ty, in_impl, diagnostics>>

\* walk_expr, walk_const_item: nothing but the children
Walk ==
  /\ Handles("resolve", "visit", {"expr", "const"})
  /\ Then(Children(P))
  /\ UNCHANGED <<crate, phase, tables, context, node_def, diagnostics, panicked>>

\* resolve_unqualified_value
Unqualified(name) ==
  LET having == {i \in DOMAIN scopes : name \in DOMAIN scopes[i]} IN
  IF having # {} THEN scopes[CHOOSE i \in having : \A j \in having : j <= i][name]
  ELSE IF name \in DOMAIN values THEN values[name] ELSE NoDef

\* resolve_type_segment
TypeSegment(name) == IF name = "Self" THEN self_ty
                     ELSE IF name \in DOMAIN types THEN types[name] ELSE NoDef

\* resolve_associated_value
Associated(of, name) ==
  LET t == TypeSegment(of) IN
  IF t # NoDef /\ name \in DOMAIN members[t.at] THEN members[t.at][name] ELSE NoDef

\* T::clone has no definition: every type may have it.
IsClone(of, name) == TypeSegment(of) # NoDef /\ name = "clone"

\* as_value_def, is_const
IsConst(d) == d.k \in {"value", "member"} /\ d.at # <<>> /\ Here(d.at).op = "const"

Found(d, ok) == IF d # NoDef /\ ok THEN Record(P, d) /\ UNCHANGED diagnostics
                                   ELSE Report({P}) /\ UNCHANGED unrecorded

\* visit_expr on a path; the node of a qualified one stands for its first segment too
VisitPath ==
  /\ Handles("resolve", "visit", {"use", "member"})
  /\ IF This.op = "use" THEN Found(Unqualified(This.name), TRUE)
     ELSE IF Associated(This.of, This.name) = NoDef /\ IsClone(This.of, This.name)
     THEN UNCHANGED <<unrecorded, diagnostics>>
     ELSE Found(Associated(This.of, This.name), TRUE)
  /\ Then(Children(P))
  /\ UNCHANGED <<crate, phase, tables, context>>

\* visit_const_value on a path
VisitConstValue ==
  /\ Handles("resolve", "visit", {"len", "constof"})
  /\ LET d == IF This.op = "len" THEN Unqualified(This.name) ELSE Associated(This.of, This.name) IN
     /\ Found(d, IsConst(d))
     /\ Then(IF IsConst(d) THEN Children(P) ELSE <<>>)
  /\ UNCHANGED <<crate, phase, tables, context>>

\* visit_ty, and the path of a struct expression
VisitTy ==
  /\ Handles("resolve", "visit", {"ty"})
  /\ IF This.name = NoName THEN UNCHANGED <<unrecorded, diagnostics>> ELSE Found(TypeSegment(This.name), TRUE)
  /\ Then(Children(P))
  /\ UNCHANGED <<crate, phase, tables, context>>

EndResolve ==
  /\ phase = "resolve" /\ todo = <<>>
  /\ Gate("done")
  /\ UNCHANGED <<crate, todo, tables, context, node_def, diagnostics, panicked>>

Next == \/ CollectValue \/ CollectStruct \/ SkipImpl \/ EndCollect
        \/ SkipOther \/ CollectImpl \/ CollectAssociated \/ EndImpls
        \/ EnterSelf \/ LeaveSelf \/ VisitFunction \/ VisitBlock \/ CloseScope \/ VisitLet \/ BindLet
        \/ Walk \/ VisitPath \/ VisitConstValue \/ VisitTy \/ EndResolve

Spec == Init /\ [][Next]_vars

(******************************** properties *********************************)
(* What a name means, read off the syntax tree.                                *)
Nodes == DOMAIN crate
UsesOf(ops) == {p \in Nodes : Here(p).op \in ops /\ Here(p).name # NoName}
Uses == UsesOf({"use", "len", "member", "constof", "ty"})

\* The variable a let brings into the rest of its block, the nearest one if several.
LetsFor(p, name) ==
  {q \in Nodes : /\ Here(q).op = "let" /\ Here(q).name = name
                 /\ IsPrefix(Front(q), p) /\ Len(p) >= Len(q) /\ p[Len(q)] > Last(q)}
Nearest(lets) == CHOOSE q \in lets : \A r \in lets : Len(r) < Len(q) \/ (Len(r) = Len(q) /\ Last(r) <= Last(q))

Function(p) == {f \in Nodes : Here(f).op = "fn" /\ IsPrefix(f, p)}
ParametersFor(p, name) ==
  {ParamId(f, 0) : f \in {f \in Function(p) : name = "self" /\ Here(f).receiver /\ Len(f) = 2}}
  \cup UNION {{ParamId(f, k) : k \in {k \in DOMAIN Here(f).params \ Repeated(Here(f).params) : Here(f).params[k] = name}} :
              f \in Function(p)}

Items(ops, name) == {p \in Nodes : Len(p) = 1 /\ Here(p).op \in ops /\ Here(p).name = name}
The(S) == CHOOSE x \in S : TRUE

Variable(p, name) ==
  IF LetsFor(p, name) # {} THEN Def("local", Nearest(LetsFor(p, name)))
  ELSE IF ParametersFor(p, name) # {} THEN Def("local", The(ParametersFor(p, name)))
  ELSE IF Items(ValueOps, name) # {} THEN Def("value", The(Items(ValueOps, name)))
  ELSE IF name \in BuiltinValues THEN Def("value", <<>>) ELSE NoDef

\* Self is the struct around, or the one the impl around is for.
TypeAt(p, name) ==
  LET around == Here(<<p[1]>>)
      meant == IF name # "Self" THEN name ELSE IF around.op \in {"struct", "impl"} THEN around.name ELSE NoName IN
  IF Items({"struct"}, meant) # {} THEN Def("type", The(Items({"struct"}, meant)))
  ELSE IF meant \in BuiltinTypes THEN Def("type", <<>>) ELSE NoDef

HasTarget(p) == Items({"struct"}, Here(p).name) # {} /\ Here(Append(p, 1)).size = 0
Members(target, name) ==
  {p \in Nodes : /\ Len(p) = 2 /\ Here(p).op \in ValueOps /\ Here(p).name = name
                 /\ Here(Front(p)).op = "impl" /\ Here(Front(p)).name = target /\ HasTarget(Front(p))}
Associate(p, of, name) ==
  LET t == TypeAt(p, of) IN
  IF t = NoDef THEN NoDef
  ELSE IF t.at = <<>> THEN (IF name \in BuiltinMembers THEN Def("member", <<>>) ELSE NoDef)
  ELSE LET found == Members(Here(t.at).name, name) IN
       IF found = {} THEN NoDef ELSE Def("member", The(found))

Meaning(p) ==
  LET n == Here(p)
      d == IF n.op = "ty" THEN TypeAt(p, n.name)
           ELSE IF n.op \in {"use", "len"} THEN Variable(p, n.name) ELSE Associate(p, n.of, n.name) IN
  IF n.op \in {"len", "constof"} /\ (d.at = <<>> \/ d.k = "local" \/ Here(d.at).op # "const") THEN NoDef ELSE d
MayClone(p) == Here(p).op = "member" /\ Here(p).name = "clone" /\ TypeAt(p, Here(p).of) # NoDef

(* What is wrong with a crate.                                                 *)
Second(ops, builtin) ==
  {p \in Nodes : /\ Len(p) = 1 /\ Here(p).op \in ops
                 /\ Here(p).name \in builtin \/ \E q \in Items(ops, Here(p).name) : q[1] < p[1]}
Repeats(op) == UNION {{ParamId(p, k) : k \in Repeated(Here(p).params)} : p \in UsesOf({op})}
ItemFaults == Second(ValueOps, BuiltinValues) \cup Second({"struct"}, BuiltinTypes) \cup Repeats("struct")

NoTarget == {p \in Nodes : Len(p) = 1 /\ Here(p).op = "impl" /\ ~HasTarget(p)}
SecondAssociates ==
  {p \in UsesOf(ValueOps) : /\ Len(p) = 2 /\ Front(p) \notin NoTarget
                            /\ \E q \in Members(Here(Front(p)).name, Here(p).name) :
                                 q[1] < p[1] \/ (q[1] = p[1] /\ q[2] < p[2])}
ImplFaults == NoTarget \cup SecondAssociates

FreeReceivers == {ParamId(p, 0) : p \in {p \in UsesOf({"fn"}) : Len(p) = 1 /\ Here(p).receiver}}
UseFaults == {p \in Uses : Meaning(p) = NoDef /\ ~MayClone(p)} \cup FreeReceivers \cup Repeats("fn")

Ended == phase \in {"done", "rejected"}

\* The definitions a later pass takes for granted are there when it comes to them
\* ("impl must be bound in def_collect"), and no pass binds a node that is bound.
NeverPanics == ~panicked

\* Every name is resolved to the definition lexical scoping gives it: the nearest let
\* before it, never one of a block that is closed or one it initialises itself, then
\* the parameters, then the items wherever they stand.
ResolvesLexically == Ended => \A p \in Uses \cap DOMAIN node_def : node_def[p] = Meaning(p)

\* A crate is rejected for its faults, all of them and nothing else, as far as the
\* first pass that found any.
ReportsExactly ==
  Ended => diagnostics = IF ItemFaults # {} THEN ItemFaults
                         ELSE IF ImplFaults # {} THEN ImplFaults ELSE UseFaults

\* In an accepted crate every definition and every use is bound, but T::clone: the
\* passes that follow expect it.
AcceptedAreBound ==
  phase = "done" => /\ \A p \in Uses : p \in DOMAIN node_def \/ MayClone(p)
                    /\ \A p \in UsesOf({"fn", "const", "struct", "impl", "let"}) : p \in DOMAIN node_def
=============================================================================
