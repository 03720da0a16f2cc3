-------------------------------- MODULE Places --------------------------------
(***************************************************************************)
(* Who may change what.  The checker knows a place by its type and two bits, *)
(* writable and mutable_access_blocked, which it carries along a path and    *)
(* consults at every borrow, coercion, assignment and method call.  Here each *)
(* statement of a function is checked that way, lowered along the adjustments *)
(* the checker recorded, and executed on a memory that knows who owns a cell. *)
(*                                                                           *)
(* A type is the sequence of its constructors around i32; a struct has one    *)
(* field, an array and a vector one element, so arrays and structs share the  *)
(* cell of what is in them.                                                   *)
(***************************************************************************)
EXTENDS Naturals, Sequences

CONSTANTS Functions,    \* what is tried: parameters [mut, ty] and a number of statements
          MaxDepth      \* constructors of a type

Refs == {"Ref", "RefMut"}
Pointers == Refs \cup {"Box"}
Ctors == Pointers \cup {"Array", "Vec", "Struct"}
Types == UNION {[1..n -> Ctors] : n \in 0..MaxDepth}
Unstated == <<"unstated">>      \* a let without a type

ASSUME PlacesAssumption ==
    /\ MaxDepth \in Nat
    /\ \A f \in Functions : f.stmts \in Nat /\ f.params \in Seq([mut : BOOLEAN, ty : Types])

VARIABLES
    locals,     \* bindings in order: [mut, ty, cell, live]
    mem,        \* cells [tag, to, n]: an integer, an owning pointer or a reference,
                \* where it points, and how often it was changed in place
    lent,       \* cells the caller lends for reading
    left,       \* statements still to come
    verdict     \* the last statement: what the checker says, and the language

vars == <<locals, mem, lent, left, verdict>>

Rest(ty, n) == SubSeq(ty, n + 1, Len(ty))
Count(ty, set) == CHOOSE n \in 0..Len(ty) : /\ \A i \in 1..n : ty[i] \in set
                                            /\ n < Len(ty) => ty[n + 1] \notin set
\* The references and boxes a field access, an index or a method call looks through
Leading(ty) == Count(ty, Pointers)
IsCopy(ty) == LET n == Count(ty, {"Array"}) IN n = Len(ty) \/ ty[n + 1] = "Ref"
-----------------------------------------------------------------------------
\* The checker.  What it knows of an expression: its type and its place, known unless
\* the expression is a mere value; derefs counts the dereferences it has recorded.

Variable(m) == [known |-> TRUE, writable |-> m, blocked |-> FALSE]
NoPlace == [known |-> FALSE, writable |-> TRUE, blocked |-> FALSE]

Followed_Unblocked(place, c) ==     \* mutant: what lay before the reference is forgotten
    IF c = "Box" THEN [place EXCEPT !.known = TRUE]
    ELSE [known |-> TRUE, writable |-> c = "RefMut", blocked |-> c = "Ref"]

\* A box is as mutable as its owner, a reference as itself unless the path is shared
Followed(place, c) ==
    LET shared == place.blocked \/ c = "Ref"
    IN IF c = "Box" THEN [place EXCEPT !.known = TRUE]
       ELSE [known |-> TRUE, writable |-> ~shared, blocked |-> shared]

Through(place, cs) ==
    LET f[n \in 0..Len(cs)] == IF n = 0 THEN place ELSE Followed(f[n - 1], cs[n])
    IN f[Len(cs)]

CheckDeref(e) ==
    [e EXCEPT !.ty = Tail(@), !.place = Followed(@, Head(e.ty)), !.derefs = @ + 1]

CheckIndex_NoBorrow(e) ==       \* mutant: indexing a vector is taken for a projection
    LET n == Leading(e.ty)
    IN [e EXCEPT !.ty = Rest(@, n + 1),
                 !.place = [Through(@, SubSeq(e.ty, 1, n)) EXCEPT !.known = TRUE],
                 !.derefs = @ + n + (IF e.ty[n + 1] = "Vec" THEN 1 ELSE 0)]

\* Indexing a vector borrows it: one that is not writable blocks what is behind it
CheckIndex(e) ==
    LET n == Leading(e.ty)
        base == Through(e.place, SubSeq(e.ty, 1, n))
        blocks == e.ty[n + 1] = "Vec" /\ ~base.writable
    IN [e EXCEPT !.ty = Rest(@, n + 1),
                 !.place = [base EXCEPT !.known = TRUE, !.blocked = @ \/ blocks],
                 !.derefs = @ + n + (IF e.ty[n + 1] = "Vec" THEN 1 ELSE 0)]

CheckField(e) ==
    LET n == Leading(e.ty)
    IN [e EXCEPT !.ty = Rest(@, n + 1),
                 !.place = [Through(@, SubSeq(e.ty, 1, n)) EXCEPT !.known = TRUE],
                 !.derefs = @ + n]

\* The field accesses, indices and dereferences an expression admits
Steps(e) ==
    LET n == Leading(e.ty)
    IN (IF n > 0 THEN {CheckDeref(e)} ELSE {})
       \cup (IF n < Len(e.ty) /\ e.ty[n + 1] = "Struct" THEN {CheckField(e)} ELSE {})
       \cup (IF n < Len(e.ty) /\ e.ty[n + 1] \in {"Array", "Vec"} THEN {CheckIndex(e)} ELSE {})

\* A path starts at a binding, or at Box::new(0), root 0
CheckRoot(root) ==
    [root |-> root, derefs |-> 0,
     ty |-> IF root = 0 THEN <<"Box">> ELSE locals[root].ty,
     place |-> IF root = 0 THEN NoPlace ELSE Variable(locals[root].mut)]
Paths ==
    LET f[n \in 0..MaxDepth] ==
            IF n = 0 THEN {CheckRoot(r) : r \in {0} \cup {i \in DOMAIN locals : locals[i].live}}
            ELSE f[n - 1] \cup UNION {Steps(e) : e \in f[n - 1]}
    IN f[MaxDepth]

MayBorrowMut(place) == place.writable /\ ~place.blocked

\* &e and &mut e, and e itself; `of` is the operand
Borrowed(op, e) ==
    IF op = "Plain" THEN [of |-> e, op |-> op, ty |-> e.ty, place |-> e.place]
    ELSE [of |-> e, op |-> op, ty |-> <<op>> \o e.ty, place |-> NoPlace]
CheckBorrow(x) == x.op = "RefMut" => MayBorrowMut(x.of.place)

PlanCoercion_Once(from, to) ==      \* mutant: one dereference whatever the distance
    IF from = to THEN [ok |-> TRUE, derefs |-> 0]
    ELSE [ok |-> ~(Head(to) = "RefMut" /\ Head(from) = "Ref"), derefs |-> 1]

\* plan_coercion where the referents agree after n dereferences
PlanCoercion(from, to) ==
    LET n == Len(from) + 1 - Len(to)
    IN IF from = to THEN [ok |-> TRUE, derefs |-> 0]
       ELSE [ok |-> ~(Head(to) = "RefMut" /\ \E i \in 1..n : from[i] = "Ref"), derefs |-> n]

\* coerce_node: a stored &mut is borrowed again, which its path must allow
Coerces(x, to) ==
    \/ to = Unstated
    \/ /\ PlanCoercion(x.ty, to).ok
       /\ ~(x.ty # <<>> /\ Head(x.ty) \in Refs /\ Head(to) = "RefMut" /\ x.place.blocked)

\* What may be stated of the type of x, other than what must fail
Targets(x) ==
    IF x.ty # <<>> /\ Head(x.ty) \in Refs
    THEN {Unstated, x.ty} \cup {<<t[1]>> \o Rest(x.ty, t[2]) : t \in Refs \X (1..Leading(x.ty))}
    ELSE {Unstated}
Expressions == {Borrowed(x[1], x[2]) : x \in (Refs \cup {"Plain"}) \X Paths}
-----------------------------------------------------------------------------
\* The lowered code, on the memory

Cell(tag, to) == [tag |-> tag, to |-> to, n |-> 0]

\* A binding has a cell; a temporary gets one, and its box another
Stored(e) == IF e.root = 0 THEN mem \o <<Cell("int", 0), Cell("Box", Len(mem) + 1)>> ELSE mem
Start(e) == IF e.root = 0 THEN Len(mem) + 2 ELSE locals[e.root].cell

Deref(m, cell, count) ==
    LET f[n \in 0..count] == IF n = 0 THEN cell ELSE m[f[n - 1]].to IN f[count]
PlaceOf(e) == Deref(Stored(e), Start(e), e.derefs)

\* The value of x, adjusted to the type `to`
ValueOf(x, to) ==
    LET value == IF x.op = "Plain" THEN Stored(x.of)[PlaceOf(x.of)] ELSE Cell(x.op, PlaceOf(x.of))
        count == IF to = Unstated THEN 0 ELSE PlanCoercion(x.ty, to).derefs
    IN IF count = 0 THEN value ELSE Cell(Head(to), Deref(Stored(x.of), value.to, count - 1))
-----------------------------------------------------------------------------
\* What a program must see to, the compiler knowing neither moves nor lifetimes:
\* only a whole binding is moved, while nothing refers to what it owns.

Owned(m, cell) ==
    LET f[n \in 0..MaxDepth] ==
            IF n = 0 THEN {cell}
            ELSE f[n - 1] \cup {m[c].to : c \in {c \in f[n - 1] : m[c].tag \in {"Box", "Vec"}}}
    IN f[MaxDepth]

Reborrows(x, to) == x.ty # <<>> /\ Head(x.ty) = "RefMut" /\ to # Unstated
Moves(x, to) == x.op = "Plain" /\ ~IsCopy(x.ty) /\ ~Reborrows(x, to)
MayMove(x) ==
    x.of.root # 0 =>
        /\ x.of.ty = locals[x.of.root].ty
        /\ \A c \in DOMAIN mem : mem[c].tag \in Refs => mem[c].to \notin Owned(mem, locals[x.of.root].cell)
Moved(x, to) ==
    IF Moves(x, to) /\ x.of.root # 0 THEN [locals EXCEPT ![x.of.root].live = FALSE] ELSE locals
-----------------------------------------------------------------------------
\* What the language says.  A path is a number of constructors of the type of its
\* root, from the outermost inwards.

RootType(e) == CheckRoot(e.root).ty
MutRoot(e) == e.root = 0 \/ locals[e.root].mut
Way(e, more) == SubSeq(RootType(e), 1, Len(RootType(e)) - Len(e.ty) + more)

\* A shared reference, or a vector read through its immutable owner
SharedAt(e, way, i) ==
    \/ way[i] = "Ref"
    \/ way[i] = "Vec" /\ ~MutRoot(e) /\ \A j \in 1..(i - 1) : way[j] \notin Refs
NothingShared(e, way) == \A i \in DOMAIN way : ~SharedAt(e, way, i)
Changeable(e, more) ==
    LET way == Way(e, more)
    IN NothingShared(e, way) /\ (MutRoot(e) \/ \E i \in DOMAIN way : way[i] = "RefMut")

\* x may be used at type `to`: what becomes mutable through it may be changed
Sound(x, to) ==
    LET count == Len(x.ty) + 1 - Len(to)
    IN /\ x.op = "RefMut" => Changeable(x.of, 0)
       /\ (to # <<>> /\ Head(to) = "RefMut") =>
            /\ x.op # "Ref"
            /\ Changeable(x.of, IF x.op = "Plain" THEN count ELSE count - 1)
-----------------------------------------------------------------------------
\* The parameters, each a chain of cells that point to the next one
Held(ty) ==
    LET f[n \in 0..Len(ty)] ==      \* of the last n constructors
            IF n = 0 THEN <<>>
            ELSE LET c == ty[Len(ty) + 1 - n]
                 IN IF c \in {"Array", "Struct"} THEN f[n - 1] ELSE <<c>> \o f[n - 1]
    IN f[Len(ty)]
Chain(first, ty) ==
    LET held == Held(ty)
    IN [n \in 1..(Len(held) + 1) |->
            IF n > Len(held) THEN Cell("int", 0) ELSE Cell(held[n], first + n)]
Memory(params) ==
    LET f[i \in 0..Len(params)] ==
            IF i = 0 THEN <<>> ELSE f[i - 1] \o Chain(Len(f[i - 1]) + 1, params[i].ty)
    IN f
BehindShared(m) ==
    {d \in DOMAIN m : \E b \in 1..(d - 1) : m[b].tag = "Ref" /\ \A c \in b..(d - 1) : m[c].to = c + 1}

Local(mut, ty, cell) == [mut |-> mut, ty |-> ty, cell |-> cell, live |-> TRUE]
Init ==
    /\ \E f \in Functions :
        LET memory == Memory(f.params)
        IN /\ locals = [i \in DOMAIN f.params |->
                            Local(f.params[i].mut, f.params[i].ty, Len(memory[i - 1]) + 1)]
           /\ mem = memory[Len(f.params)]
           /\ left = f.stmts
    /\ lent = BehindShared(mem)
    /\ verdict = [accepted |-> TRUE, sound |-> TRUE]

\* A rejected statement ends the compilation
Judge(accepted, sound) ==
    /\ left' = IF accepted THEN left - 1 ELSE 0
    /\ verdict' = [accepted |-> accepted, sound |-> sound]
    /\ UNCHANGED lent
Rejected(sound) == Judge(FALSE, sound) /\ UNCHANGED <<locals, mem>>

\* let [mut] x[: to] = e;
Let(mut, x, to) ==
    LET ty == IF to = Unstated THEN x.ty ELSE to
    IN /\ CheckBorrow(x) /\ Coerces(x, to)
       /\ Moves(x, to) => MayMove(x)
       /\ Len(ty) <= MaxDepth
       /\ Judge(TRUE, Sound(x, to))
       /\ mem' = Append(Stored(x.of), ValueOf(x, to))
       /\ locals' = Append(Moved(x, to), Local(mut, ty, Len(mem')))
RejectLet(x, to) ==
    ~(CheckBorrow(x) /\ Coerces(x, to)) /\ Rejected(Sound(x, to))

\* lhs = e; a change of a temporary is not seen again
CheckAssign(lhs, x) ==
    CheckBorrow(x) /\ Coerces(x, lhs.ty) /\ lhs.place.known /\ lhs.place.writable
SoundAssign(lhs, x) == Sound(x, lhs.ty) /\ lhs.place.known /\ Changeable(lhs, 0)
Assign(lhs, x) ==
    /\ CheckAssign(lhs, x)
    /\ Moves(x, lhs.ty) => MayMove(x) /\ x.of.root # lhs.root
    /\ Judge(TRUE, SoundAssign(lhs, x))
    /\ mem' = IF lhs.root = 0 THEN Stored(x.of)
              ELSE [Stored(x.of) EXCEPT ![PlaceOf(lhs)] = ValueOf(x, lhs.ty)]
    /\ locals' = Moved(x, lhs.ty)
RejectAssign(lhs, x) == ~CheckAssign(lhs, x) /\ Rejected(SoundAssign(lhs, x))

Changed(e, more) ==
    mem' = IF e.root = 0 THEN mem ELSE [mem EXCEPT ![Deref(mem, PlaceOf(e), more)].n = @ + 1]

\* lhs += 1;
AddAssign(lhs) ==
    /\ lhs.place.known /\ lhs.place.writable
    /\ Judge(TRUE, Changeable(lhs, 0))
    /\ Changed(lhs, 0)
    /\ UNCHANGED locals
RejectAddAssign(lhs) ==
    ~(lhs.place.known /\ lhs.place.writable) /\ Rejected(lhs.place.known /\ Changeable(lhs, 0))

CheckMethod_Here(e) ==      \* mutant: the receiver is judged before it is dereferenced
    IF e.ty[1] = "RefMut" THEN ~e.place.blocked ELSE MayBorrowMut(e.place)

\* A &mut receiver is found as it is, any other owner is borrowed for the call
CheckMethod(e) ==
    LET n == Leading(e.ty)
    IN IF n > 0 /\ e.ty[n] = "RefMut"
       THEN ~Through(e.place, SubSeq(e.ty, 1, n - 1)).blocked
       ELSE MayBorrowMut(Through(e.place, SubSeq(e.ty, 1, n)))

\* e.push(..) on a vector, and on a struct over i32 a method that changes its field
Receivers ==
    {e \in Paths : LET owner == Rest(e.ty, Leading(e.ty))
                   IN owner = <<"Struct">> \/ (owner # <<>> /\ Head(owner) = "Vec")}
CallMethod(e) ==
    /\ CheckMethod(e)
    /\ Judge(TRUE, Changeable(e, Leading(e.ty)))
    /\ Changed(e, Leading(e.ty))
    /\ UNCHANGED locals
RejectCall(e) == ~CheckMethod(e) /\ Rejected(Changeable(e, Leading(e.ty)))

LetStatement ==
    left > 0 /\ \E x \in Expressions : \E to \in Targets(x) :
        RejectLet(x, to) \/ \E mut \in BOOLEAN : Let(mut, x, to)
Assignment ==
    left > 0 /\ \E lhs \in Paths : \E x \in {x \in Expressions : x.ty = lhs.ty \/ lhs.ty \in Targets(x)} :
        Assign(lhs, x) \/ RejectAssign(lhs, x)
CompoundAssignment ==
    left > 0 /\ \E lhs \in {e \in Paths : e.ty = <<>>} : AddAssign(lhs) \/ RejectAddAssign(lhs)
MethodCall ==
    left > 0 /\ \E e \in Receivers : CallMethod(e) \/ RejectCall(e)

Next == LetStatement \/ Assignment \/ CompoundAssignment \/ MethodCall

Spec == Init /\ [][Next]_vars
-----------------------------------------------------------------------------
\* A statement is accepted exactly if what it changes, or makes changeable, is
\* reached by mutable steps alone: the two bits of a place, carried through
\* dereferences, fields, indices, coercions and receivers, say neither more nor less.
AcceptsTheSound == verdict.accepted = verdict.sound

\* The value of an immutable binding with all it owns, and what the caller has lent
\* for reading, never changes, whatever references the statements before have made:
\* no mutable reference to it can be obtained in any number of legal steps.
Frozen == lent \cup UNION {Owned(mem, l.cell) : l \in {locals[i] : i \in {i \in DOMAIN locals :
                                                locals[i].live /\ ~locals[i].mut}}}
FrozenStays == [][\A c \in Frozen : mem'[c] = mem[c]]_vars

\* What is in memory for a live binding has its type, level by level and reference by
\* reference: the adjustments the checker records dereference as often as the coercion
\* crossed levels, so that code using the binding follows pointers and nothing else.
Fits(cell, ty) ==
    LET tags == Held(ty) \o <<"int">>
    IN \A k \in DOMAIN tags : mem[Deref(mem, cell, k - 1)].tag = tags[k]
ValuesFitTypes == \A i \in DOMAIN locals : locals[i].live => Fits(locals[i].cell, locals[i].ty)
=============================================================================
