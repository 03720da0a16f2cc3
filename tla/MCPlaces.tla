------------------------------- MODULE MCPlaces -------------------------------
(***************************************************************************)
(* Functions for the Places run.                                             *)
(***************************************************************************)
EXTENDS Places

Of(params, stmts) == [params |-> params, stmts |-> stmts]
Parameters(types) == [mut : BOOLEAN, ty : types]

Nested(depth) == UNION {[1..n -> Ctors] : n \in 0..depth}
Long == [1..3 -> {"Ref", "RefMut", "Box", "Vec"}]

Alone == {Of(<<p>>, 2) : p \in Parameters(Nested(2) \cup Long)}
Pairs == {Of(<<p, q>>, 2) : p \in Parameters(Nested(1)), q \in [mut : {FALSE}, ty : Nested(1)]}
Longer == {Of(<<p>>, 3) : p \in Parameters(Nested(1))}
AllFunctions == Alone \cup Pairs \cup Longer
=============================================================================
