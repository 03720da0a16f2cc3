--------------------------- MODULE MCConstResolution ---------------------------
(* Two const items and an array length of every small form, and three items    *)
(* that name each other, in both orders of the source.                         *)
EXTENDS ConstResolution
CONSTANTS a, b, c, n
Items == {a, b, c}
Lengths == {n}

IntLit(s, x) == [form |-> "int", suffix |-> s, value |-> x, to |-> NoItem]
BoolLit == [form |-> "bool", suffix |-> "none", value |-> 1, to |-> NoItem]
Path(x) == [form |-> "path", suffix |-> "none", value |-> 0, to |-> x]
E(k, neg, leaf) == [kind |-> k, neg |-> neg, leaf |-> leaf]

Paths(S) == {Path(x) : x \in S \cup {NoItem}}
Leaves(S) == Paths(S) \cup {IntLit("none", 1), IntLit("i32", 2), BoolLit}
ItemValues(S) == [kind : {"i32", "usize", "array"}, neg : 0..1, leaf : Leaves(S)]
                 \cup [kind : {"bool"}, neg : {0}, leaf : Leaves(S)]
                 \cup {E("other", 0, Path(x)) : x \in S}
LengthValues(S) == [kind : {"usize"}, neg : {0}, leaf : Leaves(S)] \cup [kind : {"usize"}, neg : {1}, leaf : {IntLit("none", 1)} \cup Paths(S)]
Simple == E("i32", 0, IntLit("none", 1))

Pairs == {[x \in Node |-> CASE x = a -> v [] x = b -> w [] x = c -> Simple [] x = n -> l] :
            v \in ItemValues({a, b}), w \in ItemValues({a, b}), l \in LengthValues({a, b})}
Chains == [Items -> [kind : {"isize"}, neg : 0..2, leaf : {Path(x) : x \in Items} \cup {IntLit("none", 3)}]]
Triples == {[x \in Node |-> IF x = n THEN E("usize", 0, IntLit("usize", 0)) ELSE f[x]] : f \in Chains}

SourceOrders == {<<a, b, n, c>>, <<n, c, b, a>>}
SmallPrograms == [expr : Pairs \cup Triples, order : SourceOrders]
=============================================================================
