--------------------------- MODULE MCNameResolution ---------------------------
(* Functions with all small nestings of blocks, lets and uses of one or two    *)
(* names, and crates of up to four items of every kind.                        *)
EXTENDS NameResolution

Node(op, name, sub) == [op |-> op, name |-> name, sub |-> sub]
Leaf(op, name) == Node(op, name, <<>>)
Of(op, type, name) == [op |-> op, name |-> name, of |-> type, sub |-> <<>>]
Let(name, e) == Node("let", name, <<e>>)
Block(stmts) == Node("block", NoName, stmts)
Fn(name, receiver, params, body) ==
  [op |-> "fn", name |-> name, receiver |-> receiver, params |-> params, sub |-> <<body>>]
Const(name, e) == Node("const", name, <<Leaf("ty", NoName), e>>)
Struct(name, fields, tys) == [op |-> "struct", name |-> name, params |-> fields, sub |-> tys]
ImplFor(name, args, items) == Node("impl", name, <<Node("ty", name, args)>> \o items)
Impl(name, items) == ImplFor(name, <<>>, items)
Empty == Block(<<>>)

UpTo(S, n) == UNION {[1..k -> S] : k \in 0..n}

\* Bodies: x and y are variables, x is a const item as well.
Exprs == {Leaf("use", "x"), Leaf("use", "y")}
Stmts == Exprs \cup {Let(n, e) : n \in {"x", "y"}, e \in Exprs}
Inner == {Block(s) : s \in UpTo(Stmts, 2)}
Nested == Stmts \cup Inner \cup {Let("x", b) : b \in Inner}
Bodies == {Block(s \o <<Node("expr", NoName, <<Leaf("use", "x"), Leaf("len", "x")>>)>>) : s \in UpTo(Nested, 2)}
BodyCrates == {<<Fn("main", FALSE, params, b), Const("x", Leaf("expr", NoName))>> : params \in {<<>>, <<"y">>}, b \in Bodies}

\* Items: every kind, used before and after its definition, right and wrong.
Wrap(e) == Block(<<e>>)
Method == Fn("m", TRUE, <<"p">>, Block(<<Leaf("use", "self"), Leaf("use", "p"), Leaf("ty", "Self"), Of("member", "Self", "N")>>))
SomeItems ==
  {Struct("S", <<"f">>, <<Node("ty", NoName, <<Leaf("ty", "Self"), Leaf("len", "N")>>)>>),
   Struct("S", <<"f", "f">>, <<Leaf("ty", "T"), Leaf("ty", "S")>>),
   Struct("Vec", <<>>, <<>>),
   Impl("S", <<Method, Const("N", Leaf("len", "N"))>>),
   Impl("S", <<Fn("m", FALSE, <<>>, Empty), Fn("m", FALSE, <<>>, Empty)>>),
   Impl("Vec", <<Fn("new", FALSE, <<>>, Empty)>>),
   Const("N", Of("constof", "S", "N")),
   Const("N", Leaf("len", "main")),
   Fn("main", FALSE, <<"p", "p">>, Wrap(Leaf("use", "self"))),
   Fn("main", TRUE, <<>>, Wrap(Of("member", "Self", "m"))),
   Fn("get_i32", FALSE, <<>>, Wrap(Leaf("ty", "Self"))),
   Fn("f", FALSE, <<"a">>, Block(<<Of("member", "S", "m"), Of("member", "S", "clone"), Of("constof", "S", "clone"),
                                    Of("member", "Vec", "new"), Of("member", "Vec", "push"), Leaf("use", "f"), Leaf("use", "get_i32"),
                                    Leaf("ty", "Vec"), Of("constof", "S", "m")>>)),
   Fn("g", FALSE, <<>>, Block(<<Let("f", Leaf("use", "f")), Leaf("use", "f"), Of("member", "S", "clone")>>))}
\* Targets no impl may have: S<S> and &S.
Targetless == {ImplFor(name, <<Leaf("ty", "S")>>, <<Fn("m", FALSE, <<>>, Empty)>>) : name \in {"S", NoName}}
\* Four items begin with the struct, or with an impl of it.
ItemCrates == UpTo(SomeItems \cup Targetless, 2) \cup UpTo(SomeItems, 3) \cup {s \in [1..4 -> SomeItems] : s[1].name = "S"}

\* The tree with these items, as a function on paths.
RECURSIVE Below(_, _)
Below(p, sub) == UNION {{Append(p, i)} \cup Below(Append(p, i), sub[i].sub) : i \in DOMAIN sub}
RECURSIVE At(_, _)
At(n, p) == IF p = <<>> THEN n ELSE At(n.sub[p[1]], Tail(p))
Flat(n) == [f \in (DOMAIN n \ {"sub"}) \cup {"size"} |-> IF f = "size" THEN Len(n.sub) ELSE n[f]]
Crate(items) ==
  [p \in {<<>>} \cup Below(<<>>, items) |-> Flat(At(Node("crate", NoName, items), p))]
SomeCrates == {Crate(items) : items \in BodyCrates \cup ItemCrates}
=============================================================================
