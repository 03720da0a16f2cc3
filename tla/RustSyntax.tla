------------------------------ MODULE RustSyntax ------------------------------
(***************************************************************************)
(* The language the front end is meant to read, said a second time without   *)
(* the grammar: Rust's binding strengths, its rules for struct expressions   *)
(* in conditions, for statements that start with a block, for > that closes  *)
(* type arguments, and for the operands of jumps.  Every operator takes how  *)
(* far the text has been read and returns the same one construct further:    *)
(* [ok, at, done], at the next token and done the trees so far.              *)
(***************************************************************************)
EXTENDS Naturals, Sequences

VARIABLE toks       \* the tokens of the program text

At(n) == IF n <= Len(toks) THEN toks[n] ELSE "END"
Sees(p, ts) == p.ok /\ At(p.at) \in ts
Stuck(p) == [p EXCEPT !.ok = FALSE]
Take(p, t) == IF Sees(p, {t}) THEN [p EXCEPT !.at = @ + 1] ELSE Stuck(p)
TakeAny(p, ts) == IF Sees(p, ts) THEN [p EXCEPT !.at = @ + 1] ELSE Stuck(p)
May(p, t) == IF Sees(p, {t}) THEN Take(p, t) ELSE p

\* What q has read since p becomes the children of one tree
Tree(p, q, kind, attr, name) ==
    [q EXCEPT !.done = Append(p.done, <<kind, attr, name, SubSeq(q.done, Len(p.done) + 1, Len(q.done))>>)]

Names == {"IDENTIFIER", "DERIVE", "COPY", "CLONE", "PARTIAL_EQ", "EQ"}
PathNames == Names \cup {"SELF_VALUE", "SELF_TYPE"}
Blocks == {"LBRACE", "IF", "LOOP", "WHILE"}
Operands == PathNames \cup Blocks \cup {"INTEGER_LITERAL", "TRUE", "FALSE", "LPAREN", "LBRACKET",
              "BREAK", "RETURN", "CONTINUE", "MINUS", "NOT", "STAR", "AMP", "ANDAND"}

\* Constructs that contain each other are read by Construct, of which these are the kinds
RECURSIVE Construct(_, _, _, _)
Type(p) == Construct("type", p, 0, FALSE)
Const(p) == Construct("const", p, 0, FALSE)
PathOf(p, inType) == Construct("path", p, 0, inType)
Block(p) == Construct("block", p, 0, FALSE)
BlockLike(p) == Construct("blockLike", p, 0, FALSE)
Climb(p, min, cond) == Construct("expression", p, min, cond)
Expr(p) == Climb(p, 0, FALSE)
Condition(p) == Climb(p, 0, TRUE)

RECURSIVE Args(_, _), PathGo(_, _, _), Magnitude(_), Go(_, _, _, _, _), List(_, _), Fields(_, _),
          Suffixes(_, _), Unary(_, _), If(_), Stmts(_, _)
-----------------------------------------------------------------------------
\* Paths, types and constants.  inType: type arguments need no :: before them.

\* One > of the >, >=, >> or >>= the text has there
Closer == {"GT", "GT_SECOND"}

Args(p, q) ==
    IF Sees(q, Closer) THEN TakeAny(q, Closer)
    ELSE LET a == IF Sees(q, {"LIFETIME"}) THEN Take(q, "LIFETIME") ELSE Type(q)
         IN IF Sees(a, {"COMMA"}) THEN Args(p, Take(a, "COMMA")) ELSE TakeAny(a, Closer)

Segment(p, inType) ==
    LET kind == CASE Sees(p, {"SELF_VALUE"}) -> "SelfValue"
                  [] Sees(p, {"SELF_TYPE"}) -> "SelfType"
                  [] OTHER -> "Ident"
        name == TakeAny(p, PathNames)
        args == CASE inType /\ Sees(name, {"LT"}) -> Args(p, Take(name, "LT"))
                  [] Sees(name, {"PATHSEP"}) /\ At(name.at + 1) = "LT" ->
                        Args(p, Take(Take(name, "PATHSEP"), "LT"))
                  [] OTHER -> name
    IN Tree(p, args, "Segment", kind, IF kind = "Ident" THEN p.at ELSE 0)

PathGo(p, q, inType) ==
    LET s == Segment(q, inType) IN
    IF Sees(s, {"PATHSEP"}) THEN PathGo(p, Take(s, "PATHSEP"), inType) ELSE Tree(p, s, "Path", "", 0)

ReadConst(p) ==
    CASE Sees(p, {"INTEGER_LITERAL"}) -> Tree(p, Take(p, "INTEGER_LITERAL"), "Int", "", p.at)
      [] Sees(p, {"TRUE", "FALSE"}) -> Tree(p, TakeAny(p, {"TRUE", "FALSE"}), "Bool", At(p.at), 0)
      [] Sees(p, PathNames) -> PathOf(p, FALSE)
      [] Sees(p, {"LPAREN"}) -> Take(Const(Take(p, "LPAREN")), "RPAREN")
      [] Sees(p, {"MINUS"}) -> Tree(p, Magnitude(Take(p, "MINUS")), "Neg", "", 0)
      [] OTHER -> Stuck(p)
Magnitude(p) ==
    CASE Sees(p, PathNames \cup {"INTEGER_LITERAL"}) -> Const(p)
      [] Sees(p, {"LPAREN"}) -> Take(Magnitude(Take(p, "LPAREN")), "RPAREN")
      [] OTHER -> Stuck(p)

Reference(p) == Tree(p, Type(May(May(p, "LIFETIME"), "MUT")), "TyRef",
                     IF Sees(May(p, "LIFETIME"), {"MUT"}) THEN "mut" ELSE "", 0)

ReadType(p) ==
    CASE Sees(p, {"LPAREN"}) ->
            LET q == Take(p, "LPAREN") IN
            IF Sees(q, {"RPAREN"}) THEN Tree(p, Take(q, "RPAREN"), "TyUnit", "", 0)
            ELSE Take(Type(q), "RPAREN")
      [] Sees(p, {"AMP"}) -> Reference(Take(p, "AMP"))
      [] Sees(p, {"ANDAND"}) -> Tree(p, Reference(Take(p, "ANDAND")), "TyRef", "", 0)
      [] Sees(p, {"LBRACKET"}) ->
            Tree(p, Take(Const(Take(Type(Take(p, "LBRACKET")), "SEMI")), "RBRACKET"), "TyArray", "", 0)
      [] OTHER -> PathOf(p, TRUE)

\* The last segment of the type between p and q has no type arguments
EndsOpen(p, q) == q.ok /\ q.at > p.at /\ At(q.at - 1) \in PathNames
-----------------------------------------------------------------------------
\* Operators: how tight they bind, and how many of the tokens they are made of

Binary == [STAR |-> <<"Mul", 9>>, SLASH |-> <<"Div", 9>>, PERCENT |-> <<"Rem", 9>>,
           PLUS |-> <<"Add", 8>>, MINUS |-> <<"Sub", 8>>, SHL |-> <<"Shl", 7>>,
           AMP |-> <<"BitAnd", 6>>, CARET |-> <<"BitXor", 5>>, PIPE |-> <<"BitOr", 4>>,
           EQEQ |-> <<"Eq", 3>>, NE |-> <<"Ne", 3>>, LT |-> <<"Lt", 3>>, LE |-> <<"Le", 3>>,
           GT |-> <<"Gt", 3>>, GT_SECOND |-> <<"Gt", 3>>,
           ANDAND |-> <<"And", 2>>, OROR |-> <<"Or", 1>>,
           ASSIGN |-> <<"Assign", 0>>, GE_EQ |-> <<"Assign", 0>>, SHR_EQ |-> <<"Assign", 0>>,
           PLUS_ASSIGN |-> <<"Add", 0>>, MINUS_ASSIGN |-> <<"Sub", 0>>, STAR_ASSIGN |-> <<"Mul", 0>>,
           SLASH_ASSIGN |-> <<"Div", 0>>, PERCENT_ASSIGN |-> <<"Rem", 0>>,
           AMP_ASSIGN |-> <<"BitAnd", 0>>, PIPE_ASSIGN |-> <<"BitOr", 0>>,
           CARET_ASSIGN |-> <<"BitXor", 0>>, SHL_ASSIGN |-> <<"Shl", 0>>]

\* <<operator, strength, tokens>>; a > takes every piece of its lexeme it can
Operator(p) ==
    LET next == <<At(p.at), At(p.at + 1), At(p.at + 2)>> IN
    CASE next = <<"GT", "GT_SECOND", "SHR_EQ">> -> <<"Shr", 0, 3>>
      [] next[1] = "GT" /\ next[2] = "GT_SECOND" /\ next[3] # "SHR_EQ" -> <<"Shr", 7, 2>>
      [] next[1] = "GT" /\ next[2] = "GE_EQ" -> <<"Ge", 3, 2>>
      [] next[1] = "GT_SECOND" /\ next[2] = "SHR_EQ" -> <<"Ge", 3, 2>>
      [] OTHER -> IF next[1] \in DOMAIN Binary
                  THEN <<Binary[next[1]][1], Binary[next[1]][2], 1>> ELSE <<"", 0, 0>>

\* q is p and an operand.  Operators as strong as min or stronger are read on;
\* compared: the operand is a comparison, and comparisons do not chain (but a last
\* > may yet become >>).  open:
\* it ends in a cast to a bare path, which << may not follow.
Go(p, q, min, cond, flags) ==
    LET o == Operator(q)
        after == [q EXCEPT !.at = @ + o[3]]
        cast == Type(Take(q, "AS"))
        right == Climb(after, o[2] + 1, cond)
    IN CASE ~q.ok -> q
         [] Sees(q, {"AS"}) /\ min <= 10 ->
                Go(p, Tree(p, cast, "Cast", "", 0), min, cond, [flags EXCEPT !.open = EndsOpen(q, cast)])
         [] o[3] > 0 /\ o[2] = 0 /\ min = 0 ->
                [Tree(p, Climb(after, 0, cond), "Assign", o[1], 0) EXCEPT !.open = FALSE]
         [] o[3] > 0 /\ o[2] >= min /\ o[2] > 0 /\ ~(o[2] = 3 /\ flags.compared)
              /\ ~(o[1] = "Shl" /\ flags.open) ->
                Go(p, Tree(p, right, "Binary", o[1], 0), min, cond,
                   [compared |-> flags.compared \/ o[2] <= 3, open |-> right.open])
         [] flags.compared /\ o[1] = "Gt" /\ At(q.at + 1) = "END" -> Stuck(after)
         [] OTHER -> [q EXCEPT !.open = flags.open]

Fresh == [compared |-> FALSE, open |-> FALSE]
-----------------------------------------------------------------------------
\* Primaries.  cond: in a condition, where a path and { is not a struct expression.

List(p, close) ==
    IF Sees(p, {close}) THEN Take(p, close)
    ELSE LET e == Expr(p) IN
         IF Sees(e, {"COMMA"}) THEN List(Take(e, "COMMA"), close) ELSE Take(e, close)

Array(p) ==
    LET q == Take(p, "LBRACKET")
        e == Expr(q)
    IN IF Sees(q, {"RBRACKET"}) THEN Tree(p, Take(q, "RBRACKET"), "Array", "Elements", 0)
       ELSE IF Sees(e, {"SEMI"})
       THEN Tree(p, Take(Const(Take(e, "SEMI")), "RBRACKET"), "Array", "Repeat", 0)
       ELSE Tree(p, IF Sees(e, {"COMMA"}) THEN List(Take(e, "COMMA"), "RBRACKET")
                    ELSE Take(e, "RBRACKET"), "Array", "Elements", 0)

Fields(p, q) ==
    IF Sees(q, {"RBRACE"}) THEN Tree(p, Take(q, "RBRACE"), "Struct", "", 0)
    ELSE LET name == Take(TakeAny(q, Names), "COLON")
             f == Tree(q, Expr(name), "FieldValue", "", q.at)
         IN IF Sees(f, {"COMMA"}) THEN Fields(p, Take(f, "COMMA"))
            ELSE Tree(p, Take(f, "RBRACE"), "Struct", "", 0)

\* The operand of a return in a condition may be a block, if a body is left after it
HasOperand(p, kind, cond) ==
    /\ Sees(p, IF kind = "BREAK" /\ cond THEN Operands \ {"LBRACE"} ELSE Operands)
    /\ Sees(p, {"LBRACE"}) /\ cond =>
         LET e == Condition(p) IN \/ e.at > Len(toks)
                                  \/ e.ok /\ (Sees(e, {"LBRACE"}) \/ Operator(e)[3] > 0)

Jump(p, cond) ==
    LET kind == At(p.at)
        q == Take(p, kind)
    IN Tree(p, IF HasOperand(q, kind, cond) THEN Climb(q, 0, cond) ELSE q,
            IF kind = "BREAK" THEN "Break" ELSE "Return", "", 0)

If(p) ==
    LET then == Block(Condition(Take(p, "IF")))
        else == Take(then, "ELSE")
    IN Tree(p, IF ~Sees(then, {"ELSE"}) THEN then
               ELSE IF Sees(else, {"IF"}) THEN If(else) ELSE Block(else), "If", "", 0)

ReadBlockLike(p) ==
    CASE Sees(p, {"LBRACE"}) -> Block(p)
      [] Sees(p, {"IF"}) -> If(p)
      [] Sees(p, {"LOOP"}) -> Tree(p, Block(Take(p, "LOOP")), "Loop", "", 0)
      [] OTHER -> Tree(p, Block(Condition(Take(p, "WHILE"))), "While", "", 0)

Primary(p, cond) ==
    CASE Sees(p, {"INTEGER_LITERAL", "TRUE", "FALSE"}) -> Const(p)
      [] Sees(p, PathNames) ->
            LET path == PathOf(p, FALSE)
            IN IF Sees(path, {"LBRACE"}) /\ ~cond THEN Fields(p, Take(path, "LBRACE")) ELSE path
      [] Sees(p, {"LPAREN"}) ->
            LET q == Take(p, "LPAREN") IN
            IF Sees(q, {"RPAREN"}) THEN Tree(p, Take(q, "RPAREN"), "Unit", "", 0)
            ELSE Take(Expr(q), "RPAREN")
      [] Sees(p, {"LBRACKET"}) -> Array(p)
      [] Sees(p, {"BREAK", "RETURN"}) -> Jump(p, cond)
      [] Sees(p, {"CONTINUE"}) -> Tree(p, Take(p, "CONTINUE"), "Continue", "", 0)
      [] Sees(p, Blocks) -> BlockLike(p)
      [] OTHER -> Stuck(p)

\* A name after the dot and an argument list is a method, also where the name
\* alone would be a field and the arguments a call of it
Dot(p, q) ==
    LET d == Take(q, "DOT")
        s == Segment(d, FALSE)
    IN IF Sees(s, {"LPAREN"})
       THEN Tree(p, List(Take(s, "LPAREN"), "RPAREN"), "MethodCall", "", 0)
       ELSE IF Sees(d, Names) /\ At(d.at + 1) # "PATHSEP"
       THEN Tree(p, TakeAny(d, Names), "Field", "", d.at)
       ELSE IF Sees(s, {"PATHSEP"}) THEN Take(Take(s, "PATHSEP"), "LT") ELSE Stuck(s)

Suffixes(p, q) ==
    CASE Sees(q, {"LPAREN"}) ->
            Suffixes(p, Tree(p, List(Take(q, "LPAREN"), "RPAREN"), "Call", "", 0))
      [] Sees(q, {"LBRACKET"}) ->
            Suffixes(p, Tree(p, Take(Expr(Take(q, "LBRACKET")), "RBRACKET"), "Index", "", 0))
      [] Sees(q, {"DOT"}) -> Suffixes(p, Dot(p, q))
      [] OTHER -> [q EXCEPT !.open = FALSE]

Unary(p, cond) ==
    LET q == TakeAny(p, {At(p.at)})
        Borrow(b) == LET m == Sees(b, {"MUT"})
                     IN Tree(b, Unary(May(b, "MUT"), cond), "Unary", IF m THEN "BorrowMut" ELSE "Borrow", 0)
    IN CASE Sees(p, {"MINUS"}) -> Tree(p, Unary(q, cond), "Unary", "Neg", 0)
         [] Sees(p, {"NOT"}) -> Tree(p, Unary(q, cond), "Unary", "Not", 0)
         [] Sees(p, {"STAR"}) -> Tree(p, Unary(q, cond), "Unary", "Deref", 0)
         [] Sees(p, {"AMP"}) -> Borrow(q)
         [] Sees(p, {"ANDAND"}) -> Tree(p, Borrow(q), "Unary", "Borrow", 0)
         [] OTHER -> Suffixes(p, Primary(p, cond))
-----------------------------------------------------------------------------
\* Statements and blocks

Binding(p) == TakeAny(May(p, "MUT"), Names)

Let(p) ==
    LET b == Binding(Take(p, "LET"))
        typed == IF Sees(b, {"COLON"}) THEN Type(Take(b, "COLON")) ELSE b
        e == Expr(TakeAny(typed, {"ASSIGN", "GE_EQ", "SHR_EQ"}))
    IN Tree(p, Take(e, "SEMI"), "Let", IF b.at - p.at = 3 THEN "mut" ELSE "", b.at - 1)

\* e is the expression a statement at q begins with; like: it is a block of some kind
ExprStmt(p, q, e, like) ==
    LET stmt == Tree(q, May(e, "SEMI"), "ExprStmt", IF Sees(e, {"SEMI"}) THEN "semi" ELSE "", 0)
    IN CASE Sees(e, {"RBRACE"}) -> Tree(p, Take(e, "RBRACE"), "Block", "tail", 0)
         [] Sees(e, {"SEMI"}) \/ like -> Stmts(p, stmt)
         [] OTHER -> Stuck(e)
BlockStmt(p, q, block) ==
    IF Sees(block, {"DOT"})
    THEN ExprStmt(p, q, Go(q, Suffixes(q, block), 0, FALSE, Fresh), FALSE)
    ELSE ExprStmt(p, q, block, TRUE)

\* Reads the statements up to the end of the block; p is where the block began
Stmts(p, q) ==
    CASE ~q.ok -> q
      [] Sees(q, {"RBRACE"}) -> Tree(p, Take(q, "RBRACE"), "Block", "", 0)
      [] Sees(q, {"SEMI"}) -> Stmts(p, Take(q, "SEMI"))
      [] Sees(q, {"LET"}) -> Stmts(p, Let(q))
      [] Sees(q, Blocks) -> BlockStmt(p, q, BlockLike(q))
      [] OTHER -> ExprStmt(p, q, Expr(q), FALSE)
ReadBlock(p) == LET q == Take(p, "LBRACE") IN IF q.ok THEN Stmts(p, q) ELSE q
-----------------------------------------------------------------------------
\* Items.  Lifetimes, their bounds and where clauses leave no tree.

Dropped(p, q) == [q EXCEPT !.done = p.done]

RECURSIVE Bounds(_), LifetimeParams(_), Where(_, _), UseTree(_), UseRest(_), UseList(_), Params(_),
          StructFields(_), Derives(_), Attributes(_), Members(_), Items(_)

Bounds(p) ==
    LET l == May(p, "LIFETIME")
    IN IF Sees(p, {"LIFETIME"}) /\ Sees(l, {"PLUS"}) THEN Bounds(Take(l, "PLUS")) ELSE l

LifetimeParams(p) ==
    LET l == Take(p, "LIFETIME")
        b == IF Sees(l, {"COLON"}) THEN Bounds(Take(l, "COLON")) ELSE l
    IN IF Sees(p, Closer) THEN TakeAny(p, Closer)
       ELSE IF Sees(b, {"COMMA"}) THEN LifetimeParams(Take(b, "COMMA")) ELSE TakeAny(b, Closer)
Generics(p) == IF Sees(p, {"LT"}) THEN LifetimeParams(Take(p, "LT")) ELSE p

Where(p, q) ==
    LET subject == IF Sees(q, {"LIFETIME"}) THEN Take(q, "LIFETIME") ELSE Type(q)
        b == Bounds(Take(subject, "COLON"))
    IN IF ~q.ok \/ Sees(q, {"LBRACE"}) THEN Dropped(p, q)
       ELSE IF Sees(b, {"COMMA"}) THEN Where(p, Take(b, "COMMA")) ELSE Dropped(p, b)
WhereClause(p) == IF Sees(p, {"WHERE"}) THEN Where(p, Take(p, "WHERE")) ELSE p

UseList(p) ==
    LET t == UseTree(p)
    IN IF Sees(p, {"RBRACE"}) THEN Take(p, "RBRACE")
       ELSE IF Sees(t, {"COMMA"}) THEN UseList(Take(t, "COMMA")) ELSE Take(t, "RBRACE")
\* What may follow the start of a use tree or a :: in it
UseRest(p) ==
    LET s == TakeAny(p, Names \cup {"SELF_VALUE", "SUPER", "CRATE"}) IN
    CASE Sees(p, {"STAR"}) -> Take(p, "STAR")
      [] Sees(p, {"LBRACE"}) -> UseList(Take(p, "LBRACE"))
      [] Sees(s, {"PATHSEP"}) -> UseRest(Take(s, "PATHSEP"))
      [] Sees(s, {"AS"}) -> TakeAny(Take(s, "AS"), Names \cup {"UNDERSCORE"})
      [] OTHER -> s
UseTree(p) == UseRest(May(p, "PATHSEP"))

Param(p) ==
    LET b == Binding(p)
    IN Tree(p, Type(Take(b, "COLON")), "Param", IF b.at - p.at = 2 THEN "mut" ELSE "", b.at - 1)
Params(p) ==
    LET q == Param(p)
    IN IF Sees(p, {"RPAREN"}) THEN Take(p, "RPAREN")
       ELSE IF Sees(q, {"COMMA"}) THEN Params(Take(q, "COMMA")) ELSE Take(q, "RPAREN")

Receiver(p) == LET a == IF Sees(p, {"AMP"}) THEN May(Take(p, "AMP"), "LIFETIME") ELSE p
               IN Take(May(a, "MUT"), "SELF_VALUE")

Function(p) ==
    LET name == Take(p, "FN")
        open == Take(Generics(TakeAny(name, Names)), "LPAREN")
        self == \/ Sees(open, {"AMP", "SELF_VALUE"})
                \/ Sees(open, {"MUT"}) /\ At(open.at + 1) = "SELF_VALUE"
        r == Receiver(open)
        params == IF ~self THEN Params(open)
                  ELSE IF Sees(r, {"COMMA"}) THEN Params(Take(r, "COMMA")) ELSE Take(r, "RPAREN")
        returns == IF Sees(params, {"ARROW"}) THEN Type(Take(params, "ARROW"))
                   ELSE Tree(params, params, "TyUnit", "", 0)
    IN Tree(p, Block(WhereClause(returns)), "Function",
            CASE ~self -> ""
              [] Sees(open, {"AMP"}) -> IF At(r.at - 2) = "MUT" THEN "&mut self" ELSE "&self"
              [] OTHER -> IF Sees(open, {"MUT"}) THEN "mut self" ELSE "self", name.at)

Traits == {"COPY", "CLONE", "PARTIAL_EQ", "EQ"}
Derives(p) ==
    LET d == Tree(p, TakeAny(p, Traits), "Derive", At(p.at), 0)
    IN IF Sees(p, {"RPAREN"}) THEN Take(p, "RPAREN")
       ELSE IF Sees(d, {"COMMA"}) THEN Derives(Take(d, "COMMA")) ELSE Take(d, "RPAREN")
Attributes(p) ==
    IF Sees(p, {"HASH"})
    THEN Attributes(Take(Derives(Take(Take(Take(Take(p, "HASH"), "LBRACKET"), "DERIVE"), "LPAREN")), "RBRACKET"))
    ELSE p

StructFields(p) ==
    LET f == Tree(p, Type(Take(TakeAny(p, Names), "COLON")), "StructField", "", p.at)
    IN IF Sees(p, {"RBRACE"}) THEN Take(p, "RBRACE")
       ELSE IF Sees(f, {"COMMA"}) THEN StructFields(Take(f, "COMMA")) ELSE Take(f, "RBRACE")
Struct(p) ==
    LET name == Take(Attributes(p), "STRUCT")
    IN Tree(p, StructFields(Take(WhereClause(Generics(TakeAny(name, Names))), "LBRACE")),
            "StructItem", "", name.at)

ConstItem(p) ==
    LET name == Take(p, "CONST")
        type == Type(Take(TakeAny(name, Names), "COLON"))
    IN Tree(p, Take(Const(TakeAny(type, {"ASSIGN", "GE_EQ", "SHR_EQ"})), "SEMI"), "ConstItem", "", name.at)

Members(p) ==
    CASE Sees(p, {"RBRACE"}) -> Take(p, "RBRACE")
      [] Sees(p, {"FN"}) -> Members(Function(p))
      [] Sees(p, {"CONST"}) -> Members(ConstItem(p))
      [] OTHER -> Stuck(p)
Impl(p) ==
    Tree(p, Members(Take(WhereClause(Type(Generics(Take(p, "IMPL")))), "LBRACE")), "Impl", "", 0)

Items(p) ==
    CASE Sees(p, {"EOF"}) -> Take(p, "EOF")
      [] Sees(p, {"USE"}) -> Items(Take(UseTree(Take(p, "USE")), "SEMI"))
      [] Sees(p, {"FN"}) -> Items(Function(p))
      [] Sees(p, {"HASH", "STRUCT"}) -> Items(Struct(p))
      [] Sees(p, {"CONST"}) -> Items(ConstItem(p))
      [] Sees(p, {"IMPL"}) -> Items(Impl(p))
      [] OTHER -> Stuck(p)

Construct(what, p, min, cond) ==
    CASE what = "type" -> ReadType(p)
      [] what = "const" -> ReadConst(p)
      [] what = "path" -> PathGo(p, p, cond)
      [] what = "block" -> ReadBlock(p)
      [] what = "blockLike" -> ReadBlockLike(p)
      [] what = "expression" -> Go(p, Unary(p, cond), min, cond, Fresh)
      [] what = "items" -> Items(p)

Beginning == [ok |-> TRUE, at |-> 1, done |-> <<>>, open |-> FALSE]
Meant == LET p == Beginning IN Tree(p, Construct("items", p, 0, FALSE), "Crate", "", 0)
=============================================================================
