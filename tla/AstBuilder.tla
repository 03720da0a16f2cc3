------------------------------ MODULE AstBuilder ------------------------------
(***************************************************************************)
(* From the parse tree to the syntax tree.  A parse tree node is <<rule or   *)
(* token, first token, children>>; a syntax tree node is <<kind, attribute,  *)
(* token that names it or 0, children>>.  Node numbers and source spans are  *)
(* left out.  Every unreachable!, expect and unwrap of the builder that can  *)
(* be reached yields a Panic node.                                           *)
(***************************************************************************)
EXTENDS RxGrammar

Panic == <<"Panic", "", 0, <<>>>>
Diagnosed == <<"TypeArguments", "", 0, <<>>>>
TyUnit == <<"TyUnit", "", 0, <<>>>>

IsRule(n) == n[1] \in RuleSet
Rules(n, rs) == SelectSeq(n[3], LAMBDA c : c[1] \in rs)
Has(n, ts) == \E i \in DOMAIN n[3] : n[3][i][1] \in ts
Name(n) == LET ids == Rules(n, {"identifier"}) IN IF ids = <<>> THEN 0 ELSE ids[Len(ids)][2]
MapNodes(F(_), ns) == [i \in DOMAIN ns |-> F(ns[i])]
LastOr(F(_), ns) == IF ns = <<>> THEN Panic ELSE F(ns[Len(ns)])

RECURSIVE Contains(_, _)
Contains(ast, kind) == ast[1] = kind \/ \E i \in DOMAIN ast[4] : Contains(ast[4][i], kind)

\* A crate, a type, a constant value or an expression
RECURSIVE BuildNode(_)
-----------------------------------------------------------------------------
\* Constants, paths and types

BuildIntLiteral(n) == <<"Int", "", n[2], <<>>>>

BuildPathIdent(n) ==
    LET c == n[3][1] IN
    CASE c[1] = "identifier" -> <<"Ident", c[2]>>
      [] c[1] = "SELF_VALUE" -> <<"SelfValue", 0>>
      [] c[1] = "SELF_TYPE" -> <<"SelfType", 0>>
      [] OTHER -> <<"Panic", 0>>

BuildPathSegment(n) ==
    LET idents == Rules(n, {"pathIdentSegment"})
        args == Rules(n, {"genericArgs"})
        types == IF args = <<>> THEN <<>>
                 ELSE SelectSeq(Rules(args[1], {"genericArg"}), LAMBDA a : Has(a, {"typeRef"}))
        name == BuildPathIdent(idents[1])
    IN IF idents = <<>> THEN Panic
       ELSE <<"Segment", name[1], name[2],
              MapNodes(LAMBDA a : BuildNode(Rules(a, {"typeRef"})[1]), types)>>

BuildPath(n) ==
    <<"Path", "", 0, MapNodes(LAMBDA c : IF c[1] \in {"typePathSegment", "pathExprSegment"}
                                         THEN BuildPathSegment(c) ELSE Panic,
                              SelectSeq(n[3], IsRule))>>

BuildConstValue(n) ==
    LET c == n[3][1] IN
    CASE c[1] = "pathInExpression" -> BuildPath(c)
      [] c[1] = "INTEGER_LITERAL" -> BuildIntLiteral(c)
      [] c[1] \in {"TRUE", "FALSE"} -> <<"Bool", c[1], 0, <<>>>>
      [] c[1] = "MINUS" -> <<"Neg", "", 0, <<BuildNode(n[3][2])>>>>
      [] c[1] = "LPAREN" -> BuildNode(n[3][2])
      [] OTHER -> Panic

BuildRefTy(n) ==
    LET of == LastOr(BuildNode, Rules(n, {"typeRef", "closedCastType"}))
        ref == <<"TyRef", IF Has(n, {"MUT"}) THEN "mut" ELSE "", 0, <<of>>>>
    IN IF Has(n, {"ANDAND"}) THEN <<"TyRef", "", 0, <<ref>>>> ELSE ref

BuildArrayTy(n) ==
    <<"TyArray", "", 0, <<LastOr(BuildNode, Rules(n, {"typeRef"})),
                          LastOr(BuildNode, Rules(n, {"constValue"}))>>>>

BuildTy(n) ==
    LET idents == Rules(n, {"pathIdentSegment"})
        segments == Rules(n, {"typePathSegment"})
        children == SelectSeq(n[3], IsRule)
        Kind(c) == CASE c[1] = "typeRef" -> BuildNode(c)
                     [] c[1] = "typePath" -> BuildPath(c)
                     [] c[1] = "referenceType" -> BuildRefTy(c)
                     [] c[1] = "arrayType" -> BuildArrayTy(c)
                     [] OTHER -> Panic
    IN IF n[1] = "closedCastType" /\ n[3][1][1] \in {"AMP", "ANDAND"} THEN BuildRefTy(n)
       ELSE IF n[1] = "closedCastType" /\ idents # <<>>
       THEN <<"Path", "", 0, Append(MapNodes(BuildPathSegment, segments), BuildPathSegment(n))>>
       ELSE IF children = <<>> THEN TyUnit
       ELSE Kind(children[Len(children)])
-----------------------------------------------------------------------------
\* Statements and blocks

BuildBinding(n) == <<IF Has(n, {"MUT"}) THEN "mut" ELSE "", Name(n)>>

BuildLetStmt(n) ==
    LET binding == BuildBinding(Rules(n, {"identifierBinding"})[1])
    IN <<"Let", binding[1], binding[2],
         MapNodes(BuildNode, Rules(n, {"typeRef"}))
         \o <<LastOr(BuildNode, Rules(n, {"expression"}))>>>>

BuildExprStmt(n) ==
    <<"ExprStmt", IF Has(n, {"SEMI"}) THEN "semi" ELSE "", 0,
      <<LastOr(BuildNode, Rules(n, {"expressionWithBlock", "statementExpression"}))>>>>

BuildStmt(n) ==
    CASE n[3][1][1] = "letStatement" -> BuildLetStmt(n[3][1])
      [] n[3][1][1] \in {"expressionWithBlock", "statementExpression"} -> BuildExprStmt(n)
      [] OTHER -> Panic

BuildBlockExpr(n) ==
    LET stmts == MapNodes(BuildStmt, SelectSeq(Rules(n, {"statement"}), LAMBDA s : s[3][1][1] # "SEMI"))
        tails == Rules(n, {"statementExpression"})
        last == stmts[Len(stmts)]
    IN IF tails # <<>>
       THEN <<"Block", "tail", 0, Append(stmts, BuildNode(tails[1]))>>
       ELSE IF stmts # <<>> /\ last[1] = "ExprStmt" /\ last[2] # "semi"
       THEN <<"Block", "tail", 0, Append(SubSeq(stmts, 1, Len(stmts) - 1), last[4][1])>>
       ELSE <<"Block", "", 0, stmts>>
-----------------------------------------------------------------------------
\* Operators

Spelled == [PLUS |-> "Add", MINUS |-> "Sub", STAR |-> "Mul", SLASH |-> "Div", PERCENT |-> "Rem",
            AMP |-> "BitAnd", PIPE |-> "BitOr", CARET |-> "BitXor", SHL |-> "Shl", EQEQ |-> "Eq",
            NE |-> "Ne", LT |-> "Lt", LE |-> "Le", GT |-> "Gt", GT_SECOND |-> "Gt",
            ANDAND |-> "And", OROR |-> "Or"]

RECURSIVE BuildBinaryOp(_)
BuildBinaryOp(n) ==
    CASE n[1] = "shiftRight" -> "Shr"
      [] n[1] = "comparisonExceptLt" ->
            IF n[3][1][1] \in {"GT", "GT_SECOND"} THEN "Ge" ELSE BuildBinaryOp(n[3][1])
      [] n[1] \in {"additiveOperator", "multiplicativeOperator", "genericClose"} ->
            BuildBinaryOp(n[3][1])
      [] OTHER -> IF n[1] \in DOMAIN Spelled THEN Spelled[n[1]] ELSE "Panic"

Within(r, first, last) == RuleIndex[r] \in RuleIndex[first]..RuleIndex[last]
IsBinaryRule_Short(r) ==   \* mutant: the last range ends at the wrong rule
    \/ Within(r, "logicalOrExpression", "closedMultiplicativeExpression")
    \/ Within(r, "conditionLogicalOrExpression", "conditionClosedMultiplicativeExpression")
    \/ Within(r, "conditionBreakLogicalOrExpression", "conditionBreakClosedMultiplicativeExpression")
    \/ Within(r, "statementLogicalOrExpression", "statementAdditiveExpression")
IsBinaryRule(r) ==
    \/ Within(r, "logicalOrExpression", "closedMultiplicativeExpression")
    \/ Within(r, "conditionLogicalOrExpression", "conditionClosedMultiplicativeExpression")
    \/ Within(r, "conditionBreakLogicalOrExpression", "conditionBreakClosedMultiplicativeExpression")
    \/ Within(r, "statementLogicalOrExpression", "statementClosedMultiplicativeExpression")

RECURSIVE FoldBinary(_, _)
FoldBinary(left, ns) ==
    IF ns = <<>> THEN left
    ELSE IF Len(ns) = 1 THEN Panic
    ELSE LET op == BuildBinaryOp(ns[1])
         IN FoldBinary(IF op = "Panic" THEN Panic
                       ELSE <<"Binary", op, 0, <<left, BuildNode(ns[2])>>>>, SubSeq(ns, 3, Len(ns)))
BuildBinaryExpr(n) ==
    IF Len(n[3]) < 3 THEN Panic ELSE FoldBinary(BuildNode(n[3][1]), Tail(n[3]))

RECURSIVE FoldCasts(_, _)
FoldCasts(e, types) ==
    IF types = <<>> THEN e
    ELSE FoldCasts(<<"Cast", "", 0, <<e, BuildNode(Head(types))>>>>, Tail(types))
BuildCastExpr(n) ==
    LET types == SelectSeq(Tail(n[3]), IsRule) IN
    IF types = <<>> \/ ~\A i \in DOMAIN types : types[i][1] \in {"typeRef", "closedCastType"}
    THEN Panic
    ELSE FoldCasts(BuildNode(n[3][1]), types)

AssignOps == [PLUS_ASSIGN |-> "Add", MINUS_ASSIGN |-> "Sub", STAR_ASSIGN |-> "Mul",
              SLASH_ASSIGN |-> "Div", PERCENT_ASSIGN |-> "Rem", AMP_ASSIGN |-> "BitAnd",
              PIPE_ASSIGN |-> "BitOr", CARET_ASSIGN |-> "BitXor", SHL_ASSIGN |-> "Shl",
              GT |-> "Shr", equalsSign |-> "Assign"]
BuildAssignmentExpr(n) ==
    LET token == n[3][2][3][1][1] IN
    IF token \notin DOMAIN AssignOps THEN Panic
    ELSE <<"Assign", AssignOps[token], 0, <<BuildNode(n[3][1]), BuildNode(n[3][3])>>>>

BuildUnaryExpr(n) ==
    LET operator == n[3][1]
        token == operator[3][1][1]
        op == CASE token = "MINUS" -> "Neg"
                [] token = "NOT" -> "Not"
                [] token = "STAR" -> "Deref"
                [] token \in {"AMP", "ANDAND"} ->
                     IF Has(operator, {"MUT"}) THEN "BorrowMut" ELSE "Borrow"
        expr == <<"Unary", op, 0, <<BuildNode(n[3][2])>>>>
    IN IF token = "ANDAND" THEN <<"Unary", "Borrow", 0, <<expr>>>> ELSE expr
-----------------------------------------------------------------------------
\* Suffixes, loops, branches and primaries

BuildCallArgs(n) == MapNodes(BuildNode, Rules(n, {"expression"}))

BuildDotSuffix(n, base) ==
    LET methods == Rules(n, {"pathExprSegment"})
        method == BuildPathSegment(methods[1])
    IN IF methods = <<>> THEN <<"Field", "", Name(n), <<base>>>>
       ELSE IF method[4] # <<>> THEN Diagnosed
       ELSE <<"MethodCall", "", 0,
              <<base, method>> \o BuildCallArgs(Rules(n, {"callArguments"})[1])>>

BuildPostfixSuffix(n, base) ==
    LET suffix == IF n[1] = "postfixSuffix" /\ IsRule(n[3][1]) THEN n[3][1] ELSE n IN
    CASE suffix[1] = "callArguments" -> <<"Call", "", 0, <<base>> \o BuildCallArgs(suffix)>>
      [] suffix[1] = "postfixSuffix" ->
            <<"Index", "", 0, <<base, BuildNode(Rules(suffix, {"expression"})[1])>>>>
      [] suffix[1] = "dotSuffix" -> BuildDotSuffix(suffix, base)
      [] OTHER -> Panic

RECURSIVE FoldSuffixes(_, _)
FoldSuffixes(e, ns) ==
    IF ns = <<>> THEN e ELSE FoldSuffixes(BuildPostfixSuffix(Head(ns), e), Tail(ns))
BuildPostfixExpr(n) == FoldSuffixes(BuildNode(n[3][1]), Tail(n[3]))

BuildLoopExpr(n) ==
    LET body == LastOr(BuildBlockExpr, Rules(n, {"blockExpression"})) IN
    CASE n[3][1][1] = "LOOP" -> <<"Loop", "", 0, <<body>>>>
      [] n[3][1][1] = "WHILE" ->
            <<"While", "", 0, <<LastOr(BuildNode, Rules(n, {"conditionExpression"})), body>>>>
      [] OTHER -> Panic

BuildIfExpr(n) ==
    <<"If", "", 0, <<LastOr(BuildNode, Rules(n, {"conditionExpression"}))>>
                   \o MapNodes(BuildNode, Rules(n, {"blockExpression", "ifExpression"}))>>

BuildStructExprField(n) ==
    <<"FieldValue", "", Name(n), <<LastOr(BuildNode, Rules(n, {"expression"}))>>>>

BuildStructExpr(n) ==
    LET fields == Rules(n, {"structExprFields"})
    IN <<"Struct", "", 0,
         <<LastOr(BuildPath, Rules(n, {"pathInExpression"}))>>
         \o (IF fields = <<>> THEN <<>>
             ELSE MapNodes(BuildStructExprField, Rules(fields[1], {"structExprField"})))>>

BuildArrayExpr(n) ==
    LET elements == MapNodes(BuildNode, Rules(n, {"expression"}))
        lens == Rules(n, {"constValue"})
    IN IF lens = <<>> THEN <<"Array", "Elements", 0, elements>>
       ELSE <<"Array", "Repeat", 0, <<elements[Len(elements)], BuildNode(lens[1])>>>>

BuildLiteralExpr(n) ==
    LET c == n[3][1] IN
    CASE c[1] = "INTEGER_LITERAL" -> BuildIntLiteral(c)
      [] c[1] \in {"TRUE", "FALSE"} -> <<"Bool", c[1], 0, <<>>>>
      [] OTHER -> Panic

BuildPrimaryExpr(n) ==
    LET c == n[3][1]
        operand == MapNodes(BuildNode, SelectSeq(n[3], IsRule))
    IN CASE c[1] = "pathInExpression" -> BuildStructExpr(n)
         [] c[1] = "LPAREN" -> IF Has(n, {"expression"}) THEN operand[1] ELSE <<"Unit", "", 0, <<>>>>
         [] c[1] = "BREAK" -> <<"Break", "", 0, operand>>
         [] c[1] = "RETURN" -> <<"Return", "", 0, operand>>
         [] c[1] = "CONTINUE" -> <<"Continue", "", 0, <<>>>>
         [] c[1] \in {"LOOP", "WHILE"} -> BuildLoopExpr(n)
         [] OTHER -> Panic

\* A rule that only passes its one part on leaves no node of its own
RECURSIVE Unwrapped(_)
Unwrapped(n) ==
    IF Len(n[3]) = 1 /\ IsRule(n[3][1]) /\ n[1] # "pathInExpression" THEN Unwrapped(n[3][1]) ELSE n

BuildExpr(part) ==
    LET n == Unwrapped(part) IN
    CASE n[1] = "literalExpression" -> BuildLiteralExpr(n)
      [] n[1] = "pathInExpression" -> BuildPath(n)
      [] n[1] = "arrayExpression" -> BuildArrayExpr(n)
      [] n[1] = "blockExpression" -> BuildBlockExpr(n)
      [] n[1] = "ifExpression" -> BuildIfExpr(n)
      [] n[1] = "expressionWithBlock" -> BuildLoopExpr(n)
      [] n[1] \in {"nonBlockPrimary", "conditionPrimaryWithoutBareBlock"} -> BuildPrimaryExpr(n)
      [] n[1] \in {"postfixExpression", "conditionPostfixExpression",
                   "conditionBreakPostfixExpression", "statementPostfixExpression"} ->
            BuildPostfixExpr(n)
      [] n[1] \in {"unaryExpression", "conditionUnaryExpression",
                   "conditionBreakUnaryExpression", "statementUnaryExpression"} ->
            BuildUnaryExpr(n)
      [] n[1] \in {"castExpression", "closedCastExpression", "conditionCastExpression",
                   "conditionClosedCastExpression", "conditionBreakCastExpression",
                   "conditionBreakClosedCastExpression", "statementCastExpression",
                   "statementClosedCastExpression"} -> BuildCastExpr(n)
      [] n[1] \in {"assignmentExpression", "conditionAssignmentExpression",
                   "conditionBreakAssignmentExpression", "statementAssignmentExpression"} ->
            BuildAssignmentExpr(n)
      [] OTHER -> IF IsBinaryRule(n[1]) THEN BuildBinaryExpr(n) ELSE Panic
-----------------------------------------------------------------------------
\* Items

BuildReceiver(n) ==
    CASE Has(n, {"AMP"}) -> IF Has(n, {"MUT"}) THEN "&mut self" ELSE "&self"
      [] OTHER -> IF Has(n, {"MUT"}) THEN "mut self" ELSE "self"

BuildParam(n) ==
    LET binding == BuildBinding(Rules(n, {"identifierBinding"})[1])
    IN <<"Param", binding[1], binding[2], <<LastOr(BuildNode, Rules(n, {"typeRef"}))>>>>

BuildFunction(n) ==
    LET lists == Rules(n, {"functionParameters"})
        list == IF lists = <<>> THEN n ELSE lists[1]
        receivers == Rules(list, {"selfParam"})
        returns == Rules(n, {"typeRef"})
    IN <<"Function", IF receivers = <<>> THEN "" ELSE BuildReceiver(receivers[1]), Name(n),
         MapNodes(BuildParam, Rules(list, {"functionParam"}))
         \o <<IF returns = <<>> THEN TyUnit ELSE LastOr(BuildNode, returns)>>
         \o <<LastOr(BuildBlockExpr, Rules(n, {"blockExpression"}))>>>>

BuildDerive(n) == <<"Derive", n[3][1][1], 0, <<>>>>
BuildStructField(n) == <<"StructField", "", Name(n), <<LastOr(BuildNode, Rules(n, {"typeRef"}))>>>>

RECURSIVE Concat(_)
Concat(ss) == IF ss = <<>> THEN <<>> ELSE Head(ss) \o Concat(Tail(ss))

BuildStruct(n) ==
    LET attributes == Rules(n, {"outerAttribute"})
        derives == MapNodes(LAMBDA a : MapNodes(BuildDerive, Rules(a, {"deriveName"})), attributes)
    IN <<"StructItem", "", Name(n),
         Concat(derives) \o MapNodes(BuildStructField, Rules(n, {"structField"}))>>

BuildConstItem(n) ==
    <<"ConstItem", "", Name(n), <<LastOr(BuildNode, Rules(n, {"typeRef"})),
                                  LastOr(BuildNode, Rules(n, {"constValue"}))>>>>

BuildAssociatedItem(n) ==
    CASE n[3][1][1] = "constantItem" -> BuildConstItem(n[3][1])
      [] n[3][1][1] = "functionDefinition" -> BuildFunction(n[3][1])
      [] OTHER -> Panic

BuildImpl(n) ==
    <<"Impl", "", 0, <<LastOr(BuildNode, Rules(n, {"typeRef"}))>>
                     \o MapNodes(BuildAssociatedItem, Rules(n, {"associatedItem"}))>>

BuildItem(n) ==
    CASE n[3][1][1] = "functionDefinition" -> BuildFunction(n[3][1])
      [] n[3][1][1] = "structDefinition" -> BuildStruct(n[3][1])
      [] n[3][1][1] = "constantItem" -> BuildConstItem(n[3][1])
      [] n[3][1][1] = "inherentImpl" -> BuildImpl(n[3][1])
      [] OTHER -> Panic

BuildCrate(n) ==
    <<"Crate", "", 0,
      MapNodes(BuildItem, SelectSeq(Rules(n, {"item"}), LAMBDA i : i[3][1][1] # "useDeclaration"))>>

BuildNode(n) ==
    CASE n[1] = "crate" -> BuildCrate(n)
      [] n[1] \in {"typeRef", "closedCastType"} -> BuildTy(n)
      [] n[1] \in {"constValue", "magnitude"} -> BuildConstValue(n)
      [] OTHER -> BuildExpr(n)
=============================================================================
