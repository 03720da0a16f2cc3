------------------------------ MODULE RxGrammar ------------------------------
(***************************************************************************)
(* The rules the generated parser follows, one definition per generated     *)
(* rule function, in the notation of a BNF grammar.  A rule is data: a term *)
(* over tokens, rules, sequence (&), choice (|, tried in order), option     *)
(* (^#) and repetition (^* ), both of which prefer to go on.                *)
(***************************************************************************)
EXTENDS Naturals, Sequences

T(name) == <<"tok", name, <<>>>>
R(name) == <<"rule", name, <<>>>>
a & b == <<"cat", "", <<a, b>>>>
a | b == <<"alt", "", <<a, b>>>>
a ^# == <<"opt", "", <<a>>>>
a ^* == <<"rep", "", <<a>>>>

-----------------------------------------------------------------------------
\* Items

crate == R("item")^* & T("EOF")

item ==
      R("useDeclaration")
    | R("functionDefinition")
    | R("structDefinition")
    | R("constantItem")
    | R("inherentImpl")

useDeclaration == T("USE") & R("useTree") & T("SEMI")

useTree ==
      (R("usePath")^# & T("PATHSEP"))^# & (T("STAR") | T("LBRACE") & (R("useTree")
        & (T("COMMA") & R("useTree"))^* & T("COMMA")^#)^# & T("RBRACE"))
    | R("usePath") & (T("AS") & (R("identifier") | T("UNDERSCORE")))^#

usePath == T("PATHSEP")^# & R("usePathSegment") & (T("PATHSEP") & R("usePathSegment"))^*
usePathSegment == R("identifier") | T("SELF_VALUE") | T("SUPER") | T("CRATE")

functionDefinition ==
    T("FN") & R("identifier") & R("genericParams")^# & T("LPAREN") & R("functionParameters")^#
        & T("RPAREN") & (T("ARROW") & R("typeRef"))^# & R("whereClause")^# & R("blockExpression")

functionParameters ==
      R("selfParam") & (T("COMMA") & R("functionParam"))^* & T("COMMA")^#
    | R("functionParam") & (T("COMMA") & R("functionParam"))^* & T("COMMA")^#

selfParam == (T("AMP") & R("lifetime")^#)^# & T("MUT")^# & T("SELF_VALUE")
functionParam == R("identifierBinding") & T("COLON") & R("typeRef")

structDefinition ==
    R("outerAttribute")^* & T("STRUCT") & R("identifier") & R("genericParams")^#
        & R("whereClause")^# & T("LBRACE") & (R("structField") & (T("COMMA")
        & R("structField"))^* & T("COMMA")^#)^# & T("RBRACE")

structField == R("identifier") & T("COLON") & R("typeRef")

outerAttribute ==
    T("HASH") & T("LBRACKET") & T("DERIVE") & T("LPAREN") & (R("deriveName") & (T("COMMA")
        & R("deriveName"))^* & T("COMMA")^#)^# & T("RPAREN") & T("RBRACKET")

deriveName == T("COPY") | T("CLONE") | T("PARTIAL_EQ") | T("EQ")

constantItem ==
    T("CONST") & R("identifier") & T("COLON") & R("typeRef") & R("equalsSign")
        & R("constValue") & T("SEMI")

inherentImpl ==
    T("IMPL") & R("genericParams")^# & R("typeRef") & R("whereClause")^# & T("LBRACE")
        & R("associatedItem")^* & T("RBRACE")

associatedItem == R("constantItem") | R("functionDefinition")

genericParams ==
    T("LT") & (R("lifetimeParam") & (T("COMMA") & R("lifetimeParam"))^* & T("COMMA")^#)^#
        & R("genericClose")

lifetimeParam == R("lifetime") & (T("COLON") & R("lifetimeBounds"))^#
lifetime == T("LIFETIME")

lifetimeBounds == (R("lifetime") & T("PLUS"))^* & R("lifetime")^#
typeParamBounds == R("lifetime") & (T("PLUS") & R("lifetime"))^* & T("PLUS")^#

whereClause ==
    T("WHERE") & (R("whereClauseItem") & (T("COMMA") & R("whereClauseItem"))^* & T("COMMA")^#)^#

whereClauseItem ==
      R("lifetime") & T("COLON") & R("lifetimeBounds")
    | R("typeRef") & T("COLON") & R("typeParamBounds")^#

-----------------------------------------------------------------------------
\* Types, paths and generic arguments

typeRef ==
      T("LPAREN") & R("typeRef") & T("RPAREN")
    | T("LPAREN") & T("RPAREN")
    | R("typePath")
    | R("referenceType")
    | R("arrayType")

referenceType == (T("AMP") | T("ANDAND")) & R("lifetime")^# & T("MUT")^# & R("typeRef")
arrayType == T("LBRACKET") & R("typeRef") & T("SEMI") & R("constValue") & T("RBRACKET")

typePath == R("typePathSegment") & (T("PATHSEP") & R("typePathSegment"))^*
typePathSegment == R("pathIdentSegment") & (T("PATHSEP")^# & R("genericArgs"))^#

pathInExpression == R("pathExprSegment") & (T("PATHSEP") & R("pathExprSegment"))^*
pathExprSegment == R("pathIdentSegment") & (T("PATHSEP") & R("genericArgs"))^#

pathIdentSegment == R("identifier") | T("SELF_VALUE") | T("SELF_TYPE")

genericArgs ==
    T("LT") & (R("genericArg") & (T("COMMA") & R("genericArg"))^* & T("COMMA")^#)^#
        & R("genericClose")

genericArg == R("lifetime") | R("typeRef")
genericClose == T("GT") | T("GT_SECOND")

closedCastType ==
      T("LPAREN") & R("typeRef")^# & T("RPAREN")
    | R("arrayType")
    | (T("AMP") | T("ANDAND")) & R("lifetime")^# & T("MUT")^# & R("closedCastType")
    | (R("typePathSegment") & T("PATHSEP"))^* & R("pathIdentSegment") & T("PATHSEP")^#
        & R("genericArgs")

-----------------------------------------------------------------------------
\* Constant expressions, bindings and statements

constValue ==
      T("INTEGER_LITERAL")
    | T("TRUE")
    | T("FALSE")
    | R("pathInExpression")
    | T("MINUS") & R("magnitude")
    | T("LPAREN") & R("constValue") & T("RPAREN")

magnitude ==
      T("INTEGER_LITERAL")
    | R("pathInExpression")
    | T("LPAREN") & R("magnitude") & T("RPAREN")

identifierBinding == T("MUT")^# & R("identifier")

letStatement ==
    T("LET") & R("identifierBinding") & (T("COLON") & R("typeRef"))^# & R("equalsSign")
        & R("expression") & T("SEMI")

blockExpression == T("LBRACE") & R("statement")^* & R("statementExpression")^# & T("RBRACE")

statement ==
      T("SEMI")
    | R("letStatement")
    | R("expressionWithBlock") & T("SEMI")^#
    | R("statementExpression") & T("SEMI")

expressionWithBlock ==
      R("blockExpression")
    | R("ifExpression")
    | T("LOOP") & R("blockExpression")
    | T("WHILE") & R("conditionExpression") & R("blockExpression")

ifExpression ==
    T("IF") & R("conditionExpression") & R("blockExpression") & (T("ELSE")
        & (R("blockExpression") | R("ifExpression")))^#

-----------------------------------------------------------------------------
\* Ordinary value expressions, loosest operator first.  The closed* rules end in
\* a type that a following < cannot be taken to open the type arguments of.

expression == R("assignmentExpression")

assignmentExpression == R("logicalOrExpression") & (R("assignmentOperator") & R("expression"))^#
logicalOrExpression == R("logicalAndExpression") & (T("OROR") & R("logicalAndExpression"))^*

logicalAndExpression == R("comparisonExpression") & (T("ANDAND") & R("comparisonExpression"))^*

comparisonExpression ==
      R("bitOrExpression") & (R("comparisonExceptLt") & R("bitOrExpression"))^#
    | R("closedBitOrExpression") & T("LT") & R("bitOrExpression")

bitOrExpression == R("bitXorExpression") & (T("PIPE") & R("bitXorExpression"))^*
closedBitOrExpression == (R("bitXorExpression") & T("PIPE"))^* & R("closedBitXorExpression")

bitXorExpression == R("bitAndExpression") & (T("CARET") & R("bitAndExpression"))^*
closedBitXorExpression == (R("bitAndExpression") & T("CARET"))^* & R("closedBitAndExpression")

bitAndExpression == R("shiftExpression") & (T("AMP") & R("shiftExpression"))^*
closedBitAndExpression == (R("shiftExpression") & T("AMP"))^* & R("closedShiftExpression")

shiftExpression ==
    (R("closedAdditiveExpression") & T("SHL") | R("additiveExpression") & R("shiftRight"))^*
        & R("additiveExpression")

closedShiftExpression ==
    (R("closedAdditiveExpression") & T("SHL") | R("additiveExpression") & R("shiftRight"))^*
        & R("closedAdditiveExpression")

additiveExpression ==
    R("multiplicativeExpression") & (R("additiveOperator") & R("multiplicativeExpression"))^*

closedAdditiveExpression ==
    (R("multiplicativeExpression") & R("additiveOperator"))^* & R("closedMultiplicativeExpression")

multiplicativeExpression ==
    R("castExpression") & (R("multiplicativeOperator") & R("castExpression"))^*

closedMultiplicativeExpression ==
    (R("castExpression") & R("multiplicativeOperator"))^* & R("closedCastExpression")

castExpression == R("unaryExpression") & (T("AS") & R("typeRef"))^*
closedCastExpression == R("unaryExpression") | R("castExpression") & T("AS") & R("closedCastType")

unaryExpression == R("unaryOperator") & R("unaryExpression") | R("postfixExpression")
postfixExpression == R("primaryExpression") & R("postfixSuffix")^*

-----------------------------------------------------------------------------
\* The same ladder for conditions, which hold no undelimited struct expression

conditionExpression == R("conditionAssignmentExpression")

conditionAssignmentExpression ==
    R("conditionLogicalOrExpression") & (R("assignmentOperator") & R("conditionExpression"))^#

conditionLogicalOrExpression ==
    R("conditionLogicalAndExpression") & (T("OROR") & R("conditionLogicalAndExpression"))^*

conditionLogicalAndExpression ==
    R("conditionComparisonExpression") & (T("ANDAND") & R("conditionComparisonExpression"))^*

conditionComparisonExpression ==
      R("conditionBitOrExpression") & (R("comparisonExceptLt") & R("conditionBitOrExpression"))^#
    | R("conditionClosedBitOrExpression") & T("LT") & R("conditionBitOrExpression")

conditionBitOrExpression ==
    R("conditionBitXorExpression") & (T("PIPE") & R("conditionBitXorExpression"))^*

conditionClosedBitOrExpression ==
    (R("conditionBitXorExpression") & T("PIPE"))^* & R("conditionClosedBitXorExpression")

conditionBitXorExpression ==
    R("conditionBitAndExpression") & (T("CARET") & R("conditionBitAndExpression"))^*

conditionClosedBitXorExpression ==
    (R("conditionBitAndExpression") & T("CARET"))^* & R("conditionClosedBitAndExpression")

conditionBitAndExpression ==
    R("conditionShiftExpression") & (T("AMP") & R("conditionShiftExpression"))^*

conditionClosedBitAndExpression ==
    (R("conditionShiftExpression") & T("AMP"))^* & R("conditionClosedShiftExpression")

conditionShiftExpression ==
    (R("conditionClosedAdditiveExpression") & T("SHL") | R("conditionAdditiveExpression")
        & R("shiftRight"))^* & R("conditionAdditiveExpression")

conditionClosedShiftExpression ==
    (R("conditionClosedAdditiveExpression") & T("SHL") | R("conditionAdditiveExpression")
        & R("shiftRight"))^* & R("conditionClosedAdditiveExpression")

conditionAdditiveExpression ==
    R("conditionMultiplicativeExpression") & (R("additiveOperator")
        & R("conditionMultiplicativeExpression"))^*

conditionClosedAdditiveExpression ==
    (R("conditionMultiplicativeExpression") & R("additiveOperator"))^*
        & R("conditionClosedMultiplicativeExpression")

conditionMultiplicativeExpression ==
    R("conditionCastExpression") & (R("multiplicativeOperator") & R("conditionCastExpression"))^*

conditionClosedMultiplicativeExpression ==
    (R("conditionCastExpression") & R("multiplicativeOperator"))^*
        & R("conditionClosedCastExpression")

conditionCastExpression == R("conditionUnaryExpression") & (T("AS") & R("typeRef"))^*

conditionClosedCastExpression ==
      R("conditionUnaryExpression")
    | R("conditionCastExpression") & T("AS") & R("closedCastType")

conditionUnaryExpression ==
      R("unaryOperator") & R("conditionUnaryExpression")
    | R("conditionPostfixExpression")

conditionPostfixExpression == R("conditionPrimary") & R("postfixSuffix")^*

-----------------------------------------------------------------------------
\* The operand of a break in a condition: its first primary is not a bare block

conditionBreakExpression == R("conditionBreakAssignmentExpression")

conditionBreakAssignmentExpression ==
    R("conditionBreakLogicalOrExpression") & (R("assignmentOperator") & R("conditionExpression"))^#

conditionBreakLogicalOrExpression ==
    R("conditionBreakLogicalAndExpression") & (T("OROR") & R("conditionLogicalAndExpression"))^*

conditionBreakLogicalAndExpression ==
    R("conditionBreakComparisonExpression") & (T("ANDAND") & R("conditionComparisonExpression"))^*

conditionBreakComparisonExpression ==
      R("conditionBreakBitOrExpression") & (R("comparisonExceptLt")
        & R("conditionBitOrExpression"))^#
    | R("conditionBreakClosedBitOrExpression") & T("LT") & R("conditionBitOrExpression")

conditionBreakBitOrExpression ==
    R("conditionBreakBitXorExpression") & (T("PIPE") & R("conditionBitXorExpression"))^*

conditionBreakClosedBitOrExpression ==
      R("conditionBreakClosedBitXorExpression")
    | R("conditionBreakBitXorExpression") & T("PIPE") & (R("conditionBitXorExpression")
        & T("PIPE"))^* & R("conditionClosedBitXorExpression")

conditionBreakBitXorExpression ==
    R("conditionBreakBitAndExpression") & (T("CARET") & R("conditionBitAndExpression"))^*

conditionBreakClosedBitXorExpression ==
      R("conditionBreakClosedBitAndExpression")
    | R("conditionBreakBitAndExpression") & T("CARET") & (R("conditionBitAndExpression")
        & T("CARET"))^* & R("conditionClosedBitAndExpression")

conditionBreakBitAndExpression ==
    R("conditionBreakShiftExpression") & (T("AMP") & R("conditionShiftExpression"))^*

conditionBreakClosedBitAndExpression ==
      R("conditionBreakClosedShiftExpression")
    | R("conditionBreakShiftExpression") & T("AMP") & (R("conditionShiftExpression")
        & T("AMP"))^* & R("conditionClosedShiftExpression")

conditionBreakShiftExpression ==
      R("conditionBreakAdditiveExpression")
    | (R("conditionBreakClosedAdditiveExpression") & T("SHL")
        | R("conditionBreakAdditiveExpression") & R("shiftRight"))
        & (R("conditionClosedAdditiveExpression") & T("SHL") | R("conditionAdditiveExpression")
        & R("shiftRight"))^* & R("conditionAdditiveExpression")

conditionBreakClosedShiftExpression ==
      R("conditionBreakClosedAdditiveExpression")
    | (R("conditionBreakClosedAdditiveExpression") & T("SHL")
        | R("conditionBreakAdditiveExpression") & R("shiftRight"))
        & (R("conditionClosedAdditiveExpression") & T("SHL") | R("conditionAdditiveExpression")
        & R("shiftRight"))^* & R("conditionClosedAdditiveExpression")

conditionBreakAdditiveExpression ==
    R("conditionBreakMultiplicativeExpression") & (R("additiveOperator")
        & R("conditionMultiplicativeExpression"))^*

conditionBreakClosedAdditiveExpression ==
      R("conditionBreakClosedMultiplicativeExpression")
    | R("conditionBreakMultiplicativeExpression") & R("additiveOperator")
        & (R("conditionMultiplicativeExpression") & R("additiveOperator"))^*
        & R("conditionClosedMultiplicativeExpression")

conditionBreakMultiplicativeExpression ==
    R("conditionBreakCastExpression") & (R("multiplicativeOperator")
        & R("conditionCastExpression"))^*

conditionBreakClosedMultiplicativeExpression ==
      R("conditionBreakClosedCastExpression")
    | R("conditionBreakCastExpression") & R("multiplicativeOperator")
        & (R("conditionCastExpression") & R("multiplicativeOperator"))^*
        & R("conditionClosedCastExpression")

conditionBreakCastExpression == R("conditionBreakUnaryExpression") & (T("AS") & R("typeRef"))^*

conditionBreakClosedCastExpression ==
      R("conditionBreakUnaryExpression")
    | R("conditionBreakCastExpression") & T("AS") & R("closedCastType")

conditionBreakUnaryExpression ==
      R("unaryOperator") & R("conditionUnaryExpression")
    | R("conditionBreakPostfixExpression")

conditionBreakPostfixExpression == R("conditionPrimaryWithoutBareBlock") & R("postfixSuffix")^*

-----------------------------------------------------------------------------
\* The start of a statement: a leading block goes on only through a dot suffix

statementExpression == R("statementAssignmentExpression")

statementAssignmentExpression ==
    R("statementLogicalOrExpression") & (R("assignmentOperator") & R("expression"))^#

statementLogicalOrExpression ==
    R("statementLogicalAndExpression") & (T("OROR") & R("logicalAndExpression"))^*

statementLogicalAndExpression ==
    R("statementComparisonExpression") & (T("ANDAND") & R("comparisonExpression"))^*

statementComparisonExpression ==
      R("statementBitOrExpression") & (R("comparisonExceptLt") & R("bitOrExpression"))^#
    | R("statementClosedBitOrExpression") & T("LT") & R("bitOrExpression")

statementBitOrExpression == R("statementBitXorExpression") & (T("PIPE") & R("bitXorExpression"))^*

statementClosedBitOrExpression ==
      R("statementClosedBitXorExpression")
    | R("statementBitXorExpression") & T("PIPE") & (R("bitXorExpression") & T("PIPE"))^*
        & R("closedBitXorExpression")

statementBitXorExpression == R("statementBitAndExpression") & (T("CARET") & R("bitAndExpression"))^*

statementClosedBitXorExpression ==
      R("statementClosedBitAndExpression")
    | R("statementBitAndExpression") & T("CARET") & (R("bitAndExpression") & T("CARET"))^*
        & R("closedBitAndExpression")

statementBitAndExpression == R("statementShiftExpression") & (T("AMP") & R("shiftExpression"))^*

statementClosedBitAndExpression ==
      R("statementClosedShiftExpression")
    | R("statementShiftExpression") & T("AMP") & (R("shiftExpression") & T("AMP"))^*
        & R("closedShiftExpression")

statementShiftExpression ==
      R("statementAdditiveExpression")
    | (R("statementClosedAdditiveExpression") & T("SHL") | R("statementAdditiveExpression")
        & R("shiftRight")) & (R("closedAdditiveExpression") & T("SHL")
        | R("additiveExpression") & R("shiftRight"))^* & R("additiveExpression")

statementClosedShiftExpression ==
      R("statementClosedAdditiveExpression")
    | (R("statementClosedAdditiveExpression") & T("SHL") | R("statementAdditiveExpression")
        & R("shiftRight")) & (R("closedAdditiveExpression") & T("SHL")
        | R("additiveExpression") & R("shiftRight"))^* & R("closedAdditiveExpression")

statementAdditiveExpression ==
    R("statementMultiplicativeExpression") & (R("additiveOperator")
        & R("multiplicativeExpression"))^*

statementClosedAdditiveExpression ==
      R("statementClosedMultiplicativeExpression")
    | R("statementMultiplicativeExpression") & R("additiveOperator")
        & (R("multiplicativeExpression") & R("additiveOperator"))^*
        & R("closedMultiplicativeExpression")

statementMultiplicativeExpression ==
    R("statementCastExpression") & (R("multiplicativeOperator") & R("castExpression"))^*

statementClosedMultiplicativeExpression ==
      R("statementClosedCastExpression")
    | R("statementCastExpression") & R("multiplicativeOperator") & (R("castExpression")
        & R("multiplicativeOperator"))^* & R("closedCastExpression")

statementCastExpression == R("statementUnaryExpression") & (T("AS") & R("typeRef"))^*

statementClosedCastExpression ==
      R("statementUnaryExpression")
    | R("statementCastExpression") & T("AS") & R("closedCastType")

statementUnaryExpression ==
      R("unaryOperator") & R("unaryExpression")
    | R("statementPostfixExpression")

statementPostfixExpression ==
      R("nonBlockPrimary") & R("postfixSuffix")^*
    | R("expressionWithBlock") & R("dotSuffix") & R("postfixSuffix")^*

-----------------------------------------------------------------------------
\* Primaries, suffixes and operators

primaryExpression == R("nonBlockPrimary") | R("expressionWithBlock")

nonBlockPrimary ==
      R("literalExpression")
    | R("pathInExpression") & (T("LBRACE") & R("structExprFields")^# & T("RBRACE"))^#
    | T("LPAREN") & R("expression")^# & T("RPAREN")
    | R("arrayExpression")
    | T("BREAK") & R("expression")^#
    | T("RETURN") & R("expression")^#
    | T("CONTINUE")

conditionPrimary_Struct ==   \* mutant: a struct expression in a condition
    R("nonBlockPrimary") | R("expressionWithBlock")
conditionPrimary == R("conditionPrimaryWithoutBareBlock") | R("blockExpression")

conditionPrimaryWithoutBareBlock ==
      R("literalExpression")
    | R("pathInExpression")
    | T("LPAREN") & R("expression")^# & T("RPAREN")
    | R("arrayExpression")
    | R("ifExpression")
    | T("LOOP") & R("blockExpression")
    | T("WHILE") & R("conditionExpression") & R("blockExpression")
    | T("BREAK") & R("conditionBreakExpression")^#
    | T("RETURN") & R("conditionExpression")^#
    | T("CONTINUE")

literalExpression == T("INTEGER_LITERAL") | T("TRUE") | T("FALSE")
structExprFields == R("structExprField") & (T("COMMA") & R("structExprField"))^* & T("COMMA")^#

structExprField == R("identifier") & T("COLON") & R("expression")

arrayExpression ==
    T("LBRACKET") & (R("expression") & (T("SEMI") & R("constValue") | (T("COMMA")
        & R("expression"))^* & T("COMMA")^#))^# & T("RBRACKET")

postfixSuffix ==
      R("callArguments")
    | T("LBRACKET") & R("expression") & T("RBRACKET")
    | R("dotSuffix")

dotSuffix_FieldFirst ==   \* mutant: x.f() is a call of the field
    T("DOT") & R("identifier") | T("DOT") & R("pathExprSegment") & R("callArguments")
dotSuffix == T("DOT") & R("pathExprSegment") & R("callArguments") | T("DOT") & R("identifier")

callArguments ==
    T("LPAREN") & (R("expression") & (T("COMMA") & R("expression"))^* & T("COMMA")^#)^#
        & T("RPAREN")

unaryOperator == T("MINUS") | T("NOT") | T("STAR") | (T("AMP") | T("ANDAND")) & T("MUT")^#
multiplicativeOperator == T("STAR") | T("SLASH") | T("PERCENT")

additiveOperator == T("PLUS") | T("MINUS")
shiftRight == T("GT") & T("GT_SECOND")

comparisonExceptLt ==
      T("EQEQ")
    | T("NE")
    | T("LE")
    | T("GT") & T("GE_EQ")
    | T("GT_SECOND") & T("SHR_EQ")
    | R("genericClose")

assignmentOperator ==
      R("equalsSign")
    | T("PLUS_ASSIGN")
    | T("MINUS_ASSIGN")
    | T("STAR_ASSIGN")
    | T("SLASH_ASSIGN")
    | T("PERCENT_ASSIGN")
    | T("AMP_ASSIGN")
    | T("PIPE_ASSIGN")
    | T("CARET_ASSIGN")
    | T("SHL_ASSIGN")
    | T("GT") & T("GT_SECOND") & T("SHR_EQ")

equalsSign == T("ASSIGN") | T("GE_EQ") | T("SHR_EQ")
identifier == T("IDENTIFIER") | T("DERIVE") | T("COPY") | T("CLONE") | T("PARTIAL_EQ") | T("EQ")

-----------------------------------------------------------------------------

\* The rules by number, as the generated code and the tree builder index them

RuleNames ==
    <<"crate", "item", "useDeclaration", "useTree", "usePath", "usePathSegment",
      "functionDefinition", "functionParameters", "selfParam", "functionParam",
      "structDefinition", "structField", "outerAttribute", "deriveName", "constantItem",
      "inherentImpl", "associatedItem", "genericParams", "lifetimeParam", "lifetime",
      "lifetimeBounds", "typeParamBounds", "whereClause", "whereClauseItem", "typeRef",
      "referenceType", "arrayType", "typePath", "typePathSegment", "pathInExpression",
      "pathExprSegment", "pathIdentSegment", "genericArgs", "genericArg", "genericClose",
      "closedCastType", "constValue", "magnitude", "identifierBinding", "letStatement",
      "blockExpression", "statement", "expressionWithBlock", "ifExpression", "expression",
      "assignmentExpression", "logicalOrExpression", "logicalAndExpression",
      "comparisonExpression", "bitOrExpression", "closedBitOrExpression",
      "bitXorExpression", "closedBitXorExpression", "bitAndExpression",
      "closedBitAndExpression", "shiftExpression", "closedShiftExpression",
      "additiveExpression", "closedAdditiveExpression", "multiplicativeExpression",
      "closedMultiplicativeExpression", "castExpression", "closedCastExpression",
      "unaryExpression", "postfixExpression", "conditionExpression",
      "conditionAssignmentExpression", "conditionLogicalOrExpression",
      "conditionLogicalAndExpression", "conditionComparisonExpression",
      "conditionBitOrExpression", "conditionClosedBitOrExpression",
      "conditionBitXorExpression", "conditionClosedBitXorExpression",
      "conditionBitAndExpression", "conditionClosedBitAndExpression",
      "conditionShiftExpression", "conditionClosedShiftExpression",
      "conditionAdditiveExpression", "conditionClosedAdditiveExpression",
      "conditionMultiplicativeExpression", "conditionClosedMultiplicativeExpression",
      "conditionCastExpression", "conditionClosedCastExpression",
      "conditionUnaryExpression", "conditionPostfixExpression", "conditionBreakExpression",
      "conditionBreakAssignmentExpression", "conditionBreakLogicalOrExpression",
      "conditionBreakLogicalAndExpression", "conditionBreakComparisonExpression",
      "conditionBreakBitOrExpression", "conditionBreakClosedBitOrExpression",
      "conditionBreakBitXorExpression", "conditionBreakClosedBitXorExpression",
      "conditionBreakBitAndExpression", "conditionBreakClosedBitAndExpression",
      "conditionBreakShiftExpression", "conditionBreakClosedShiftExpression",
      "conditionBreakAdditiveExpression", "conditionBreakClosedAdditiveExpression",
      "conditionBreakMultiplicativeExpression",
      "conditionBreakClosedMultiplicativeExpression", "conditionBreakCastExpression",
      "conditionBreakClosedCastExpression", "conditionBreakUnaryExpression",
      "conditionBreakPostfixExpression", "statementExpression",
      "statementAssignmentExpression", "statementLogicalOrExpression",
      "statementLogicalAndExpression", "statementComparisonExpression",
      "statementBitOrExpression", "statementClosedBitOrExpression",
      "statementBitXorExpression", "statementClosedBitXorExpression",
      "statementBitAndExpression", "statementClosedBitAndExpression",
      "statementShiftExpression", "statementClosedShiftExpression",
      "statementAdditiveExpression", "statementClosedAdditiveExpression",
      "statementMultiplicativeExpression", "statementClosedMultiplicativeExpression",
      "statementCastExpression", "statementClosedCastExpression",
      "statementUnaryExpression", "statementPostfixExpression", "primaryExpression",
      "nonBlockPrimary", "conditionPrimary", "conditionPrimaryWithoutBareBlock",
      "literalExpression", "structExprFields", "structExprField", "arrayExpression",
      "postfixSuffix", "dotSuffix", "callArguments", "unaryOperator",
      "multiplicativeOperator", "additiveOperator", "shiftRight", "comparisonExceptLt",
      "assignmentOperator", "equalsSign", "identifier">>

RuleBodies ==
    <<crate, item, useDeclaration, useTree, usePath, usePathSegment, functionDefinition,
      functionParameters, selfParam, functionParam, structDefinition, structField,
      outerAttribute, deriveName, constantItem, inherentImpl, associatedItem, genericParams,
      lifetimeParam, lifetime, lifetimeBounds, typeParamBounds, whereClause,
      whereClauseItem, typeRef, referenceType, arrayType, typePath, typePathSegment,
      pathInExpression, pathExprSegment, pathIdentSegment, genericArgs, genericArg,
      genericClose, closedCastType, constValue, magnitude, identifierBinding, letStatement,
      blockExpression, statement, expressionWithBlock, ifExpression, expression,
      assignmentExpression, logicalOrExpression, logicalAndExpression, comparisonExpression,
      bitOrExpression, closedBitOrExpression, bitXorExpression, closedBitXorExpression,
      bitAndExpression, closedBitAndExpression, shiftExpression, closedShiftExpression,
      additiveExpression, closedAdditiveExpression, multiplicativeExpression,
      closedMultiplicativeExpression, castExpression, closedCastExpression, unaryExpression,
      postfixExpression, conditionExpression, conditionAssignmentExpression,
      conditionLogicalOrExpression, conditionLogicalAndExpression,
      conditionComparisonExpression, conditionBitOrExpression,
      conditionClosedBitOrExpression, conditionBitXorExpression,
      conditionClosedBitXorExpression, conditionBitAndExpression,
      conditionClosedBitAndExpression, conditionShiftExpression,
      conditionClosedShiftExpression, conditionAdditiveExpression,
      conditionClosedAdditiveExpression, conditionMultiplicativeExpression,
      conditionClosedMultiplicativeExpression, conditionCastExpression,
      conditionClosedCastExpression, conditionUnaryExpression, conditionPostfixExpression,
      conditionBreakExpression, conditionBreakAssignmentExpression,
      conditionBreakLogicalOrExpression, conditionBreakLogicalAndExpression,
      conditionBreakComparisonExpression, conditionBreakBitOrExpression,
      conditionBreakClosedBitOrExpression, conditionBreakBitXorExpression,
      conditionBreakClosedBitXorExpression, conditionBreakBitAndExpression,
      conditionBreakClosedBitAndExpression, conditionBreakShiftExpression,
      conditionBreakClosedShiftExpression, conditionBreakAdditiveExpression,
      conditionBreakClosedAdditiveExpression, conditionBreakMultiplicativeExpression,
      conditionBreakClosedMultiplicativeExpression, conditionBreakCastExpression,
      conditionBreakClosedCastExpression, conditionBreakUnaryExpression,
      conditionBreakPostfixExpression, statementExpression, statementAssignmentExpression,
      statementLogicalOrExpression, statementLogicalAndExpression,
      statementComparisonExpression, statementBitOrExpression,
      statementClosedBitOrExpression, statementBitXorExpression,
      statementClosedBitXorExpression, statementBitAndExpression,
      statementClosedBitAndExpression, statementShiftExpression,
      statementClosedShiftExpression, statementAdditiveExpression,
      statementClosedAdditiveExpression, statementMultiplicativeExpression,
      statementClosedMultiplicativeExpression, statementCastExpression,
      statementClosedCastExpression, statementUnaryExpression, statementPostfixExpression,
      primaryExpression, nonBlockPrimary, conditionPrimary,
      conditionPrimaryWithoutBareBlock, literalExpression, structExprFields,
      structExprField, arrayExpression, postfixSuffix, dotSuffix, callArguments,
      unaryOperator, multiplicativeOperator, additiveOperator, shiftRight,
      comparisonExceptLt, assignmentOperator, equalsSign, identifier>>

RuleSet == {RuleNames[n] : n \in DOMAIN RuleNames}
RuleIndex == [r \in RuleSet |-> CHOOSE n \in DOMAIN RuleNames : RuleNames[n] = r]
Body == [r \in RuleSet |-> RuleBodies[RuleIndex[r]]]
=============================================================================
