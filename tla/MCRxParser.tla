------------------------------ MODULE MCRxParser ------------------------------
(***************************************************************************)
(* Texts for the RxParser runs.  A family tries one part of the language:    *)
(* all texts of up to max tokens from a small alphabet, between a beginning  *)
(* and an end that make a program of them.                                   *)
(***************************************************************************)
EXTENDS RxParser, RxAutomata

\* Defined by another definition's name, which TLC evaluates once
Tables == LET tables == RuleAutomata IN tables

Family(before, tried, after, max) ==
    [before |-> before, tried |-> tried, after |-> after, max |-> max]

InBody == <<"FN", "IDENTIFIER", "LPAREN", "RPAREN", "LBRACE">>
InWhile == Append(InBody, "WHILE")
InLetType == InBody \o <<"LET", "IDENTIFIER", "COLON">>
EndBody == <<"RBRACE">>
EndWhile == <<"LBRACE", "RBRACE", "RBRACE">>

\* Operators: strength, direction, casts before < and <<, the pieces of >, in each
\* of the four copies of the expression rules
OperatorTexts ==
    {Family(InBody, {"IDENTIFIER", "AS", "LT", "SHL", ">", "="}, EndBody, 7),
     Family(InBody, {"IDENTIFIER", "PLUS", "EQEQ", "ANDAND", "OROR", "STAR", "PLUS_ASSIGN"}, EndBody, 5),
     Family(Append(InBody, "IDENTIFIER"),
            {"IDENTIFIER", "SLASH", "SHL", "CARET", "PIPE", "AMP", "NE", "LE"}, EndBody, 4),
     Family(InBody, {"IDENTIFIER", "STAR", "AMP", "MINUS", "ANDAND", "MUT"}, EndBody, 5),
     Family(Append(InBody, "LPAREN"), {"IDENTIFIER", "AS", "MINUS", "LT", "SHL", "="}, <<"RPAREN", "RBRACE">>, 6),
     Family(InWhile, {"IDENTIFIER", "AS", "MINUS", "LT", "SHL", ">", "="}, EndWhile, 6),
     Family(Append(InWhile, "BREAK"), {"IDENTIFIER", "PLUS", "AMP", "LT", "ANDAND", "="}, EndWhile, 5)}

\* Blocks: what ends a statement, what is a tail, what belongs to a condition
BlockTexts ==
    {Family(InBody, {"IDENTIFIER", "LBRACE", "RBRACE", "SEMI", "MINUS"}, EndBody, 6),
     Family(InBody, {"IF", "ELSE", "LOOP", "IDENTIFIER", "LBRACE", "RBRACE", "DOT"}, EndBody, 7),
     Family(InWhile, {"RETURN", "BREAK", "AS", "PLUS", "IDENTIFIER", "LBRACE", "RBRACE"}, EndBody, 5),
     Family(Append(InBody, "IF"), {"LPAREN", "RPAREN", "COLON", "COMMA", "IDENTIFIER", "LBRACE", "RBRACE"},
            EndBody, 7),
     Family(InWhile, {"AMP", "NOT", "DOT", "IDENTIFIER", "LBRACE", "RBRACE", "LPAREN", "RPAREN"}, EndBody, 5),
     Family(Append(InBody, "LET"), {"MUT", "IDENTIFIER", "=", "COLON", "LPAREN", "RPAREN", "SEMI", "CONTINUE"},
            <<"SEMI", "RBRACE">>, 6)}

\* Calls, methods, fields, indices, arrays, struct expressions and paths
SuffixTexts ==
    {Family(InBody, {"IDENTIFIER", "DOT", "LPAREN", "RPAREN", "LBRACKET", "RBRACKET"}, EndBody, 6),
     Family(InBody, {"IDENTIFIER", "DOT", "PATHSEP", "LT", ">", "LPAREN", "RPAREN", "SELF_TYPE"}, EndBody, 7),
     Family(InBody, {"LBRACKET", "RBRACKET", "SEMI", "INTEGER_LITERAL", "IDENTIFIER", "COMMA", "MINUS"}, EndBody, 6),
     Family(InBody, {"IDENTIFIER", "LBRACE", "RBRACE", "COLON", "COMMA", "TRUE"}, EndBody, 6)}

\* Types, where a > closes type arguments, also the first of a >> or a >=
TypeTexts ==
    {Family(InLetType, {"LPAREN", "RPAREN", "IDENTIFIER", "LT", ">", "=", "AMP", "MUT"},
            <<"IDENTIFIER", "SEMI", "RBRACE">>, 6),
     Family(InLetType, {"AMP", "ANDAND", "LBRACKET", "RBRACKET", "SEMI", "INTEGER_LITERAL", "IDENTIFIER",
                        "PATHSEP", "LIFETIME", "LT", ">", "COMMA"}, <<"ASSIGN", "IDENTIFIER", "SEMI", "RBRACE">>, 6),
     Family(InBody \o <<"IDENTIFIER", "AS">>,
            {"AMP", "LBRACKET", "RBRACKET", "LPAREN", "RPAREN", "SEMI", "INTEGER_LITERAL", "IDENTIFIER",
             "PATHSEP", "LT", ">"}, EndBody, 5)}

ItemTexts ==
    {Family(<<>>, {"FN", "IDENTIFIER", "LPAREN", "RPAREN", "LBRACE", "RBRACE", "MUT", "AMP", "SELF_VALUE", "COLON",
                   "COMMA", "ARROW", "LIFETIME"}, <<"IDENTIFIER", "LPAREN", "RPAREN", "LBRACE", "RBRACE">>, 8),
     Family(<<>>, {"HASH", "LBRACKET", "RBRACKET", "DERIVE", "LPAREN", "RPAREN", "COPY", "STRUCT", "IDENTIFIER",
                   "LBRACE", "RBRACE", "COLON", "COMMA"}, <<"LBRACE", "RBRACE">>, 9),
     Family(<<>>, {"IMPL", "IDENTIFIER", "LBRACE", "RBRACE", "CONST", "COLON", "=", "MINUS", "INTEGER_LITERAL", "SEMI",
                   "LT", ">", "LIFETIME", "FN"}, EndBody, 9),
     Family(<<"USE">>, {"IDENTIFIER", "PATHSEP", "STAR", "LBRACE", "RBRACE", "COMMA", "AS"}, <<"SEMI">>, 6),
     Family(<<"FN", "IDENTIFIER">>, {"LT", "LIFETIME", "COLON", "PLUS", "COMMA", ">", "LPAREN", "RPAREN", "WHERE",
                                     "IDENTIFIER"}, <<"LPAREN", "RPAREN", "LBRACE", "RBRACE">>, 7),
     Family(<<"FN", "IDENTIFIER", "LPAREN", "RPAREN", "WHERE">>, {"LIFETIME", "COLON", "PLUS", "COMMA", "IDENTIFIER"},
            <<"LBRACE", "RBRACE">>, 6),
     Family(<<"IMPL", "LT", "LIFETIME", "GT", "IDENTIFIER", "LBRACE", "FN", "IDENTIFIER", "LPAREN">>,
            {"AMP", "LIFETIME", "MUT", "SELF_VALUE", "SELF_TYPE", "COMMA", "IDENTIFIER", "COLON", "RPAREN"},
            <<"LBRACE", "RBRACE", "RBRACE">>, 6)}

AllTexts == OperatorTexts \cup BlockTexts \cup SuffixTexts \cup TypeTexts \cup ItemTexts

\* The operand of a jump in a condition
JumpTexts == {Family(Append(InWhile, "RETURN"), {"IDENTIFIER", "PLUS", "SHL"}, EndWhile, 3)}
=============================================================================
