------------------------------- MODULE RxParser -------------------------------
(***************************************************************************)
(* The front end as a machine that reads one lexeme after the other.  A      *)
(* column holds, after each token, every place in every rule the parser may  *)
(* be at: what the adaptive prediction of the generated parser keeps viable. *)
(* The text is in error at the token that leaves no place.  At the end of    *)
(* the file the parse tree is rebuilt decision by decision, each taking its  *)
(* first alternative the rest of the text allows, and handed to the builder. *)
(***************************************************************************)
EXTENDS AstBuilder, RustSyntax

CONSTANTS
    Texts,          \* families of program texts: what precedes, what is tried, what follows
    ATN             \* the rules and their automata, as RxAutomata makes them

ASSUME ATNAssumption == DOMAIN ATN.rules = RuleSet /\ ATN.empty \subseteq RuleSet

ASSUME TextsAssumption ==
    \A f \in Texts : /\ f.max \in Nat
                     /\ f.before \in Seq(STRING) /\ f.after \in Seq(STRING)

VARIABLES
    text,           \* the family the program text is from
    mode,           \* the lexer's mode
    cols,           \* cols[n + 1]: the places after n tokens, and the rules wanted there
    calls,          \* the rule functions that have not returned, the innermost first
    result          \* "reading", "parsing", "syntax error", "type arguments", or the tree

vars == <<text, toks, mode, cols, calls, result>>

Outcome(what) == <<what, "", 0, <<>>>>
-----------------------------------------------------------------------------
\* One token further.  A place is <<rule, state of the rule, where the rule began>>.

Completed(places) == {<<i[1], i[3]>> : i \in {i \in places : i[2] \in ATN.final[i[1]]}}

Resumed(cs, done) ==
    UNION {{<<u[1], u[2], d[2]>> : u \in {u \in ATN.above[d[1]] : u[1] \in cs[d[2] + 1].wants}}
           \cup UNION {{<<i[1], m[2], i[3]>> : m \in {m \in ATN.delta[i[1]][i[2]] : m[1] = d[1]}}
                        : i \in cs[d[2] + 1].places}
           : d \in done}

RECURSIVE Close(_, _, _)
Close(cs, places, new) ==
    IF new = {} THEN places
    ELSE Close(cs, places \cup new, Resumed(cs, Completed(new)) \ (places \cup new))

Wanted(places) ==
    UNION {ATN.below[r] : r \in UNION {{m[1] : m \in ATN.delta[i[1]][i[2]]} : i \in places} \cap RuleSet}

Shifted(cs, t) ==
    UNION {{<<i[1], m[2], i[3]>> : m \in {m \in ATN.delta[i[1]][i[2]] : m[1] = t}}
             : i \in cs[Len(cs)].places}
    \cup UNION {{<<r, m[2], Len(cs) - 1>> : m \in {m \in ATN.delta[r][1] : m[1] = t}}
             : r \in cs[Len(cs)].wants}

Column(places) == [places |-> places, wants |-> Wanted(places)]
ReadInto(cs, t) == Append(cs, Column(Close(cs, {}, Shifted(cs, t))))

Viable(cs) == cs[Len(cs)].places # {}

RECURSIVE ReadAll(_, _)
ReadAll(cs, ts) ==
    IF ts = <<>> \/ (Len(cs) > 1 /\ ~Viable(cs)) THEN cs
    ELSE ReadAll(ReadInto(cs, Head(ts)), Tail(ts))

Start == <<[places |-> {}, wants |-> ATN.below["crate"]]>>
-----------------------------------------------------------------------------
\* The parse tree.  A node is <<rule or token, first token, children>>.  A call is a
\* rule function that has not returned: what it has read, from and to where, what its
\* decisions have left to read, and where it may end for the rest of the text to fit.

Spans(r, i, j) == \/ \E n \in ATN.final[r] : <<r, n, i>> \in cols[j + 1].places
                  \/ r \in ATN.empty /\ i = j

RECURSIVE EndsOf(_, _)
EndsOf(rest, i) ==
    IF rest = <<>> THEN {i} ELSE
    LET e == Head(rest)  more == Tail(rest) IN
    CASE e[1] = "tok" -> IF i < Len(toks) /\ toks[i + 1] = e[2] THEN EndsOf(more, i + 1) ELSE {}
      [] e[1] = "rule" -> UNION {EndsOf(more, j) : j \in {j \in i..Len(toks) : Spans(e[2], i, j)}}
      [] e[1] = "cat" -> EndsOf(e[3] \o more, i)
      [] e[1] = "alt" -> EndsOf(<<e[3][1]>> \o more, i) \cup EndsOf(<<e[3][2]>> \o more, i)
      [] e[1] = "opt" -> EndsOf(e[3] \o more, i) \cup EndsOf(more, i)
      [] e[1] = "rep" -> EndsOf(e[3] \o rest, i) \cup EndsOf(more, i)

\* Takes every decision before the next token or call: the first way that fits
RECURSIVE Predict(_, _, _)
Predict(rest, i, ends) ==
    IF rest = <<>> THEN rest ELSE
    LET e == Head(rest)
        more == Tail(rest)
        Prefer(way, other) ==
            Predict(IF EndsOf(way, i) \cap ends # {} THEN way ELSE other, i, ends)
    IN CASE e[1] = "cat" -> Predict(e[3] \o more, i, ends)
         [] e[1] = "alt" -> Prefer(<<e[3][1]>> \o more, <<e[3][2]>> \o more)
         [] e[1] = "opt" -> Prefer(e[3] \o more, more)
         [] e[1] = "rep" -> Prefer(e[3] \o rest, more)
         [] OTHER -> rest

Call(r, i, ends) ==
    [rule |-> r, from |-> i, at |-> i, rest |-> <<ATN.rules[r]>>, ends |-> ends, nodes |-> <<>>]

\* Calls and returns up to the next token, and matches it
RECURSIVE ReadToken(_)
ReadToken(stack) ==
    LET f == Head(stack)
        rest == Predict(f.rest, f.at, f.ends)
        e == Head(rest)
        Read(g, node, at, left) == [g EXCEPT !.nodes = Append(@, node), !.at = at, !.rest = left]
    IN CASE rest = <<>> ->
                ReadToken(<<Read(stack[2], <<f.rule, f.from + 1, f.nodes>>, f.at, stack[2].rest)>>
                          \o SubSeq(stack, 3, Len(stack)))
         [] rest # <<>> /\ e[1] = "rule" ->
                ReadToken(<<Call(e[2], f.at, {j \in f.at..Len(toks) :
                                                 /\ Spans(e[2], f.at, j)
                                                 /\ EndsOf(Tail(rest), j) \cap f.ends # {}}),
                            [f EXCEPT !.rest = Tail(rest)]>> \o Tail(stack))
         [] rest # <<>> /\ e[1] = "tok" ->
                <<Read(f, <<e[2], f.at + 1, <<>>>>, f.at + 1, Tail(rest))>> \o Tail(stack)
-----------------------------------------------------------------------------
\* The lexer's modes: after a >, the > and = that touch it are tokens of their own

LexToken(m, lexeme) ==
    CASE lexeme = ">" -> IF m = "AFTER_GT" THEN "GT_SECOND" ELSE "GT"
      [] lexeme = "=" -> CASE m = "AFTER_GT" -> "GE_EQ"
                           [] m = "AFTER_SECOND_GT" -> "SHR_EQ"
                           [] OTHER -> "ASSIGN"
      [] OTHER -> lexeme

LexMode(m, lexeme) ==
    IF lexeme # ">" THEN "DEFAULT" ELSE IF m = "AFTER_GT" THEN "AFTER_SECOND_GT" ELSE "AFTER_GT"
-----------------------------------------------------------------------------
Init ==
    /\ text \in Texts
    /\ toks = text.before
    /\ mode = "DEFAULT"
    /\ cols = ReadAll(Start, text.before)
    /\ calls = <<>>
    /\ result = Outcome("reading")

\* After a > there is no ==: its first = ends the >=
ReadLexeme(lexeme) ==
    /\ result = Outcome("reading")
    /\ ~(lexeme = "EQEQ" /\ mode # "DEFAULT")
    /\ Len(toks) < Len(text.before) + text.max
    /\ toks' = Append(toks, LexToken(mode, lexeme))
    /\ mode' = LexMode(mode, lexeme)
    /\ cols' = ReadInto(cols, LexToken(mode, lexeme))
    /\ result' = IF Viable(cols') THEN result ELSE Outcome("syntax error")
    /\ UNCHANGED <<text, calls>>

\* White space and comments leave no token, and part the pieces of a >
ReadSpace ==
    /\ result = Outcome("reading")
    /\ mode # "DEFAULT"
    /\ mode' = "DEFAULT"
    /\ UNCHANGED <<text, toks, cols, calls, result>>

\* The end of the file: the parser starts on the tokens, if they are a program at all
ReadEnd ==
    /\ result = Outcome("reading")
    /\ toks' = toks \o text.after \o <<"EOF">>
    /\ cols' = ReadAll(cols, text.after \o <<"EOF">>)
    /\ IF Viable(cols')
       THEN calls' = <<Call("crate", 0, {Len(toks')})>> /\ result' = Outcome("parsing")
       ELSE calls' = <<>> /\ result' = Outcome("syntax error")
    /\ UNCHANGED <<text, mode>>

Parse ==
    /\ result = Outcome("parsing")
    /\ Head(calls).at < Len(toks)
    /\ calls' = ReadToken(calls)
    /\ UNCHANGED <<text, toks, mode, cols, result>>

Build ==
    /\ result = Outcome("parsing")
    /\ Head(calls).at = Len(toks)
    /\ LET ast == BuildNode(<<"crate", 1, Head(calls).nodes>>)
       IN result' = IF Contains(ast, "TypeArguments") THEN Outcome("type arguments") ELSE ast
    /\ calls' = <<>>
    /\ cols' = <<>>
    /\ UNCHANGED <<text, toks, mode>>

Next ==
    \/ \E lexeme \in text.tried : ReadLexeme(lexeme)
    \/ ReadSpace
    \/ ReadEnd
    \/ Parse
    \/ Build

Spec == Init /\ [][Next]_vars
-----------------------------------------------------------------------------
Reading == result = Outcome("reading")
Refused == result = Outcome("syntax error")
Done == ~Reading /\ result # Outcome("parsing")

\* A method call with type arguments, which the language does not have
RECURSIVE TypedCall(_)
TypedCall(ast) == \/ ast[1] = "MethodCall" /\ ast[4][2][4] # <<>>
                  \/ \E n \in DOMAIN ast[4] : TypedCall(ast[4][n])

\* As soon as no program of the language starts like the text read so far, and no
\* sooner, the parser is in error; and it accepts exactly the programs.
Agrees(meant) ==
    /\ Reading => ~meant.ok /\ meant.at > Len(toks)
    /\ Done => Refused = ~meant.ok
SameLanguage == result # Outcome("parsing") => Agrees(Meant)

\* Of all the ways the rules derive an accepted text the one taken is the one Rust
\* means: the syntax tree groups operators, statements, tails and suffixes like it.
SameTree ==
    Done /\ ~Refused =>
        LET meant == Meant.done[1]
        IN result = IF TypedCall(meant) THEN Outcome("type arguments") ELSE meant

\* No accepted text brings the builder to an unreachable! or a failing expect.
BuilderTotal == ~Contains(result, "Panic")
=============================================================================
