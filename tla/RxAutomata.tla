------------------------------ MODULE RxAutomata ------------------------------
(***************************************************************************)
(* Every rule as an automaton, which is what the parser holds in its table   *)
(* of transitions.  The states of a rule are what is left of it to read.     *)
(***************************************************************************)
EXTENDS RxGrammar, TLC

\* The same function: one that is extended is held as a table by TLC
Table(f) == f @@ <<>>

RECURSIVE Skippable(_)
Skippable(e) ==
    CASE e[1] \in {"opt", "rep"} -> TRUE
      [] e[1] = "cat" -> Skippable(e[3][1]) /\ Skippable(e[3][2])
      [] e[1] = "alt" -> Skippable(e[3][1]) \/ Skippable(e[3][2])
      [] OTHER -> FALSE

EmptyRules == {r \in RuleSet : Skippable(Body[r])}
CanEnd(rest) == \A n \in DOMAIN rest : Skippable(rest[n]) \/ rest[n][2] \in EmptyRules

RECURSIVE Moves(_)
Moves(rest) ==
    IF rest = <<>> THEN {} ELSE
    LET e == Head(rest)  more == Tail(rest) IN
    CASE e[1] = "tok" -> {<<e[2], more>>}
      [] e[1] = "rule" -> {<<e[2], more>>} \cup (IF e[2] \in EmptyRules THEN Moves(more) ELSE {})
      [] e[1] = "cat" -> Moves(e[3] \o more)
      [] e[1] = "alt" -> Moves(<<e[3][1]>> \o more) \cup Moves(<<e[3][2]>> \o more)
      [] e[1] = "opt" -> Moves(e[3] \o more) \cup Moves(more)
      [] e[1] = "rep" -> Moves(e[3] \o rest) \cup Moves(more)

IndexIn(seq, x) == CHOOSE n \in DOMAIN seq : seq[n] = x

RECURSIVE AppendAll(_, _)
AppendAll(seq, new) ==
    IF new = {} THEN seq
    ELSE LET x == CHOOSE x \in new : TRUE
         IN AppendAll(IF \E n \in DOMAIN seq : seq[n] = x THEN seq ELSE Append(seq, x), new \ {x})
RECURSIVE Explore(_, _)
Explore(seq, n) ==
    IF n > Len(seq) THEN seq
    ELSE Explore(AppendAll(seq, {m[2] : m \in Moves(seq[n])}), n + 1)

States == [r \in RuleSet |-> Explore(<<<<Body[r]>>>>, 1)]
Delta(states) ==
    [r \in RuleSet |-> Table([n \in DOMAIN states[r] |->
        {<<m[1], IndexIn(states[r], m[2])>> : m \in Moves(states[r][n])}])]
Final(states) == [r \in RuleSet |-> {n \in DOMAIN states[r] : CanEnd(states[r][n])}]

\* The rules a wanted rule wants first
RECURSIVE Downwards(_, _, _)
Downwards(delta, seen, new) ==
    IF new = {} THEN seen
    ELSE Downwards(delta, seen \cup new,
                   UNION {{m[1] : m \in delta[r][1]} \cap RuleSet : r \in new} \ (seen \cup new))
Below(delta) == [r \in RuleSet |-> Downwards(delta, {}, {r})]

\* The places the end of a rule opens in rules it is the beginning of
StartsWith(delta) ==
    [s \in RuleSet |-> UNION {{<<r, m[2]>> : m \in {m \in delta[r][1] : m[1] = s}} : r \in RuleSet}]
RECURSIVE Upwards(_, _, _, _)
Upwards(starts, final, seen, new) ==
    IF new = {} THEN seen
    ELSE Upwards(starts, final, seen \cup new,
                 UNION {starts[p[1]] : p \in {p \in new : p[2] \in final[p[1]]}} \ (seen \cup new))
Above(starts, final) == [s \in RuleSet |-> Upwards(starts, final, {}, starts[s])]

RuleAutomata ==
    LET states == Table(States)
        delta == Table(Delta(states))
        final == Table(Final(states))
        starts == Table(StartsWith(delta))
    IN [rules |-> Table(Body), empty |-> EmptyRules, delta |-> delta, final |-> final,
        below |-> Table(Below(delta)), above |-> Table(Above(starts, final))]
=============================================================================
