-------------------------------- MODULE VecSpec --------------------------------
(* What a program may expect of its vectors: every variable that owns one has  *)
(* a sequence of its own, whatever happens to the others, and a program that   *)
(* runs out of memory stops.                                                   *)
EXTENDS Integers, Sequences

CONSTANTS Var,      \* the program's variables of type Vec
          Elem      \* the values of the element type

VARIABLES owned,       \* the variables that hold a vector
          contents,    \* the vector of each of them, empty for the others
          answer,      \* what the last removal, read or length returned
          stopped      \* out of memory

vars == <<owned, contents, answer, stopped>>

Without(s, i) == SubSeq(s, 1, i - 1) \o SubSeq(s, i + 1, Len(s))

Init == /\ owned = {}
        /\ contents = [v \in Var |-> <<>>]
        /\ answer = 0
        /\ stopped = FALSE

Become(v, s) == /\ contents' = [contents EXCEPT ![v] = s]
                /\ owned' = owned \cup {v}
                /\ UNCHANGED stopped
Look(a) == answer' = a /\ UNCHANGED <<owned, contents, stopped>>

New(v) == Become(v, <<>>) /\ UNCHANGED answer
Push(v, x) == v \in owned /\ Become(v, Append(contents[v], x)) /\ UNCHANGED answer
Remove(v, i) == /\ v \in owned
                /\ answer' = contents[v][i]
                /\ Become(v, Without(contents[v], i))
Store(v, i, x) == /\ v \in owned
                  /\ Become(v, [contents[v] EXCEPT ![i] = x])
                  /\ UNCHANGED answer
Read(v, i) == v \in owned /\ Look(contents[v][i])
Measure(v) == v \in owned /\ Look(Len(contents[v]))
Clone(v, w) == v \in owned /\ Become(w, contents[v]) /\ UNCHANGED answer
Move(v, w) ==
  /\ v \in owned /\ v # w
  /\ contents' = [contents EXCEPT ![w] = contents[v], ![v] = <<>>]
  /\ owned' = (owned \ {v}) \cup {w}
  /\ UNCHANGED <<answer, stopped>>
Stop == stopped' = TRUE /\ UNCHANGED <<owned, contents, answer>>

Next ==
  /\ ~stopped
  /\ \/ \E v \in Var : New(v) \/ Measure(v)
     \/ \E v \in Var, x \in Elem : Push(v, x)
     \/ \E v \in Var : \E i \in 1..Len(contents[v]) :
          Remove(v, i) \/ Read(v, i) \/ \E x \in Elem : Store(v, i, x)
     \/ \E v, w \in Var : Clone(v, w) \/ Move(v, w)
     \/ Stop

Spec == Init /\ [][Next]_vars
=============================================================================
