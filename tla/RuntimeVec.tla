------------------------------ MODULE RuntimeVec ------------------------------
(* The vectors of the C runtime (runtime/runtime.c) under the code the         *)
(* compiler emits for them (lower/vec_ty.rs, lower/clone.rs, lower_index):     *)
(* 32-bit headers, a heap nothing is ever returned to, no check of an index    *)
(* and none of malloc's answer.                                                *)
EXTENDS Integers, Sequences

CONSTANTS Var,          \* the program's variables of type Vec
          Elem,         \* the values of the element type
          ElementSize,  \* its size in bytes
          WordSize,     \* 2^32: sizes, lengths and capacities are below it
          HeapLimit,    \* bytes malloc can hand out
          Junk,         \* what a cell nothing was stored to holds
          MaxSteps      \* bound of the runs: operations of the program

\* The first buffer, of four elements, is not checked against 2^32 either; an
\* element lives on the stack before it is pushed, which is far smaller.
ASSUME ElementAssumption == /\ ElementSize \in Nat \ {0} /\ 4 * ElementSize < WordSize
                            /\ Junk \notin Elem
\* Half of the address space is not heap.
ASSUME HeapAssumption == /\ WordSize \in Nat \ {0}
                         /\ HeapLimit \in Nat /\ 2 * HeapLimit < WordSize
ASSUME MaxStepsAssumption == MaxSteps \in Nat

Null == 0

Header == [data : Nat, len : Nat, capacity : Nat]
NewVec == [data |-> Null, len |-> 0, capacity |-> 0]

VARIABLES heap,      \* the blocks malloc has handed out, each a sequence of cells
          used,      \* their bytes
          vec,       \* struct rx_vec of each variable
          owned,     \* the variables that hold a vector; the others are dead
          answer,    \* the value last removed, read or measured
          trapped,   \* out of memory: a store through the null pointer
          stray,     \* a cell outside its block was read or written
          steps

vecVars == <<heap, used, vec, owned, answer, trapped, stray, steps>>

Word(n) == n % WordSize

VecInit ==
  /\ heap = <<>>
  /\ used = 0
  /\ vec = [v \in Var |-> NewVec]
  /\ owned = {}
  /\ answer = 0
  /\ trapped = FALSE
  /\ stray = FALSE
  /\ steps = 0

Step == ~trapped /\ ~stray /\ steps < MaxSteps /\ steps' = steps + 1

Min2(m, n) == IF m < n THEN m ELSE n

\* malloc(bytes), its first n cells filled from block d: a null pointer when the
\* heap is exhausted.  Everything the caller does next goes through it.
Fits(bytes) == used + bytes <= HeapLimit
Cells(bytes) == bytes \div ElementSize
Filled(bytes, d, n) ==
  [k \in 1..Cells(bytes) |-> IF k <= Min2(n, Cells(bytes)) THEN heap[d][k] ELSE Junk]
OutOfMemory == trapped' = TRUE /\ UNCHANGED <<heap, used, vec, owned, answer, stray>>

\* The cells 1..n are inside the block.
Inside(block, n) == n <= Len(block)

\* __rx_vec_new, into a variable that may hold another vector.
VecNew(v) ==
  /\ Step
  /\ vec' = [vec EXCEPT ![v] = NewVec]
  /\ owned' = owned \cup {v}
  /\ UNCHANGED <<heap, used, answer, trapped, stray>>

\* mutant: the buffer is taken to have room for one more
IsFull_Late(h) == h.len > h.capacity
IsFull(h) == h.len = h.capacity

\* rx_vec_grow: the new buffer with the elements moved into it.
Grown(h, bytes) == Filled(bytes, h.data, h.len)
Capacity(h) == IF h.capacity # 0 THEN Word(h.capacity * 2) ELSE 4

\* __rx_vec_push with room for the element
PushInPlace(v, x) ==
  LET h == vec[v] IN
  /\ Step /\ v \in owned /\ ~IsFull(h)
  /\ stray' = ~(h.data # Null /\ Inside(heap[h.data], h.len + 1))
  /\ heap' = IF stray' THEN heap ELSE [heap EXCEPT ![h.data][h.len + 1] = x]
  /\ vec' = [vec EXCEPT ![v].len = Word(h.len + 1)]
  /\ UNCHANGED <<used, owned, answer, trapped>>

\* __rx_vec_push through rx_vec_grow
PushGrowing(v, x) ==
  LET h == vec[v]
      bytes == Word(Capacity(h) * ElementSize) IN
  /\ Step /\ v \in owned /\ IsFull(h)
  /\ \/ ~Fits(bytes) /\ OutOfMemory
     \/ /\ Fits(bytes)
        /\ used' = used + bytes
        /\ stray' = (h.len + 1 > Cells(bytes))
        /\ heap' = Append(heap, IF stray' THEN Grown(h, bytes)
                                ELSE [Grown(h, bytes) EXCEPT ![h.len + 1] = x])
        /\ vec' = [vec EXCEPT ![v] = [data |-> Len(heap) + 1, len |-> Word(h.len + 1), capacity |-> Capacity(h)]]
        /\ UNCHANGED <<owned, answer, trapped>>

\* mutant: one element too few is moved down
Closed_Short(block, i, len) == [k \in DOMAIN block |-> IF i <= k /\ k < len - 1 THEN block[k + 1] ELSE block[k]]
\* memmove: the gap at i is closed.
Closed(block, i, len) == [k \in DOMAIN block |-> IF i <= k /\ k < len THEN block[k + 1] ELSE block[k]]

\* __rx_vec_remove, at an index the program has made sure of.
Remove(v, i) ==
  LET h == vec[v] IN
  /\ Step /\ v \in owned /\ i \in 1..h.len
  /\ stray' = ~Inside(heap[h.data], h.len)
  /\ answer' = heap[h.data][i]
  /\ heap' = [heap EXCEPT ![h.data] = Closed(@, i, h.len)]
  /\ vec' = [vec EXCEPT ![v].len = Word(h.len - 1)]
  /\ UNCHANGED <<used, owned, trapped>>

\* An element place (lower_index) stored to or loaded from.
Store(v, i, x) ==
  LET h == vec[v] IN
  /\ Step /\ v \in owned /\ i \in 1..h.len
  /\ stray' = ~Inside(heap[h.data], i)
  /\ heap' = [heap EXCEPT ![h.data][i] = x]
  /\ UNCHANGED <<used, vec, owned, answer, trapped>>

Read(v, i) ==
  LET h == vec[v] IN
  /\ Step /\ v \in owned /\ i \in 1..h.len
  /\ stray' = ~Inside(heap[h.data], i)
  /\ answer' = heap[h.data][i]
  /\ UNCHANGED <<heap, used, vec, owned, trapped>>

\* __rx_vec_len, __rx_vec_is_empty
Measure(v) ==
  /\ Step /\ v \in owned
  /\ answer' = vec[v].len
  /\ UNCHANGED <<heap, used, vec, owned, trapped, stray>>

\* mutant: the clone keeps the buffer of its original
Cloned_Shared(h) == h.data
\* The buffer of a clone is the one __rx_vec_new_with_size has just allocated.
Cloned(h) == IF h.len = 0 THEN Null ELSE Len(heap) + 1

\* The generated clone helper: __rx_vec_new_with_size, then element by element.
Clone(v, w) ==
  LET h == vec[v]
      bytes == Word(h.len * ElementSize) IN
  /\ Step /\ v \in owned
  /\ \/ h.len # 0 /\ ~Fits(bytes) /\ OutOfMemory
     \/ /\ h.len = 0 \/ Fits(bytes)
        /\ used' = used + bytes
        /\ stray' = (h.len > Cells(bytes))
        /\ heap' = IF h.len = 0 THEN heap ELSE Append(heap, Filled(bytes, h.data, h.len))
        /\ vec' = [vec EXCEPT ![w] = [data |-> Cloned(h), len |-> h.len, capacity |-> h.len]]
        /\ owned' = owned \cup {w}
        /\ UNCHANGED <<answer, trapped>>

\* Assigning or passing a vector copies the header; its source is dead.
Move(v, w) ==
  /\ Step /\ v \in owned /\ v # w
  /\ vec' = [vec EXCEPT ![w] = vec[v]]
  /\ owned' = (owned \ {v}) \cup {w}
  /\ UNCHANGED <<heap, used, answer, trapped, stray>>

VecNext ==
  \/ \E v \in Var : VecNew(v) \/ Measure(v)
  \/ \E v \in Var, x \in Elem : PushInPlace(v, x) \/ PushGrowing(v, x)
  \/ \E v \in Var : \E i \in 1..vec[v].len :
       Remove(v, i) \/ Read(v, i) \/ \E x \in Elem : Store(v, i, x)
  \/ \E v, w \in Var : Clone(v, w) \/ Move(v, w)

VecRuns == VecInit /\ [][VecNext]_vecVars

(******************************** properties *********************************)
\* Without one check of malloc, of a product or of a capacity in the runtime, no
\* operation reaches past a buffer: the heap is exhausted before a 32-bit
\* capacity or byte count can wrap.
NoStrayAccess == ~stray

\* Two vectors that are alive never share a buffer, through growth, clones and moves.
BuffersApart ==
  \A v, w \in owned : v # w /\ vec[v].data # Null => vec[v].data # vec[w].data

\* Every operation has on the sequences what VecSpec says, and nothing else changes.
Contents(v) == IF v \in owned THEN [i \in 1..vec[v].len |-> heap[vec[v].data][i]] ELSE <<>>
Abstract == INSTANCE VecSpec WITH contents <- [v \in Var |-> Contents(v)], stopped <- trapped
ImplementsVecSpec == Abstract!Spec
=============================================================================
