---------------------------- MODULE EventChannel ----------------------------
(***************************************************************************)
(* What the sensors multi-HAL promises the framework about events: one     *)
(* queue.  Batches are numbered in the order in which they are posted.     *)
(* The tail of a batch may be refused when it is posted, and a run of      *)
(* queued events may be lost later; nothing is duplicated or reordered.    *)
(***************************************************************************)
EXTENDS Naturals, Sequences

CONSTANT MaxBatch   \* the longest batch

VARIABLES
    queue,   \* the numbers of the events on their way
    posted,  \* the number of the last event posted
    taken    \* the number of the last event the framework read

chanVars == <<queue, posted, taken>>

ChanInit == queue = <<>> /\ posted = 0 /\ taken = 0

\* A batch of n events, of which the first k are accepted.
Accept(n, k) ==
    /\ k <= n
    /\ queue' = queue \o [i \in 1 .. k |-> posted + i]
    /\ posted' = posted + n
    /\ UNCHANGED taken

\* The events from position i to position j never arrive.
Lose(i, j) ==
    /\ queue' = SubSeq(queue, 1, i - 1) \o SubSeq(queue, j + 1, Len(queue))
    /\ UNCHANGED <<posted, taken>>

Take(k) ==
    /\ taken' = queue[k]
    /\ queue' = SubSeq(queue, k + 1, Len(queue))
    /\ UNCHANGED posted

ChanNext ==
    \/ \E n \in 1 .. MaxBatch, k \in 0 .. MaxBatch : Accept(n, k)
    \/ \E i, j \in 1 .. Len(queue) : i <= j /\ Lose(i, j)
    \/ \E k \in 1 .. Len(queue) : Take(k)

ChanSpec == ChanInit /\ [][ChanNext]_chanVars
=============================================================================
