-------------------------- MODULE CallbackRegistry --------------------------
(***************************************************************************)
(* What the keyboard service promises its client: one callback slot.       *)
(* Registering and notifying are each one atomic step, so a notification   *)
(* always goes to the callback registered at that moment, and only a       *)
(* callback that failed to take one is dropped from the slot.              *)
(***************************************************************************)
CONSTANTS Callbacks, NoCallback, Items

VARIABLES
    slot,   \* the registered callback
    last    \* the last delivery: to whom and what

regVars == <<slot, last>>

RegInit == slot = NoCallback /\ last = <<NoCallback, NoCallback>>

Register(c) == slot' = c /\ UNCHANGED last

Deliver(item) ==
    /\ slot # NoCallback
    /\ last' = <<slot, item>>
    /\ UNCHANGED slot

\* Only the callback that got the last delivery can be dropped.
Drop ==
    /\ slot # NoCallback /\ slot = last[1]
    /\ slot' = NoCallback
    /\ UNCHANGED last

RegNext ==
    \/ \E c \in Callbacks \cup {NoCallback} : Register(c)
    \/ \E i \in Items : Deliver(i)
    \/ Drop

RegSpec == RegInit /\ [][RegNext]_regVars
=============================================================================
