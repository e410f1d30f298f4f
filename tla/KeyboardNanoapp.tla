-------------------------- MODULE KeyboardNanoapp --------------------------
(***************************************************************************)
(* The binder face of the keyboard service (KeyboardNanoapp.cpp): clients  *)
(* register a callback and send commands on binder threads while the       *)
(* device reader's thread delivers data and errors to the callback.        *)
(*                                                                         *)
(* mDispatchMutex is held over a whole notification and over setCallback;  *)
(* a block under mCallbackMutex is one step.  The callback methods are     *)
(* one-way binder calls: a call either is accepted or finds the client     *)
(* dead.                                                                   *)
(***************************************************************************)
EXTENDS Naturals

CONSTANTS
    Callbacks,     \* the callbacks clients may register
    NoCallback,    \* a null callback
    Binders,       \* binder threads
    Reader,        \* the reader thread of NanoappDevice
    NoThread,
    MaxFrames      \* bound: frames the device sends

ASSUME NanoappAssumption ==
    /\ NoCallback \notin Callbacks
    /\ Reader \notin Binders /\ NoThread \notin Binders \cup {Reader}
    /\ MaxFrames \in Nat

Threads == Binders \cup {Reader}

\* Frames are numbered as the device sent them; an error is item 0.
Error == 0
Items == 0 .. MaxFrames

VARIABLES
    mCallback,
    dispatchOwner,  \* the holder of mDispatchMutex
    pc,             \* where each thread is
    item,           \* what it is to deliver
    local,          \* its copy of the callback
    frames,         \* frames read from the device so far
    dead,           \* callbacks whose client died
    delivered       \* the last delivery: to whom and what

vars == <<mCallback, dispatchOwner, pc, item, local, frames, dead, delivered>>

Slot == Callbacks \cup {NoCallback}

TypeOK ==
    /\ mCallback \in Slot
    /\ dispatchOwner \in Threads \cup {NoThread}
    /\ pc \in [Threads -> {"idle", "command", "notify", "copied", "failed",
                           "set", "leave"}]
    /\ item \in [Threads -> Items]
    /\ local \in [Threads -> Slot]
    /\ frames \in 0 .. MaxFrames
    /\ dead \subseteq Callbacks
    /\ delivered \in Slot \X (Items \cup {NoCallback})

Init ==
    /\ mCallback = NoCallback /\ dispatchOwner = NoThread
    /\ pc = [t \in Threads |-> "idle"]
    /\ item = [t \in Threads |-> Error]
    /\ local = [t \in Threads |-> NoCallback]
    /\ frames = 0 /\ dead = {}
    /\ delivered = <<NoCallback, NoCallback>>

Goto(t, l) == pc' = [pc EXCEPT ![t] = l]

----------------------------------------------------------------------------
\* The calls a thread makes.

\* The reader read a frame (sendData) or failed (sendError).
ReaderData ==
    /\ pc[Reader] = "idle" /\ frames < MaxFrames
    /\ frames' = frames + 1
    /\ item' = [item EXCEPT ![Reader] = frames + 1]
    /\ Goto(Reader, "notify")
    /\ UNCHANGED <<mCallback, dispatchOwner, local, dead, delivered>>

ReaderError ==
    /\ pc[Reader] = "idle"
    /\ item' = [item EXCEPT ![Reader] = Error]
    /\ Goto(Reader, "notify")
    /\ UNCHANGED <<mCallback, dispatchOwner, local, frames, dead, delivered>>

\* sendCmd_aidl: a command that fails is also reported to the callback.
SendCmd(t) ==
    /\ pc[t] = "idle"
    /\ Goto(t, "command")
    /\ UNCHANGED <<mCallback, dispatchOwner, item, local, frames, dead,
                   delivered>>

SendCmdResult(t) ==
    /\ pc[t] = "command"
    /\ \/ Goto(t, "idle") /\ UNCHANGED item
       \/ Goto(t, "notify") /\ item' = [item EXCEPT ![t] = Error]
    /\ UNCHANGED <<mCallback, dispatchOwner, local, frames, dead, delivered>>

\* setCallback_aidl(c), up to its two locks.
SetCallback(t, c) ==
    /\ pc[t] = "idle"
    /\ local' = [local EXCEPT ![t] = c]
    /\ Goto(t, "set")
    /\ UNCHANGED <<mCallback, dispatchOwner, item, frames, dead, delivered>>

----------------------------------------------------------------------------
\* mutant: setCallback takes only mCallbackMutex
InstallUnlocked(t) ==
    /\ pc[t] = "set"
    /\ mCallback' = local[t]
    /\ local' = [local EXCEPT ![t] = NoCallback]
    /\ Goto(t, "idle")
    /\ UNCHANGED <<dispatchOwner, item, frames, dead, delivered>>

\* Both locks are held for this one step.
Install(t) ==
    /\ pc[t] = "set" /\ dispatchOwner = NoThread
    /\ mCallback' = local[t]
    /\ local' = [local EXCEPT ![t] = NoCallback]
    /\ Goto(t, "idle")
    /\ UNCHANGED <<dispatchOwner, item, frames, dead, delivered>>

\* sendData / sendError: lock mDispatchMutex, copy the callback.
Copy(t) ==
    /\ pc[t] = "notify" /\ dispatchOwner = NoThread
    /\ dispatchOwner' = t
    /\ local' = [local EXCEPT ![t] = mCallback]
    /\ Goto(t, IF mCallback = NoCallback THEN "leave" ELSE "copied")
    /\ UNCHANGED <<mCallback, item, frames, dead, delivered>>

\* callback->dataReceive_aidl / errorReceive_aidl: a dead client fails the call.
Call(t) ==
    /\ pc[t] = "copied" /\ dispatchOwner = t
    /\ delivered' = <<local[t], item[t]>>
    /\ Goto(t, IF local[t] \in dead THEN "failed" ELSE "leave")
    /\ UNCHANGED <<mCallback, dispatchOwner, item, local, frames, dead>>

\* mutant: clearDeadCallback takes mDispatchMutex again
ClearDeadRelocks(t) ==
    /\ pc[t] = "failed" /\ dispatchOwner = NoThread
    /\ mCallback' = IF mCallback = local[t] THEN NoCallback ELSE mCallback
    /\ Goto(t, "leave")
    /\ UNCHANGED <<dispatchOwner, item, local, frames, dead, delivered>>

\* clearDeadCallback
ClearDead(t) ==
    /\ pc[t] = "failed" /\ dispatchOwner = t
    /\ mCallback' = IF mCallback = local[t] THEN NoCallback ELSE mCallback
    /\ Goto(t, "leave")
    /\ UNCHANGED <<dispatchOwner, item, local, frames, dead, delivered>>

Leave(t) ==
    /\ pc[t] = "leave" /\ dispatchOwner = t
    /\ dispatchOwner' = NoThread
    /\ local' = [local EXCEPT ![t] = NoCallback]
    /\ item' = [item EXCEPT ![t] = Error]
    /\ Goto(t, "idle")
    /\ UNCHANGED <<mCallback, frames, dead, delivered>>

\* A client process dies.
Die(c) ==
    /\ dead' = dead \cup {c}
    /\ UNCHANGED <<mCallback, dispatchOwner, pc, item, local, frames,
                   delivered>>

Notification(t) ==
    Copy(t) \/ Call(t) \/ ClearDead(t) \/ Leave(t)

Next ==
    \/ ReaderData \/ ReaderError
    \/ \E t \in Binders :
         \/ SendCmd(t) \/ SendCmdResult(t) \/ Install(t)
         \/ \E c \in Slot : SetCallback(t, c)
    \/ \E t \in Threads : Notification(t)
    \/ \E c \in Callbacks : Die(c)

Fairness ==
    /\ \A t \in Threads : WF_vars(Notification(t)) /\ SF_vars(Copy(t))
    /\ \A t \in Binders : WF_vars(SendCmdResult(t)) /\ SF_vars(Install(t))

Spec == Init /\ [][Next]_vars
FairSpec == Spec /\ Fairness

----------------------------------------------------------------------------
\* Properties.

\* While a notification is under way its copy is the registered callback, so a
\* replaced callback is never invoked later, and a failed call is the last one
\* made: what clearDeadCallback drops is what just failed.
CopyIsCurrent ==
    \A t \in Threads :
        /\ pc[t] \in {"copied", "failed", "leave"} <=> dispatchOwner = t
        /\ pc[t] \in {"copied", "failed"} =>
               local[t] = mCallback /\ mCallback # NoCallback
        /\ pc[t] = "failed" => delivered[1] = local[t]

\* The service implements one atomic callback slot: every notification reaches
\* the callback registered at that moment, whatever the threads' order.
Registry == INSTANCE CallbackRegistry WITH slot <- mCallback, last <- delivered
ImplementsRegistry == Registry!RegSpec

\* No call hangs: a registration and a notification always return, although
\* each waits for the other's lock.
CallsReturn ==
    \A t \in Threads : pc[t] # "idle" ~> pc[t] = "idle"

=============================================================================
