--------------------------- MODULE HalProxyEvents ---------------------------
(***************************************************************************)
(* The way of sensor events through the multi-HAL proxy (aidl/sensors) and *)
(* the shared wakelock that keeps the device awake meanwhile.              *)
(*                                                                         *)
(* Sub-HAL threads (Posters) post batches under mEventQueueWriteMutex.     *)
(* What does not fit into the event queue waits in                         *)
(* mPendingWriteEventsQueue for the pending-writes thread, which drops the *)
(* mutex while its write blocks.  The wakelock thread counts down what the *)
(* framework has handled.  The two queues are shared memory (FMQ); the     *)
(* framework is the other end of both.                                     *)
(*                                                                         *)
(* An event is its number, given when it is posted, and whether its sensor *)
(* is a wake-up sensor.  mWakelockTimeoutStartTime becomes the flag        *)
(* "expired" (kWakelockTimeoutNs have passed since); a scoped wakelock     *)
(* created before mWakelockTimeoutResetTime is "stale".  The proxy is      *)
(* initialised and mThreadsRun stays true.                                 *)
(***************************************************************************)
EXTENDS Integers, SequencesExt

CONSTANTS
    Posters,     \* the sub-HAL threads
    QueueSize,   \* mEventQueue->getQuantumCount()
    MaxPending,  \* kMaxSizePendingWriteEventsQueue
    MaxBatch,    \* the longest batch that is posted
    MaxEvents    \* bound: how many events sub-HALs post

ASSUME SizesAssumption ==
    {QueueSize, MaxPending, MaxBatch, MaxEvents} \subseteq Nat \ {0}

ASSUME PostersAssumption == "none" \notin Posters /\ IsFiniteSet(Posters)

VARIABLES
    \* guarded by mEventQueueWriteMutex
    pending,      \* mPendingWriteEventsQueue: the events and their count
    pendingSize,  \* mSizePendingWriteEventsQueue
    writeLock,    \* the poster that holds the mutex across two steps
    \* guarded by mWakelockMutex
    refCount,     \* mWakelockRefCount
    held,         \* whether the kernel wakelock is held
    expired,      \* mWakelockTimeoutStartTime is too long ago
    \* the threads
    poster,       \* each poster's step, batch and scoped wakelock
    writer,       \* the step of handlePendingWrites
    waker,        \* the step of handleWakelocks
    got,          \* its local numWakeLocksProcessed
    \* shared with the framework
    fmq,          \* mEventQueue
    acks,         \* mWakeLockQueue
    handling,     \* wake-up events the framework has read and not answered
    \* history
    begun,        \* how many events sub-HALs handed over
    posted,       \* the number of the last event posted
    taken,        \* the number of the last event read
    clean         \* no wakelock timeout, no failed blocking write so far

queueVars == <<pending, pendingSize, writeLock>>
lockVars  == <<refCount, held, expired>>
wakerVars == <<waker, got>>
endVars   == <<acks, handling, taken>>
vars == <<queueVars, lockVars, poster, writer, wakerVars, fmq, endVars, begun,
          posted, clean>>

\* A pickup event is a wake-up event that processEvents may suppress.
Kinds == {"plain", "wake", "pickup"}
Batches == UNION {[1 .. n -> Kinds] : n \in 1 .. MaxBatch}
Event == [id : Nat, wake : BOOLEAN]
PosterSteps == {"idle", "created", "processed", "counted", "posted"}

Idle == [at |-> "idle", batch |-> <<>>, locked |-> FALSE, stale |-> FALSE]

\* The variables keep their types, the event queue its capacity and the backlog
\* its limit kMaxSizePendingWriteEventsQueue.
TypeOK ==
    /\ pending \in Seq([events : Seq(Event), wake : Nat])
    /\ pendingSize \in 0 .. MaxPending
    /\ writeLock \in Posters \cup {"none"}
    /\ refCount \in Nat /\ held \in BOOLEAN /\ expired \in BOOLEAN
    /\ poster \in [Posters -> [at : PosterSteps, batch : Seq(Kinds),
                               locked : BOOLEAN, stale : BOOLEAN]]
    /\ writer \in {"wait", "write", "failed", "done"}
    /\ waker \in {"wait", "read", "got"} /\ got \in Nat
    /\ fmq \in Seq(Event) /\ Len(fmq) <= QueueSize
    /\ acks \in Seq(Nat) /\ handling \in Nat
    /\ begun \in 0 .. MaxEvents /\ posted \in Nat /\ taken \in Nat
    /\ clean \in BOOLEAN

Init ==
    /\ pending = <<>> /\ pendingSize = 0 /\ writeLock = "none"
    /\ refCount = 0 /\ held = FALSE /\ expired = FALSE
    /\ poster = [p \in Posters |-> Idle]
    /\ writer = "wait" /\ waker = "wait" /\ got = 0
    /\ fmq = <<>> /\ acks = <<>> /\ handling = 0
    /\ begun = 0 /\ posted = 0 /\ taken = 0 /\ clean = TRUE

NumWake(events) == Cardinality({i \in DOMAIN events : events[i].wake})
MinOf(a, b) == IF a <= b THEN a ELSE b
First(s, n) == SubSeq(s, 1, n)
Rest(s, n) == SubSeq(s, n + 1, Len(s))

----------------------------------------------------------------------------
\* The reference count.

\* incrementRefCountAndMaybeAcquireWakelock
Increment(n) ==
    /\ held' = (refCount = 0 \/ held)
    /\ refCount' = refCount + n
    /\ expired' = FALSE

\* decrementRefCountAndMaybeReleaseWakelock
Decrement(n) ==
    /\ refCount' = refCount - MinOf(refCount, n)
    /\ held' = IF refCount > 0 /\ refCount' = 0 THEN FALSE ELSE held
    /\ UNCHANGED expired

\* The same on behalf of a scoped wakelock, which is void after a reset.
DecrementScoped(p) ==
    IF poster[p].stale THEN UNCHANGED lockVars ELSE Decrement(1)

----------------------------------------------------------------------------
\* A sub-HAL thread: createScopedWakelock, postEvents.

\* The wakelock is locked for a batch with a wake-up event.
CreateWakelock(p) ==
    /\ poster[p].at = "idle"
    /\ \E b \in Batches :
         /\ begun + Len(b) <= MaxEvents
         /\ begun' = begun + Len(b)
         /\ LET lock == \E i \in DOMAIN b : b[i] # "plain"
            IN /\ poster' = [poster EXCEPT ![p] = [at |-> "created",
                             batch |-> b, locked |-> lock, stale |-> FALSE]]
               /\ IF lock THEN Increment(1) ELSE UNCHANGED lockVars
    /\ UNCHANGED <<queueVars, writer, wakerVars, fmq, endVars, posted, clean>>

\* What processEvents may make of a batch: any pickup event may be suppressed,
\* by its value or by the lid.
Outputs(b) ==
    {out \in Batches \cup {<<>>} :
        \E from \in [DOMAIN out -> DOMAIN b] :
            /\ \A i, j \in DOMAIN out : i < j => from[i] < from[j]
            /\ \A i \in DOMAIN out : out[i] = b[from[i]]
            /\ \A k \in DOMAIN b :
                  b[k] # "pickup" => \E i \in DOMAIN out : from[i] = k}

\* mutant: the wakelock of a suppressed event stays locked
ProcessKeepsLock(p) ==
    /\ poster[p].at = "created"
    /\ \E out \in Outputs(poster[p].batch) :
         LET wake == \E i \in DOMAIN out : out[i] # "plain"
             free == poster[p].locked /\ ~wake
         IN /\ poster' = [poster EXCEPT ![p].at = "processed",
                                        ![p].batch = out]
            /\ IF free THEN DecrementScoped(p) ELSE UNCHANGED lockVars
    /\ UNCHANGED <<queueVars, writer, wakerVars, fmq, endVars, begun, posted,
                   clean>>

\* processEvents, and the release of a wakelock that no event needs any more.
Process(p) ==
    /\ poster[p].at = "created"
    /\ \E out \in Outputs(poster[p].batch) :
         LET wake == \E i \in DOMAIN out : out[i] # "plain"
             free == poster[p].locked /\ ~wake
         IN /\ poster' = [poster EXCEPT ![p].at = "processed",
                                        ![p].batch = out,
                                        ![p].locked = @ /\ ~free]
            /\ IF free THEN DecrementScoped(p) ELSE UNCHANGED lockVars
    /\ UNCHANGED <<queueVars, writer, wakerVars, fmq, endVars, begun, posted,
                   clean>>

\* The events of p's batch, numbered in the order of posting.
Numbered(p) ==
    [i \in DOMAIN poster[p].batch |->
        [id |-> posted + i, wake |-> poster[p].batch[i] # "plain"]]

\* mutant: the count of the batch's wake-ups is left to the scoped wakelock
PostCountOnce(p) ==
    /\ poster[p].at = "processed" /\ writeLock = "none"
    /\ writeLock' = p
    /\ poster' = [poster EXCEPT ![p].at = "counted"]
    /\ UNCHANGED <<pending, pendingSize, lockVars, writer, wakerVars, fmq,
                   endVars, begun, posted, clean>>

\* postEventsToMessageQueue takes the mutex and counts the wake-up events.
PostCount(p) ==
    /\ poster[p].at = "processed" /\ writeLock = "none"
    /\ writeLock' = p
    /\ poster' = [poster EXCEPT ![p].at = "counted"]
    /\ IF poster[p].locked THEN Increment(NumWake(Numbered(p)))
                           ELSE UNCHANGED lockVars
    /\ UNCHANGED <<pending, pendingSize, writer, wakerVars, fmq, endVars,
                   begun, posted, clean>>

\* numToWrite: what fits (mEventQueue->availableToWrite()), if nothing is pending.
NumToPost(p) ==
    IF pending = <<>> THEN MinOf(Len(Numbered(p)), QueueSize - Len(fmq)) ELSE 0

\* mutant: the limit is tested before the events are added
HasSpaceNow(left) == pendingSize < MaxPending

\* left more events fit into the backlog.
HasSpace(left) == pendingSize + left <= MaxPending

\* n of the batch's events are written; the others are queued, if there is room for
\* all of them, or dropped.
WriteAndQueue(p, n) ==
    LET es == Numbered(p)
        left == Len(es) - n
    IN /\ fmq' = fmq \o First(es, n)
       /\ posted' = posted + Len(es)
       /\ IF left > 0 /\ HasSpace(left)
          THEN /\ pending' = Append(pending, [events |-> Rest(es, n),
                                              wake |-> NumWake(es)])
               /\ pendingSize' = pendingSize + left
          ELSE UNCHANGED <<pending, pendingSize>>

\* mEventQueue->write takes all it is given, or fails and takes none.
PostWrite(p) ==
    /\ poster[p].at = "counted" /\ writeLock = p
    /\ \E n \in {NumToPost(p), 0} : Len(fmq) + n <= QueueSize /\ WriteAndQueue(p, n)
    /\ poster' = [poster EXCEPT ![p].at = "posted"]
    /\ writeLock' = "none"
    /\ UNCHANGED <<lockVars, writer, wakerVars, endVars, begun, clean>>

\* The scoped wakelock is destroyed when the call returns.
Release(p) ==
    /\ poster[p].at = "posted"
    /\ poster' = [poster EXCEPT ![p] = Idle]
    /\ IF poster[p].locked THEN DecrementScoped(p) ELSE UNCHANGED lockVars
    /\ UNCHANGED <<queueVars, writer, wakerVars, fmq, endVars, begun, posted,
                   clean>>

Post(p) == Process(p) \/ PostCount(p) \/ PostWrite(p) \/ Release(p)

----------------------------------------------------------------------------
\* handlePendingWrites.

\* numToWrite, for the front of the queue.
NumToWrite == MinOf(Len(Head(pending).events), QueueSize)

WriterStep(from, to) == writer = from /\ writer' = to

WriterTake ==
    /\ writeLock = "none" /\ pending # <<>>
    /\ WriterStep("wait", "write")
    /\ UNCHANGED <<queueVars, lockVars, poster, wakerVars, fmq, endVars, begun,
                   posted, clean>>

\* writeBlocking, without the mutex: all numToWrite events or none.
WriterWrite ==
    /\ WriterStep("write", "done")
    /\ Len(fmq) + NumToWrite <= QueueSize
    /\ fmq' = fmq \o First(Head(pending).events, NumToWrite)
    /\ UNCHANGED <<queueVars, lockVars, poster, wakerVars, endVars, begun,
                   posted, clean>>

\* kPendingWriteTimeoutNs have passed.
WriterFail ==
    /\ WriterStep("write", "failed")
    /\ clean' = FALSE
    /\ UNCHANGED <<queueVars, lockVars, poster, wakerVars, fmq, endVars, begun,
                   posted>>

\* mutant: the dropped events are tried again
WriterRetries ==
    /\ WriterStep("failed", "wait")
    /\ UNCHANGED <<queueVars, lockVars, poster, wakerVars, fmq, endVars, begun,
                   posted, clean>>

\* The wake-ups that will not arrive are no longer counted.
WriterUncount ==
    LET front == Head(pending)
    IN /\ WriterStep("failed", "done")
       /\ IF front.wake > 0
          THEN Decrement(IF Len(front.events) > QueueSize
                         THEN NumWake(First(front.events, QueueSize))
                         ELSE front.wake)
          ELSE UNCHANGED lockVars
       /\ UNCHANGED <<queueVars, poster, wakerVars, fmq, endVars, begun,
                      posted, clean>>

\* mutants: the whole entry is subtracted for a part of it; a partly written
\* entry stays as it is
WriterDoneWhole ==
    LET events == Head(pending).events
    IN /\ writeLock = "none"
       /\ WriterStep("done", "wait")
       /\ pendingSize' = pendingSize - Len(events)
       /\ pending' = IF Len(events) > QueueSize
                     THEN [pending EXCEPT ![1].events = Rest(@, QueueSize)]
                     ELSE Tail(pending)
       /\ UNCHANGED <<writeLock, lockVars, poster, wakerVars, fmq, endVars,
                      begun, posted, clean>>
WriterDoneKeeps ==
    LET events == Head(pending).events
    IN /\ writeLock = "none"
       /\ WriterStep("done", "wait")
       /\ IF Len(events) > QueueSize
          THEN UNCHANGED <<pending, pendingSize>>
          ELSE /\ pendingSize' = pendingSize - NumToWrite
               /\ pending' = Tail(pending)
       /\ UNCHANGED <<writeLock, lockVars, poster, wakerVars, fmq, endVars,
                      begun, posted, clean>>

\* The mutex is taken again, the written (or dropped) events go.
WriterDone ==
    LET events == Head(pending).events
    IN /\ writeLock = "none"
       /\ WriterStep("done", "wait")
       /\ pendingSize' = pendingSize - NumToWrite
       /\ pending' = IF Len(events) > QueueSize
                     THEN [pending EXCEPT ![1].events = Rest(@, QueueSize)]
                     ELSE Tail(pending)
       /\ UNCHANGED <<writeLock, lockVars, poster, wakerVars, fmq, endVars,
                      begun, posted, clean>>

HandlePendingWrites ==
    WriterTake \/ WriterWrite \/ WriterFail \/ WriterUncount \/ WriterDone

----------------------------------------------------------------------------
\* handleWakelocks.

WakerStep(from, to) == waker = from /\ waker' = to

\* mutant: the timeout is never looked at
WakerLookBlind ==
    /\ refCount > 0
    /\ WakerStep("wait", "read")
    /\ UNCHANGED <<lockVars, poster, clean>>
    /\ UNCHANGED <<queueVars, writer, got, fmq, endVars, begun, posted>>

\* A timed-out wakelock is reset (resetSharedWakelock), a live one waited for.
WakerLook ==
    /\ refCount > 0
    /\ IF expired
       THEN /\ Decrement(refCount)
            /\ poster' = [p \in Posters |->
                   [poster[p] EXCEPT !.stale = poster[p].locked]]
            /\ clean' = FALSE
            /\ WakerStep("wait", "wait")
       ELSE WakerStep("wait", "read") /\ UNCHANGED <<lockVars, poster, clean>>
    /\ UNCHANGED <<queueVars, writer, got, fmq, endVars, begun, posted>>

\* readBlocking, without the mutex: a count from the framework ...
WakerRead ==
    /\ WakerStep("read", "got")
    /\ acks # <<>>
    /\ got' = Head(acks) /\ acks' = Tail(acks)
    /\ UNCHANGED <<queueVars, lockVars, poster, writer, fmq, handling, taken,
                   begun, posted, clean>>

\* ... or the time left has passed.
WakerReadTimeout ==
    /\ WakerStep("read", "wait")
    /\ UNCHANGED <<queueVars, lockVars, poster, writer, got, fmq, endVars,
                   begun, posted, clean>>

WakerCount ==
    /\ WakerStep("got", "wait")
    /\ Decrement(got) /\ got' = 0
    /\ UNCHANGED <<queueVars, poster, writer, fmq, endVars, begun, posted,
                   clean>>

HandleWakelocks == WakerLook \/ WakerRead \/ WakerReadTimeout \/ WakerCount

----------------------------------------------------------------------------
\* The framework and time.

\* The framework reads the first k events, ...
FrameworkRead ==
    /\ \E k \in 1 .. Len(fmq) :
         /\ taken' = fmq[k].id
         /\ fmq' = Rest(fmq, k)
         /\ handling' = handling + NumWake(First(fmq, k))
    /\ UNCHANGED <<queueVars, lockVars, poster, writer, wakerVars, acks, begun,
                   posted, clean>>

\* ... and answers for the wake-up events when it has handled them.
FrameworkAck ==
    /\ handling > 0
    /\ acks' = Append(acks, handling) /\ handling' = 0
    /\ UNCHANGED <<queueVars, lockVars, poster, writer, wakerVars, fmq, taken,
                   begun, posted, clean>>

\* kWakelockTimeoutNs pass without a new event.
Expire ==
    /\ refCount > 0 /\ ~expired
    /\ expired' = TRUE
    /\ UNCHANGED <<queueVars, refCount, held, poster, writer, wakerVars, fmq,
                   endVars, begun, posted, clean>>

Next ==
    \/ \E p \in Posters : CreateWakelock(p) \/ Post(p)
    \/ HandlePendingWrites \/ HandleWakelocks
    \/ FrameworkRead \/ FrameworkAck \/ Expire

\* Every thread runs on, the mutex starves nobody, and time passes.  Nothing is
\* promised of sub-HALs and of the framework.
Fairness ==
    /\ \A p \in Posters : WF_vars(Post(p)) /\ SF_vars(PostCount(p))
    /\ WF_vars(HandlePendingWrites)
    /\ SF_vars(WriterTake) /\ SF_vars(WriterDone)
    /\ WF_vars(HandleWakelocks)
    /\ WF_vars(Expire)

Spec == Init /\ [][Next]_vars
FairSpec == Spec /\ Fairness

----------------------------------------------------------------------------
\* Properties.

\* The events that still have to be written, in order: the front entry counts
\* without what the writer has already written or given up.
Backlog ==
    LET all == FlattenSeq([i \in DOMAIN pending |-> pending[i].events])
    IN IF writer \in {"failed", "done"} THEN Rest(all, NumToWrite) ELSE all

Ids(events) == [i \in DOMAIN events |-> events[i].id]

Channel == INSTANCE EventChannel WITH queue <- Ids(fmq \o Backlog)

\* Although the pending-writes thread writes without the mutex and posters
\* write directly, the event queue and the backlog together are one queue:
\* events arrive in the order in which they were posted, at most once, and
\* only the tail of a batch or a timed-out write is lost.
ImplementsChannel == Channel!ChanSpec

\* The size that guards kMaxSizePendingWriteEventsQueue is the number of events
\* in the backlog, through partial writes, failures and concurrent posts.
SizeAccurate ==
    pendingSize = Len(FlattenSeq([i \in DOMAIN pending |-> pending[i].events]))

\* The kernel wakelock is held exactly while the count is positive: it is never
\* leaked by a count of zero and never lost while something is counted.
HeldIffCounted == held <=> refCount > 0

SumOf(s) ==
    LET sum[i \in 0 .. Len(s)] == IF i = 0 THEN 0 ELSE sum[i - 1] + s[i]
    IN sum[Len(s)]

\* Without timeouts, the count covers every wake-up event on its way: in the
\* queues, with the framework, or in an answer that was not yet counted.
RefCovers ==
    clean => refCount >= NumWake(fmq \o Backlog) + handling + SumOf(acks) + got

\* An event does not wait in the backlog for ever, even if the framework is
\* gone: it is written or, after the timeout, dropped.
BacklogDrains ==
    \A i \in 1 .. MaxEvents :
        (\E k \in DOMAIN Backlog : Backlog[k].id = i)
            ~> (\A k \in DOMAIN Backlog : Backlog[k].id # i)

\* Whatever was dropped, suppressed or never answered, the device is not kept
\* awake for ever once the sub-HALs are silent.
WakelockReleased == held ~> ~held

=============================================================================
