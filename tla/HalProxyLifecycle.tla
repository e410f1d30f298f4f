-------------------------- MODULE HalProxyLifecycle --------------------------
(***************************************************************************)
(* The multi-HAL proxy through initialize, re-initialize and               *)
(* setOperationMode, composed with one sensor of a sub-HAL.                *)
(*                                                                         *)
(* The binder thread (the service has only one) stops the proxy's two      *)
(* threads, which wait on condition variables, write blocking and read     *)
(* blocking, and starts them anew.  It signals the condition variables     *)
(* without their mutexes: a thread that has tested its predicate and not   *)
(* yet begun to wait ("tested", the mutex still held) does not notice.     *)
(*                                                                         *)
(* A second sub-HAL may refuse an operation mode.  Events are wake-up      *)
(* events, one to a post, and are counted; their order is the subject of   *)
(* HalProxyEvents.  The sensor is a one-shot sensor: its batch does        *)
(* nothing and its flush is refused, so neither is an action.              *)
(***************************************************************************)
EXTENDS SubHalSensor

CONSTANTS
    QueueSize,   \* mEventQueue->getQuantumCount()
    MaxPending,  \* kMaxSizePendingWriteEventsQueue
    MaxCount     \* bound: no post while mWakelockRefCount is larger

ASSUME ProxyAssumption == {QueueSize, MaxPending, MaxCount} \subseteq Nat \ {0}

VARIABLES
    run,      \* mThreadsRun
    writer,   \* the step of handlePendingWrites
    waker,    \* the step of handleWakelocks
    backlog,  \* mSizePendingWriteEventsQueue
    fmq,      \* the events in mEventQueue
    count,    \* mWakelockRefCount
    scoped,   \* the scoped wakelock of the sensor's post
    main,     \* the binder thread: its step, the mode it sets, what follows
    current,  \* mCurrentOperationMode
    \* history
    missed,   \* the threads that stopThreads notified in vain
    earned    \* the framework activated the sensor since its last post

threadVars == <<run, writer, waker>>
queueVars == <<backlog, fmq>>
countVars == <<count, scoped>>
proxyVars == <<threadVars, queueVars, countVars>>
otherVars == <<missed, earned>>
vars == <<sensorVars, proxyVars, main, current, otherVars>>

Idle == [at |-> "idle", mode |-> "normal", then |-> "idle"]
MainSteps ==
    {"idle", "drain", "notify", "joinWriter", "joinWaker", "disable", "clear",
     "launch", "setMode", "interrupt", "others", "initOthers"}

\* The variables keep their types, the event queue its capacity and the backlog
\* its limit, also when the queues are replaced.
TypeOK ==
    /\ SensorTypeOK
    /\ run \in BOOLEAN
    /\ writer \in {"none", "loop", "tested", "wait", "write", "done"}
    /\ waker \in {"none", "loop", "tested", "wait", "read"}
    /\ backlog \in 0 .. MaxPending /\ fmq \in 0 .. QueueSize
    /\ count \in Nat
    /\ scoped \in {"none", "locked", "stale"}
    /\ main \in [at : MainSteps, mode : OperationModes, then : MainSteps]
    /\ current \in OperationModes
    /\ missed \subseteq {"writer", "waker"} /\ earned \in BOOLEAN

\* The proxy before the framework's first initialize.
Init ==
    /\ SensorInit
    /\ run = FALSE /\ writer = "none" /\ waker = "none"
    /\ backlog = 0 /\ fmq = 0
    /\ count = 0 /\ scoped = "none"
    /\ main = Idle /\ current = "normal"
    /\ missed = {} /\ earned = FALSE

\* mEventQueueWriteMutex and mWakelockMutex.
WriteMutexFree == writer # "tested"
WakelockMutexFree == waker # "tested"

Woken(t) == IF t = "wait" THEN "loop" ELSE t

----------------------------------------------------------------------------
\* The reference count.  Both operations test mThreadsRun before they lock
\* mWakelockMutex: a call that initialize overtakes may have passed the test.
MayCount == run \/ main.at # "idle"

\* incrementRefCountAndMaybeAcquireWakelock, when it returns true
Increment(n) ==
    /\ MayCount
    /\ count' = count + n
    /\ waker' = IF count = 0 THEN Woken(waker) ELSE waker

Refused == ~run /\ UNCHANGED <<count, waker>>

\* decrementRefCountAndMaybeReleaseWakelock
Decrement(n) ==
    \/ MayCount /\ count' = IF n > count THEN 0 ELSE count - n
    \/ ~run /\ UNCHANGED count

\* mWakelockTimeoutResetTime: the scoped wakelocks of before are void.
Void == scoped' = IF scoped = "locked" THEN "stale" ELSE scoped

----------------------------------------------------------------------------
\* SensorsSubHal::postEvents, by the sensor's thread, which holds mRunMutex.

PostStep(from, to) ==
    /\ thread = from /\ thread' = to
    /\ UNCHANGED <<loop, enabled, mode, stopped, pipe, report, polled>>

\* createScopedWakelock(true)
PostCreate ==
    /\ PostStep("create", "check") /\ WakelockMutexFree
    /\ \/ count <= MaxCount /\ Increment(1) /\ scoped' = "locked"
       \/ Refused /\ UNCHANGED scoped
    /\ UNCHANGED <<run, writer, queueVars, main, current, otherVars>>

\* mutant: the threads are not asked for
PostCheckBlind ==
    /\ PostStep("check", "enqueue")
    /\ UNCHANGED <<proxyVars, main, current, otherVars>>

\* HalProxyCallbackBase::postEvents returns if the threads do not run.
PostCheck ==
    /\ PostStep("check", IF run THEN "enqueue" ELSE "release")
    /\ UNCHANGED <<proxyVars, main, current, otherVars>>

\* mutants: the backlog is filled in silence; its limit is ignored
EnqueueSilent ==
    \/ backlog = 0 /\ fmq < QueueSize /\ fmq' = fmq + 1 /\ UNCHANGED <<backlog, writer>>
    \/ backlog < MaxPending /\ backlog' = backlog + 1 /\ UNCHANGED <<writer, fmq>>
    \/ backlog = MaxPending /\ UNCHANGED <<backlog, writer, fmq>>
EnqueueAlways ==
    \/ backlog = 0 /\ fmq < QueueSize /\ fmq' = fmq + 1 /\ UNCHANGED <<backlog, writer>>
    \/ backlog' = backlog + 1 /\ writer' = Woken(writer) /\ UNCHANGED fmq

\* Into the queue; into the backlog if there is one, if there is no room or if the
\* write fails all the same; or, past the backlog's limit, dropped.
Enqueue ==
    \/ /\ backlog = 0 /\ fmq < QueueSize
       /\ fmq' = fmq + 1 /\ UNCHANGED <<backlog, writer>>
    \/ /\ backlog < MaxPending
       /\ backlog' = backlog + 1 /\ writer' = Woken(writer) /\ UNCHANGED fmq
    \/ backlog = MaxPending /\ UNCHANGED <<backlog, writer, fmq>>

\* postEventsToMessageQueue
PostEnqueue ==
    /\ PostStep("enqueue", "release")
    /\ WriteMutexFree /\ WakelockMutexFree
    /\ IF scoped = "none" THEN UNCHANGED <<count, waker>> ELSE Increment(1) \/ Refused
    /\ Enqueue
    /\ UNCHANGED <<run, scoped, main, current, otherVars>>

\* The scoped wakelock is destroyed and the loop goes on.
PostRelease ==
    /\ PostStep("release", "loop") /\ WakelockMutexFree
    /\ IF scoped = "locked" THEN Decrement(1) ELSE UNCHANGED count
    /\ scoped' = "none" /\ earned' = FALSE
    /\ UNCHANGED <<threadVars, queueVars, main, current, missed>>

Post == PostCreate \/ PostCheck \/ PostEnqueue \/ PostRelease

----------------------------------------------------------------------------
\* handlePendingWrites.

\* while (mThreadsRun) { wait(...); if (mThreadsRun) ...
WriterLoop ==
    /\ writer = "loop"
    /\ writer' = CASE ~run -> "none"
                   [] run /\ backlog > 0 -> "write"
                   [] OTHER -> "tested"
    /\ UNCHANGED <<sensorVars, run, waker, queueVars, countVars, main, current,
                   otherVars>>

\* The mutex is released and the wait begins.
WriterWait ==
    /\ writer = "tested" /\ writer' = "wait"
    /\ UNCHANGED <<sensorVars, run, waker, queueVars, countVars, main, current,
                   otherVars>>

\* The wait may end for no reason.
WriterSpurious ==
    /\ writer = "wait" /\ writer' = "loop"
    /\ UNCHANGED <<sensorVars, run, waker, queueVars, countVars, main, current,
                   otherVars>>

\* writeBlocking, without the mutex: written, or dropped after a timeout.
WriterWrite ==
    /\ writer = "write" /\ writer' = "done"
    /\ \/ fmq < QueueSize /\ fmq' = fmq + 1 /\ UNCHANGED count
       \/ WakelockMutexFree /\ Decrement(1) /\ UNCHANGED fmq
    /\ UNCHANGED <<sensorVars, run, waker, backlog, scoped, main, current,
                   otherVars>>

WriterDone ==
    /\ writer = "done" /\ writer' = "loop"
    /\ backlog' = backlog - 1
    /\ UNCHANGED <<sensorVars, run, waker, fmq, countVars, main, current,
                   otherVars>>

HandlePendingWrites == WriterLoop \/ WriterWait \/ WriterWrite \/ WriterDone

----------------------------------------------------------------------------
\* handleWakelocks.

\* mutant: while (mThreadsRun.load() || mWakelockRefCount > 0)
WakerLoopFinishes ==
    /\ waker = "loop"
    /\ \/ ~run /\ count = 0 /\ waker' = "none" /\ Void /\ UNCHANGED count
       \/ run /\ count = 0 /\ waker' = "tested" /\ UNCHANGED countVars
       \/ count > 0 /\ waker' = "read" /\ UNCHANGED countVars
       \/ count > 0 /\ Decrement(count) /\ Void /\ UNCHANGED waker
    /\ UNCHANGED <<sensorVars, run, writer, queueVars, main, current,
                   otherVars>>

\* The count is waited for, then read for, or reset when it timed out.  On the
\* way out the reset finds mThreadsRun false and only voids scoped wakelocks.
WakerLoop ==
    /\ waker = "loop"
    /\ \/ ~run /\ waker' = "none" /\ Void /\ UNCHANGED count
       \/ run /\ count = 0 /\ waker' = "tested" /\ UNCHANGED countVars
       \/ run /\ count > 0 /\ waker' = "read" /\ UNCHANGED countVars
       \/ run /\ count > 0 /\ Decrement(count) /\ Void /\ UNCHANGED waker
    /\ UNCHANGED <<sensorVars, run, writer, queueVars, main, current,
                   otherVars>>

WakerWait ==
    /\ waker = "tested" /\ waker' = "wait"
    /\ UNCHANGED <<sensorVars, run, writer, queueVars, countVars, main,
                   current, otherVars>>

WakerSpurious ==
    /\ waker = "wait" /\ waker' = "loop"
    /\ UNCHANGED <<sensorVars, run, writer, queueVars, countVars, main,
                   current, otherVars>>

\* readBlocking: an answer (Decrement takes the mutex again), stopThreads'
\* zero, or a timeout.
WakerRead ==
    /\ waker = "read" /\ waker' = "loop"
    /\ Decrement(1) \/ UNCHANGED count
    /\ UNCHANGED <<sensorVars, run, writer, backlog, fmq, scoped, main,
                   current, otherVars>>

HandleWakelocks == WakerLoop \/ WakerWait \/ WakerRead

----------------------------------------------------------------------------
\* The binder thread.

MainStep(from, to) == main.at = from /\ main' = [main EXCEPT !.at = to]

\* initialize: stopThreads begins.
Initialize ==
    /\ MainStep("idle", "drain")
    /\ run' = FALSE
    /\ UNCHANGED <<sensorVars, writer, waker, queueVars, countVars, current,
                   otherVars>>

\* The event queue is emptied, so that a blocked write goes on, and a zero
\* written for a blocked read.
Drain ==
    /\ MainStep("drain", "notify")
    /\ fmq' = 0
    /\ UNCHANGED <<sensorVars, threadVars, backlog, countVars, current,
                   otherVars>>

\* mutant: only the wakelock thread is notified
NotifyStopWaker ==
    /\ MainStep("notify", "joinWriter")
    /\ waker' = Woken(waker)
    /\ missed' = {t \in {"writer", "waker"} :
                    "tested" = IF t = "writer" THEN writer ELSE waker}
    /\ UNCHANGED <<sensorVars, run, writer, queueVars, countVars, current, earned>>

\* Both condition variables are notified, without their mutexes.
NotifyStop ==
    /\ MainStep("notify", "joinWriter")
    /\ writer' = Woken(writer) /\ waker' = Woken(waker)
    /\ missed' = {t \in {"writer", "waker"} :
                    "tested" = IF t = "writer" THEN writer ELSE waker}
    /\ UNCHANGED <<sensorVars, run, queueVars, countVars, current, earned>>

JoinWriter ==
    /\ MainStep("joinWriter", "joinWaker") /\ writer = "none"
    /\ UNCHANGED <<sensorVars, proxyVars, current, otherVars>>

\* The threads are gone; resetSharedWakelock keeps the count.
JoinWaker ==
    /\ MainStep("joinWaker", "disable") /\ waker = "none"
    /\ Void
    /\ UNCHANGED <<sensorVars, threadVars, queueVars, count, current,
                   otherVars>>

\* disableAllSensors
Disable ==
    /\ MainStep("disable", "clear")
    /\ Activate(FALSE)
    /\ UNCHANGED <<proxyVars, current, otherVars>>

\* The backlog is cleared, without its mutex, and the queues are replaced.
Clear ==
    /\ MainStep("clear", "launch")
    /\ backlog' = 0 /\ fmq' = 0
    /\ UNCHANGED <<sensorVars, threadVars, countVars, current, otherVars>>

\* The threads start; SensorsSubHal::initialize sets the mode.
Launch ==
    /\ main.at = "launch"
    /\ main' = [at |-> "setMode", mode |-> "normal", then |-> "initOthers"]
    /\ run' = TRUE /\ writer' = "loop" /\ waker' = "loop"
    /\ missed' = {}
    /\ UNCHANGED <<sensorVars, queueVars, countVars, current, earned>>

\* The other sub-HALs' initialize may fail; the mode is NORMAL all the same.
InitOthers ==
    /\ main.at = "initOthers" /\ main' = Idle
    /\ current' = "normal"
    /\ UNCHANGED <<sensorVars, proxyVars, otherVars>>

\* The one binder thread is free, and the framework has called initialize.
Ready == main.at = "idle" /\ run

\* setOperationMode(m), which asks the sensor's sub-HAL first.
SetOperationMode(m) ==
    /\ Ready
    /\ main' = [at |-> "setMode", mode |-> m, then |-> "others"]
    /\ UNCHANGED <<sensorVars, proxyVars, current, otherVars>>

SensorMode ==
    /\ MainStep("setMode", "interrupt")
    /\ SetMode(main.mode)
    /\ UNCHANGED <<proxyVars, current, otherVars>>

SensorInterrupt ==
    /\ MainStep("interrupt", main.then)
    /\ ModeInterrupt
    /\ UNCHANGED <<proxyVars, current, otherVars>>

\* mutant: a refused mode is left with those who took it
OthersModeStays ==
    /\ main.at = "others" /\ main' = Idle
    /\ current' = main.mode \/ UNCHANGED current
    /\ UNCHANGED <<sensorVars, proxyVars, otherVars>>

\* The other sub-HALs take the mode, or one refuses and the sensor's is reset.
OthersMode ==
    /\ main.at = "others"
    /\ \/ main' = Idle /\ current' = main.mode
       \/ /\ main' = [at |-> "setMode", mode |-> current, then |-> "idle"]
          /\ UNCHANGED current
    /\ UNCHANGED <<sensorVars, proxyVars, otherVars>>

\* activate(handle, e); a handle that no sub-HAL has is refused and changes
\* nothing.
FrameworkActivate(e) ==
    /\ Ready
    /\ Activate(e)
    /\ earned' = (earned \/ (e /\ ~enabled))
    /\ UNCHANGED <<proxyVars, main, current, missed>>

Binder ==
    \/ Drain \/ NotifyStop \/ JoinWriter \/ JoinWaker
    \/ Disable \/ Clear \/ Launch \/ InitOthers
    \/ SensorMode \/ SensorInterrupt \/ OthersMode

----------------------------------------------------------------------------
\* The framework handles an event and says so.
FrameworkRead ==
    /\ fmq > 0
    /\ fmq' = fmq - 1
    /\ UNCHANGED <<sensorVars, threadVars, backlog, countVars, main, current,
                   otherVars>>

Next ==
    \/ /\ SensorThread \/ Notify
       /\ UNCHANGED <<proxyVars, main, current, otherVars>>
    \/ Post
    \/ HandlePendingWrites \/ HandleWakelocks \/ FrameworkRead
    \/ WriterSpurious \/ WakerSpurious \/ Initialize
    \/ Binder
    \/ \E m \in OperationModes : SetOperationMode(m)
    \/ \E e \in BOOLEAN : FrameworkActivate(e)

Spec == Init /\ [][Next]_vars

\* A thread that can go on does; one that competes for a mutex gets it in the end.
\* Nobody has to call initialize, to make a gesture or to wake up for no reason.
FairSpec ==
    /\ Spec
    /\ WF_vars(Binder) /\ SF_vars(Disable) /\ SF_vars(Post)
    /\ WF_vars(HandlePendingWrites) /\ WF_vars(HandleWakelocks)

----------------------------------------------------------------------------
\* Properties.

\* stopThreads wakes both threads: one that it joins is parked in its wait only
\* if it was between its test and its wait when it was notified.  In that gap,
\* which the missing mutex opens, the notification is lost and join() blocks.
JoinedThreadsWoken ==
    main.at \in {"joinWriter", "joinWaker"} =>
        /\ writer = "wait" => "writer" \in missed
        /\ waker = "wait" => "waker" \in missed

\* A re-initialisation gets as far as the new threads: neither the joins, nor the
\* blocking write and read that they wait for, nor the mRunMutex of a sensor that
\* posts meanwhile hold it up for ever, unless a notification was lost.
ReinitializeProceeds ==
    main.at = "drain" ~> main.at = "launch" \/ missed # {}

\* While the threads run, a backlog is never left to a sleeping writer, nor a
\* count, which keeps the device awake until it times out, to a sleeping
\* wakelock thread: also what an earlier initialize left behind.
PendingWorkWatched ==
    /\ run /\ backlog > 0 => writer \notin {"tested", "wait"}
    /\ run /\ count > 0 => waker \notin {"tested", "wait"}

\* Through activations, mode changes, roll-backs and re-initialisations the
\* thread of an armed sensor does not sleep, and one that polls for a sensor no
\* longer armed has a byte in its pipe, or is about to get it: poll() returns.
\* (A gesture that the same poll() reports is delivered all the same.)
SensorHeedsMode ==
    /\ enabled /\ mode = "normal" /\ ~stopped => thread # "wait"
    /\ thread = "poll" /\ (~enabled \/ mode = "injection")
         => pipe > 0 \/ main.at = "interrupt"

\* In the polling loop, between two posts the framework has activated the sensor.
\* The post itself may come after the sensor was disabled again.
OnePostPerActivation == thread \in PostSteps /\ loop = "polling" => earned

\* "So that the pending write events queue can be cleared safely": when initialize
\* replaces the queues, without their mutexes, no post is on its way into them, and
\* none gets there until the new threads run, although a gesture polled before
\* disableAllSensors is posted after it.
QueuesReplacedSafely ==
    main.at \in {"clear", "launch"} =>
        thread # "enqueue" /\ (main.at = "launch" => fmq = 0 /\ backlog = 0)

\* When a call returns, the sensor is in the mode the proxy believes in,
\* whichever sub-HAL refused the change.
ModesAgree == main.at = "idle" => mode = current
=============================================================================
