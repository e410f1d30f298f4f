---------------------- MODULE HalProxyLifecycleProofs ----------------------
(***************************************************************************)
(* The multi-HAL proxy with a sensor of a sub-HAL, through any number of   *)
(* initialisations and changes of mode: proofs for all queue sizes.        *)
(***************************************************************************)
EXTENDS HalProxyLifecycle, TLAPS

\* A step of the sensor's thread or of its driver.
SensorStep ==
    (SensorThread \/ Notify) /\ UNCHANGED <<proxyVars, main, current, otherVars>>

\* A wait of one of the proxy's threads that ends for no reason.
Spurious == WriterSpurious \/ WakerSpurious

\* The binder thread's own steps, posts apart.
BinderStep ==
    \/ Binder \/ Initialize \/ (\E m \in OperationModes : SetOperationMode(m))
    \/ (\E e \in BOOLEAN : FrameworkActivate(e))

\* All that Next may do.
LEMMA Steps ==
    ASSUME [Next]_vars
    PROVE  \/ SensorStep \/ Post \/ HandlePendingWrites
           \/ HandleWakelocks \/ FrameworkRead \/ Spurious \/ BinderStep
           \/ UNCHANGED vars
BY Zenon DEF Next, SensorStep, BinderStep, Spurious

----------------------------------------------------------------------------
\* The operation mode.

\* What the sensor's mode is at each step of the binder thread: the proxy's
\* between calls, the one that is being set once it was.
ModesInv ==
    /\ main.at = "idle" => mode = current
    /\ main.at \in {"interrupt", "others"} => mode = main.mode
    /\ main.at = "initOthers" => mode = "normal"
    /\ main.at \in {"setMode", "interrupt"} =>
         /\ main.then \in {"idle", "others", "initOthers"}
         /\ main.then = "idle" => main.mode = current
         /\ main.then = "initOthers" => main.mode = "normal"
    /\ main = [at |-> main.at, mode |-> main.mode, then |-> main.then]

\* Every step preserves it.
LEMMA ModesStep ==
    ASSUME ModesInv, [Next]_vars PROVE ModesInv'
<1> USE DEF ModesInv, PostSteps, sensorVars, proxyVars, threadVars, queueVars,
      countVars, otherVars, vars
<1>1. CASE SensorStep
  BY <1>1 DEF SensorStep, SensorThread, Notify, Loop, Poll, PollFailed,
        NoGesture, Deliver, Suppress, SpuriousWake
<1>2. CASE Post
  BY <1>2 DEF Post, PostCreate, PostCheck, PostEnqueue, PostRelease, PostStep
<1>3. CASE HandlePendingWrites
  BY <1>3 DEF HandlePendingWrites, WriterLoop, WriterWait, WriterWrite,
        WriterDone
<1>4. CASE HandleWakelocks
  BY <1>4 DEF HandleWakelocks, WakerLoop, WakerWait, WakerRead
<1>5. CASE FrameworkRead \/ Spurious
  BY <1>5 DEF FrameworkRead, Spurious, WriterSpurious, WakerSpurious
<1>6. CASE Binder \/ Initialize
  <2>1. CASE Initialize
    BY <1>6, <2>1 DEF Initialize, MainStep
  <2>2. CASE Drain
    BY <1>6, <2>2 DEF Drain, MainStep
  <2>3. CASE NotifyStop
    BY <1>6, <2>3 DEF NotifyStop, MainStep
  <2>4. CASE JoinWriter
    BY <1>6, <2>4 DEF JoinWriter, MainStep
  <2>5. CASE JoinWaker
    BY <1>6, <2>5 DEF JoinWaker, MainStep
  <2>6. CASE Disable
    BY <1>6, <2>6 DEF Disable, MainStep, Activate, InterruptPoll, NotifyAll
  <2>7. CASE Clear
    BY <1>6, <2>7 DEF Clear, MainStep
  <2>8. CASE Launch
    BY <1>6, <2>8 DEF Launch
  <2>9. CASE InitOthers
    BY <1>6, <2>9 DEF InitOthers, Idle
  <2>10. CASE SensorMode
    BY <1>6, <2>10 DEF SensorMode, MainStep, SetMode, NotifyAll
  <2>11. CASE SensorInterrupt
    BY <1>6, <2>11 DEF SensorInterrupt, MainStep, ModeInterrupt, InterruptPoll
  <2>12. CASE OthersMode
    BY <1>6, <2>12 DEF OthersMode, Idle
  <2> QED
    BY <1>6, <2>1, <2>2, <2>3, <2>4, <2>5, <2>6, <2>7, <2>8, <2>9, <2>10,
          <2>11, <2>12
       DEF Binder
<1>7. ASSUME NEW m \in OperationModes, SetOperationMode(m) PROVE ModesInv'
  BY <1>7 DEF SetOperationMode, Ready
<1>8. ASSUME NEW e \in BOOLEAN, FrameworkActivate(e) PROVE ModesInv'
  BY <1>8 DEF FrameworkActivate, Ready, Activate
<1>9. CASE UNCHANGED vars
  BY <1>9
<1> QED
  BY <1>1, <1>2, <1>3, <1>4, <1>5, <1>6, <1>7, <1>8, <1>9, Steps DEF BinderStep

\* Whichever sub-HAL refuses a mode, and through re-initialisations, the sensor is
\* in the mode the proxy believes in whenever a call has returned.
THEOREM ModesAlwaysAgree == Spec => []ModesAgree
<1>1. Init => ModesInv
  BY DEF Init, SensorInit, ModesInv, Idle, PostSteps
<1>2. ModesInv => ModesAgree
  BY DEF ModesInv, ModesAgree
<1> QED
  BY <1>1, <1>2, ModesStep, PTL DEF Spec

----------------------------------------------------------------------------
\* Backlog and count.

WatchedInv == PendingWorkWatched /\ count \in Nat

\* A thread falls asleep only on an empty backlog or a count of zero, and is woken
\* when that changes.
LEMMA WatchedStep ==
    ASSUME WatchedInv, [Next]_vars PROVE WatchedInv'
<1> USE ProxyAssumption DEF WatchedInv, PendingWorkWatched, Increment,
      Decrement, Refused, Void,
        Woken, WriteMutexFree, WakelockMutexFree, PostSteps, sensorVars,
        proxyVars, threadVars, queueVars, countVars, otherVars,
        vars
<1>1. CASE SensorStep
  BY <1>1 DEF SensorStep, SensorThread, Notify, Loop, Poll, PollFailed,
        NoGesture, Deliver, Suppress, SpuriousWake
<1>2. CASE Post
  BY <1>2 DEF Post, PostCreate, PostCheck, PostEnqueue, PostRelease, PostStep, Enqueue
<1>3. CASE HandlePendingWrites
  BY <1>3 DEF HandlePendingWrites, WriterLoop, WriterWait, WriterWrite,
        WriterDone
<1>4. CASE HandleWakelocks
  BY <1>4 DEF HandleWakelocks, WakerLoop, WakerWait, WakerRead
<1>5. CASE FrameworkRead \/ Spurious
  BY <1>5 DEF FrameworkRead, Spurious, WriterSpurious, WakerSpurious
<1>6. CASE Binder \/ Initialize
  <2>1. CASE Initialize
    BY <1>6, <2>1 DEF Initialize, MainStep
  <2>2. CASE Drain
    BY <1>6, <2>2 DEF Drain, MainStep
  <2>3. CASE NotifyStop
    BY <1>6, <2>3 DEF NotifyStop, MainStep
  <2>4. CASE JoinWriter
    BY <1>6, <2>4 DEF JoinWriter, MainStep
  <2>5. CASE JoinWaker
    BY <1>6, <2>5 DEF JoinWaker, MainStep
  <2>6. CASE Disable
    BY <1>6, <2>6 DEF Disable, MainStep, Activate, InterruptPoll, NotifyAll
  <2>7. CASE Clear
    BY <1>6, <2>7 DEF Clear, MainStep
  <2>8. CASE Launch
    BY <1>6, <2>8 DEF Launch
  <2>9. CASE InitOthers
    BY <1>6, <2>9 DEF InitOthers, Idle
  <2>10. CASE SensorMode
    BY <1>6, <2>10 DEF SensorMode, MainStep, SetMode, NotifyAll
  <2>11. CASE SensorInterrupt
    BY <1>6, <2>11 DEF SensorInterrupt, MainStep, ModeInterrupt, InterruptPoll
  <2>12. CASE OthersMode
    BY <1>6, <2>12 DEF OthersMode, Idle
  <2> QED
    BY <1>6, <2>1, <2>2, <2>3, <2>4, <2>5, <2>6, <2>7, <2>8, <2>9, <2>10,
          <2>11, <2>12
       DEF Binder
<1>7. ASSUME NEW m \in OperationModes, SetOperationMode(m) PROVE WatchedInv'
  BY <1>7 DEF SetOperationMode, Ready
<1>8. ASSUME NEW e \in BOOLEAN, FrameworkActivate(e) PROVE WatchedInv'
  BY <1>8 DEF FrameworkActivate, Ready
<1>9. CASE UNCHANGED vars
  BY <1>9
<1> QED
  BY <1>1, <1>2, <1>3, <1>4, <1>5, <1>6, <1>7, <1>8, <1>9, Steps DEF BinderStep

\* Through any number of initialisations, neither a backlog nor a wakelock count is
\* left to a thread that sleeps.
THEOREM WorkIsWatched == Spec => []PendingWorkWatched
<1>1. Init => WatchedInv
  BY DEF Init, WatchedInv, PendingWorkWatched
<1>2. WatchedInv => PendingWorkWatched
  BY DEF WatchedInv, PendingWorkWatched
<1> QED
  BY <1>1, <1>2, WatchedStep, PTL DEF Spec

----------------------------------------------------------------------------
\* The sensor's thread.

\* With a pipe whose byte is still there when poll() has reported it.
HeedsInv ==
    /\ SensorHeedsMode
    /\ pipe \in 0 .. PipeMany /\ ("pipe" \in polled => pipe > 0)

\* Whatever disarms the sensor writes to the pipe, whatever arms it notifies.
LEMMA HeedsStep ==
    ASSUME HeedsInv, [Next]_vars PROVE HeedsInv'
<1> USE SensorAssumption DEF HeedsInv, SensorHeedsMode, OperationModes,
      RunMutexFree, PostSteps,
        sensorVars, proxyVars, threadVars, queueVars, countVars,
        otherVars, vars
<1>1. CASE SensorStep
  <2>1. CASE Loop
    BY <1>1, <2>1 DEF Loop, SensorStep
  <2>2. CASE Poll
    BY <1>1, <2>2 DEF Poll, SensorStep
  <2>3. CASE PollFailed
    BY <1>1, <2>3 DEF PollFailed, SensorStep
  <2>4. CASE NoGesture
    BY <1>1, <2>4 DEF NoGesture, ReadPipe, SensorStep
  <2>5. CASE Deliver
    BY <1>1, <2>5 DEF Deliver, SensorStep
  <2>6. CASE Suppress
    BY <1>1, <2>6 DEF Suppress, SensorStep
  <2>7. CASE SpuriousWake
    BY <1>1, <2>7 DEF SpuriousWake, SensorStep
  <2>8. CASE Notify
    BY <1>1, <2>8 DEF Notify, SensorStep
  <2> QED
    BY <1>1, <2>1, <2>2, <2>3, <2>4, <2>5, <2>6, <2>7, <2>8
       DEF SensorStep, SensorThread
<1>2. CASE Post
  BY <1>2 DEF Post, PostCreate, PostCheck, PostEnqueue, PostRelease, PostStep
<1>3. CASE HandlePendingWrites
  BY <1>3 DEF HandlePendingWrites, WriterLoop, WriterWait, WriterWrite,
        WriterDone
<1>4. CASE HandleWakelocks
  BY <1>4 DEF HandleWakelocks, WakerLoop, WakerWait, WakerRead
<1>5. CASE FrameworkRead \/ Spurious
  BY <1>5 DEF FrameworkRead, Spurious, WriterSpurious, WakerSpurious
<1>6. CASE Binder \/ Initialize
  <2>1. CASE Initialize
    BY <1>6, <2>1 DEF Initialize, MainStep
  <2>2. CASE Drain
    BY <1>6, <2>2 DEF Drain, MainStep
  <2>3. CASE NotifyStop
    BY <1>6, <2>3 DEF NotifyStop, MainStep
  <2>4. CASE JoinWriter
    BY <1>6, <2>4 DEF JoinWriter, MainStep
  <2>5. CASE JoinWaker
    BY <1>6, <2>5 DEF JoinWaker, MainStep
  <2>6. CASE Disable
    <3>1. CASE enabled = FALSE
      BY <2>6, <3>1 DEF Disable, MainStep, Activate
    <3>2. CASE enabled # FALSE
      <4>1. pipe' \in 1 .. PipeMany
        BY <2>6, <3>2 DEF Disable, Activate, InterruptPoll
      <4>2. enabled' = FALSE /\ UNCHANGED <<mode, stopped, polled>>
        BY <2>6, <3>2 DEF Disable, Activate
      <4> QED
        BY <4>1, <4>2
    <3> QED
      BY <3>1, <3>2
  <2>7. CASE Clear
    BY <1>6, <2>7 DEF Clear, MainStep
  <2>8. CASE Launch
    BY <1>6, <2>8 DEF Launch
  <2>9. CASE InitOthers
    BY <1>6, <2>9 DEF InitOthers, Idle
  <2>10. CASE SensorMode
    BY <1>6, <2>10 DEF SensorMode, MainStep, SetMode, NotifyAll
  <2>11. CASE SensorInterrupt
    BY <1>6, <2>11 DEF SensorInterrupt, MainStep, ModeInterrupt, InterruptPoll
  <2>12. CASE OthersMode
    BY <1>6, <2>12 DEF OthersMode, Idle
  <2> QED
    BY <1>6, <2>1, <2>2, <2>3, <2>4, <2>5, <2>6, <2>7, <2>8, <2>9, <2>10,
          <2>11, <2>12
       DEF Binder
<1>7. ASSUME NEW m \in OperationModes, SetOperationMode(m) PROVE HeedsInv'
  BY <1>7 DEF SetOperationMode, Ready
<1>8. ASSUME NEW e \in BOOLEAN, FrameworkActivate(e) PROVE HeedsInv'
  BY <1>8 DEF FrameworkActivate, Ready,
       Activate, SetMode, ModeInterrupt, InterruptPoll, NotifyAll
<1>9. CASE UNCHANGED vars
  BY <1>9
<1> QED
  BY <1>1, <1>2, <1>3, <1>4, <1>5, <1>6, <1>7, <1>8, <1>9, Steps DEF BinderStep

\* Through activations, refused and accepted modes and re-initialisations, the
\* thread does not sleep for an armed sensor nor poll on for a disarmed one.
THEOREM SensorAlwaysHeedsMode == Spec => []SensorHeedsMode
<1>1. Init => HeedsInv
  BY SensorAssumption DEF Init, SensorInit, HeedsInv, SensorHeedsMode
<1>2. HeedsInv => SensorHeedsMode
  BY DEF HeedsInv, SensorHeedsMode
<1> QED
  BY <1>1, <1>2, HeedsStep, PTL DEF Spec

\* A thread that may still post was asked to by the framework.
EarnedInv ==
    loop = "polling" =>
        /\ enabled \/ thread \in {"poll", "polled"} \cup PostSteps => earned
        /\ thread \in PostSteps => ~enabled

\* Every step preserves it.
LEMMA EarnedStep ==
    ASSUME EarnedInv, [Next]_vars PROVE EarnedInv'
<1> USE DEF EarnedInv, RunMutexFree, PostSteps, sensorVars, proxyVars,
      threadVars, queueVars, countVars, otherVars, vars
<1>1. CASE SensorStep
  <2>1. CASE Loop
    BY <1>1, <2>1 DEF Loop, SensorStep
  <2>2. CASE Poll
    BY <1>1, <2>2 DEF Poll, SensorStep
  <2>3. CASE PollFailed
    BY <1>1, <2>3 DEF PollFailed, SensorStep
  <2>4. CASE NoGesture
    BY <1>1, <2>4 DEF NoGesture, SensorStep
  <2>5. CASE Deliver
    BY <1>1, <2>5 DEF Deliver, Gesture, SensorStep
  <2>6. CASE Suppress
    BY <1>1, <2>6 DEF Suppress, Gesture, SensorStep
  <2>7. CASE SpuriousWake
    BY <1>1, <2>7 DEF SpuriousWake, SensorStep
  <2>8. CASE Notify
    BY <1>1, <2>8 DEF Notify, SensorStep
  <2> QED
    BY <1>1, <2>1, <2>2, <2>3, <2>4, <2>5, <2>6, <2>7, <2>8
       DEF SensorStep, SensorThread
<1>2. CASE Post
  <2>1. CASE PostCreate
    BY <1>2, <2>1 DEF PostCreate, PostStep
  <2>2. CASE PostEnqueue
    BY <1>2, <2>2 DEF PostEnqueue, PostStep
  <2>4. CASE PostCheck
    BY <1>2, <2>4 DEF PostCheck, PostStep
  <2>3. CASE PostRelease
    BY <1>2, <2>3 DEF PostRelease, PostStep
  <2> QED
    BY <1>2, <2>1, <2>2, <2>3, <2>4
       DEF Post
<1>3. CASE HandlePendingWrites
  BY <1>3 DEF HandlePendingWrites, WriterLoop, WriterWait, WriterWrite,
        WriterDone
<1>4. CASE HandleWakelocks
  BY <1>4 DEF HandleWakelocks, WakerLoop, WakerWait, WakerRead
<1>5. CASE FrameworkRead \/ Spurious
  BY <1>5 DEF FrameworkRead, Spurious, WriterSpurious, WakerSpurious
<1>6. CASE Binder \/ Initialize
  <2>1. CASE Initialize
    BY <1>6, <2>1 DEF Initialize, MainStep
  <2>2. CASE Drain
    BY <1>6, <2>2 DEF Drain, MainStep
  <2>3. CASE NotifyStop
    BY <1>6, <2>3 DEF NotifyStop, MainStep
  <2>4. CASE JoinWriter
    BY <1>6, <2>4 DEF JoinWriter, MainStep
  <2>5. CASE JoinWaker
    BY <1>6, <2>5 DEF JoinWaker, MainStep
  <2>6. CASE Disable
    BY <1>6, <2>6 DEF Disable, MainStep, Activate, InterruptPoll, NotifyAll
  <2>7. CASE Clear
    BY <1>6, <2>7 DEF Clear, MainStep
  <2>8. CASE Launch
    BY <1>6, <2>8 DEF Launch
  <2>9. CASE InitOthers
    BY <1>6, <2>9 DEF InitOthers, Idle
  <2>10. CASE SensorMode
    BY <1>6, <2>10 DEF SensorMode, MainStep, SetMode, NotifyAll
  <2>11. CASE SensorInterrupt
    BY <1>6, <2>11 DEF SensorInterrupt, MainStep, ModeInterrupt, InterruptPoll
  <2>12. CASE OthersMode
    BY <1>6, <2>12 DEF OthersMode, Idle
  <2> QED
    BY <1>6, <2>1, <2>2, <2>3, <2>4, <2>5, <2>6, <2>7, <2>8, <2>9, <2>10,
          <2>11, <2>12
       DEF Binder
<1>7. ASSUME NEW m \in OperationModes, SetOperationMode(m) PROVE EarnedInv'
  BY <1>7 DEF SetOperationMode, Ready
<1>8. ASSUME NEW e \in BOOLEAN, FrameworkActivate(e) PROVE EarnedInv'
  BY <1>8 DEF FrameworkActivate, Ready,
       Activate, SetMode, ModeInterrupt, InterruptPoll, NotifyAll
<1>9. CASE UNCHANGED vars
  BY <1>9
<1> QED
  BY <1>1, <1>2, <1>3, <1>4, <1>5, <1>6, <1>7, <1>8, <1>9, Steps DEF BinderStep

\* The sensor posts at most once for each activation by the framework.
THEOREM OnePostEach == Spec => []OnePostPerActivation
<1>1. Init => EarnedInv
  BY DEF Init, SensorInit, EarnedInv, PostSteps
<1>2. EarnedInv => OnePostPerActivation
  BY DEF EarnedInv, OnePostPerActivation
<1> QED
  BY <1>1, <1>2, EarnedStep, PTL DEF Spec

----------------------------------------------------------------------------
\* Stopping the threads.

\* Once notified, a thread that sleeps or is about to was in the gap.
JoinedInv ==
    /\ main.at \in {"drain", "notify", "joinWriter", "joinWaker"} => ~run
    /\ main.at \in {"joinWriter", "joinWaker"} =>
         /\ writer \in {"wait", "tested"} => "writer" \in missed
         /\ waker \in {"wait", "tested"} => "waker" \in missed
    /\ main = [at |-> main.at, mode |-> main.mode, then |-> main.then]
    /\ main.at \in {"setMode", "interrupt"} =>
         main.then \in {"idle", "others", "initOthers"}

\* Every step preserves it.
LEMMA JoinedStep ==
    ASSUME JoinedInv, [Next]_vars PROVE JoinedInv'
<1> USE DEF JoinedInv, Woken, PostSteps, sensorVars, proxyVars, threadVars,
      queueVars, countVars, otherVars, vars
<1>1. CASE SensorStep
  BY <1>1 DEF SensorStep, SensorThread, Notify, Loop, Poll, PollFailed,
        NoGesture, Deliver, Suppress, SpuriousWake
<1>2. CASE Post
  BY <1>2 DEF Post, PostCreate, PostCheck, PostEnqueue, PostRelease, PostStep, Increment,
        Refused, Decrement, Enqueue
<1>3. CASE HandlePendingWrites
  BY <1>3 DEF HandlePendingWrites, WriterLoop, WriterWait, WriterWrite,
        WriterDone
<1>4. CASE HandleWakelocks
  BY <1>4 DEF HandleWakelocks, WakerLoop, WakerWait, WakerRead
<1>5. CASE FrameworkRead \/ Spurious
  BY <1>5 DEF FrameworkRead, Spurious, WriterSpurious, WakerSpurious
<1>6. CASE Binder \/ Initialize
  <2>1. CASE Initialize
    BY <1>6, <2>1 DEF Initialize, MainStep
  <2>2. CASE Drain
    BY <1>6, <2>2 DEF Drain, MainStep
  <2>3. CASE NotifyStop
    BY <1>6, <2>3 DEF NotifyStop, MainStep
  <2>4. CASE JoinWriter
    BY <1>6, <2>4 DEF JoinWriter, MainStep
  <2>5. CASE JoinWaker
    BY <1>6, <2>5 DEF JoinWaker, MainStep
  <2>6. CASE Disable
    BY <1>6, <2>6 DEF Disable, MainStep, Activate, InterruptPoll, NotifyAll
  <2>7. CASE Clear
    BY <1>6, <2>7 DEF Clear, MainStep
  <2>8. CASE Launch
    BY <1>6, <2>8 DEF Launch
  <2>9. CASE InitOthers
    BY <1>6, <2>9 DEF InitOthers, Idle
  <2>10. CASE SensorMode
    BY <1>6, <2>10 DEF SensorMode, MainStep, SetMode, NotifyAll
  <2>11. CASE SensorInterrupt
    BY <1>6, <2>11 DEF SensorInterrupt, MainStep, ModeInterrupt, InterruptPoll
  <2>12. CASE OthersMode
    BY <1>6, <2>12 DEF OthersMode, Idle
  <2> QED
    BY <1>6, <2>1, <2>2, <2>3, <2>4, <2>5, <2>6, <2>7, <2>8, <2>9, <2>10,
          <2>11, <2>12
       DEF Binder
<1>7. ASSUME NEW m \in OperationModes, SetOperationMode(m) PROVE JoinedInv'
  BY <1>7 DEF SetOperationMode, Ready
<1>8. ASSUME NEW e \in BOOLEAN, FrameworkActivate(e) PROVE JoinedInv'
  BY <1>8 DEF FrameworkActivate, Ready, Activate
<1>9. CASE UNCHANGED vars
  BY <1>9
<1> QED
  BY <1>1, <1>2, <1>3, <1>4, <1>5, <1>6, <1>7, <1>8, <1>9, Steps DEF BinderStep

\* Every thread that stopThreads joins was woken, or was between its test and its
\* wait when it was notified.
THEOREM JoinedWereWoken == Spec => []JoinedThreadsWoken
<1>1. Init => JoinedInv
  BY DEF Init, JoinedInv, Idle
<1>2. JoinedInv => JoinedThreadsWoken
  BY DEF JoinedInv, JoinedThreadsWoken
<1> QED
  BY <1>1, <1>2, JoinedStep, PTL DEF Spec

----------------------------------------------------------------------------
\* Replacing the queues.

\* A post that found the threads running holds mRunMutex, which disableAllSensors
\* takes after they have stopped.
ReplacedInv ==
    /\ QueuesReplacedSafely
    /\ main.at \in {"drain", "notify", "joinWriter", "joinWaker", "disable",
                    "clear", "launch"} => ~run
    /\ main.at \in {"joinWaker", "disable", "clear", "launch"} => writer = "none"
    /\ main = [at |-> main.at, mode |-> main.mode, then |-> main.then]
    /\ main.at \in {"setMode", "interrupt"} =>
         main.then \in {"idle", "others", "initOthers"}
    /\ fmq \in Nat

\* Every step preserves it.
LEMMA ReplacedStep ==
    ASSUME ReplacedInv, [Next]_vars PROVE ReplacedInv'
<1> USE DEF ReplacedInv, QueuesReplacedSafely, Woken, PostSteps, RunMutexFree,
      sensorVars, proxyVars, threadVars, queueVars, countVars, otherVars, vars
<1>1. CASE SensorStep
  BY <1>1 DEF SensorStep, SensorThread, Notify, Loop, Poll, PollFailed,
        NoGesture, Deliver, Suppress, SpuriousWake
<1>2. CASE Post
  BY <1>2 DEF Post, PostCreate, PostCheck, PostEnqueue, PostRelease, PostStep, Increment,
        Refused, Decrement, Enqueue
<1>3. CASE HandlePendingWrites
  BY <1>3 DEF HandlePendingWrites, WriterLoop, WriterWait, WriterWrite,
        WriterDone
<1>4. CASE HandleWakelocks
  BY <1>4 DEF HandleWakelocks, WakerLoop, WakerWait, WakerRead
<1>5. CASE FrameworkRead \/ Spurious
  BY <1>5 DEF FrameworkRead, Spurious, WriterSpurious, WakerSpurious
<1>6. CASE Binder \/ Initialize
  <2>1. CASE Initialize
    BY <1>6, <2>1 DEF Initialize, MainStep
  <2>2. CASE Drain
    BY <1>6, <2>2 DEF Drain, MainStep
  <2>3. CASE NotifyStop
    BY <1>6, <2>3 DEF NotifyStop, MainStep
  <2>4. CASE JoinWriter
    BY <1>6, <2>4 DEF JoinWriter, MainStep
  <2>5. CASE JoinWaker
    BY <1>6, <2>5 DEF JoinWaker, MainStep
  <2>6. CASE Disable
    BY <1>6, <2>6 DEF Disable, MainStep, Activate, InterruptPoll, NotifyAll
  <2>7. CASE Clear
    BY <1>6, <2>7 DEF Clear, MainStep
  <2>8. CASE Launch
    BY <1>6, <2>8 DEF Launch
  <2>9. CASE InitOthers
    BY <1>6, <2>9 DEF InitOthers, Idle
  <2>10. CASE SensorMode
    BY <1>6, <2>10 DEF SensorMode, MainStep, SetMode, NotifyAll
  <2>11. CASE SensorInterrupt
    BY <1>6, <2>11 DEF SensorInterrupt, MainStep, ModeInterrupt, InterruptPoll
  <2>12. CASE OthersMode
    BY <1>6, <2>12 DEF OthersMode, Idle
  <2> QED
    BY <1>6, <2>1, <2>2, <2>3, <2>4, <2>5, <2>6, <2>7, <2>8, <2>9, <2>10,
          <2>11, <2>12
       DEF Binder
<1>7. ASSUME NEW m \in OperationModes, SetOperationMode(m) PROVE ReplacedInv'
  BY <1>7 DEF SetOperationMode, Ready
<1>8. ASSUME NEW e \in BOOLEAN, FrameworkActivate(e) PROVE ReplacedInv'
  BY <1>8 DEF FrameworkActivate, Ready, Activate
<1>9. CASE UNCHANGED vars
  BY <1>9
<1> QED
  BY <1>1, <1>2, <1>3, <1>4, <1>5, <1>6, <1>7, <1>8, <1>9, Steps DEF BinderStep

\* Whenever initialize replaces the queues, no post is on its way into them, and
\* they stay empty until the new threads run.
THEOREM QueuesAreReplacedSafely == Spec => []QueuesReplacedSafely
<1>1. Init => ReplacedInv
  BY DEF Init, ReplacedInv, QueuesReplacedSafely, Idle
<1>2. ReplacedInv => QueuesReplacedSafely
  BY DEF ReplacedInv, QueuesReplacedSafely
<1> QED
  BY <1>1, <1>2, ReplacedStep, PTL DEF Spec

----------------------------------------------------------------------------
\* Types and limits.

\* The sensor: a byte that poll() reported is still in the pipe.
SensorInv == SensorTypeOK /\ ("pipe" \in polled => pipe > 0)

\* The binder thread.
MainInv ==
    /\ main \in [at : MainSteps, mode : OperationModes, then : MainSteps]
    /\ current \in OperationModes

\* The queues: what the writer is at work on is in the backlog, which initialize
\* empties only when the writer has ended.
QueueInv ==
    /\ writer \in {"none", "loop", "tested", "wait", "write", "done"}
    /\ waker \in {"none", "loop", "tested", "wait", "read"}
    /\ backlog \in 0 .. MaxPending /\ fmq \in 0 .. QueueSize
    /\ writer \in {"write", "done"} => backlog > 0
    /\ main.at \in {"joinWaker", "disable", "clear", "launch"} => writer = "none"

\* The wakelocks and the history.
RestInv ==
    /\ run \in BOOLEAN /\ count \in Nat
    /\ scoped \in {"none", "locked", "stale"}
    /\ earned \in BOOLEAN
    /\ missed \subseteq {"writer", "waker"}

\* The sensor keeps its types.
LEMMA SensorTyped ==
    ASSUME SensorInv, MainInv, [Next]_vars PROVE SensorInv'
<1> USE SensorAssumption DEF SensorInv, SensorTypeOK, MainInv, ThreadSteps,
      PostSteps, OperationModes, sensorVars, proxyVars, threadVars, queueVars,
      countVars, otherVars, vars
<1>1. CASE SensorStep
  <2>1. CASE Loop
    BY <2>1 DEF Loop
  <2>2. CASE Poll
    BY <2>2 DEF Poll
  <2>3. CASE PollFailed
    BY <2>3 DEF PollFailed
  <2>4. CASE NoGesture
    <3>1. /\ thread' = "loop" /\ polled' = {} /\ report' \in {report, NoReport}
          /\ UNCHANGED <<loop, enabled, mode, stopped>>
      BY <2>4 DEF NoGesture
    <3>2. pipe' \in 0 .. PipeMany
      BY <2>4 DEF NoGesture, ReadPipe
    <3> QED
      BY <3>1, <3>2
  <2>5. CASE Deliver
    <3>1. /\ report' = NoReport /\ polled' = {} /\ enabled' = FALSE
          /\ thread' = "create" /\ UNCHANGED <<loop, mode, stopped, pipe>>
      BY <2>5 DEF Deliver
    <3>2. {enabled', stopped'} \subseteq BOOLEAN
      BY <3>1
    <3> QED
      BY <3>1, <3>2
  <2>6. CASE Suppress
    BY <2>6 DEF Suppress
  <2>7. CASE SpuriousWake
    BY <2>7 DEF SpuriousWake
  <2>8. CASE Notify
    BY <2>8 DEF Notify
  <2> QED
    BY <1>1, <2>1, <2>2, <2>3, <2>4, <2>5, <2>6, <2>7, <2>8 DEF SensorStep, SensorThread
<1>2. CASE Post
  BY <1>2 DEF Post, PostCreate, PostCheck, PostEnqueue, PostRelease, PostStep, Increment,
        Refused, Decrement, Enqueue
<1>3. CASE HandlePendingWrites
  BY <1>3 DEF HandlePendingWrites, WriterLoop, WriterWait, WriterWrite,
        WriterDone, Decrement
<1>4. CASE HandleWakelocks
  BY <1>4 DEF HandleWakelocks, WakerLoop, WakerWait, WakerRead, Decrement, Void
<1>5. CASE FrameworkRead \/ Spurious
  BY <1>5 DEF FrameworkRead, Spurious, WriterSpurious, WakerSpurious
<1>6. CASE Binder \/ Initialize
  <2>1. CASE Initialize
    BY <2>1 DEF Initialize, MainStep
  <2>2. CASE Drain
    BY <2>2 DEF Drain, MainStep
  <2>3. CASE NotifyStop
    BY <2>3 DEF NotifyStop, MainStep
  <2>4. CASE JoinWriter
    BY <2>4 DEF JoinWriter, MainStep
  <2>5. CASE JoinWaker
    BY <2>5 DEF JoinWaker, MainStep, Void
  <2>6. CASE Disable
    <3>1. /\ UNCHANGED <<loop, mode, stopped, report, polled>>
          /\ enabled' = FALSE \/ UNCHANGED enabled
      BY <2>6 DEF Disable, Activate
    <3>2. /\ thread' \in {thread, "loop"}
          /\ InterruptPoll \/ UNCHANGED pipe
      BY <2>6 DEF Disable, Activate, NotifyAll
    <3>4. pipe' \in 0 .. PipeMany /\ pipe' >= pipe
      <4>1. pipe \in 0 .. PipeMany /\ PipeMany \in Nat
        OBVIOUS
      <4> QED
        BY <3>2, <4>1 DEF InterruptPoll
    <3>3. {enabled', stopped'} \subseteq BOOLEAN
      BY <3>1
    <3> QED
      BY <3>1, <3>2, <3>3, <3>4
  <2>7. CASE Clear
    BY <2>7 DEF Clear, MainStep
  <2>8. CASE Launch
    BY <2>8 DEF Launch
  <2>9. CASE InitOthers
    BY <2>9 DEF InitOthers, Idle
  <2>10. CASE SensorMode
    BY <2>10 DEF SensorMode, MainStep, SetMode, NotifyAll
  <2>11. CASE SensorInterrupt
    BY <2>11 DEF SensorInterrupt, MainStep, ModeInterrupt, InterruptPoll
  <2>12. CASE OthersMode
    BY <2>12 DEF OthersMode, Idle
  <2> QED
    BY <1>6, <2>1, <2>2, <2>3, <2>4, <2>5, <2>6, <2>7, <2>8, <2>9, <2>10,
       <2>11, <2>12 DEF Binder
<1>7. ASSUME NEW m \in OperationModes, SetOperationMode(m) PROVE SensorInv'
  BY <1>7 DEF SetOperationMode, Ready
<1>8. ASSUME NEW e \in BOOLEAN, FrameworkActivate(e) PROVE SensorInv'
  BY <1>8 DEF FrameworkActivate, Ready, Activate, InterruptPoll, NotifyAll
<1>9. CASE UNCHANGED vars
  BY <1>9
<1> QED
  BY <1>1, <1>2, <1>3, <1>4, <1>5, <1>6, <1>7, <1>8, <1>9, Steps DEF BinderStep

\* The binder thread keeps its types.
LEMMA MainTyped ==
    ASSUME ModesInv, MainInv, [Next]_vars PROVE MainInv'
<1> USE DEF ModesInv, MainInv, MainSteps, PostSteps, OperationModes,
      sensorVars, proxyVars, threadVars, queueVars, countVars,
      otherVars, vars
<1>1. CASE SensorStep
  BY <1>1 DEF SensorStep, SensorThread, Notify, Loop, Poll, PollFailed,
        NoGesture, ReadPipe, Deliver, Suppress, SpuriousWake
<1>2. CASE Post
  BY <1>2 DEF Post, PostCreate, PostCheck, PostEnqueue, PostRelease, PostStep, Increment,
        Refused, Decrement, Enqueue
<1>3. CASE HandlePendingWrites
  BY <1>3 DEF HandlePendingWrites, WriterLoop, WriterWait, WriterWrite,
        WriterDone, Decrement
<1>4. CASE HandleWakelocks
  BY <1>4 DEF HandleWakelocks, WakerLoop, WakerWait, WakerRead, Decrement, Void
<1>5. CASE FrameworkRead \/ Spurious
  BY <1>5 DEF FrameworkRead, Spurious, WriterSpurious, WakerSpurious
<1>6. CASE Binder \/ Initialize
  <2>1. CASE Initialize
    BY <2>1 DEF Initialize, MainStep
  <2>2. CASE Drain
    BY <2>2 DEF Drain, MainStep
  <2>3. CASE NotifyStop
    BY <2>3 DEF NotifyStop, MainStep
  <2>4. CASE JoinWriter
    BY <2>4 DEF JoinWriter, MainStep
  <2>5. CASE JoinWaker
    BY <2>5 DEF JoinWaker, MainStep, Void
  <2>6. CASE Disable
    BY <2>6 DEF Disable, MainStep, Activate, InterruptPoll, NotifyAll
  <2>7. CASE Clear
    BY <2>7 DEF Clear, MainStep
  <2>8. CASE Launch
    BY <2>8 DEF Launch
  <2>9. CASE InitOthers
    BY <2>9 DEF InitOthers, Idle
  <2>10. CASE SensorMode
    BY <2>10 DEF SensorMode, MainStep, SetMode, NotifyAll
  <2>11. CASE SensorInterrupt
    BY <2>11 DEF SensorInterrupt, MainStep, ModeInterrupt, InterruptPoll
  <2>12. CASE OthersMode
    BY <2>12 DEF OthersMode, Idle
  <2> QED
    BY <1>6, <2>1, <2>2, <2>3, <2>4, <2>5, <2>6, <2>7, <2>8, <2>9, <2>10,
       <2>11, <2>12 DEF Binder
<1>7. ASSUME NEW m \in OperationModes, SetOperationMode(m) PROVE MainInv'
  BY <1>7 DEF SetOperationMode, Ready
<1>8. ASSUME NEW e \in BOOLEAN, FrameworkActivate(e) PROVE MainInv'
  BY <1>8 DEF FrameworkActivate, Ready, Activate, InterruptPoll, NotifyAll
<1>9. CASE UNCHANGED vars
  BY <1>9
<1> QED
  BY <1>1, <1>2, <1>3, <1>4, <1>5, <1>6, <1>7, <1>8, <1>9, Steps DEF BinderStep

\* The queues keep their limits.
LEMMA QueueTyped ==
    ASSUME ModesInv, MainInv, QueueInv, [Next]_vars PROVE QueueInv'
<1> USE ProxyAssumption DEF ModesInv, PostSteps, MainInv, QueueInv, Woken,
      sensorVars, proxyVars, threadVars, queueVars, countVars,
      otherVars, vars
<1>1. CASE SensorStep
  BY <1>1 DEF SensorStep, SensorThread, Notify, Loop, Poll, PollFailed,
        NoGesture, ReadPipe, Deliver, Suppress, SpuriousWake
<1>2. CASE Post
  BY <1>2 DEF Post, PostCreate, PostCheck, PostEnqueue, PostRelease, PostStep, Increment,
        Refused, Decrement, Enqueue
<1>3. CASE HandlePendingWrites
  BY <1>3 DEF HandlePendingWrites, WriterLoop, WriterWait, WriterWrite,
        WriterDone, Decrement
<1>4. CASE HandleWakelocks
  BY <1>4 DEF HandleWakelocks, WakerLoop, WakerWait, WakerRead, Decrement, Void
<1>5. CASE FrameworkRead \/ Spurious
  BY <1>5 DEF FrameworkRead, Spurious, WriterSpurious, WakerSpurious
<1>6. CASE Binder \/ Initialize
  <2>1. CASE Initialize
    BY <2>1 DEF Initialize, MainStep
  <2>2. CASE Drain
    BY <2>2 DEF Drain, MainStep
  <2>3. CASE NotifyStop
    BY <2>3 DEF NotifyStop, MainStep
  <2>4. CASE JoinWriter
    BY <2>4 DEF JoinWriter, MainStep
  <2>5. CASE JoinWaker
    BY <2>5 DEF JoinWaker, MainStep, Void
  <2>6. CASE Disable
    BY <2>6 DEF Disable, MainStep, Activate, InterruptPoll, NotifyAll
  <2>7. CASE Clear
    BY <2>7 DEF Clear, MainStep
  <2>8. CASE Launch
    BY <2>8 DEF Launch
  <2>9. CASE InitOthers
    BY <2>9 DEF InitOthers, Idle
  <2>10. CASE SensorMode
    BY <2>10 DEF SensorMode, MainStep, SetMode, NotifyAll
  <2>11. CASE SensorInterrupt
    BY <2>11 DEF SensorInterrupt, MainStep, ModeInterrupt, InterruptPoll
  <2>12. CASE OthersMode
    BY <2>12 DEF OthersMode, Idle
  <2> QED
    BY <1>6, <2>1, <2>2, <2>3, <2>4, <2>5, <2>6, <2>7, <2>8, <2>9, <2>10,
       <2>11, <2>12 DEF Binder
<1>7. ASSUME NEW m \in OperationModes, SetOperationMode(m) PROVE QueueInv'
  BY <1>7 DEF SetOperationMode, Ready
<1>8. ASSUME NEW e \in BOOLEAN, FrameworkActivate(e) PROVE QueueInv'
  BY <1>8 DEF FrameworkActivate, Ready, Activate, InterruptPoll, NotifyAll
<1>9. CASE UNCHANGED vars
  BY <1>9
<1> QED
  BY <1>1, <1>2, <1>3, <1>4, <1>5, <1>6, <1>7, <1>8, <1>9, Steps DEF BinderStep

\* The wakelocks and the history keep their types.
LEMMA RestTyped ==
    ASSUME RestInv, [Next]_vars PROVE RestInv'
<1> USE DEF RestInv, sensorVars, proxyVars, threadVars, queueVars,
      countVars, otherVars, vars
<1>1. CASE SensorStep
  BY <1>1 DEF SensorStep, SensorThread, Notify, Loop, Poll, PollFailed,
        NoGesture, ReadPipe, Deliver, Suppress, SpuriousWake
<1>2. CASE Post
  <2>1. CASE PostCreate
    BY <2>1 DEF PostCreate, Increment, Refused
  <2>2. CASE PostEnqueue
    BY <2>2 DEF PostEnqueue, Increment, Refused, Enqueue
  <2>3. CASE PostRelease
    <3>1. /\ UNCHANGED <<run, missed>>
          /\ scoped' = "none" /\ earned' = FALSE
      BY <2>3 DEF PostRelease
    <3>2. count' \in Nat
      BY <2>3 DEF PostRelease, Decrement
    <3> QED
      BY <3>1, <3>2
  <2>4. CASE PostCheck
    BY <2>4 DEF PostCheck
  <2> QED
    BY <1>2, <2>1, <2>2, <2>3, <2>4 DEF Post
<1>3. CASE HandlePendingWrites
  BY <1>3 DEF HandlePendingWrites, WriterLoop, WriterWait, WriterWrite,
        WriterDone, Decrement
<1>4. CASE HandleWakelocks
  <2>1. UNCHANGED <<run, missed, earned>>
    BY <1>4 DEF HandleWakelocks, WakerLoop, WakerWait, WakerRead
  <2>2. count' \in Nat
    BY <1>4 DEF HandleWakelocks, WakerLoop, WakerWait, WakerRead, Decrement
  <2>3. UNCHANGED scoped \/ Void
    BY <1>4 DEF HandleWakelocks, WakerLoop, WakerWait, WakerRead
  <2>4. scoped' \in {"none", "locked", "stale"}
    BY <2>3 DEF Void
  <2> QED
    BY <2>1, <2>2, <2>4
<1>5. CASE FrameworkRead \/ Spurious
  BY <1>5 DEF FrameworkRead, Spurious, WriterSpurious, WakerSpurious
<1>6. CASE Binder \/ Initialize
  <2>1. CASE Initialize
    BY <2>1 DEF Initialize, MainStep
  <2>2. CASE Drain
    BY <2>2 DEF Drain, MainStep
  <2>3. CASE NotifyStop
    BY <2>3 DEF NotifyStop, MainStep
  <2>4. CASE JoinWriter
    BY <2>4 DEF JoinWriter, MainStep
  <2>5. CASE JoinWaker
    BY <2>5 DEF JoinWaker, MainStep, Void
  <2>6. CASE Disable
    BY <2>6 DEF Disable, MainStep, Activate, InterruptPoll, NotifyAll
  <2>7. CASE Clear
    BY <2>7 DEF Clear, MainStep
  <2>8. CASE Launch
    BY <2>8 DEF Launch
  <2>9. CASE InitOthers
    BY <2>9 DEF InitOthers, Idle
  <2>10. CASE SensorMode
    BY <2>10 DEF SensorMode, MainStep, SetMode, NotifyAll
  <2>11. CASE SensorInterrupt
    BY <2>11 DEF SensorInterrupt, MainStep, ModeInterrupt, InterruptPoll
  <2>12. CASE OthersMode
    BY <2>12 DEF OthersMode, Idle
  <2> QED
    BY <1>6, <2>1, <2>2, <2>3, <2>4, <2>5, <2>6, <2>7, <2>8, <2>9, <2>10,
       <2>11, <2>12 DEF Binder
<1>7. ASSUME NEW m \in OperationModes, SetOperationMode(m) PROVE RestInv'
  BY <1>7 DEF SetOperationMode, Ready
<1>8. ASSUME NEW e \in BOOLEAN, FrameworkActivate(e) PROVE RestInv'
  BY <1>8 DEF FrameworkActivate, Ready, Activate, InterruptPoll, NotifyAll
<1>9. CASE UNCHANGED vars
  BY <1>9
<1> QED
  BY <1>1, <1>2, <1>3, <1>4, <1>5, <1>6, <1>7, <1>8, <1>9, Steps DEF BinderStep

\* Every variable keeps its type, the event queue its capacity and the backlog its
\* limit: through re-initialisations that empty both under the posters, for queues
\* of every size, neither grows past its limit and no count falls below zero.
THEOREM LifecycleTypes == Spec => []TypeOK
<1> DEFINE Inv == SensorInv /\ ModesInv /\ MainInv /\ QueueInv /\ RestInv
<1>1. Init => Inv
  <2> SUFFICES ASSUME Init PROVE Inv
    OBVIOUS
  <2>1. SensorInv
    <3>1. /\ loop \in Loops /\ stopped \in BOOLEAN /\ enabled = FALSE
          /\ mode = "normal" /\ pipe = 0 /\ report = NoReport
          /\ thread \in {"loop", "wait"} /\ polled = {}
      BY DEF Init, SensorInit
    <3>2. {enabled, stopped} \subseteq BOOLEAN
      BY <3>1, Zenon
    <3>3. thread \in ThreadSteps /\ mode \in OperationModes /\ pipe \in 0 .. PipeMany
      BY <3>1, SensorAssumption DEF ThreadSteps, OperationModes
    <3> QED
      BY <3>1, <3>2, <3>3 DEF SensorInv, SensorTypeOK
  <2>2. ModesInv
    BY DEF Init, ModesInv, Idle, SensorInit, PostSteps
  <2>3. MainInv
    BY DEF Init, MainInv, Idle, MainSteps, OperationModes
  <2>4. QueueInv
    BY ProxyAssumption DEF Init, QueueInv, Idle
  <2>5. RestInv
    BY DEF Init, RestInv
  <2> QED
    BY <2>1, <2>2, <2>3, <2>4, <2>5
<1>2. Inv /\ [Next]_vars => Inv'
  BY SensorTyped, ModesStep, MainTyped, QueueTyped, RestTyped
<1>3. Inv => TypeOK
  BY DEF SensorInv, MainInv, QueueInv, RestInv, TypeOK
<1> QED
  BY <1>1, <1>2, <1>3, PTL DEF Spec


=============================================================================
