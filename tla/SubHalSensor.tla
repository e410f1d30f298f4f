---------------------------- MODULE SubHalSensor ----------------------------
(***************************************************************************)
(* A one-shot gesture sensor of the sub-HALs (sensors/v2, sensors/lcd):    *)
(* SysfsPollingOneShotSensor, its thread and the members the thread shares *)
(* with the binder thread.                                                 *)
(*                                                                         *)
(* The thread holds mRunMutex whenever it is not in its wait or in poll(), *)
(* also while it posts.  Operations of other threads that take the mutex   *)
(* are single steps, guarded by RunMutexFree.  What a post does is left to *)
(* the module that composes the sensor with the proxy.                     *)
(*                                                                         *)
(* The base constructor starts the thread, which calls the virtual run(),  *)
(* before the derived constructors set the virtual table: which run() the  *)
(* thread enters is a choice (Loops).                                      *)
(***************************************************************************)
EXTENDS Integers, Sequences

CONSTANTS
    Loops,      \* the run() the thread may enter: "polling", "base"
    Reports,    \* what the state node can hold: sequences of numbers
    PipeMany    \* a wait pipe that holds this many bytes may hold more

ASSUME SensorAssumption ==
    /\ Loops \subseteq {"polling", "base"}
    /\ Reports \subseteq Seq(Int) \ {<<>>}
    /\ PipeMany \in Nat \ {0}

VARIABLES
    loop,      \* the run() that the thread executes
    enabled,   \* mIsEnabled
    mode,      \* mMode
    stopped,   \* mStopThread
    pipe,      \* the bytes in the wait pipe, up to PipeMany
    report,    \* the unread notification of the state node, or NoReport
    thread,    \* the step of the thread
    polled     \* which of the two descriptors its poll() reported

sensorVars == <<loop, enabled, mode, stopped, pipe, report, thread, polled>>

NoReport == <<>>
OperationModes == {"normal", "injection"}
PostSteps == {"create", "check", "enqueue", "release"}
ThreadSteps ==
    {"loop", "wait", "poll", "polled", "failed", "exit"} \cup PostSteps

SensorTypeOK ==
    /\ loop \in Loops /\ mode \in OperationModes
    /\ {enabled, stopped} \subseteq BOOLEAN
    /\ pipe \in 0 .. PipeMany /\ report \in Reports \cup {NoReport}
    /\ thread \in ThreadSteps /\ polled \subseteq {"pipe", "state"}

\* The constructors: without a pipe or a state node the thread is to stop; one
\* that waits already is not told.
SensorInit ==
    /\ loop \in Loops /\ stopped \in BOOLEAN
    /\ enabled = FALSE /\ mode = "normal"
    /\ pipe = 0 /\ report = NoReport
    /\ thread \in {"loop", "wait"} /\ polled = {}

RunMutexFree == thread \notin PostSteps

----------------------------------------------------------------------------
\* Operations of the binder thread.

\* mWaitCV.notify_all()
NotifyAll == thread' = IF thread = "wait" THEN "loop" ELSE thread

\* interruptPoll: one byte into the wait pipe.
InterruptPoll == pipe' = IF pipe = PipeMany THEN PipeMany ELSE pipe + 1

\* activate(e): notify and lock are set, for calls of the framework.  A failed
\* write to the enable node is only logged.
Activate(e) ==
    /\ RunMutexFree
    /\ IF enabled # e
       THEN enabled' = e /\ InterruptPoll /\ NotifyAll
       ELSE UNCHANGED <<enabled, pipe, thread>>
    /\ UNCHANGED <<loop, mode, stopped, report, polled>>

\* mutant: interruptPoll is thought to be enough
SetModeSilent(m) ==
    /\ RunMutexFree
    /\ mode' = m
    /\ UNCHANGED <<loop, enabled, stopped, pipe, report, thread, polled>>

\* Sensor::setOperationMode(m)
SetMode(m) ==
    /\ RunMutexFree
    /\ mode' = m
    /\ IF mode # m THEN NotifyAll ELSE UNCHANGED thread
    /\ UNCHANGED <<loop, enabled, stopped, pipe, report, polled>>

\* The end of SysfsPollingOneShotSensor::setOperationMode, without the mutex.
ModeInterrupt ==
    /\ InterruptPoll
    /\ UNCHANGED <<loop, enabled, mode, stopped, report, thread, polled>>

----------------------------------------------------------------------------
\* The thread.

\* The top of the loop, of run() or of Sensor::run().  The wait's predicate is
\* false whenever the wait is entered with mStopThread unset.  A one-shot
\* sensor has no sampling period: Sensor::run() always posts.
Loop ==
    /\ thread = "loop"
    /\ thread' = CASE stopped -> "exit"
                   [] ~stopped /\ (~enabled \/ mode = "injection") -> "wait"
                   [] OTHER -> IF loop = "polling" THEN "poll" ELSE "create"
    /\ UNCHANGED <<loop, enabled, mode, stopped, pipe, report, polled>>

\* poll(mPolls, 2, -1), without the mutex; an error is "failed".
Poll ==
    /\ thread = "poll"
    /\ \/ /\ polled' = {d \in {"pipe", "state"} :
                          IF d = "pipe" THEN pipe > 0 ELSE report # NoReport}
          /\ polled' # {}
          /\ thread' = "polled"
       \/ thread' = "failed" /\ UNCHANGED polled
    /\ UNCHANGED <<loop, enabled, mode, stopped, pipe, report>>

PollFailed ==
    /\ thread = "failed"
    /\ stopped' = TRUE /\ thread' = "loop"
    /\ UNCHANGED <<loop, enabled, mode, pipe, report, polled>>

\* readFd: one number is a state, three are a position and a state (sscanf in
\* UdfpsSensor::readFd); anything else cannot be parsed.
ReadFd(r) ==
    CASE Len(r) = 1 -> r[1] > 0
      [] Len(r) = 3 -> r[3] > 0
      [] OTHER -> FALSE

\* The pipe's byte is read when the state node gave no gesture.
ReadPipe ==
    IF "pipe" \in polled
    THEN pipe' \in IF pipe = PipeMany THEN {PipeMany - 1, PipeMany}
                                      ELSE {pipe - 1}
    ELSE UNCHANGED pipe

\* No notification, a state of 0, or a failed seek or read.
NoGesture ==
    /\ thread = "polled"
    /\ \/ "state" \notin polled /\ UNCHANGED report
       \/ "state" \in polled /\ ~ReadFd(report) /\ report' = NoReport
       \/ "state" \in polled /\ UNCHANGED report
    /\ ReadPipe
    /\ thread' = "loop" /\ polled' = {}
    /\ UNCHANGED <<loop, enabled, mode, stopped>>

\* What isLidOpen finds: a switch that is missing or not read counts as open.
Switch == {"open", "shut", "unknown"}
IsLidOpen(switch) == switch # "shut"

Gesture == thread = "polled" /\ "state" \in polled /\ ReadFd(report)

\* mutant: the sensor stays armed
DeliverArmed ==
    /\ Gesture /\ \E s \in Switch : IsLidOpen(s)
    /\ report' = NoReport /\ polled' = {}
    /\ thread' = "create"
    /\ UNCHANGED <<loop, enabled, mode, stopped, pipe>>

\* A gesture: the sensor is disarmed (activate(false, false, false)) and the
\* event posted, whatever mIsEnabled and mMode have become since the poll.
Deliver ==
    /\ Gesture /\ \E s \in Switch : IsLidOpen(s)
    /\ report' = NoReport /\ polled' = {}
    /\ enabled' = FALSE
    /\ thread' = "create"
    /\ UNCHANGED <<loop, mode, stopped, pipe>>

\* A gesture that shouldDeliverEvent() suppresses.
Suppress ==
    /\ Gesture /\ \E s \in Switch : ~IsLidOpen(s)
    /\ report' = NoReport /\ polled' = {}
    /\ thread' = "loop"
    /\ UNCHANGED <<loop, enabled, mode, stopped, pipe>>

\* A wait may end without a notification.
SpuriousWake ==
    /\ thread = "wait" /\ thread' = "loop"
    /\ UNCHANGED <<loop, enabled, mode, stopped, pipe, report, polled>>

SensorThread ==
    \/ Loop \/ Poll \/ PollFailed \/ NoGesture \/ Deliver \/ Suppress
    \/ SpuriousWake

----------------------------------------------------------------------------
\* The driver notifies of a new state.  Gestures are expected only while the
\* enable node says so, but a write to it may have failed.
Notify ==
    /\ report' \in Reports
    /\ UNCHANGED <<loop, enabled, mode, stopped, pipe, thread, polled>>
=============================================================================
