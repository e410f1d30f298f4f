------------------------- MODULE FingerprintLockout -------------------------
(***************************************************************************)
(* The lockout of one fingerprint session (aidl/fingerprint): Session's    *)
(* lockout code, its LockoutTracker and its detached timer threads.        *)
(*                                                                         *)
(* The binder thread runs authenticate and resetLockout, the vendor        *)
(* library's thread runs notify, and each timer runs lockoutTimerExpired.  *)
(* No lock protects the members they share: a handler's steps are its      *)
(* accesses to them and its callbacks, and the handlers overlap in every   *)
(* way.  mLockoutTimedStart and mCurrentMode are read, and cleared, in one *)
(* step: a thread between two adjacent accesses sees what it would see had *)
(* the period just ended.                                                  *)
(*                                                                         *)
(* mLockoutTimedStart is kept as "period", what is left of the lockout it  *)
(* stands for: "running" for less than LOCKOUT_TIMED_DURATION, "over" when *)
(* it is zero or long ago, "endless" when the constructor left a time far  *)
(* in the future.  A timer sleeps for what is left of the period, so it is *)
(* due when the period is over, forgotten or replaced.                     *)
(***************************************************************************)
EXTENDS Naturals, FiniteSets

CONSTANTS
    TimedThreshold,      \* LOCKOUT_TIMED_THRESHOLD (5)
    PermanentThreshold,  \* LOCKOUT_PERMANENT_THRESHOLD (20)
    ImplV2,              \* the build with IMPL_V2
    MaxTimers            \* bound: timer threads alive at a time

ASSUME LockoutAssumption ==
    /\ TimedThreshold \in Nat \ {0} /\ PermanentThreshold \in Nat
    /\ TimedThreshold < PermanentThreshold
    /\ ImplV2 \in BOOLEAN
    /\ MaxTimers \in Nat \ {0}

Modes == {"none", "timed", "permanent", "garbage"}
Periods == {"over", "running", "endless"}
Threads == {"binder", "worker"}
Labels == {"idle", "getMode", "reread", "expire",
           "permanent", "abort", "timed", "arm", "armed",
           "resetCount", "resetMode", "cleared", "abortTimer",
           "count", "lock", "start", "successCount", "successMode"}
Timers == 1 .. MaxTimers
TimerLabels == {"free", "sleep", "due", "resetMode", "cleared", "started",
                "aborted"}

VARIABLES
    failedCount,  \* mFailedCount, counted up to PermanentThreshold
    mode,         \* mCurrentMode
    period,       \* mLockoutTimedStart, see above
    started,      \* mIsLockoutTimerStarted
    aborted,      \* mIsLockoutTimerAborted
    pc,           \* where each thread is
    left,         \* checkSensorLockout's timeLeft
    count,        \* addFailedAttempt's value of mFailedCount
    timer,        \* where each timer thread is
    \* history
    told,         \* the lockout the framework was last told of
    failures,     \* failed attempts so far, counted up to PermanentThreshold
    since,        \* ... and those counted since mFailedCount was last cleared
    initial       \* the lockout the constructor left in mCurrentMode, or "none"

tracker == <<failedCount, mode, period>>
flags   == <<started, aborted>>
local   == <<left, count>>
history == <<told, failures, since, initial>>
vars    == <<tracker, flags, pc, local, timer, history>>

TypeOK ==
    /\ failedCount \in 0 .. PermanentThreshold
    /\ mode \in Modes /\ period \in Periods
    /\ started \in BOOLEAN /\ aborted \in BOOLEAN
    /\ pc \in [Threads -> Labels]
    /\ left \in [Threads -> Periods]
    /\ count \in 0 .. PermanentThreshold
    /\ timer \in [Timers -> TimerLabels]
    /\ told \in {"clear", "timed", "permanent"}
    /\ failures \in 0 .. PermanentThreshold
    /\ since \in 0 .. PermanentThreshold
    /\ initial \in Modes

\* LockoutTracker() sets mFailedCount only: mCurrentMode and
\* mLockoutTimedStart hold what was in the memory.
Init ==
    /\ failedCount = 0 /\ mode \in Modes
    /\ period \in IF mode = "timed" THEN Periods ELSE {"over"}
    /\ started = FALSE /\ aborted = FALSE
    /\ pc = [t \in Threads |-> "idle"]
    /\ left = [t \in Threads |-> "over"] /\ count = 0
    /\ timer = [i \in Timers |-> "free"]
    /\ told = "clear" /\ failures = 0 /\ since = 0
    /\ initial = IF mode = "garbage" THEN "none" ELSE mode

----------------------------------------------------------------------------
Step(t, from, to) == pc[t] = from /\ pc' = [pc EXCEPT ![t] = to]

Count(n) == IF n < PermanentThreshold THEN n + 1 ELSE n

\* What becomes of the sleeping timers when the period they wait for is over,
\* forgotten or replaced: their time comes.
Awaken == [i \in Timers |-> IF timer[i] = "sleep" THEN "due" ELSE timer[i]]

----------------------------------------------------------------------------
\* LockoutTracker::reset(true).

ForgetCount(t, from, to) ==
    /\ Step(t, from, to)
    /\ failedCount' = 0 /\ since' = 0
    /\ UNCHANGED <<mode, period, flags, local, timer, told, failures, initial>>

ForgetMode(t, from, to) ==
    /\ Step(t, from, to)
    /\ mode' = "none" /\ period' = "over" /\ timer' = Awaken
    /\ UNCHANGED <<failedCount, flags, local, history>>

\* LockoutTracker::addFailedAttempt.

AddCount(t) ==
    /\ Step(t, "count", "lock")
    /\ failedCount' = Count(count) /\ count' = Count(count)
    /\ since' = Count(since)
    /\ UNCHANGED <<mode, period, flags, left, timer, told, failures, initial>>

\* mutant: a lockout is decided one failure early
LockEarly(t) ==
    /\ count' = 0
    /\ \/ /\ count + 1 >= PermanentThreshold
          /\ Step(t, "lock", "getMode") /\ mode' = "permanent"
       \/ /\ count + 1 \in TimedThreshold .. PermanentThreshold - 1
          /\ mode = "none"
          /\ Step(t, "lock", "start") /\ mode' = "timed"
       \/ /\ count + 1 < PermanentThreshold
          /\ count + 1 < TimedThreshold \/ mode # "none"
          /\ Step(t, "lock", "getMode") /\ UNCHANGED mode
    /\ UNCHANGED <<failedCount, period, flags, left, timer, history>>

Lock(t) ==
    /\ count' = 0
    /\ \/ /\ count >= PermanentThreshold
          /\ Step(t, "lock", "getMode") /\ mode' = "permanent"
       \/ /\ count \in TimedThreshold .. PermanentThreshold - 1
          /\ mode = "none"
          /\ Step(t, "lock", "start") /\ mode' = "timed"
       \/ /\ count < PermanentThreshold
          /\ count < TimedThreshold \/ mode # "none"
          /\ Step(t, "lock", "getMode") /\ UNCHANGED mode
    /\ UNCHANGED <<failedCount, period, flags, left, timer, history>>

\* The clock is read in between.
Start(t) ==
    /\ Step(t, "start", "getMode")
    /\ period' = "running" /\ timer' = Awaken
    /\ UNCHANGED <<failedCount, mode, flags, local, history>>

----------------------------------------------------------------------------
\* LockoutTracker::getMode: the mode is read, for a timed lockout compared with the
\* clock and perhaps cleared, and read again to be returned.

\* Where checkSensorLockout goes with the mode it was given.
Decision(m) == IF m = "permanent" THEN "permanent"
               ELSE IF m = "timed" THEN "timed" ELSE "idle"

GetMode(t) ==
    /\ Step(t, "getMode", IF mode # "timed" THEN Decision(mode)
                          ELSE IF period = "over" THEN "expire" ELSE "reread")
    /\ UNCHANGED <<tracker, flags, local, timer, history>>

Reread(t) ==
    /\ Step(t, "reread", Decision(mode))
    /\ UNCHANGED <<tracker, flags, local, timer, history>>

Expire(t) == ForgetMode(t, "expire", "reread")

\* Session::checkSensorLockout.  authenticate ignores what it returns.

ReportPermanent(t) ==
    /\ Step(t, "permanent", "abort")
    /\ told' = "permanent"
    /\ UNCHANGED <<tracker, flags, local, timer, failures, since, initial>>

Abort(t) ==
    /\ Step(t, "abort", "idle")
    /\ aborted' = TRUE
    /\ UNCHANGED <<tracker, started, local, timer, history>>

\* getLockoutTimeLeft, and the framework is told.
ReportTimed(t) ==
    /\ Step(t, "timed", "arm")
    /\ left' = [left EXCEPT ![t] = period]
    /\ told' = "timed"
    /\ UNCHANGED <<tracker, flags, count, timer, failures, since, initial>>

FirstFree(i) ==
    timer[i] = "free" /\ \A j \in Timers : j < i => timer[j] # "free"

\* startLockoutTimer(timeLeft): the thread first, which for an endless sleep
\* does nothing ever ...
Arm(t) ==
    /\ pc[t] = "arm"
    /\ \/ started /\ Step(t, "arm", "idle") /\ UNCHANGED timer
       \/ /\ ~started /\ left[t] = "endless"
          /\ Step(t, "arm", "armed") /\ UNCHANGED timer
       \/ /\ ~started /\ left[t] # "endless"
          /\ \E i \in Timers :
               /\ FirstFree(i)
               /\ timer' = [timer EXCEPT ![i] =
                              IF left[t] = "running" /\ period = "running"
                              THEN "sleep" ELSE "due"]
          /\ Step(t, "arm", "armed")
    /\ left' = [left EXCEPT ![t] = "over"]
    /\ UNCHANGED <<tracker, flags, count, history>>

\* ... and then the flag.
Armed(t) ==
    /\ Step(t, "armed", "idle")
    /\ started' = TRUE
    /\ UNCHANGED <<tracker, aborted, local, timer, history>>

CheckSensorLockout(t) ==
    \/ GetMode(t) \/ Reread(t) \/ Expire(t)
    \/ ReportPermanent(t) \/ Abort(t) \/ ReportTimed(t) \/ Arm(t) \/ Armed(t)

----------------------------------------------------------------------------
\* Session::clearLockout(true).

Cleared(t) ==
    /\ Step(t, "cleared", IF t = "binder" THEN "abortTimer" ELSE "idle")
    /\ told' = "clear"
    /\ UNCHANGED <<tracker, flags, local, timer, failures, since, initial>>

ClearLockout(t) ==
    \/ ForgetCount(t, "resetCount", "resetMode")
    \/ ForgetMode(t, "resetMode", "cleared")
    \/ Cleared(t)

----------------------------------------------------------------------------
\* The binder thread.

Authenticate ==
    /\ Step("binder", "idle", "getMode")
    /\ UNCHANGED <<tracker, flags, local, timer, history>>

ResetLockout ==
    /\ Step("binder", "idle", "resetCount")
    /\ UNCHANGED <<tracker, flags, local, timer, history>>

AbortTimer ==
    /\ Step("binder", "abortTimer", IF started THEN "abort" ELSE "idle")
    /\ UNCHANGED <<tracker, flags, local, timer, history>>

Binder == Authenticate \/ ResetLockout \/ AbortTimer

----------------------------------------------------------------------------
\* Session::notify, on the vendor library's thread.

\* FINGERPRINT_AUTHENTICATED without a finger: addFailedAttempt ...
NotifyFailed ==
    /\ Step("worker", "idle", "count")
    /\ count' = failedCount
    /\ failures' = Count(failures)
    /\ UNCHANGED <<tracker, flags, left, timer, told, since, initial>>

\* ... with a finger: onAuthenticationSucceeded, which also tells the framework
\* that the sensor is usable, and reset(true) ...
NotifySucceeded ==
    /\ Step("worker", "idle", "successCount")
    /\ told' = "clear"
    /\ UNCHANGED <<tracker, flags, local, timer, failures, since, initial>>

Succeeded ==
    \/ ForgetCount("worker", "successCount", "successMode")
    \/ ForgetMode("worker", "successMode", "idle")

\* ... and FINGERPRINT_RESET_LOCKOUT.
NotifyReset ==
    /\ ImplV2
    /\ Step("worker", "idle", "resetCount")
    /\ UNCHANGED <<tracker, flags, local, timer, history>>

Handle == Succeeded \/ AddCount("worker") \/ Lock("worker") \/ Start("worker")
Worker == NotifyFailed \/ NotifySucceeded \/ NotifyReset \/ Handle

----------------------------------------------------------------------------
\* A timer thread: sleep_for, then Session::lockoutTimerExpired.

TimerStep(i, from, to) == timer[i] = from /\ timer' = [timer EXCEPT ![i] = to]

Wake(i) ==
    /\ TimerStep(i, "due", IF aborted THEN "started" ELSE "resetMode")
    /\ UNCHANGED <<tracker, flags, pc, local, history>>

\* mutant: clearLockout(true), which forgets the attempts too
TimerForgets(i) ==
    /\ timer[i] = "resetMode"
    /\ failedCount' = 0 /\ mode' = "none" /\ period' = "over"
    /\ timer' = [Awaken EXCEPT ![i] = "cleared"]
    /\ UNCHANGED <<flags, pc, local, history>>

\* clearLockout(false): the attempts stay counted.
TimerResetMode(i) ==
    /\ timer[i] = "resetMode"
    /\ mode' = "none" /\ period' = "over"
    /\ timer' = [Awaken EXCEPT ![i] = "cleared"]
    /\ UNCHANGED <<failedCount, flags, pc, local, history>>

\* mutant: the timer clears the lockout without saying so
TimerSilent(i) ==
    /\ TimerStep(i, "cleared", "started")
    /\ UNCHANGED <<tracker, flags, pc, local, history>>

TimerCleared(i) ==
    /\ TimerStep(i, "cleared", "started")
    /\ told' = "clear"
    /\ UNCHANGED <<tracker, flags, pc, local, failures, since, initial>>

TimerStarted(i) ==
    /\ TimerStep(i, "started", "aborted")
    /\ started' = FALSE
    /\ UNCHANGED <<tracker, aborted, pc, local, history>>

TimerAborted(i) ==
    /\ TimerStep(i, "aborted", "free")
    /\ aborted' = FALSE
    /\ UNCHANGED <<tracker, started, pc, local, history>>

LockoutTimer(i) ==
    \/ Wake(i) \/ TimerResetMode(i) \/ TimerCleared(i) \/ TimerStarted(i)
    \/ TimerAborted(i)

\* LOCKOUT_TIMED_DURATION is over.
Elapse ==
    /\ period = "running"
    /\ period' = "over" /\ timer' = Awaken
    /\ UNCHANGED <<failedCount, mode, flags, pc, local, history>>

Next ==
    \/ \E t \in Threads : CheckSensorLockout(t) \/ ClearLockout(t)
    \/ Binder \/ Worker
    \/ \E i \in Timers : LockoutTimer(i)
    \/ Elapse

\* Timers run and time passes; which calls and notifications come is not
\* promised.  The lockout's end needs no more than that.
TimerFairness ==
    /\ \A i \in Timers : WF_vars(LockoutTimer(i))
    /\ WF_vars(Elapse)

\* Handlers that have begun run too.
Fairness ==
    /\ TimerFairness
    /\ \A t \in Threads :
         WF_vars(\/ CheckSensorLockout(t) \/ ClearLockout(t)
                 \/ t = "binder" /\ AbortTimer
                 \/ t = "worker" /\ Handle)

Spec == Init /\ [][Next]_vars
TimerSpec == Spec /\ TimerFairness

\* The behaviours of the system in which no two handlers overlap and the memory
\* of the tracker happened to be zero: what goes wrong in one of them is not the
\* fault of a race.
OneHandler ==
    Cardinality({t \in Threads : pc[t] # "idle"})
        + Cardinality({i \in Timers : timer[i] \notin {"free", "sleep", "due"}})
    <= 1
OrderlySpec ==
    Init /\ mode = "none" /\ [][Next /\ OneHandler']_vars /\ Fairness

----------------------------------------------------------------------------
\* Properties.

Earned(m) ==
    /\ m = "timed" => failures >= TimedThreshold
    /\ m = "permanent" => failures >= PermanentThreshold

\* However authenticate, resetLockout, notify and the timers overlap, the
\* tracker locks, and the framework is told of, nothing before as many failed
\* attempts as the threshold says: except for a lockout that was in the memory
\* mCurrentMode was constructed in.
LockoutEarned ==
    /\ Earned(mode) \/ mode = initial
    /\ Earned(told) \/ told = initial

\* The inductive invariant behind LockoutEarned: every copy of a count and of
\* a decision that the threads hold is covered by failures.
Deciding(t, m) ==
    \/ m = "permanent" /\ pc[t] = "permanent"
    \/ m = "timed" /\ pc[t] = "timed"

EarnedInv ==
    /\ failedCount <= failures
    /\ pc["worker"] = "count" => Count(count) <= failures
    /\ pc["worker"] = "lock" => count <= failures
    /\ \A t \in Threads, m \in {"timed", "permanent"} :
         Deciding(t, m) => Earned(m) \/ m = initial

\* Only a reset or a success forgets failed attempts: whatever overlaps the
\* read and the write of mFailedCount++, and however many timed lockouts expire
\* in between, every attempt since then is still counted towards the permanent
\* lockout.
AttemptsKept == failedCount >= since

\* The timer of a timed lockout ends it, unless it was aborted.
TimerEndsLockout ==
    (told = "timed" /\ \E i \in Timers : timer[i] \in {"sleep", "due"})
        ~> (told # "timed" \/ aborted)

----------------------------------------------------------------------------
\* What the documentation says and the code does not do.

\* "Lockout can also clear automatically after a timeout ... and call
\* ISessionCallback#onLockoutCleared when done": a framework that was told of a
\* timed lockout hears of its end.
LockoutClears == (told = "timed") ~> (told # "timed")

=============================================================================
