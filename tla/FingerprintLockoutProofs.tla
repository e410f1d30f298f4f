---------------------- MODULE FingerprintLockoutProofs ----------------------
(***************************************************************************)
(* Proofs about FingerprintLockout, for every pair of thresholds, any      *)
(* number of timers, whatever the constructor left in the tracker and      *)
(* however the handlers overlap.                                           *)
(***************************************************************************)
EXTENDS FingerprintLockout, TLAPS

USE DEF Modes, Periods

\* Counting stays within the threshold and is monotone.
LEMMA CountFacts ==
    /\ \A n \in 0 .. PermanentThreshold : Count(n) \in 0 .. PermanentThreshold
    /\ \A m, n \in 0 .. PermanentThreshold : m <= n => Count(m) <= Count(n)
    /\ \A n \in 0 .. PermanentThreshold : n <= Count(n)
BY LockoutAssumption DEF Count

\* The parts of Next that one thread, one timer or time takes.
LEMMA NextCases ==
    ASSUME Next
    PROVE  \/ \E t \in Threads :
                \/ GetMode(t) \/ Reread(t) \/ Expire(t) \/ ReportPermanent(t)
                \/ Abort(t) \/ ReportTimed(t) \/ Arm(t) \/ Armed(t)
                \/ ForgetCount(t, "resetCount", "resetMode")
                \/ ForgetMode(t, "resetMode", "cleared")
                \/ Cleared(t)
           \/ Authenticate \/ ResetLockout \/ AbortTimer
           \/ NotifyFailed \/ NotifySucceeded \/ NotifyReset \/ Succeeded
           \/ AddCount("worker") \/ Lock("worker") \/ Start("worker")
           \/ \E i \in Timers :
                \/ Wake(i) \/ TimerResetMode(i) \/ TimerCleared(i)
                \/ TimerStarted(i) \/ TimerAborted(i)
           \/ Elapse
BY DEF Next, CheckSensorLockout, ClearLockout, Binder, Worker, Handle,
       LockoutTimer

\* The two halves of LockoutTracker::reset keep the types ...
LEMMA ForgetTyped ==
    ASSUME TypeOK, NEW t \in Threads, NEW from, NEW to \in Labels,
           ForgetCount(t, from, to) \/ ForgetMode(t, from, to)
    PROVE  TypeOK'
<1>1. CASE ForgetCount(t, from, to)
  BY <1>1, LockoutAssumption DEF ForgetCount, Step, TypeOK, flags, local
<1>2. CASE ForgetMode(t, from, to)
  <2>1. timer' \in [Timers -> TimerLabels]
    BY <1>2 DEF ForgetMode, Awaken, TypeOK, TimerLabels
  <2>2. pc' \in [Threads -> Labels]
    BY <1>2 DEF ForgetMode, Step, TypeOK
  <2> QED
    BY <1>2, <2>1, <2>2 DEF ForgetMode, TypeOK, flags, local, history
<1> QED
  BY <1>1, <1>2

\* ... what was earned ...
EarnedAll == EarnedInv /\ LockoutEarned

LEMMA ForgetEarned ==
    ASSUME TypeOK, EarnedAll, NEW t \in Threads, NEW from,
           NEW to \in Labels \ {"count", "lock", "timed", "permanent"},
           ForgetCount(t, from, to) \/ ForgetMode(t, from, to)
    PROVE  EarnedAll'
<1>1. CASE ForgetCount(t, from, to)
  BY <1>1, LockoutAssumption
     DEF ForgetCount, Step, TypeOK, EarnedAll, EarnedInv, LockoutEarned,
         Deciding, Earned, Threads, Count, flags, local
<1>2. CASE ForgetMode(t, from, to)
  BY <1>2, LockoutAssumption
     DEF ForgetMode, Step, TypeOK, EarnedAll, EarnedInv, LockoutEarned,
         Deciding, Earned, Threads, Count, flags, local, history
<1> QED
  BY <1>1, <1>2

\* ... and the attempts counted.
AttemptsInv ==
    /\ AttemptsKept
    /\ pc["worker"] = "count" => count >= since

LEMMA ForgetKept ==
    ASSUME TypeOK, AttemptsInv, NEW t \in Threads, NEW from,
           NEW to \in Labels \ {"count"},
           ForgetCount(t, from, to) \/ ForgetMode(t, from, to)
    PROVE  AttemptsInv'
BY LockoutAssumption
   DEF ForgetCount, ForgetMode, Step, TypeOK, AttemptsInv, AttemptsKept,
       Threads, flags, local, history

\* Every member, flag and thread position keeps its type.
THEOREM TypeCorrect == Spec => []TypeOK
<1>1. Init => TypeOK
  <2> SUFFICES ASSUME Init PROVE TypeOK
    OBVIOUS
  <2>1. mode \in Modes /\ period \in Periods /\ initial \in Modes
    BY DEF Init
  <2>2. /\ pc \in [Threads -> Labels] /\ left \in [Threads -> Periods]
        /\ timer \in [Timers -> TimerLabels]
    BY DEF Init, Labels, TimerLabels
  <2>3. /\ failedCount = 0 /\ count = 0 /\ failures = 0 /\ since = 0
        /\ started = FALSE /\ aborted = FALSE /\ told = "clear"
    BY DEF Init
  <2>4. 0 \in 0 .. PermanentThreshold
    BY LockoutAssumption
  <2> QED
    BY <2>1, <2>2, <2>3, <2>4, Zenon DEF TypeOK
<1>2. TypeOK /\ [Next]_vars => TypeOK'
  <2> SUFFICES ASSUME TypeOK, Next PROVE TypeOK'
    BY DEF TypeOK, vars, tracker, flags, local, history
  <2>1. ASSUME NEW t \in Threads, GetMode(t) PROVE TypeOK'
    BY <2>1, CountFacts, LockoutAssumption
       DEF TypeOK, Threads, Labels, TimerLabels, GetMode, Decision, Step,
           tracker, flags, local, history
  <2>2. ASSUME NEW t \in Threads, Reread(t) PROVE TypeOK'
    BY <2>2, CountFacts, LockoutAssumption
       DEF TypeOK, Threads, Labels, TimerLabels, Reread, Decision, Step,
           tracker, flags, local, history
  <2>3. ASSUME NEW t \in Threads, Expire(t) PROVE TypeOK'
    BY <2>3, ForgetTyped DEF Expire, Labels
  <2>4. ASSUME NEW t \in Threads, ReportPermanent(t) PROVE TypeOK'
    BY <2>4, CountFacts, LockoutAssumption
       DEF TypeOK, Threads, Labels, TimerLabels, ReportPermanent, Step,
           tracker, flags, local
  <2>5. ASSUME NEW t \in Threads, Abort(t) PROVE TypeOK'
    BY <2>5, CountFacts, LockoutAssumption
       DEF TypeOK, Threads, Labels, TimerLabels, Abort, Step, tracker, local,
           history
  <2>6. ASSUME NEW t \in Threads, ReportTimed(t) PROVE TypeOK'
    BY <2>6, CountFacts, LockoutAssumption
       DEF TypeOK, Threads, Labels, TimerLabels, ReportTimed, Step, tracker,
           flags
  <2>7. ASSUME NEW t \in Threads, Arm(t) PROVE TypeOK'
    BY <2>7, CountFacts, LockoutAssumption
       DEF TypeOK, Threads, Labels, TimerLabels, Arm, Step, tracker, flags,
           history
  <2>8. ASSUME NEW t \in Threads, Armed(t) PROVE TypeOK'
    BY <2>8, CountFacts, LockoutAssumption
       DEF TypeOK, Threads, Labels, TimerLabels, Armed, Step, tracker, local,
           history
  <2>9. ASSUME NEW t \in Threads, Cleared(t) PROVE TypeOK'
    BY <2>9, CountFacts, LockoutAssumption
       DEF TypeOK, Threads, Labels, TimerLabels, Cleared, Step, tracker, flags,
           local
  <2>10. CASE Authenticate
    BY <2>10, CountFacts, LockoutAssumption
       DEF TypeOK, Threads, Labels, TimerLabels, Authenticate, Step, tracker,
           flags, local, history
  <2>11. CASE ResetLockout
    BY <2>11, CountFacts, LockoutAssumption
       DEF TypeOK, Threads, Labels, TimerLabels, ResetLockout, Step, tracker,
           flags, local, history
  <2>12. CASE AbortTimer
    BY <2>12, CountFacts, LockoutAssumption
       DEF TypeOK, Threads, Labels, TimerLabels, AbortTimer, Step, tracker,
           flags, local, history
  <2>13. CASE NotifyFailed
    BY <2>13, CountFacts, LockoutAssumption
       DEF TypeOK, Threads, Labels, TimerLabels, NotifyFailed, Step, tracker,
           flags
  <2>14. CASE NotifySucceeded
    BY <2>14, CountFacts, LockoutAssumption
       DEF TypeOK, Threads, Labels, TimerLabels, NotifySucceeded, Step,
           tracker, flags, local
  <2>15. CASE NotifyReset
    BY <2>15, CountFacts, LockoutAssumption
       DEF TypeOK, Threads, Labels, TimerLabels, NotifyReset, Step, tracker,
           flags, local, history
  <2>16. CASE Succeeded
    BY <2>16, ForgetTyped DEF Succeeded, Labels, Threads
  <2>17. CASE AddCount("worker")
    BY <2>17, CountFacts, LockoutAssumption
       DEF TypeOK, Threads, Labels, TimerLabels, AddCount, Step, flags
  <2>18. CASE Lock("worker")
    BY <2>18, CountFacts, LockoutAssumption
       DEF TypeOK, Threads, Labels, TimerLabels, Lock, Step, flags, history
  <2>19. CASE Start("worker")
    BY <2>19, CountFacts, LockoutAssumption
       DEF TypeOK, Threads, Labels, TimerLabels, Start, Step, Awaken, flags,
           local, history
  <2>20. ASSUME NEW i \in Timers, Wake(i) PROVE TypeOK'
    BY <2>20, CountFacts, LockoutAssumption
       DEF TypeOK, Threads, Labels, TimerLabels, Wake, TimerStep, tracker,
           flags, local, history
  <2>21. ASSUME NEW i \in Timers, TimerResetMode(i) PROVE TypeOK'
    BY <2>21, CountFacts, LockoutAssumption
       DEF TypeOK, Threads, Labels, TimerLabels, TimerResetMode, Awaken, flags,
           local, history
  <2>22. ASSUME NEW i \in Timers, TimerCleared(i) PROVE TypeOK'
    BY <2>22, CountFacts, LockoutAssumption
       DEF TypeOK, Threads, Labels, TimerLabels, TimerCleared, TimerStep,
           tracker, flags, local
  <2>23. ASSUME NEW i \in Timers, TimerStarted(i) PROVE TypeOK'
    BY <2>23, CountFacts, LockoutAssumption
       DEF TypeOK, Threads, Labels, TimerLabels, TimerStarted, TimerStep,
           tracker, local, history
  <2>24. ASSUME NEW i \in Timers, TimerAborted(i) PROVE TypeOK'
    BY <2>24, CountFacts, LockoutAssumption
       DEF TypeOK, Threads, Labels, TimerLabels, TimerAborted, TimerStep,
           tracker, local, history
  <2>25. CASE Elapse
    BY <2>25, CountFacts, LockoutAssumption
       DEF TypeOK, Threads, Labels, TimerLabels, Elapse, Awaken, flags, local,
           history
  <2>26. ASSUME NEW t \in Threads, \/ ForgetCount(t, "resetCount", "resetMode")
                                 \/ ForgetMode(t, "resetMode", "cleared")
        PROVE TypeOK'
    BY <2>26, ForgetTyped DEF Labels
  <2> QED
    BY NextCases, <2>1, <2>2, <2>3, <2>4, <2>5, <2>6, <2>7, <2>8, <2>9, <2>10,
       <2>11, <2>12, <2>13, <2>14, <2>15, <2>16, <2>17, <2>18, <2>19, <2>20,
       <2>21, <2>22, <2>23, <2>24, <2>25, <2>26
<1> QED
  BY <1>1, <1>2, PTL DEF Spec

\* LockoutEarned: no interleaving of authenticate, resetLockout, notify and the
\* timers locks the tracker, or reports a lockout, before as many failed
\* attempts as its threshold says, unless it was in the memory of mCurrentMode
\* from the start.
THEOREM LockoutIsEarned == Spec => []LockoutEarned
<1>1. Init => EarnedAll
  BY LockoutAssumption
     DEF Init, EarnedAll, EarnedInv, LockoutEarned, Deciding, Earned, Threads
<1>2. TypeOK /\ EarnedAll /\ [Next]_vars => EarnedAll'
  <2> SUFFICES ASSUME TypeOK, EarnedAll, Next PROVE EarnedAll'
    BY DEF EarnedAll, EarnedInv, LockoutEarned, Deciding, Earned, Count, vars,
           tracker, flags, local, history
  <2>1. ASSUME NEW t \in Threads, GetMode(t) PROVE EarnedAll'
    BY <2>1, CountFacts, LockoutAssumption
       DEF EarnedAll, EarnedInv, LockoutEarned, Deciding, Earned, TypeOK,
           Threads, Labels, GetMode, Decision, Step, tracker, flags, local,
           history
  <2>2. ASSUME NEW t \in Threads, Reread(t) PROVE EarnedAll'
    BY <2>2, CountFacts, LockoutAssumption
       DEF EarnedAll, EarnedInv, LockoutEarned, Deciding, Earned, TypeOK,
           Threads, Labels, Reread, Decision, Step, tracker, flags, local,
           history
  <2>3. ASSUME NEW t \in Threads, Expire(t) PROVE EarnedAll'
    BY <2>3, ForgetEarned DEF Expire, Labels
  <2>4. ASSUME NEW t \in Threads, ReportPermanent(t) PROVE EarnedAll'
    BY <2>4, CountFacts, LockoutAssumption
       DEF EarnedAll, EarnedInv, LockoutEarned, Deciding, Earned, TypeOK,
           Threads, Labels, ReportPermanent, Step, tracker, flags, local
  <2>5. ASSUME NEW t \in Threads, Abort(t) PROVE EarnedAll'
    BY <2>5, CountFacts, LockoutAssumption
       DEF EarnedAll, EarnedInv, LockoutEarned, Deciding, Earned, TypeOK,
           Threads, Labels, Abort, Step, tracker, local, history
  <2>6. ASSUME NEW t \in Threads, ReportTimed(t) PROVE EarnedAll'
    BY <2>6, CountFacts, LockoutAssumption
       DEF EarnedAll, EarnedInv, LockoutEarned, Deciding, Earned, TypeOK,
           Threads, Labels, ReportTimed, Step, tracker, flags
  <2>7. ASSUME NEW t \in Threads, Arm(t) PROVE EarnedAll'
    BY <2>7, CountFacts, LockoutAssumption
       DEF EarnedAll, EarnedInv, LockoutEarned, Deciding, Earned, TypeOK,
           Threads, Labels, Arm, Step, tracker, flags, history
  <2>8. ASSUME NEW t \in Threads, Armed(t) PROVE EarnedAll'
    BY <2>8, CountFacts, LockoutAssumption
       DEF EarnedAll, EarnedInv, LockoutEarned, Deciding, Earned, TypeOK,
           Threads, Labels, Armed, Step, tracker, local, history
  <2>9. ASSUME NEW t \in Threads, Cleared(t) PROVE EarnedAll'
    BY <2>9, CountFacts, LockoutAssumption
       DEF EarnedAll, EarnedInv, LockoutEarned, Deciding, Earned, TypeOK,
           Threads, Labels, Cleared, Step, tracker, flags, local
  <2>10. CASE Authenticate
    BY <2>10, CountFacts, LockoutAssumption
       DEF EarnedAll, EarnedInv, LockoutEarned, Deciding, Earned, TypeOK,
           Threads, Labels, Authenticate, Step, tracker, flags, local, history
  <2>11. CASE ResetLockout
    BY <2>11, CountFacts, LockoutAssumption
       DEF EarnedAll, EarnedInv, LockoutEarned, Deciding, Earned, TypeOK,
           Threads, Labels, ResetLockout, Step, tracker, flags, local, history
  <2>12. CASE AbortTimer
    BY <2>12, CountFacts, LockoutAssumption
       DEF EarnedAll, EarnedInv, LockoutEarned, Deciding, Earned, TypeOK,
           Threads, Labels, AbortTimer, Step, tracker, flags, local, history
  <2>13. CASE NotifyFailed
    BY <2>13, CountFacts, LockoutAssumption
       DEF EarnedAll, EarnedInv, LockoutEarned, Deciding, Earned, TypeOK,
           Threads, Labels, NotifyFailed, Step, tracker, flags
  <2>14. CASE NotifySucceeded
    BY <2>14, CountFacts, LockoutAssumption
       DEF EarnedAll, EarnedInv, LockoutEarned, Deciding, Earned, TypeOK,
           Threads, Labels, NotifySucceeded, Step, tracker, flags, local
  <2>15. CASE NotifyReset
    BY <2>15, CountFacts, LockoutAssumption
       DEF EarnedAll, EarnedInv, LockoutEarned, Deciding, Earned, TypeOK,
           Threads, Labels, NotifyReset, Step, tracker, flags, local, history
  <2>16. CASE Succeeded
    BY <2>16, ForgetEarned DEF Succeeded, Labels, Threads
  <2>17. CASE AddCount("worker")
    BY <2>17, CountFacts, LockoutAssumption
       DEF EarnedAll, EarnedInv, LockoutEarned, Deciding, Earned, TypeOK,
           Threads, Labels, AddCount, Step, flags
  <2>18. CASE Lock("worker")
    BY <2>18, CountFacts, LockoutAssumption
       DEF EarnedAll, EarnedInv, LockoutEarned, Deciding, Earned, TypeOK,
           Threads, Labels, Lock, Step, flags, history
  <2>19. CASE Start("worker")
    BY <2>19, CountFacts, LockoutAssumption
       DEF EarnedAll, EarnedInv, LockoutEarned, Deciding, Earned, TypeOK,
           Threads, Labels, Start, Step, Awaken, flags, local, history
  <2>20. ASSUME NEW i \in Timers, Wake(i) PROVE EarnedAll'
    BY <2>20, CountFacts, LockoutAssumption
       DEF EarnedAll, EarnedInv, LockoutEarned, Deciding, Earned, TypeOK,
           Threads, Labels, Wake, TimerStep, tracker, flags, local, history
  <2>21. ASSUME NEW i \in Timers, TimerResetMode(i) PROVE EarnedAll'
    BY <2>21, CountFacts, LockoutAssumption
       DEF EarnedAll, EarnedInv, LockoutEarned, Deciding, Earned, TypeOK,
           Threads, Labels, TimerResetMode, Awaken, flags, local, history
  <2>22. ASSUME NEW i \in Timers, TimerCleared(i) PROVE EarnedAll'
    BY <2>22, CountFacts, LockoutAssumption
       DEF EarnedAll, EarnedInv, LockoutEarned, Deciding, Earned, TypeOK,
           Threads, Labels, TimerCleared, TimerStep, tracker, flags, local
  <2>23. ASSUME NEW i \in Timers, TimerStarted(i) PROVE EarnedAll'
    BY <2>23, CountFacts, LockoutAssumption
       DEF EarnedAll, EarnedInv, LockoutEarned, Deciding, Earned, TypeOK,
           Threads, Labels, TimerStarted, TimerStep, tracker, local, history
  <2>24. ASSUME NEW i \in Timers, TimerAborted(i) PROVE EarnedAll'
    BY <2>24, CountFacts, LockoutAssumption
       DEF EarnedAll, EarnedInv, LockoutEarned, Deciding, Earned, TypeOK,
           Threads, Labels, TimerAborted, TimerStep, tracker, local, history
  <2>25. CASE Elapse
    BY <2>25, CountFacts, LockoutAssumption
       DEF EarnedAll, EarnedInv, LockoutEarned, Deciding, Earned, TypeOK,
           Threads, Labels, Elapse, Awaken, flags, local, history
  <2>26. ASSUME NEW t \in Threads, \/ ForgetCount(t, "resetCount", "resetMode")
                                 \/ ForgetMode(t, "resetMode", "cleared")
        PROVE EarnedAll'
    BY <2>26, ForgetEarned DEF Labels
  <2> QED
    BY NextCases, <2>1, <2>2, <2>3, <2>4, <2>5, <2>6, <2>7, <2>8, <2>9, <2>10,
       <2>11, <2>12, <2>13, <2>14, <2>15, <2>16, <2>17, <2>18, <2>19, <2>20,
       <2>21, <2>22, <2>23, <2>24, <2>25, <2>26
<1> QED
  BY <1>1, <1>2, TypeCorrect, PTL DEF Spec, EarnedAll

\* AttemptsKept: whatever overlaps mFailedCount++, no failed attempt since the
\* last reset or success is lost, neither to a timer nor to an expiry.
THEOREM FailedAttemptsKept == Spec => []AttemptsKept
<1>1. Init => AttemptsInv
  BY LockoutAssumption DEF Init, AttemptsInv, AttemptsKept, Threads
<1>2. TypeOK /\ AttemptsInv /\ [Next]_vars => AttemptsInv'
  <2> SUFFICES ASSUME TypeOK, AttemptsInv, Next PROVE AttemptsInv'
    BY DEF AttemptsInv, AttemptsKept, vars, tracker, flags, local, history
  <2>1. ASSUME NEW t \in Threads, GetMode(t) PROVE AttemptsInv'
    BY <2>1, CountFacts, LockoutAssumption
       DEF AttemptsInv, AttemptsKept, TypeOK, Threads, Labels, GetMode,
           Decision, Step, tracker, flags, local, history
  <2>2. ASSUME NEW t \in Threads, Reread(t) PROVE AttemptsInv'
    BY <2>2, CountFacts, LockoutAssumption
       DEF AttemptsInv, AttemptsKept, TypeOK, Threads, Labels, Reread,
           Decision, Step, tracker, flags, local, history
  <2>3. ASSUME NEW t \in Threads, Expire(t) PROVE AttemptsInv'
    BY <2>3, ForgetKept DEF Expire, Labels
  <2>4. ASSUME NEW t \in Threads, ReportPermanent(t) PROVE AttemptsInv'
    BY <2>4, CountFacts, LockoutAssumption
       DEF AttemptsInv, AttemptsKept, TypeOK, Threads, Labels, ReportPermanent,
           Step, tracker, flags, local
  <2>5. ASSUME NEW t \in Threads, Abort(t) PROVE AttemptsInv'
    BY <2>5, CountFacts, LockoutAssumption
       DEF AttemptsInv, AttemptsKept, TypeOK, Threads, Labels, Abort, Step,
           tracker, local, history
  <2>6. ASSUME NEW t \in Threads, ReportTimed(t) PROVE AttemptsInv'
    BY <2>6, CountFacts, LockoutAssumption
       DEF AttemptsInv, AttemptsKept, TypeOK, Threads, Labels, ReportTimed,
           Step, tracker, flags
  <2>7. ASSUME NEW t \in Threads, Arm(t) PROVE AttemptsInv'
    BY <2>7, CountFacts, LockoutAssumption
       DEF AttemptsInv, AttemptsKept, TypeOK, Threads, Labels, Arm, Step,
           tracker, flags, history
  <2>8. ASSUME NEW t \in Threads, Armed(t) PROVE AttemptsInv'
    BY <2>8, CountFacts, LockoutAssumption
       DEF AttemptsInv, AttemptsKept, TypeOK, Threads, Labels, Armed, Step,
           tracker, local, history
  <2>9. ASSUME NEW t \in Threads, Cleared(t) PROVE AttemptsInv'
    BY <2>9, CountFacts, LockoutAssumption
       DEF AttemptsInv, AttemptsKept, TypeOK, Threads, Labels, Cleared, Step,
           tracker, flags, local
  <2>10. CASE Authenticate
    BY <2>10, CountFacts, LockoutAssumption
       DEF AttemptsInv, AttemptsKept, TypeOK, Threads, Labels, Authenticate,
           Step, tracker, flags, local, history
  <2>11. CASE ResetLockout
    BY <2>11, CountFacts, LockoutAssumption
       DEF AttemptsInv, AttemptsKept, TypeOK, Threads, Labels, ResetLockout,
           Step, tracker, flags, local, history
  <2>12. CASE AbortTimer
    BY <2>12, CountFacts, LockoutAssumption
       DEF AttemptsInv, AttemptsKept, TypeOK, Threads, Labels, AbortTimer,
           Step, tracker, flags, local, history
  <2>13. CASE NotifyFailed
    BY <2>13, CountFacts, LockoutAssumption
       DEF AttemptsInv, AttemptsKept, TypeOK, Threads, Labels, NotifyFailed,
           Step, tracker, flags
  <2>14. CASE NotifySucceeded
    BY <2>14, CountFacts, LockoutAssumption
       DEF AttemptsInv, AttemptsKept, TypeOK, Threads, Labels, NotifySucceeded,
           Step, tracker, flags, local
  <2>15. CASE NotifyReset
    BY <2>15, CountFacts, LockoutAssumption
       DEF AttemptsInv, AttemptsKept, TypeOK, Threads, Labels, NotifyReset,
           Step, tracker, flags, local, history
  <2>16. CASE Succeeded
    BY <2>16, ForgetKept DEF Succeeded, Labels, Threads
  <2>17. CASE AddCount("worker")
    BY <2>17, CountFacts, LockoutAssumption
       DEF AttemptsInv, AttemptsKept, TypeOK, Threads, Labels, AddCount, Step,
           flags
  <2>18. CASE Lock("worker")
    BY <2>18, CountFacts, LockoutAssumption
       DEF AttemptsInv, AttemptsKept, TypeOK, Threads, Labels, Lock, Step,
           flags, history
  <2>19. CASE Start("worker")
    BY <2>19, CountFacts, LockoutAssumption
       DEF AttemptsInv, AttemptsKept, TypeOK, Threads, Labels, Start, Step,
           Awaken, flags, local, history
  <2>20. ASSUME NEW i \in Timers, Wake(i) PROVE AttemptsInv'
    BY <2>20, CountFacts, LockoutAssumption
       DEF AttemptsInv, AttemptsKept, TypeOK, Threads, Labels, Wake, TimerStep,
           tracker, flags, local, history
  <2>21. ASSUME NEW i \in Timers, TimerResetMode(i) PROVE AttemptsInv'
    BY <2>21, CountFacts, LockoutAssumption
       DEF AttemptsInv, AttemptsKept, TypeOK, Threads, Labels, TimerResetMode,
           Awaken, flags, local, history
  <2>22. ASSUME NEW i \in Timers, TimerCleared(i) PROVE AttemptsInv'
    BY <2>22, CountFacts, LockoutAssumption
       DEF AttemptsInv, AttemptsKept, TypeOK, Threads, Labels, TimerCleared,
           TimerStep, tracker, flags, local
  <2>23. ASSUME NEW i \in Timers, TimerStarted(i) PROVE AttemptsInv'
    BY <2>23, CountFacts, LockoutAssumption
       DEF AttemptsInv, AttemptsKept, TypeOK, Threads, Labels, TimerStarted,
           TimerStep, tracker, local, history
  <2>24. ASSUME NEW i \in Timers, TimerAborted(i) PROVE AttemptsInv'
    BY <2>24, CountFacts, LockoutAssumption
       DEF AttemptsInv, AttemptsKept, TypeOK, Threads, Labels, TimerAborted,
           TimerStep, tracker, local, history
  <2>25. CASE Elapse
    BY <2>25, CountFacts, LockoutAssumption
       DEF AttemptsInv, AttemptsKept, TypeOK, Threads, Labels, Elapse, Awaken,
           flags, local, history
  <2>26. ASSUME NEW t \in Threads, \/ ForgetCount(t, "resetCount", "resetMode")
                                 \/ ForgetMode(t, "resetMode", "cleared")
        PROVE AttemptsInv'
    BY <2>26, ForgetKept DEF Labels
  <2> QED
    BY NextCases, <2>1, <2>2, <2>3, <2>4, <2>5, <2>6, <2>7, <2>8, <2>9, <2>10,
       <2>11, <2>12, <2>13, <2>14, <2>15, <2>16, <2>17, <2>18, <2>19, <2>20,
       <2>21, <2>22, <2>23, <2>24, <2>25, <2>26
<1> QED
  BY <1>1, <1>2, TypeCorrect, PTL DEF Spec, AttemptsInv
=============================================================================
