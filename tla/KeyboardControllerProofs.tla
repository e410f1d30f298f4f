---------------------- MODULE KeyboardControllerProofs ----------------------
(***************************************************************************)
(* Proofs about the keyboard's input gate, for every choice of the reports *)
(* that arrive and of the failures that may happen.                        *)
(***************************************************************************)
EXTENDS KeyboardController, TLAPS

\* The labels that steps move to, so that the proofs need not unfold Labels.
LEMMA LabelFacts ==
    /\ GateSteps \subseteq Labels
    /\ {"touchOff", "touchOffDone", "sysfs", "sysfsDone", "touchOn",
        "touchOnDone"} \subseteq Labels
    /\ {"off", "gate", "boot", "startHall", "startDevice", "startQuery", "up",
        "joinQuery", "joinHall", "joinReader", "stopped"} \subseteq Labels
    /\ {"qTop", "qOpen", "qClosed", "qCheck", "qWipe", "qWait", "rTop",
        "rPoll", "rClose", "hTop", "hPoll"} \subseteq Labels
    /\ {"main", "query", "reader", "hall"} \subseteq Threads
  BY DEF Labels, GateSteps, Threads

\* The locals of updateInputGate while no thread runs it.
LEMMA NoOpTyped ==
    NoOp \in [enabled : BOOLEAN, writeGate : BOOLEAN, writeTouch : BOOLEAN]
  BY DEF NoOp

\* The state guarded by mStateMutex keeps its types.
LEMMA DataTyped == TypeOK /\ [Next]_vars => DataOK'
<1> SUFFICES ASSUME TypeOK, [Next]_vars PROVE DataOK'
  OBVIOUS
<1> USE LabelFacts, NoOpTyped DEF TypeOK, DataOK, ControlOK, WorldOK, Goto,
        CallGate,
        GateReturn, MainStep, Launch, BootPc, Write21, TimedOut,
        dataVars, stateVars, gateVars, touchVars, lockVars, ctlVars, envVars
<1>1. ASSUME NEW t \in Threads, GateEnter(t) PROVE DataOK'
  BY <1>1 DEF GateEnter
<1>2. ASSUME NEW t \in Threads, TouchOff(t) PROVE DataOK'
  BY <1>2 DEF TouchOff
<1>3. ASSUME NEW t \in Threads, TouchOffDone(t) PROVE DataOK'
  BY <1>3 DEF TouchOffDone
<1>4. ASSUME NEW t \in Threads, Sysfs(t) PROVE DataOK'
  BY <1>4 DEF Sysfs
<1>5. ASSUME NEW t \in Threads, SysfsDone(t) PROVE DataOK'
  BY <1>5 DEF SysfsDone
<1>6. ASSUME NEW t \in Threads, TouchOn(t) PROVE DataOK'
  BY <1>6 DEF TouchOn
<1>7. ASSUME NEW t \in Threads, TouchOnDone(t) PROVE DataOK'
  BY <1>7 DEF TouchOnDone
<1>8. CASE QueryTop
  BY <1>8 DEF QueryTop
<1>9. CASE QueryOpen
  BY <1>9 DEF QueryOpen
<1>10. CASE QueryClosed
  BY <1>10 DEF QueryClosed
<1>11. CASE QueryCheck
  BY <1>11 DEF QueryCheck, HallStates
<1>12. CASE QueryWipe
  BY <1>12 DEF QueryWipe, HallStates
<1>13. CASE QueryWait
  BY <1>13 DEF QueryWait
<1>14. CASE ReaderTop
  BY <1>14 DEF ReaderTop
<1>15. CASE ReaderNothing
  BY <1>15 DEF ReaderNothing
<1>16. CASE ReaderError
  BY <1>16 DEF ReaderError, HallStates
<1>17. CASE ReaderClose
  BY <1>17 DEF ReaderClose
<1>18. CASE HallTop
  BY <1>18 DEF HallTop
<1>19. CASE HallNothing
  BY <1>19 DEF HallNothing
<1>20. CASE Start
  BY <1>20 DEF Start
<1>21. CASE StartHall
  BY <1>21 DEF StartHall
<1>22. CASE StartDevice
  BY <1>22 DEF StartDevice
<1>23. CASE StartQuery
  BY <1>23 DEF StartQuery
<1>24. CASE Stop
  BY <1>24 DEF Stop
<1>25. CASE JoinQuery
  BY <1>25 DEF JoinQuery
<1>26. CASE JoinHall
  BY <1>26 DEF JoinHall
<1>27. CASE JoinReader
  BY <1>27 DEF JoinReader
<1>28. CASE DeviceLost
  BY <1>28 DEF DeviceLost
<1>29. CASE ClientToggle
  BY <1>29 DEF ClientToggle
<1>30. CASE Crash
  BY <1>30 DEF Crash, HallStates
<1>31. ASSUME NEW c \in BOOLEAN, ReaderStatus(c) PROVE DataOK'
  BY <1>31 DEF ReaderStatus, Sources
<1>32. ASSUME NEW c \in BOOLEAN, ReaderSleep(c) PROVE DataOK'
  BY <1>32 DEF ReaderSleep
<1>33. ASSUME NEW h \in {"open", "closed"}, ReaderHall(h) PROVE DataOK'
  BY <1>33 DEF ReaderHall, HallStates, Sources
<1>34. ASSUME NEW h \in HallStates, HallCallback(h) PROVE DataOK'
  BY <1>34 DEF HallCallback, HallStates, Sources
<1>35. ASSUME NEW s \in Sources, Expire(s) PROVE DataOK'
  BY <1>35 DEF Expire
<1>36. CASE UNCHANGED vars
  BY <1>36 DEF vars
<1> QED
  BY <1>1, <1>2, <1>3, <1>4, <1>5, <1>6, <1>7, <1>8, <1>9, <1>10, <1>11,
     <1>12, <1>13, <1>14, <1>15, <1>16, <1>17, <1>18, <1>19, <1>20, <1>21,
     <1>22, <1>23, <1>24, <1>25, <1>26, <1>27, <1>28, <1>29, <1>30, <1>31,
     <1>32, <1>33, <1>34, <1>35, <1>36 DEF Next, UpdateInputGate, QueryLoop,
     DeviceReader, ReaderData, HallMonitor, Main, Environment

\* Program counters, the gate lock and its holder's locals keep their types.
LEMMA ControlTyped == TypeOK /\ [Next]_vars => ControlOK'
<1> SUFFICES ASSUME TypeOK, [Next]_vars PROVE ControlOK'
  OBVIOUS
<1> USE LabelFacts, NoOpTyped DEF TypeOK, DataOK, ControlOK, WorldOK, Goto,
        CallGate,
        GateReturn, MainStep, Launch, BootPc, Write21, TimedOut,
        dataVars, stateVars, gateVars, touchVars, lockVars, ctlVars, envVars
<1>1. ASSUME NEW t \in Threads, GateEnter(t) PROVE ControlOK'
  <2> DEFINE e == ~Forced(t) /\ Desired
             g == Forced(t) \/ ~gateKnown \/ inputEnabled # e
             w == ~touchKnown \/ touchEnabled # e
  <2>1. pc' \in [Threads -> Labels] /\ ret' \in [Threads -> Labels]
    BY <1>1 DEF GateEnter
  <2>2. op' = NoOp
        \/ op' = [enabled |-> e, writeGate |-> g, writeTouch |-> w]
    BY <1>1 DEF GateEnter
  <2>3. e \in BOOLEAN /\ g \in BOOLEAN /\ w \in BOOLEAN
    OBVIOUS
  <2>4. op' \in [enabled : BOOLEAN, writeGate : BOOLEAN, writeTouch : BOOLEAN]
    <3> HIDE DEF e, g, w
    <3> QED
      BY <2>2, <2>3, NoOpTyped
  <2> QED
    BY <1>1, <2>1, <2>4 DEF GateEnter
<1>2. ASSUME NEW t \in Threads, TouchOff(t) PROVE ControlOK'
  BY <1>2 DEF TouchOff
<1>3. ASSUME NEW t \in Threads, TouchOffDone(t) PROVE ControlOK'
  BY <1>3 DEF TouchOffDone
<1>4. ASSUME NEW t \in Threads, Sysfs(t) PROVE ControlOK'
  <2>1. pc' \in [Threads -> Labels] /\ ret' \in [Threads -> Labels]
    BY <1>4 DEF Sysfs
  <2>2. op' = op \/ op' = NoOp
    BY <1>4 DEF Sysfs
  <2> QED
    BY <1>4, <2>1, <2>2 DEF Sysfs
<1>5. ASSUME NEW t \in Threads, SysfsDone(t) PROVE ControlOK'
  BY <1>5 DEF SysfsDone
<1>6. ASSUME NEW t \in Threads, TouchOn(t) PROVE ControlOK'
  <2>1. pc' \in [Threads -> Labels] /\ ret' \in [Threads -> Labels]
    BY <1>6 DEF TouchOn
  <2>2. op' = op \/ op' = NoOp
    BY <1>6 DEF TouchOn
  <2> QED
    BY <1>6, <2>1, <2>2 DEF TouchOn
<1>7. ASSUME NEW t \in Threads, TouchOnDone(t) PROVE ControlOK'
  BY <1>7 DEF TouchOnDone
<1>8. CASE QueryTop
  <2>1. pc' \in [Threads -> Labels]
    BY <1>8 DEF QueryTop
  <2>2. ret' \in [Threads -> Labels]
    BY <1>8 DEF QueryTop
  <2> QED
    BY <1>8, <2>1, <2>2 DEF QueryTop
<1>9. CASE QueryOpen
  BY <1>9 DEF QueryOpen
<1>10. CASE QueryClosed
  BY <1>10 DEF QueryClosed
<1>11. CASE QueryCheck
  BY <1>11 DEF QueryCheck
<1>12. CASE QueryWipe
  BY <1>12 DEF QueryWipe
<1>13. CASE QueryWait
  BY <1>13 DEF QueryWait
<1>14. CASE ReaderTop
  BY <1>14 DEF ReaderTop
<1>15. CASE ReaderNothing
  BY <1>15 DEF ReaderNothing
<1>16. CASE ReaderError
  BY <1>16 DEF ReaderError
<1>17. CASE ReaderClose
  BY <1>17 DEF ReaderClose
<1>18. CASE HallTop
  BY <1>18 DEF HallTop
<1>19. CASE HallNothing
  BY <1>19 DEF HallNothing
<1>20. CASE Start
  BY <1>20 DEF Start
<1>21. CASE StartHall
  BY <1>21 DEF StartHall
<1>22. CASE StartDevice
  BY <1>22 DEF StartDevice
<1>23. CASE StartQuery
  BY <1>23 DEF StartQuery
<1>24. CASE Stop
  BY <1>24 DEF Stop
<1>25. CASE JoinQuery
  BY <1>25 DEF JoinQuery
<1>26. CASE JoinHall
  BY <1>26 DEF JoinHall
<1>27. CASE JoinReader
  BY <1>27 DEF JoinReader
<1>28. CASE DeviceLost
  BY <1>28 DEF DeviceLost
<1>29. CASE ClientToggle
  BY <1>29 DEF ClientToggle
<1>30. CASE Crash
  BY <1>30 DEF Crash
<1>31. ASSUME NEW c \in BOOLEAN, ReaderStatus(c) PROVE ControlOK'
  BY <1>31 DEF ReaderStatus
<1>32. ASSUME NEW c \in BOOLEAN, ReaderSleep(c) PROVE ControlOK'
  BY <1>32 DEF ReaderSleep
<1>33. ASSUME NEW h \in {"open", "closed"}, ReaderHall(h) PROVE ControlOK'
  BY <1>33 DEF ReaderHall
<1>34. ASSUME NEW h \in HallStates, HallCallback(h) PROVE ControlOK'
  BY <1>34 DEF HallCallback
<1>35. ASSUME NEW s \in Sources, Expire(s) PROVE ControlOK'
  BY <1>35 DEF Expire
<1>36. CASE UNCHANGED vars
  BY <1>36 DEF vars
<1> QED
  BY <1>1, <1>2, <1>3, <1>4, <1>5, <1>6, <1>7, <1>8, <1>9, <1>10, <1>11,
     <1>12, <1>13, <1>14, <1>15, <1>16, <1>17, <1>18, <1>19, <1>20, <1>21,
     <1>22, <1>23, <1>24, <1>25, <1>26, <1>27, <1>28, <1>29, <1>30, <1>31,
     <1>32, <1>33, <1>34, <1>35, <1>36 DEF Next, UpdateInputGate, QueryLoop,
     DeviceReader, ReaderData, HallMonitor, Main, Environment

\* The device, the driver and the history flags keep their types.
LEMMA WorldTyped == TypeOK /\ [Next]_vars => WorldOK'
<1> SUFFICES ASSUME TypeOK, [Next]_vars PROVE WorldOK'
  OBVIOUS
<1> USE LabelFacts, NoOpTyped DEF TypeOK, DataOK, ControlOK, WorldOK, Goto,
        CallGate,
        GateReturn, MainStep, Launch, BootPc, Write21, TimedOut,
        dataVars, stateVars, gateVars, touchVars, lockVars, ctlVars, envVars
<1>1. ASSUME NEW t \in Threads, GateEnter(t) PROVE WorldOK'
  BY <1>1 DEF GateEnter
<1>2. ASSUME NEW t \in Threads, TouchOff(t) PROVE WorldOK'
  BY <1>2 DEF TouchOff
<1>3. ASSUME NEW t \in Threads, TouchOffDone(t) PROVE WorldOK'
  BY <1>3 DEF TouchOffDone
<1>4. ASSUME NEW t \in Threads, Sysfs(t) PROVE WorldOK'
  BY <1>4 DEF Sysfs
<1>5. ASSUME NEW t \in Threads, SysfsDone(t) PROVE WorldOK'
  BY <1>5 DEF SysfsDone
<1>6. ASSUME NEW t \in Threads, TouchOn(t) PROVE WorldOK'
  BY <1>6 DEF TouchOn
<1>7. ASSUME NEW t \in Threads, TouchOnDone(t) PROVE WorldOK'
  BY <1>7 DEF TouchOnDone
<1>8. CASE QueryTop
  BY <1>8 DEF QueryTop
<1>9. CASE QueryOpen
  BY <1>9 DEF QueryOpen
<1>10. CASE QueryClosed
  BY <1>10 DEF QueryClosed
<1>11. CASE QueryCheck
  BY <1>11 DEF QueryCheck
<1>12. CASE QueryWipe
  BY <1>12 DEF QueryWipe
<1>13. CASE QueryWait
  BY <1>13 DEF QueryWait
<1>14. CASE ReaderTop
  BY <1>14 DEF ReaderTop
<1>15. CASE ReaderNothing
  BY <1>15 DEF ReaderNothing
<1>16. CASE ReaderError
  BY <1>16 DEF ReaderError
<1>17. CASE ReaderClose
  BY <1>17 DEF ReaderClose
<1>18. CASE HallTop
  BY <1>18 DEF HallTop
<1>19. CASE HallNothing
  BY <1>19 DEF HallNothing
<1>20. CASE Start
  BY <1>20 DEF Start
<1>21. CASE StartHall
  BY <1>21 DEF StartHall
<1>22. CASE StartDevice
  BY <1>22 DEF StartDevice
<1>23. CASE StartQuery
  BY <1>23 DEF StartQuery
<1>24. CASE Stop
  BY <1>24 DEF Stop
<1>25. CASE JoinQuery
  BY <1>25 DEF JoinQuery
<1>26. CASE JoinHall
  BY <1>26 DEF JoinHall
<1>27. CASE JoinReader
  BY <1>27 DEF JoinReader
<1>28. CASE DeviceLost
  BY <1>28 DEF DeviceLost
<1>29. CASE ClientToggle
  BY <1>29 DEF ClientToggle
<1>30. CASE Crash
  BY <1>30 DEF Crash
<1>31. ASSUME NEW c \in BOOLEAN, ReaderStatus(c) PROVE WorldOK'
  BY <1>31 DEF ReaderStatus
<1>32. ASSUME NEW c \in BOOLEAN, ReaderSleep(c) PROVE WorldOK'
  BY <1>32 DEF ReaderSleep
<1>33. ASSUME NEW h \in {"open", "closed"}, ReaderHall(h) PROVE WorldOK'
  BY <1>33 DEF ReaderHall
<1>34. ASSUME NEW h \in HallStates, HallCallback(h) PROVE WorldOK'
  BY <1>34 DEF HallCallback
<1>35. ASSUME NEW s \in Sources, Expire(s) PROVE WorldOK'
  BY <1>35 DEF Expire
<1>36. CASE UNCHANGED vars
  BY <1>36 DEF vars
<1> QED
  BY <1>1, <1>2, <1>3, <1>4, <1>5, <1>6, <1>7, <1>8, <1>9, <1>10, <1>11,
     <1>12, <1>13, <1>14, <1>15, <1>16, <1>17, <1>18, <1>19, <1>20, <1>21,
     <1>22, <1>23, <1>24, <1>25, <1>26, <1>27, <1>28, <1>29, <1>30, <1>31,
     <1>32, <1>33, <1>34, <1>35, <1>36 DEF Next, UpdateInputGate, QueryLoop,
     DeviceReader, ReaderData, HallMonitor, Main, Environment

\* Spec => []TypeOK, for every set of reports and of possible failures.
THEOREM TypeCorrect == Spec => []TypeOK
<1>1. Init => TypeOK
  <2> SUFFICES ASSUME Init PROVE TypeOK
    OBVIOUS
  <2> USE DEF Init
  <2>1. DataOK
    BY DEF DataOK, HallStates
  <2>2. ControlOK
    BY LabelFacts, NoOpTyped DEF ControlOK, BootPc
  <2>3. WorldOK
    BY DEF WorldOK
  <2> QED
    BY <2>1, <2>2, <2>3 DEF TypeOK
<1>2. TypeOK /\ [Next]_vars => TypeOK'
  BY DataTyped, ControlTyped, WorldTyped DEF TypeOK
<1> QED
  BY <1>1, <1>2, PTL DEF Spec

\* mGateMutex is held by the one thread that is past it, and a call of
\* updateInputGate never returns into another one.
LEMMA LockStep == TypeOK /\ GateInv /\ [Next]_vars => LockInv'
<1> SUFFICES ASSUME TypeOK, GateInv, [Next]_vars PROVE LockInv'
  OBVIOUS
<1> USE DEF TypeOK, ControlOK, Goto, CallGate, GateReturn, MainStep, Launch,
        BootPc, Write21, TimedOut, CanRead, Threads, NoThread, GateSteps,
        dataVars, stateVars, gateVars, touchVars, lockVars, ctlVars, envVars
<1> USE DEF GateInv, LockInv, ThreadInv, NotRunning, MainAt
<1>1. ASSUME NEW t \in Threads, GateEnter(t) PROVE LockInv'
  BY <1>1 DEF GateEnter, Forced, Desired, HallOpen
<1>2. ASSUME NEW t \in Threads, TouchOff(t) PROVE LockInv'
  BY <1>2 DEF TouchOff
<1>3. ASSUME NEW t \in Threads, TouchOffDone(t) PROVE LockInv'
  BY <1>3 DEF TouchOffDone
<1>4. ASSUME NEW t \in Threads, Sysfs(t) PROVE LockInv'
  BY <1>4 DEF Sysfs
<1>5. ASSUME NEW t \in Threads, SysfsDone(t) PROVE LockInv'
  BY <1>5 DEF SysfsDone
<1>6. ASSUME NEW t \in Threads, TouchOn(t) PROVE LockInv'
  BY <1>6 DEF TouchOn
<1>7. ASSUME NEW t \in Threads, TouchOnDone(t) PROVE LockInv'
  BY <1>7 DEF TouchOnDone
<1>8. CASE QueryTop
  BY <1>8 DEF QueryTop
<1>9. CASE QueryOpen
  BY <1>9 DEF QueryOpen
<1>10. CASE QueryClosed
  BY <1>10 DEF QueryClosed
<1>11. CASE QueryCheck
  BY <1>11 DEF QueryCheck
<1>12. CASE QueryWipe
  BY <1>12 DEF QueryWipe
<1>13. CASE QueryWait
  BY <1>13 DEF QueryWait
<1>14. CASE ReaderTop
  BY <1>14 DEF ReaderTop
<1>15. CASE ReaderNothing
  BY <1>15 DEF ReaderNothing
<1>16. CASE ReaderError
  BY <1>16 DEF ReaderError
<1>17. CASE ReaderClose
  BY <1>17 DEF ReaderClose
<1>18. CASE HallTop
  BY <1>18 DEF HallTop
<1>19. CASE HallNothing
  BY <1>19 DEF HallNothing
<1>20. CASE Start
  BY <1>20 DEF Start
<1>21. CASE StartHall
  <2>1. /\ pc["main"] = "startHall" /\ pc'["main"] = "startDevice" /\
          pc'["hall"] = "hTop"
        /\ \A t \in Threads \ {"main", "hall"} : pc'[t] = pc[t]
    BY <1>21 DEF StartHall
  <2>2. UNCHANGED <<dataVars, lockVars, qSleeping, stopping, envVars>>
    BY <1>21 DEF StartHall
  <2> QED
    BY <2>1, <2>2
<1>22. CASE StartDevice
  <2>1. /\ pc["main"] = "startDevice" /\ pc'["main"] = "startQuery" /\
          pc'["reader"] = "rTop"
        /\ \A t \in Threads \ {"main", "reader"} : pc'[t] = pc[t]
    BY <1>22 DEF StartDevice
  <2>2. UNCHANGED <<dataVars, lockVars, qSleeping, stopping, envVars>>
    BY <1>22 DEF StartDevice
  <2> QED
    BY <2>1, <2>2
<1>23. CASE StartQuery
  <2>1. /\ pc["main"] = "startQuery" /\ pc'["main"] = "up" /\ pc'["query"] =
          "qTop"
        /\ \A t \in Threads \ {"main", "query"} : pc'[t] = pc[t]
    BY <1>23 DEF StartQuery
  <2>2. UNCHANGED <<dataVars, lockVars, qSleeping, stopping, envVars>>
    BY <1>23 DEF StartQuery
  <2> QED
    BY <2>1, <2>2
<1>24. CASE Stop
  BY <1>24 DEF Stop
<1>25. CASE JoinQuery
  BY <1>25 DEF JoinQuery
<1>26. CASE JoinHall
  BY <1>26 DEF JoinHall
<1>27. CASE JoinReader
  BY <1>27 DEF JoinReader
<1>28. CASE DeviceLost
  <2>1. kernelGate' => kernelGate
    BY <1>28 DEF DeviceLost, WorldOK
  <2>2. UNCHANGED <<dataVars, ctlVars, sysfsFailed>> /\ fd = "live"
        /\ fd' = "dead"
    BY <1>28 DEF DeviceLost
  <2> QED
    BY <2>1, <2>2
<1>29. CASE ClientToggle
  BY <1>29 DEF ClientToggle
<1>30. CASE Crash
  BY <1>30 DEF Crash
<1>31. ASSUME NEW c \in BOOLEAN, ReaderStatus(c) PROVE LockInv'
  BY <1>31 DEF ReaderStatus
<1>32. ASSUME NEW c \in BOOLEAN, ReaderSleep(c) PROVE LockInv'
  BY <1>32 DEF ReaderSleep
<1>33. ASSUME NEW h \in {"open", "closed"}, ReaderHall(h) PROVE LockInv'
  BY <1>33 DEF ReaderHall
<1>34. ASSUME NEW h \in HallStates, HallCallback(h) PROVE LockInv'
  BY <1>34 DEF HallCallback
<1>35. ASSUME NEW s \in Sources, Expire(s) PROVE LockInv'
  BY <1>35 DEF Expire
<1>36. CASE UNCHANGED vars
  BY <1>36 DEF vars
<1> QED
  BY <1>1, <1>2, <1>3, <1>4, <1>5, <1>6, <1>7, <1>8, <1>9, <1>10, <1>11,
     <1>12, <1>13, <1>14, <1>15, <1>16, <1>17, <1>18, <1>19, <1>20, <1>21,
     <1>22, <1>23, <1>24, <1>25, <1>26, <1>27, <1>28, <1>29, <1>30, <1>31,
     <1>32, <1>33, <1>34, <1>35, <1>36 DEF Next, UpdateInputGate, QueryLoop,
     DeviceReader, ReaderData, HallMonitor, Main, Environment

\* A thread runs only between the main thread's start and join of it.
LEMMA ThreadStep == TypeOK /\ GateInv /\ [Next]_vars => ThreadInv'
<1> SUFFICES ASSUME TypeOK, GateInv, [Next]_vars PROVE ThreadInv'
  OBVIOUS
<1> USE DEF TypeOK, ControlOK, Goto, CallGate, GateReturn, MainStep, Launch,
        BootPc, Write21, TimedOut, CanRead, Threads, NoThread, GateSteps,
        dataVars, stateVars, gateVars, touchVars, lockVars, ctlVars, envVars
<1> USE DEF GateInv, LockInv, ThreadInv, NotRunning, MainAt, Owes
<1>1. ASSUME NEW t \in Threads, GateEnter(t) PROVE ThreadInv'
  BY <1>1 DEF GateEnter, Forced, Desired, HallOpen
<1>2. ASSUME NEW t \in Threads, TouchOff(t) PROVE ThreadInv'
  BY <1>2 DEF TouchOff
<1>3. ASSUME NEW t \in Threads, TouchOffDone(t) PROVE ThreadInv'
  BY <1>3 DEF TouchOffDone
<1>4. ASSUME NEW t \in Threads, Sysfs(t) PROVE ThreadInv'
  BY <1>4 DEF Sysfs
<1>5. ASSUME NEW t \in Threads, SysfsDone(t) PROVE ThreadInv'
  BY <1>5 DEF SysfsDone
<1>6. ASSUME NEW t \in Threads, TouchOn(t) PROVE ThreadInv'
  BY <1>6 DEF TouchOn
<1>7. ASSUME NEW t \in Threads, TouchOnDone(t) PROVE ThreadInv'
  BY <1>7 DEF TouchOnDone
<1>8. CASE QueryTop
  BY <1>8 DEF QueryTop
<1>9. CASE QueryOpen
  BY <1>9 DEF QueryOpen
<1>10. CASE QueryClosed
  BY <1>10 DEF QueryClosed
<1>11. CASE QueryCheck
  BY <1>11 DEF QueryCheck
<1>12. CASE QueryWipe
  BY <1>12 DEF QueryWipe
<1>13. CASE QueryWait
  BY <1>13 DEF QueryWait
<1>14. CASE ReaderTop
  BY <1>14 DEF ReaderTop
<1>15. CASE ReaderNothing
  BY <1>15 DEF ReaderNothing
<1>16. CASE ReaderError
  BY <1>16 DEF ReaderError
<1>17. CASE ReaderClose
  BY <1>17 DEF ReaderClose
<1>18. CASE HallTop
  BY <1>18 DEF HallTop
<1>19. CASE HallNothing
  BY <1>19 DEF HallNothing
<1>20. CASE Start
  BY <1>20 DEF Start
<1>21. CASE StartHall
  <2>1. /\ pc["main"] = "startHall" /\ pc'["main"] = "startDevice" /\
          pc'["hall"] = "hTop"
        /\ \A t \in Threads \ {"main", "hall"} : pc'[t] = pc[t]
    BY <1>21 DEF StartHall
  <2>2. UNCHANGED <<dataVars, lockVars, qSleeping, stopping, envVars>>
    BY <1>21 DEF StartHall
  <2> QED
    BY <2>1, <2>2
<1>22. CASE StartDevice
  <2>1. /\ pc["main"] = "startDevice" /\ pc'["main"] = "startQuery" /\
          pc'["reader"] = "rTop"
        /\ \A t \in Threads \ {"main", "reader"} : pc'[t] = pc[t]
    BY <1>22 DEF StartDevice
  <2>2. UNCHANGED <<dataVars, lockVars, qSleeping, stopping, envVars>>
    BY <1>22 DEF StartDevice
  <2> QED
    BY <2>1, <2>2
<1>23. CASE StartQuery
  <2>1. /\ pc["main"] = "startQuery" /\ pc'["main"] = "up" /\ pc'["query"] =
          "qTop"
        /\ \A t \in Threads \ {"main", "query"} : pc'[t] = pc[t]
    BY <1>23 DEF StartQuery
  <2>2. UNCHANGED <<dataVars, lockVars, qSleeping, stopping, envVars>>
    BY <1>23 DEF StartQuery
  <2> QED
    BY <2>1, <2>2
<1>24. CASE Stop
  BY <1>24 DEF Stop
<1>25. CASE JoinQuery
  BY <1>25 DEF JoinQuery
<1>26. CASE JoinHall
  BY <1>26 DEF JoinHall
<1>27. CASE JoinReader
  BY <1>27 DEF JoinReader
<1>28. CASE DeviceLost
  <2>1. kernelGate' => kernelGate
    BY <1>28 DEF DeviceLost, WorldOK
  <2>2. UNCHANGED <<dataVars, ctlVars, sysfsFailed>> /\ fd = "live"
        /\ fd' = "dead"
    BY <1>28 DEF DeviceLost
  <2> QED
    BY <2>1, <2>2
<1>29. CASE ClientToggle
  BY <1>29 DEF ClientToggle
<1>30. CASE Crash
  BY <1>30 DEF Crash
<1>31. ASSUME NEW c \in BOOLEAN, ReaderStatus(c) PROVE ThreadInv'
  BY <1>31 DEF ReaderStatus
<1>32. ASSUME NEW c \in BOOLEAN, ReaderSleep(c) PROVE ThreadInv'
  BY <1>32 DEF ReaderSleep
<1>33. ASSUME NEW h \in {"open", "closed"}, ReaderHall(h) PROVE ThreadInv'
  BY <1>33 DEF ReaderHall
<1>34. ASSUME NEW h \in HallStates, HallCallback(h) PROVE ThreadInv'
  BY <1>34 DEF HallCallback
<1>35. ASSUME NEW s \in Sources, Expire(s) PROVE ThreadInv'
  BY <1>35 DEF Expire
<1>36. CASE UNCHANGED vars
  BY <1>36 DEF vars
<1> QED
  BY <1>1, <1>2, <1>3, <1>4, <1>5, <1>6, <1>7, <1>8, <1>9, <1>10, <1>11,
     <1>12, <1>13, <1>14, <1>15, <1>16, <1>17, <1>18, <1>19, <1>20, <1>21,
     <1>22, <1>23, <1>24, <1>25, <1>26, <1>27, <1>28, <1>29, <1>30, <1>31,
     <1>32, <1>33, <1>34, <1>35, <1>36 DEF Next, UpdateInputGate, QueryLoop,
     DeviceReader, ReaderData, HallMonitor, Main, Environment

\* A holder that decided "closed" is about to write it or has no need to; one
\* that decided "open" has the evidence, or a later update waits for the lock.
LEMMA ClosedStep == TypeOK /\ GateInv /\ [Next]_vars => ClosedInv'
<1> SUFFICES ASSUME TypeOK, GateInv, [Next]_vars PROVE ClosedInv'
  OBVIOUS
<1> USE DEF TypeOK, ControlOK, Goto, CallGate, GateReturn, MainStep, Launch,
        BootPc, Write21, TimedOut, CanRead, Threads, NoThread, GateSteps,
        dataVars, stateVars, gateVars, touchVars, lockVars, ctlVars, envVars
<1> USE DEF GateInv, LockInv, ThreadInv, NotRunning, MainAt, ClosedInv,
        CacheInv, Closing, Pending, Evidence
<1>1. ASSUME NEW t \in Threads, GateEnter(t) PROVE ClosedInv'
  <2> DEFINE e == ~Forced(t) /\ Desired
             g == Forced(t) \/ ~gateKnown \/ inputEnabled # e
             w == ~touchKnown \/ touchEnabled # e
  <2>1. e => Evidence
    BY DEF Desired, HallOpen, Evidence
  <2>2. ~e /\ ~g => ~kernelGate
    BY <1>1 DEF GateEnter, CacheInv
  <2>3. Forced(t) => ~e /\ g
    OBVIOUS
  <2>4. UNCHANGED <<dataVars, envVars>> /\ pc[t] = "gate" /\ gateOwner =
          NoThread
    BY <1>1 DEF GateEnter
  <2>5. CASE g \/ w
    <3>1. /\ gateOwner' = t /\ pc' = [pc EXCEPT ![t] = "touchOff"]
          /\ op'.enabled = e /\ op'.writeGate = g
      BY <1>1, <2>5 DEF GateEnter
    <3> HIDE DEF e, g, w
    <3> QED
      BY <2>1, <2>2, <2>3, <2>4, <3>1 DEF Forced
  <2>6. CASE ~(g \/ w)
    <3>1. gateOwner' = NoThread /\ pc' = [pc EXCEPT ![t] = ret[t]]
      BY <1>1, <2>6 DEF GateEnter
    <3>2. ~g
      BY <2>6
    <3> HIDE DEF e, g, w
    <3> QED
      BY <2>1, <2>2, <2>3, <2>4, <3>1, <3>2
  <2> QED
    BY <2>5, <2>6
<1>2. ASSUME NEW t \in Threads, TouchOff(t) PROVE ClosedInv'
  BY <1>2 DEF TouchOff
<1>3. ASSUME NEW t \in Threads, TouchOffDone(t) PROVE ClosedInv'
  BY <1>3 DEF TouchOffDone
<1>4. ASSUME NEW t \in Threads, Sysfs(t) PROVE ClosedInv'
  BY <1>4 DEF Sysfs
<1>5. ASSUME NEW t \in Threads, SysfsDone(t) PROVE ClosedInv'
  BY <1>5 DEF SysfsDone
<1>6. ASSUME NEW t \in Threads, TouchOn(t) PROVE ClosedInv'
  BY <1>6 DEF TouchOn
<1>7. ASSUME NEW t \in Threads, TouchOnDone(t) PROVE ClosedInv'
  BY <1>7 DEF TouchOnDone
<1>8. CASE QueryTop
  BY <1>8 DEF QueryTop
<1>9. CASE QueryOpen
  BY <1>9 DEF QueryOpen
<1>10. CASE QueryClosed
  BY <1>10 DEF QueryClosed
<1>11. CASE QueryCheck
  BY <1>11 DEF QueryCheck
<1>12. CASE QueryWipe
  BY <1>12 DEF QueryWipe
<1>13. CASE QueryWait
  BY <1>13 DEF QueryWait
<1>14. CASE ReaderTop
  BY <1>14 DEF ReaderTop
<1>15. CASE ReaderNothing
  BY <1>15 DEF ReaderNothing
<1>16. CASE ReaderError
  BY <1>16 DEF ReaderError
<1>17. CASE ReaderClose
  BY <1>17 DEF ReaderClose
<1>18. CASE HallTop
  BY <1>18 DEF HallTop
<1>19. CASE HallNothing
  BY <1>19 DEF HallNothing
<1>20. CASE Start
  BY <1>20 DEF Start
<1>21. CASE StartHall
  <2>1. /\ pc["main"] = "startHall" /\ pc'["main"] = "startDevice" /\
          pc'["hall"] = "hTop"
        /\ \A t \in Threads \ {"main", "hall"} : pc'[t] = pc[t]
    BY <1>21 DEF StartHall
  <2>2. UNCHANGED <<dataVars, lockVars, qSleeping, stopping, envVars>>
    BY <1>21 DEF StartHall
  <2> QED
    BY <2>1, <2>2
<1>22. CASE StartDevice
  <2>1. /\ pc["main"] = "startDevice" /\ pc'["main"] = "startQuery" /\
          pc'["reader"] = "rTop"
        /\ \A t \in Threads \ {"main", "reader"} : pc'[t] = pc[t]
    BY <1>22 DEF StartDevice
  <2>2. UNCHANGED <<dataVars, lockVars, qSleeping, stopping, envVars>>
    BY <1>22 DEF StartDevice
  <2> QED
    BY <2>1, <2>2
<1>23. CASE StartQuery
  <2>1. /\ pc["main"] = "startQuery" /\ pc'["main"] = "up" /\ pc'["query"] =
          "qTop"
        /\ \A t \in Threads \ {"main", "query"} : pc'[t] = pc[t]
    BY <1>23 DEF StartQuery
  <2>2. UNCHANGED <<dataVars, lockVars, qSleeping, stopping, envVars>>
    BY <1>23 DEF StartQuery
  <2> QED
    BY <2>1, <2>2
<1>24. CASE Stop
  BY <1>24 DEF Stop
<1>25. CASE JoinQuery
  BY <1>25 DEF JoinQuery
<1>26. CASE JoinHall
  BY <1>26 DEF JoinHall
<1>27. CASE JoinReader
  BY <1>27 DEF JoinReader
<1>28. CASE DeviceLost
  <2>1. kernelGate' => kernelGate
    BY <1>28 DEF DeviceLost, WorldOK
  <2>2. UNCHANGED <<dataVars, ctlVars, sysfsFailed>> /\ fd = "live"
        /\ fd' = "dead"
    BY <1>28 DEF DeviceLost
  <2> QED
    BY <2>1, <2>2
<1>29. CASE ClientToggle
  BY <1>29 DEF ClientToggle
<1>30. CASE Crash
  BY <1>30 DEF Crash
<1>31. ASSUME NEW c \in BOOLEAN, ReaderStatus(c) PROVE ClosedInv'
  BY <1>31 DEF ReaderStatus
<1>32. ASSUME NEW c \in BOOLEAN, ReaderSleep(c) PROVE ClosedInv'
  BY <1>32 DEF ReaderSleep
<1>33. ASSUME NEW h \in {"open", "closed"}, ReaderHall(h) PROVE ClosedInv'
  BY <1>33 DEF ReaderHall
<1>34. ASSUME NEW h \in HallStates, HallCallback(h) PROVE ClosedInv'
  BY <1>34 DEF HallCallback
<1>35. ASSUME NEW s \in Sources, Expire(s) PROVE ClosedInv'
  BY <1>35 DEF Expire
<1>36. CASE UNCHANGED vars
  BY <1>36 DEF vars
<1> QED
  BY <1>1, <1>2, <1>3, <1>4, <1>5, <1>6, <1>7, <1>8, <1>9, <1>10, <1>11,
     <1>12, <1>13, <1>14, <1>15, <1>16, <1>17, <1>18, <1>19, <1>20, <1>21,
     <1>22, <1>23, <1>24, <1>25, <1>26, <1>27, <1>28, <1>29, <1>30, <1>31,
     <1>32, <1>33, <1>34, <1>35, <1>36 DEF Next, UpdateInputGate, QueryLoop,
     DeviceReader, ReaderData, HallMonitor, Main, Environment

\* The cached gate state never hides an open gate from a later decision.
LEMMA CacheStep == TypeOK /\ GateInv /\ [Next]_vars => CacheInv'
<1> SUFFICES ASSUME TypeOK, GateInv, [Next]_vars PROVE CacheInv'
  OBVIOUS
<1> USE DEF TypeOK, ControlOK, Goto, CallGate, GateReturn, MainStep, Launch,
        BootPc, Write21, TimedOut, CanRead, Threads, NoThread, GateSteps,
        dataVars, stateVars, gateVars, touchVars, lockVars, ctlVars, envVars
<1> USE DEF GateInv, LockInv, ThreadInv, NotRunning, MainAt, ClosedInv,
        Closing, CacheInv
<1>1. ASSUME NEW t \in Threads, GateEnter(t) PROVE CacheInv'
  BY <1>1 DEF GateEnter, Forced, Desired, HallOpen
<1>2. ASSUME NEW t \in Threads, TouchOff(t) PROVE CacheInv'
  BY <1>2 DEF TouchOff
<1>3. ASSUME NEW t \in Threads, TouchOffDone(t) PROVE CacheInv'
  BY <1>3 DEF TouchOffDone
<1>4. ASSUME NEW t \in Threads, Sysfs(t) PROVE CacheInv'
  BY <1>4 DEF Sysfs
<1>5. ASSUME NEW t \in Threads, SysfsDone(t) PROVE CacheInv'
  BY <1>5 DEF SysfsDone
<1>6. ASSUME NEW t \in Threads, TouchOn(t) PROVE CacheInv'
  BY <1>6 DEF TouchOn
<1>7. ASSUME NEW t \in Threads, TouchOnDone(t) PROVE CacheInv'
  BY <1>7 DEF TouchOnDone
<1>8. CASE QueryTop
  BY <1>8 DEF QueryTop
<1>9. CASE QueryOpen
  BY <1>9 DEF QueryOpen
<1>10. CASE QueryClosed
  BY <1>10 DEF QueryClosed
<1>11. CASE QueryCheck
  BY <1>11 DEF QueryCheck
<1>12. CASE QueryWipe
  BY <1>12 DEF QueryWipe
<1>13. CASE QueryWait
  BY <1>13 DEF QueryWait
<1>14. CASE ReaderTop
  BY <1>14 DEF ReaderTop
<1>15. CASE ReaderNothing
  BY <1>15 DEF ReaderNothing
<1>16. CASE ReaderError
  BY <1>16 DEF ReaderError
<1>17. CASE ReaderClose
  BY <1>17 DEF ReaderClose
<1>18. CASE HallTop
  BY <1>18 DEF HallTop
<1>19. CASE HallNothing
  BY <1>19 DEF HallNothing
<1>20. CASE Start
  BY <1>20 DEF Start
<1>21. CASE StartHall
  <2>1. /\ pc["main"] = "startHall" /\ pc'["main"] = "startDevice" /\
          pc'["hall"] = "hTop"
        /\ \A t \in Threads \ {"main", "hall"} : pc'[t] = pc[t]
    BY <1>21 DEF StartHall
  <2>2. UNCHANGED <<dataVars, lockVars, qSleeping, stopping, envVars>>
    BY <1>21 DEF StartHall
  <2> QED
    BY <2>1, <2>2
<1>22. CASE StartDevice
  <2>1. /\ pc["main"] = "startDevice" /\ pc'["main"] = "startQuery" /\
          pc'["reader"] = "rTop"
        /\ \A t \in Threads \ {"main", "reader"} : pc'[t] = pc[t]
    BY <1>22 DEF StartDevice
  <2>2. UNCHANGED <<dataVars, lockVars, qSleeping, stopping, envVars>>
    BY <1>22 DEF StartDevice
  <2> QED
    BY <2>1, <2>2
<1>23. CASE StartQuery
  <2>1. /\ pc["main"] = "startQuery" /\ pc'["main"] = "up" /\ pc'["query"] =
          "qTop"
        /\ \A t \in Threads \ {"main", "query"} : pc'[t] = pc[t]
    BY <1>23 DEF StartQuery
  <2>2. UNCHANGED <<dataVars, lockVars, qSleeping, stopping, envVars>>
    BY <1>23 DEF StartQuery
  <2> QED
    BY <2>1, <2>2
<1>24. CASE Stop
  BY <1>24 DEF Stop
<1>25. CASE JoinQuery
  BY <1>25 DEF JoinQuery
<1>26. CASE JoinHall
  BY <1>26 DEF JoinHall
<1>27. CASE JoinReader
  BY <1>27 DEF JoinReader
<1>28. CASE DeviceLost
  <2>1. kernelGate' => kernelGate
    BY <1>28 DEF DeviceLost, WorldOK
  <2>2. UNCHANGED <<dataVars, ctlVars, sysfsFailed>> /\ fd = "live"
        /\ fd' = "dead"
    BY <1>28 DEF DeviceLost
  <2> QED
    BY <2>1, <2>2
<1>29. CASE ClientToggle
  BY <1>29 DEF ClientToggle
<1>30. CASE Crash
  BY <1>30 DEF Crash
<1>31. ASSUME NEW c \in BOOLEAN, ReaderStatus(c) PROVE CacheInv'
  BY <1>31 DEF ReaderStatus
<1>32. ASSUME NEW c \in BOOLEAN, ReaderSleep(c) PROVE CacheInv'
  BY <1>32 DEF ReaderSleep
<1>33. ASSUME NEW h \in {"open", "closed"}, ReaderHall(h) PROVE CacheInv'
  BY <1>33 DEF ReaderHall
<1>34. ASSUME NEW h \in HallStates, HallCallback(h) PROVE CacheInv'
  BY <1>34 DEF HallCallback
<1>35. ASSUME NEW s \in Sources, Expire(s) PROVE CacheInv'
  BY <1>35 DEF Expire
<1>36. CASE UNCHANGED vars
  BY <1>36 DEF vars
<1> QED
  BY <1>1, <1>2, <1>3, <1>4, <1>5, <1>6, <1>7, <1>8, <1>9, <1>10, <1>11,
     <1>12, <1>13, <1>14, <1>15, <1>16, <1>17, <1>18, <1>19, <1>20, <1>21,
     <1>22, <1>23, <1>24, <1>25, <1>26, <1>27, <1>28, <1>29, <1>30, <1>31,
     <1>32, <1>33, <1>34, <1>35, <1>36 DEF Next, UpdateInputGate, QueryLoop,
     DeviceReader, ReaderData, HallMonitor, Main, Environment

\* An open gate without evidence has a waiting or a closing update.
LEMMA EvidenceStep == TypeOK /\ GateInv /\ [Next]_vars => EvidenceInv'
<1> SUFFICES ASSUME TypeOK, GateInv, [Next]_vars PROVE EvidenceInv'
  OBVIOUS
<1> USE DEF TypeOK, ControlOK, Goto, CallGate, GateReturn, MainStep, Launch,
        BootPc, Write21, TimedOut, CanRead, Threads, NoThread, GateSteps,
        dataVars, stateVars, gateVars, touchVars, lockVars, ctlVars, envVars
<1> USE DEF GateInv, LockInv, ThreadInv, NotRunning, MainAt, ClosedInv,
        CacheInv, EvidenceInv, Closing, Pending, Evidence
<1>1. ASSUME NEW t \in Threads, GateEnter(t) PROVE EvidenceInv'
  <2> DEFINE e == ~Forced(t) /\ Desired
             g == Forced(t) \/ ~gateKnown \/ inputEnabled # e
             w == ~touchKnown \/ touchEnabled # e
  <2>1. e => Evidence
    BY DEF Desired, HallOpen, Evidence
  <2>2. ~e /\ ~g => ~kernelGate
    BY <1>1 DEF GateEnter, CacheInv
  <2>3. Forced(t) => ~e /\ g
    OBVIOUS
  <2>4. UNCHANGED <<dataVars, envVars>> /\ pc[t] = "gate" /\ gateOwner =
          NoThread
    BY <1>1 DEF GateEnter
  <2>5. CASE g \/ w
    <3>1. /\ gateOwner' = t /\ pc' = [pc EXCEPT ![t] = "touchOff"]
          /\ op'.enabled = e /\ op'.writeGate = g
      BY <1>1, <2>5 DEF GateEnter
    <3> HIDE DEF e, g, w
    <3> QED
      BY <2>1, <2>2, <2>3, <2>4, <3>1 DEF Forced
  <2>6. CASE ~(g \/ w)
    <3>1. gateOwner' = NoThread /\ pc' = [pc EXCEPT ![t] = ret[t]]
      BY <1>1, <2>6 DEF GateEnter
    <3>2. ~g
      BY <2>6
    <3> HIDE DEF e, g, w
    <3> QED
      BY <2>1, <2>2, <2>3, <2>4, <3>1, <3>2
  <2> QED
    BY <2>5, <2>6
<1>2. ASSUME NEW t \in Threads, TouchOff(t) PROVE EvidenceInv'
  BY <1>2 DEF TouchOff
<1>3. ASSUME NEW t \in Threads, TouchOffDone(t) PROVE EvidenceInv'
  BY <1>3 DEF TouchOffDone
<1>4. ASSUME NEW t \in Threads, Sysfs(t) PROVE EvidenceInv'
  BY <1>4 DEF Sysfs
<1>5. ASSUME NEW t \in Threads, SysfsDone(t) PROVE EvidenceInv'
  BY <1>5 DEF SysfsDone
<1>6. ASSUME NEW t \in Threads, TouchOn(t) PROVE EvidenceInv'
  BY <1>6 DEF TouchOn
<1>7. ASSUME NEW t \in Threads, TouchOnDone(t) PROVE EvidenceInv'
  BY <1>7 DEF TouchOnDone
<1>8. CASE QueryTop
  BY <1>8 DEF QueryTop
<1>9. CASE QueryOpen
  BY <1>9 DEF QueryOpen
<1>10. CASE QueryClosed
  BY <1>10 DEF QueryClosed
<1>11. CASE QueryCheck
  BY <1>11 DEF QueryCheck
<1>12. CASE QueryWipe
  BY <1>12 DEF QueryWipe
<1>13. CASE QueryWait
  BY <1>13 DEF QueryWait
<1>14. CASE ReaderTop
  BY <1>14 DEF ReaderTop
<1>15. CASE ReaderNothing
  BY <1>15 DEF ReaderNothing
<1>16. CASE ReaderError
  BY <1>16 DEF ReaderError
<1>17. CASE ReaderClose
  BY <1>17 DEF ReaderClose
<1>18. CASE HallTop
  BY <1>18 DEF HallTop
<1>19. CASE HallNothing
  BY <1>19 DEF HallNothing
<1>20. CASE Start
  BY <1>20 DEF Start
<1>21. CASE StartHall
  <2>1. /\ pc["main"] = "startHall" /\ pc'["main"] = "startDevice" /\
          pc'["hall"] = "hTop"
        /\ \A t \in Threads \ {"main", "hall"} : pc'[t] = pc[t]
    BY <1>21 DEF StartHall
  <2>2. UNCHANGED <<dataVars, lockVars, qSleeping, stopping, envVars>>
    BY <1>21 DEF StartHall
  <2> QED
    BY <2>1, <2>2
<1>22. CASE StartDevice
  <2>1. /\ pc["main"] = "startDevice" /\ pc'["main"] = "startQuery" /\
          pc'["reader"] = "rTop"
        /\ \A t \in Threads \ {"main", "reader"} : pc'[t] = pc[t]
    BY <1>22 DEF StartDevice
  <2>2. UNCHANGED <<dataVars, lockVars, qSleeping, stopping, envVars>>
    BY <1>22 DEF StartDevice
  <2> QED
    BY <2>1, <2>2
<1>23. CASE StartQuery
  <2>1. /\ pc["main"] = "startQuery" /\ pc'["main"] = "up" /\ pc'["query"] =
          "qTop"
        /\ \A t \in Threads \ {"main", "query"} : pc'[t] = pc[t]
    BY <1>23 DEF StartQuery
  <2>2. UNCHANGED <<dataVars, lockVars, qSleeping, stopping, envVars>>
    BY <1>23 DEF StartQuery
  <2> QED
    BY <2>1, <2>2
<1>24. CASE Stop
  BY <1>24 DEF Stop
<1>25. CASE JoinQuery
  BY <1>25 DEF JoinQuery
<1>26. CASE JoinHall
  BY <1>26 DEF JoinHall
<1>27. CASE JoinReader
  BY <1>27 DEF JoinReader
<1>28. CASE DeviceLost
  <2>1. kernelGate' => kernelGate
    BY <1>28 DEF DeviceLost, WorldOK
  <2>2. UNCHANGED <<dataVars, ctlVars, sysfsFailed>> /\ fd = "live"
        /\ fd' = "dead"
    BY <1>28 DEF DeviceLost
  <2> QED
    BY <2>1, <2>2
<1>29. CASE ClientToggle
  BY <1>29 DEF ClientToggle
<1>30. CASE Crash
  BY <1>30 DEF Crash
<1>31. ASSUME NEW c \in BOOLEAN, ReaderStatus(c) PROVE EvidenceInv'
  BY <1>31 DEF ReaderStatus
<1>32. ASSUME NEW c \in BOOLEAN, ReaderSleep(c) PROVE EvidenceInv'
  BY <1>32 DEF ReaderSleep
<1>33. ASSUME NEW h \in {"open", "closed"}, ReaderHall(h) PROVE EvidenceInv'
  BY <1>33 DEF ReaderHall
<1>34. ASSUME NEW h \in HallStates, HallCallback(h) PROVE EvidenceInv'
  BY <1>34 DEF HallCallback
<1>35. ASSUME NEW s \in Sources, Expire(s) PROVE EvidenceInv'
  BY <1>35 DEF Expire
<1>36. CASE UNCHANGED vars
  BY <1>36 DEF vars
<1> QED
  BY <1>1, <1>2, <1>3, <1>4, <1>5, <1>6, <1>7, <1>8, <1>9, <1>10, <1>11,
     <1>12, <1>13, <1>14, <1>15, <1>16, <1>17, <1>18, <1>19, <1>20, <1>21,
     <1>22, <1>23, <1>24, <1>25, <1>26, <1>27, <1>28, <1>29, <1>30, <1>31,
     <1>32, <1>33, <1>34, <1>35, <1>36 DEF Next, UpdateInputGate, QueryLoop,
     DeviceReader, ReaderData, HallMonitor, Main, Environment

\* The forced updates of start() and stop() end with a closed gate.
LEMMA ForcedStep == TypeOK /\ GateInv /\ [Next]_vars => ForcedClosed'
<1> SUFFICES ASSUME TypeOK, GateInv, [Next]_vars PROVE ForcedClosed'
  OBVIOUS
<1> USE DEF TypeOK, ControlOK, Goto, CallGate, GateReturn, MainStep, Launch,
        BootPc, Write21, TimedOut, CanRead, Threads, NoThread, GateSteps,
        dataVars, stateVars, gateVars, touchVars, lockVars, ctlVars, envVars
<1> USE DEF GateInv, LockInv, ThreadInv, ClosedInv, ForcedClosed, Closing,
        MainAt, NotRunning
<1>1. ASSUME NEW t \in Threads, GateEnter(t) PROVE ForcedClosed'
  BY <1>1 DEF GateEnter, Forced, Desired, HallOpen
<1>2. ASSUME NEW t \in Threads, TouchOff(t) PROVE ForcedClosed'
  BY <1>2 DEF TouchOff
<1>3. ASSUME NEW t \in Threads, TouchOffDone(t) PROVE ForcedClosed'
  BY <1>3 DEF TouchOffDone
<1>4. ASSUME NEW t \in Threads, Sysfs(t) PROVE ForcedClosed'
  BY <1>4 DEF Sysfs
<1>5. ASSUME NEW t \in Threads, SysfsDone(t) PROVE ForcedClosed'
  BY <1>5 DEF SysfsDone
<1>6. ASSUME NEW t \in Threads, TouchOn(t) PROVE ForcedClosed'
  BY <1>6 DEF TouchOn
<1>7. ASSUME NEW t \in Threads, TouchOnDone(t) PROVE ForcedClosed'
  BY <1>7 DEF TouchOnDone
<1>8. CASE QueryTop
  BY <1>8 DEF QueryTop
<1>9. CASE QueryOpen
  BY <1>9 DEF QueryOpen
<1>10. CASE QueryClosed
  BY <1>10 DEF QueryClosed
<1>11. CASE QueryCheck
  BY <1>11 DEF QueryCheck
<1>12. CASE QueryWipe
  BY <1>12 DEF QueryWipe
<1>13. CASE QueryWait
  BY <1>13 DEF QueryWait
<1>14. CASE ReaderTop
  BY <1>14 DEF ReaderTop
<1>15. CASE ReaderNothing
  BY <1>15 DEF ReaderNothing
<1>16. CASE ReaderError
  BY <1>16 DEF ReaderError
<1>17. CASE ReaderClose
  BY <1>17 DEF ReaderClose
<1>18. CASE HallTop
  BY <1>18 DEF HallTop
<1>19. CASE HallNothing
  BY <1>19 DEF HallNothing
<1>20. CASE Start
  BY <1>20 DEF Start
<1>21. CASE StartHall
  <2>1. /\ pc["main"] = "startHall" /\ pc'["main"] = "startDevice" /\
          pc'["hall"] = "hTop"
        /\ \A t \in Threads \ {"main", "hall"} : pc'[t] = pc[t]
    BY <1>21 DEF StartHall
  <2>2. UNCHANGED <<dataVars, lockVars, qSleeping, stopping, envVars>>
    BY <1>21 DEF StartHall
  <2> QED
    BY <2>1, <2>2
<1>22. CASE StartDevice
  <2>1. /\ pc["main"] = "startDevice" /\ pc'["main"] = "startQuery" /\
          pc'["reader"] = "rTop"
        /\ \A t \in Threads \ {"main", "reader"} : pc'[t] = pc[t]
    BY <1>22 DEF StartDevice
  <2>2. UNCHANGED <<dataVars, lockVars, qSleeping, stopping, envVars>>
    BY <1>22 DEF StartDevice
  <2> QED
    BY <2>1, <2>2
<1>23. CASE StartQuery
  <2>1. /\ pc["main"] = "startQuery" /\ pc'["main"] = "up" /\ pc'["query"] =
          "qTop"
        /\ \A t \in Threads \ {"main", "query"} : pc'[t] = pc[t]
    BY <1>23 DEF StartQuery
  <2>2. UNCHANGED <<dataVars, lockVars, qSleeping, stopping, envVars>>
    BY <1>23 DEF StartQuery
  <2> QED
    BY <2>1, <2>2
<1>24. CASE Stop
  BY <1>24 DEF Stop
<1>25. CASE JoinQuery
  BY <1>25 DEF JoinQuery
<1>26. CASE JoinHall
  BY <1>26 DEF JoinHall
<1>27. CASE JoinReader
  BY <1>27 DEF JoinReader
<1>28. CASE DeviceLost
  <2>1. kernelGate' => kernelGate
    BY <1>28 DEF DeviceLost, WorldOK
  <2>2. UNCHANGED <<dataVars, ctlVars, sysfsFailed>> /\ fd = "live"
        /\ fd' = "dead"
    BY <1>28 DEF DeviceLost
  <2> QED
    BY <2>1, <2>2
<1>29. CASE ClientToggle
  BY <1>29 DEF ClientToggle
<1>30. CASE Crash
  BY <1>30 DEF Crash
<1>31. ASSUME NEW c \in BOOLEAN, ReaderStatus(c) PROVE ForcedClosed'
  BY <1>31 DEF ReaderStatus
<1>32. ASSUME NEW c \in BOOLEAN, ReaderSleep(c) PROVE ForcedClosed'
  BY <1>32 DEF ReaderSleep
<1>33. ASSUME NEW h \in {"open", "closed"}, ReaderHall(h) PROVE ForcedClosed'
  BY <1>33 DEF ReaderHall
<1>34. ASSUME NEW h \in HallStates, HallCallback(h) PROVE ForcedClosed'
  BY <1>34 DEF HallCallback
<1>35. ASSUME NEW s \in Sources, Expire(s) PROVE ForcedClosed'
  BY <1>35 DEF Expire
<1>36. CASE UNCHANGED vars
  BY <1>36 DEF vars
<1> QED
  BY <1>1, <1>2, <1>3, <1>4, <1>5, <1>6, <1>7, <1>8, <1>9, <1>10, <1>11,
     <1>12, <1>13, <1>14, <1>15, <1>16, <1>17, <1>18, <1>19, <1>20, <1>21,
     <1>22, <1>23, <1>24, <1>25, <1>26, <1>27, <1>28, <1>29, <1>30, <1>31,
     <1>32, <1>33, <1>34, <1>35, <1>36 DEF Next, UpdateInputGate, QueryLoop,
     DeviceReader, ReaderData, HallMonitor, Main, Environment

\* The inductive invariant holds in every reachable state.
THEOREM GateInvariant == Spec => []GateInv
<1>1. Init => GateInv
  BY DEF Init, GateInv, LockInv, ThreadInv, ClosedInv, CacheInv, EvidenceInv,
         ForcedClosed, BootPc, Threads, NoThread, GateSteps, NotRunning,
         MainAt, Owes
<1>2. TypeOK /\ GateInv /\ [Next]_vars => GateInv'
  BY LockStep, ThreadStep, ClosedStep, CacheStep, EvidenceStep, ForcedStep
     DEF GateInv
<1> QED
  BY <1>1, <1>2, TypeCorrect, PTL DEF Spec

\* No interleaving of callbacks, timeouts, errors, crashes and failed writes
\* leaves the input devices registered without current evidence once no update
\* is pending.
THEOREM GateIsJustified == Spec => []GateJustified
<1>1. TypeOK /\ GateInv => GateJustified
  BY DEF TypeOK, ControlOK, GateInv, EvidenceInv, GateJustified, Quiescent,
         Owes, Pending, Closing, LockInv, Threads, NoThread, GateSteps
<1> QED
  BY <1>1, TypeCorrect, GateInvariant, PTL

\* start() and stop() leave the gate closed, and after stop() nothing runs.
THEOREM ForcedUpdatesClose == Spec => []ForcedClosed
<1>1. GateInv => ForcedClosed
  BY DEF GateInv
<1> QED
  BY <1>1, GateInvariant, PTL
----------------------------------------------------------------------------
\* The gate opens, and touch reporting follows it.

\* The open gate that nothing allows is GateInv's concern; here it is the gate
\* that should be open, so the reader's way from an error to the reopened device.
Closes == pc["reader"] = "rClose" \/ (ret["reader"] = "rClose" /\ gateOwner = "reader")

ReopenInv ==
    /\ ~Owes("reader") => ret["reader"] = "off"
    /\ pc["main"] \in {"boot", "startDevice"} \/ MainAt("startHall") => fd = "closed"
    /\ fd = "closed" /\ ~MainAt("stopped") => status # "connected"
    /\ ret["reader"] # "rPoll" /\ (pc["reader"] = "rPoll" => fd # "closed")
    /\ pc["reader"] = "rClose" \/ ret["reader"] = "rClose"
         => status = "none" /\ fd # "closed"
    /\ Closes /\ gateOwner # NoThread => ~op.enabled
    /\ gateOwner # NoThread /\ op.enabled => fd # "closed"

\* An update that opens has the gate open behind it, unless the device is lost.
KeptInv ==
    /\ gateOwner # NoThread /\ op.enabled
    /\ ~op.writeGate \/ pc[gateOwner] \in {"sysfsDone", "touchOn", "touchOnDone"}
    => kernelGate \/ sysfsFailed \/ fd = "dead"

\* One that closes has said so in the members.
DoneInv ==
    /\ gateOwner # NoThread /\ ~op.enabled
    /\ ~op.writeGate \/ pc[gateOwner] \in {"touchOn", "touchOnDone"}
    => ~(gateKnown /\ inputEnabled)

\* A closed gate that the members call open does not outlive the lost device.
JustClosed == /\ gateOwner # NoThread /\ ~op.enabled
              /\ pc[gateOwner] = "sysfsDone"
StaleInv ==
    /\ gateKnown /\ inputEnabled /\ ~kernelGate =>
         sysfsFailed \/ JustClosed \/ MainAt("stopped") \/ fd = "dead"
    /\ pc["reader"] = "rClose" /\ gateKnown /\ inputEnabled =>
         sysfsFailed \/ JustClosed

Allowed ==
    /\ status = "connected" /\ sleep # "asleep"
    /\ inputHall = "open" /\ "input" \in fresh

Opening ==
    /\ gateOwner # NoThread /\ op.enabled /\ op.writeGate
    /\ pc[gateOwner] \in {"touchOff", "touchOffDone", "sysfs"}

AllowedInv ==
    /\ gateOwner \notin {NoThread, "main"} /\ ~op.enabled => ~Allowed \/ Pending
    /\ fd = "live" /\ Allowed /\ ~MainAt("stopped") =>
         kernelGate \/ sysfsFailed \/ Pending \/ Opening

OpenInv == ReopenInv /\ KeptInv /\ DoneInv /\ StaleInv /\ AllowedInv

\* Touch reporting, when every command to a live device is written and no client
\* sends 0x21 itself: what the members say is off is off, ...
Writable == "device" \notin stopping
TouchCacheInv ==
    /\ touchKnown /\ ~touchEnabled => \/ ~hwTouch
                                      \/ /\ gateOwner # NoThread
                                         /\ pc[gateOwner] = "touchOnDone"
    /\ gateOwner # NoThread /\ pc[gateOwner] = "touchOffDone" => ~hwTouch
    /\ gateOwner # NoThread /\ pc[gateOwner] = "touchOnDone" => op.enabled
    /\ gateOwner # NoThread /\ ~op.writeTouch /\ ~op.enabled => ~hwTouch
    /\ ~Writable <=> pc["main"] = "joinReader" \/ MainAt("stopped")

\* ... a closing update switches it off before it closes the gate, and the reader
\* before it closes the device.
TouchOffInv ==
    /\ /\ gateOwner # NoThread /\ ~op.enabled /\ Writable
       /\ pc[gateOwner] \in {"sysfs", "sysfsDone", "touchOn"}
       => ~(hwTouch /\ touchKnown)
    /\ fd = "dead" => ~hwTouch
    /\ Writable /\ pc["reader"] = "rClose" => ~hwTouch
    /\ /\ Writable /\ ret["reader"] = "rClose" /\ gateOwner = "reader"
       /\ pc["reader"] \in {"sysfs", "sysfsDone", "touchOn"}
       => ~hwTouch
    /\ Writable /\ touchKnown /\ hwTouch
         => fd = "live" /\ (kernelGate \/ sysfsFailed)

\* What starting a thread does to the program counters.
LaunchStep(thread, first, from, to) ==
    /\ pc["main"] = from /\ pc'["main"] = to /\ pc'[thread] = first
    /\ \A t \in Threads \ {"main", thread} : pc'[t] = pc[t]
    /\ UNCHANGED <<dataVars, lockVars, qSleeping, stopping, envVars>>

LEMMA LaunchFacts ==
    ASSUME TypeOK, StartHall \/ StartDevice \/ StartQuery
    PROVE  \/ LaunchStep("hall", "hTop", "startHall", "startDevice")
           \/ LaunchStep("reader", "rTop", "startDevice", "startQuery")
           \/ LaunchStep("query", "qTop", "startQuery", "up")
<1> USE DEF Launch, LaunchStep, TypeOK, ControlOK, Threads
<1>1. CASE StartHall
  BY <1>1 DEF StartHall
<1>2. CASE StartDevice
  BY <1>2 DEF StartDevice
<1>3. CASE StartQuery
  BY <1>3 DEF StartQuery
<1> QED
  BY <1>1, <1>2, <1>3

\* What the loss of the device leaves alone.
LEMMA LostFacts ==
    ASSUME TypeOK, DeviceLost
    PROVE  /\ fd = "live" /\ fd' = "dead" /\ ~hwTouch'
           /\ kernelGate' => kernelGate
           /\ UNCHANGED <<dataVars, ctlVars, sysfsFailed>>
<1>1. kernelGate' => kernelGate
  BY DEF DeviceLost, TypeOK, WorldOK
<1>2. ~hwTouch'
  BY DEF DeviceLost
<1> QED
  BY <1>1, <1>2 DEF DeviceLost

\* updateInputGate takes the lock and decides what to write, or returns because
\* nothing is to be written.
Decides(t) ==
    /\ gateOwner' = t /\ pc' = [pc EXCEPT ![t] = "touchOff"] /\ UNCHANGED ret
    /\ op'.enabled <=> ~Forced(t) /\ Desired
    /\ ~op'.writeGate => ~Forced(t) /\ gateKnown /\ (inputEnabled <=> op'.enabled)
    /\ ~op'.writeTouch => touchKnown /\ (touchEnabled <=> op'.enabled)

Skips(t) ==
    /\ GateReturn(t) /\ ~Forced(t) /\ gateKnown /\ touchKnown
    /\ (inputEnabled <=> Desired) /\ (touchEnabled <=> Desired)

LEMMA EnterFacts ==
    ASSUME TypeOK, NEW t \in Threads, GateEnter(t)
    PROVE  /\ UNCHANGED <<dataVars, qSleeping, stopping, envVars>>
           /\ pc[t] = "gate" /\ gateOwner = NoThread
           /\ Decides(t) \/ Skips(t)
<1> DEFINE e == ~Forced(t) /\ Desired
           g == Forced(t) \/ ~gateKnown \/ inputEnabled # e
           w == ~touchKnown \/ touchEnabled # e
<1>1. /\ UNCHANGED <<dataVars, qSleeping, stopping, envVars>>
      /\ pc[t] = "gate" /\ gateOwner = NoThread
  BY DEF GateEnter
<1>2. /\ inputEnabled \in BOOLEAN /\ touchEnabled \in BOOLEAN
      /\ e \in BOOLEAN /\ g \in BOOLEAN /\ w \in BOOLEAN
  BY DEF TypeOK, DataOK
<1>3. /\ ~g => ~Forced(t) /\ gateKnown /\ (inputEnabled <=> e)
      /\ ~w => touchKnown /\ (touchEnabled <=> e)
  BY <1>2, Zenon
<1>4. CASE g \/ w
  <2>1. /\ gateOwner' = t /\ pc' = [pc EXCEPT ![t] = "touchOff"] /\ UNCHANGED ret
        /\ op' = [enabled |-> e, writeGate |-> g, writeTouch |-> w]
    BY <1>4 DEF GateEnter, Goto
  <2> HIDE DEF e, g, w
  <2>2. op'.enabled = e /\ op'.writeGate = g /\ op'.writeTouch = w
    BY <2>1
  <2>3. /\ op'.enabled <=> e
        /\ ~op'.writeGate => ~Forced(t) /\ gateKnown /\ (inputEnabled <=> op'.enabled)
        /\ ~op'.writeTouch => touchKnown /\ (touchEnabled <=> op'.enabled)
    BY <1>2, <1>3, <2>2, Zenon
  <2> QED
    BY <1>1, <2>1, <2>3, Zenon DEF Decides, e
<1>5. CASE ~(g \/ w)
  <2>1. GateReturn(t)
    BY <1>5 DEF GateEnter
  <2>2. ~Forced(t) /\ gateKnown /\ touchKnown /\ (inputEnabled <=> e)
        /\ (touchEnabled <=> e)
    BY <1>3, <1>5, Zenon
  <2> QED
    BY <1>1, <2>1, <2>2, Zenon DEF Skips
<1> QED
  BY <1>4, <1>5

\* The reader's way from an error to the reopened device.
LEMMA ReopenStep ==
    ASSUME TypeOK, GateInv, ReopenInv, [Next]_vars
    PROVE  ReopenInv'
<1> USE DEF TypeOK, ControlOK, Goto, CallGate, GateReturn, MainStep, Launch,
        BootPc, Write21, TimedOut, CanRead, Threads, NoThread, GateSteps,
        dataVars, stateVars, gateVars, touchVars, lockVars, ctlVars, envVars
<1> USE DEF GateInv, LockInv, ThreadInv, NotRunning, MainAt, Owes, ReopenInv,
        Closes
<1>1. ASSUME NEW t \in Threads, GateEnter(t) PROVE ReopenInv'
  BY <1>1, EnterFacts DEF Decides, Skips, Forced, Desired, HallOpen
<1>2. ASSUME NEW t \in Threads, TouchOff(t) PROVE ReopenInv'
  BY <1>2 DEF TouchOff, Write21MayFail
<1>3. ASSUME NEW t \in Threads, TouchOffDone(t) PROVE ReopenInv'
  BY <1>3 DEF TouchOffDone
<1>4. ASSUME NEW t \in Threads, Sysfs(t) PROVE ReopenInv'
  BY <1>4 DEF Sysfs
<1>5. ASSUME NEW t \in Threads, SysfsDone(t) PROVE ReopenInv'
  BY <1>5 DEF SysfsDone
<1>6. ASSUME NEW t \in Threads, TouchOn(t) PROVE ReopenInv'
  BY <1>6 DEF TouchOn, Write21MayFail
<1>7. ASSUME NEW t \in Threads, TouchOnDone(t) PROVE ReopenInv'
  BY <1>7 DEF TouchOnDone
<1>8. CASE QueryTop
  BY <1>8 DEF QueryTop
<1>9. CASE QueryOpen \/ QueryClosed \/ QueryWait
  BY <1>9 DEF QueryOpen, QueryClosed, QueryWait
<1>10. CASE QueryCheck
  BY <1>10 DEF QueryCheck
<1>11. CASE QueryWipe
  BY <1>11 DEF QueryWipe
<1>12. CASE ReaderTop
  BY <1>12 DEF ReaderTop
<1>13. CASE ReaderNothing
  BY <1>13 DEF ReaderNothing
<1>14. CASE ReaderError
  BY <1>14 DEF ReaderError
<1>15. CASE ReaderClose
  BY <1>15 DEF ReaderClose
<1>16. ASSUME NEW c \in BOOLEAN, ReaderStatus(c) PROVE ReopenInv'
  BY <1>16 DEF ReaderStatus
<1>17. ASSUME NEW c \in BOOLEAN, ReaderSleep(c) PROVE ReopenInv'
  BY <1>17 DEF ReaderSleep
<1>18. ASSUME NEW h \in {"open", "closed"}, ReaderHall(h) PROVE ReopenInv'
  BY <1>18 DEF ReaderHall
<1>19. CASE HallTop \/ HallNothing
  BY <1>19 DEF HallTop, HallNothing
<1>20. ASSUME NEW h \in HallStates, HallCallback(h) PROVE ReopenInv'
  BY <1>20 DEF HallCallback
<1>21. CASE Start
  BY <1>21 DEF Start
<1>22. CASE StartHall \/ StartDevice \/ StartQuery
  BY <1>22, LaunchFacts DEF LaunchStep
<1>23. CASE Stop
  BY <1>23 DEF Stop
<1>24. CASE JoinQuery
  BY <1>24 DEF JoinQuery
<1>25. CASE JoinHall
  BY <1>25 DEF JoinHall
<1>26. CASE JoinReader
  BY <1>26 DEF JoinReader
<1>27. CASE DeviceLost
  BY <1>27, LostFacts
<1>28. CASE ClientToggle
  BY <1>28 DEF ClientToggle
<1>29. CASE Crash
  BY <1>29 DEF Crash
<1>30. ASSUME NEW s \in Sources, Expire(s) PROVE ReopenInv'
  BY <1>30 DEF Expire
<1>31. CASE UNCHANGED vars
  BY <1>31 DEF vars
<1> QED
  BY <1>1, <1>2, <1>3, <1>4, <1>5, <1>6, <1>7, <1>8, <1>9, <1>10, <1>11, <1>12,
     <1>13, <1>14, <1>15, <1>16, <1>17, <1>18, <1>19, <1>20, <1>21, <1>22,
     <1>23, <1>24, <1>25, <1>26, <1>27, <1>28, <1>29, <1>30, <1>31 DEF Next,
     UpdateInputGate, QueryLoop, DeviceReader, ReaderData, HallMonitor, Main,
     Environment

\* Behind an opening update the gate stays open while the device is there.
LEMMA KeptStep ==
    ASSUME TypeOK, GateInv, OpenInv, [Next]_vars
    PROVE  KeptInv'
<1> USE DEF TypeOK, ControlOK, Goto, CallGate, GateReturn, MainStep, Launch,
        BootPc, Write21, TimedOut, CanRead, Threads, NoThread, GateSteps,
        dataVars, stateVars, gateVars, touchVars, lockVars, ctlVars, envVars
<1> USE DEF GateInv, LockInv, ThreadInv, NotRunning, MainAt, Owes, OpenInv,
        ReopenInv, Closes, KeptInv, StaleInv, JustClosed
<1>1. ASSUME NEW t \in Threads, GateEnter(t) PROVE KeptInv'
  BY <1>1, EnterFacts DEF Decides, Skips, Forced, Desired, HallOpen
<1>2. ASSUME NEW t \in Threads, TouchOff(t) PROVE KeptInv'
  BY <1>2 DEF TouchOff, Write21MayFail
<1>3. ASSUME NEW t \in Threads, TouchOffDone(t) PROVE KeptInv'
  BY <1>3 DEF TouchOffDone
<1>4. ASSUME NEW t \in Threads, Sysfs(t) PROVE KeptInv'
  BY <1>4 DEF Sysfs
<1>5. ASSUME NEW t \in Threads, SysfsDone(t) PROVE KeptInv'
  BY <1>5 DEF SysfsDone
<1>6. ASSUME NEW t \in Threads, TouchOn(t) PROVE KeptInv'
  BY <1>6 DEF TouchOn, Write21MayFail
<1>7. ASSUME NEW t \in Threads, TouchOnDone(t) PROVE KeptInv'
  BY <1>7 DEF TouchOnDone
<1>8. CASE QueryTop
  BY <1>8 DEF QueryTop
<1>9. CASE QueryOpen \/ QueryClosed \/ QueryWait
  BY <1>9 DEF QueryOpen, QueryClosed, QueryWait
<1>10. CASE QueryCheck
  BY <1>10 DEF QueryCheck
<1>11. CASE QueryWipe
  BY <1>11 DEF QueryWipe
<1>12. CASE ReaderTop
  BY <1>12 DEF ReaderTop
<1>13. CASE ReaderNothing
  BY <1>13 DEF ReaderNothing
<1>14. CASE ReaderError
  BY <1>14 DEF ReaderError
<1>15. CASE ReaderClose
  BY <1>15 DEF ReaderClose
<1>16. ASSUME NEW c \in BOOLEAN, ReaderStatus(c) PROVE KeptInv'
  BY <1>16 DEF ReaderStatus
<1>17. ASSUME NEW c \in BOOLEAN, ReaderSleep(c) PROVE KeptInv'
  BY <1>17 DEF ReaderSleep
<1>18. ASSUME NEW h \in {"open", "closed"}, ReaderHall(h) PROVE KeptInv'
  BY <1>18 DEF ReaderHall
<1>19. CASE HallTop \/ HallNothing
  BY <1>19 DEF HallTop, HallNothing
<1>20. ASSUME NEW h \in HallStates, HallCallback(h) PROVE KeptInv'
  BY <1>20 DEF HallCallback
<1>21. CASE Start
  BY <1>21 DEF Start
<1>22. CASE StartHall \/ StartDevice \/ StartQuery
  BY <1>22, LaunchFacts DEF LaunchStep
<1>23. CASE Stop
  BY <1>23 DEF Stop
<1>24. CASE JoinQuery
  BY <1>24 DEF JoinQuery
<1>25. CASE JoinHall
  BY <1>25 DEF JoinHall
<1>26. CASE JoinReader
  BY <1>26 DEF JoinReader
<1>27. CASE DeviceLost
  BY <1>27, LostFacts
<1>28. CASE ClientToggle
  BY <1>28 DEF ClientToggle
<1>29. CASE Crash
  BY <1>29 DEF Crash
<1>30. ASSUME NEW s \in Sources, Expire(s) PROVE KeptInv'
  BY <1>30 DEF Expire
<1>31. CASE UNCHANGED vars
  BY <1>31 DEF vars
<1> QED
  BY <1>1, <1>2, <1>3, <1>4, <1>5, <1>6, <1>7, <1>8, <1>9, <1>10, <1>11, <1>12,
     <1>13, <1>14, <1>15, <1>16, <1>17, <1>18, <1>19, <1>20, <1>21, <1>22,
     <1>23, <1>24, <1>25, <1>26, <1>27, <1>28, <1>29, <1>30, <1>31 DEF Next,
     UpdateInputGate, QueryLoop, DeviceReader, ReaderData, HallMonitor, Main,
     Environment

\* A closing update leaves members that do not call the gate open.
LEMMA DoneStep ==
    ASSUME TypeOK, GateInv, OpenInv, [Next]_vars
    PROVE  DoneInv'
<1> USE DEF TypeOK, ControlOK, Goto, CallGate, GateReturn, MainStep, Launch,
        BootPc, Write21, TimedOut, CanRead, Threads, NoThread, GateSteps,
        dataVars, stateVars, gateVars, touchVars, lockVars, ctlVars, envVars
<1> USE DEF GateInv, LockInv, ThreadInv, NotRunning, MainAt, Owes, OpenInv,
        DoneInv
<1>1. ASSUME NEW t \in Threads, GateEnter(t) PROVE DoneInv'
  BY <1>1, EnterFacts DEF Decides, Skips, Forced, Desired, HallOpen
<1>2. ASSUME NEW t \in Threads, TouchOff(t) PROVE DoneInv'
  BY <1>2 DEF TouchOff, Write21MayFail
<1>3. ASSUME NEW t \in Threads, TouchOffDone(t) PROVE DoneInv'
  BY <1>3 DEF TouchOffDone
<1>4. ASSUME NEW t \in Threads, Sysfs(t) PROVE DoneInv'
  BY <1>4 DEF Sysfs
<1>5. ASSUME NEW t \in Threads, SysfsDone(t) PROVE DoneInv'
  BY <1>5 DEF SysfsDone
<1>6. ASSUME NEW t \in Threads, TouchOn(t) PROVE DoneInv'
  BY <1>6 DEF TouchOn, Write21MayFail
<1>7. ASSUME NEW t \in Threads, TouchOnDone(t) PROVE DoneInv'
  BY <1>7 DEF TouchOnDone
<1>8. CASE QueryTop
  BY <1>8 DEF QueryTop
<1>9. CASE QueryOpen \/ QueryClosed \/ QueryWait
  BY <1>9 DEF QueryOpen, QueryClosed, QueryWait
<1>10. CASE QueryCheck
  BY <1>10 DEF QueryCheck
<1>11. CASE QueryWipe
  BY <1>11 DEF QueryWipe
<1>12. CASE ReaderTop
  BY <1>12 DEF ReaderTop
<1>13. CASE ReaderNothing
  BY <1>13 DEF ReaderNothing
<1>14. CASE ReaderError
  BY <1>14 DEF ReaderError
<1>15. CASE ReaderClose
  BY <1>15 DEF ReaderClose
<1>16. ASSUME NEW c \in BOOLEAN, ReaderStatus(c) PROVE DoneInv'
  BY <1>16 DEF ReaderStatus
<1>17. ASSUME NEW c \in BOOLEAN, ReaderSleep(c) PROVE DoneInv'
  BY <1>17 DEF ReaderSleep
<1>18. ASSUME NEW h \in {"open", "closed"}, ReaderHall(h) PROVE DoneInv'
  BY <1>18 DEF ReaderHall
<1>19. CASE HallTop \/ HallNothing
  BY <1>19 DEF HallTop, HallNothing
<1>20. ASSUME NEW h \in HallStates, HallCallback(h) PROVE DoneInv'
  BY <1>20 DEF HallCallback
<1>21. CASE Start
  BY <1>21 DEF Start
<1>22. CASE StartHall \/ StartDevice \/ StartQuery
  BY <1>22, LaunchFacts DEF LaunchStep
<1>23. CASE Stop
  BY <1>23 DEF Stop
<1>24. CASE JoinQuery
  BY <1>24 DEF JoinQuery
<1>25. CASE JoinHall
  BY <1>25 DEF JoinHall
<1>26. CASE JoinReader
  BY <1>26 DEF JoinReader
<1>27. CASE DeviceLost
  BY <1>27, LostFacts
<1>28. CASE ClientToggle
  BY <1>28 DEF ClientToggle
<1>29. CASE Crash
  BY <1>29 DEF Crash
<1>30. ASSUME NEW s \in Sources, Expire(s) PROVE DoneInv'
  BY <1>30 DEF Expire
<1>31. CASE UNCHANGED vars
  BY <1>31 DEF vars
<1> QED
  BY <1>1, <1>2, <1>3, <1>4, <1>5, <1>6, <1>7, <1>8, <1>9, <1>10, <1>11, <1>12,
     <1>13, <1>14, <1>15, <1>16, <1>17, <1>18, <1>19, <1>20, <1>21, <1>22,
     <1>23, <1>24, <1>25, <1>26, <1>27, <1>28, <1>29, <1>30, <1>31 DEF Next,
     UpdateInputGate, QueryLoop, DeviceReader, ReaderData, HallMonitor, Main,
     Environment

\* Members that call a closed gate open are those of a lost device.
LEMMA StaleStep ==
    ASSUME TypeOK, GateInv, OpenInv, [Next]_vars
    PROVE  StaleInv'
<1> USE DEF TypeOK, ControlOK, Goto, CallGate, GateReturn, MainStep, Launch,
        BootPc, Write21, TimedOut, CanRead, Threads, NoThread, GateSteps,
        dataVars, stateVars, gateVars, touchVars, lockVars, ctlVars, envVars
<1> USE DEF GateInv, LockInv, ThreadInv, NotRunning, MainAt, Owes, OpenInv,
        ReopenInv, Closes, KeptInv, DoneInv, StaleInv, JustClosed
<1>1. ASSUME NEW t \in Threads, GateEnter(t) PROVE StaleInv'
  BY <1>1, EnterFacts DEF Decides, Skips, Forced, Desired, HallOpen
<1>2. ASSUME NEW t \in Threads, TouchOff(t) PROVE StaleInv'
  BY <1>2 DEF TouchOff, Write21MayFail
<1>3. ASSUME NEW t \in Threads, TouchOffDone(t) PROVE StaleInv'
  BY <1>3 DEF TouchOffDone
<1>4. ASSUME NEW t \in Threads, Sysfs(t) PROVE StaleInv'
  BY <1>4 DEF Sysfs
<1>5. ASSUME NEW t \in Threads, SysfsDone(t) PROVE StaleInv'
  BY <1>5 DEF SysfsDone
<1>6. ASSUME NEW t \in Threads, TouchOn(t) PROVE StaleInv'
  BY <1>6 DEF TouchOn, Write21MayFail
<1>7. ASSUME NEW t \in Threads, TouchOnDone(t) PROVE StaleInv'
  BY <1>7 DEF TouchOnDone
<1>8. CASE QueryTop
  BY <1>8 DEF QueryTop
<1>9. CASE QueryOpen \/ QueryClosed \/ QueryWait
  BY <1>9 DEF QueryOpen, QueryClosed, QueryWait
<1>10. CASE QueryCheck
  BY <1>10 DEF QueryCheck
<1>11. CASE QueryWipe
  BY <1>11 DEF QueryWipe
<1>12. CASE ReaderTop
  BY <1>12 DEF ReaderTop
<1>13. CASE ReaderNothing
  BY <1>13 DEF ReaderNothing
<1>14. CASE ReaderError
  BY <1>14 DEF ReaderError
<1>15. CASE ReaderClose
  BY <1>15 DEF ReaderClose
<1>16. ASSUME NEW c \in BOOLEAN, ReaderStatus(c) PROVE StaleInv'
  BY <1>16 DEF ReaderStatus
<1>17. ASSUME NEW c \in BOOLEAN, ReaderSleep(c) PROVE StaleInv'
  BY <1>17 DEF ReaderSleep
<1>18. ASSUME NEW h \in {"open", "closed"}, ReaderHall(h) PROVE StaleInv'
  BY <1>18 DEF ReaderHall
<1>19. CASE HallTop \/ HallNothing
  BY <1>19 DEF HallTop, HallNothing
<1>20. ASSUME NEW h \in HallStates, HallCallback(h) PROVE StaleInv'
  BY <1>20 DEF HallCallback
<1>21. CASE Start
  BY <1>21 DEF Start
<1>22. CASE StartHall \/ StartDevice \/ StartQuery
  BY <1>22, LaunchFacts DEF LaunchStep
<1>23. CASE Stop
  BY <1>23 DEF Stop
<1>24. CASE JoinQuery
  BY <1>24 DEF JoinQuery
<1>25. CASE JoinHall
  BY <1>25 DEF JoinHall
<1>26. CASE JoinReader
  BY <1>26 DEF JoinReader
<1>27. CASE DeviceLost
  BY <1>27, LostFacts
<1>28. CASE ClientToggle
  BY <1>28 DEF ClientToggle
<1>29. CASE Crash
  BY <1>29 DEF Crash
<1>30. ASSUME NEW s \in Sources, Expire(s) PROVE StaleInv'
  BY <1>30 DEF Expire
<1>31. CASE UNCHANGED vars
  BY <1>31 DEF vars
<1> QED
  BY <1>1, <1>2, <1>3, <1>4, <1>5, <1>6, <1>7, <1>8, <1>9, <1>10, <1>11, <1>12,
     <1>13, <1>14, <1>15, <1>16, <1>17, <1>18, <1>19, <1>20, <1>21, <1>22,
     <1>23, <1>24, <1>25, <1>26, <1>27, <1>28, <1>29, <1>30, <1>31 DEF Next,
     UpdateInputGate, QueryLoop, DeviceReader, ReaderData, HallMonitor, Main,
     Environment

\* A gate that should be open is open, or an update is under way that opens it.
LEMMA AllowedStep ==
    ASSUME TypeOK, GateInv, OpenInv, [Next]_vars
    PROVE  AllowedInv'
<1> USE DEF TypeOK, ControlOK, Goto, CallGate, GateReturn, MainStep, Launch,
        BootPc, Write21, TimedOut, CanRead, Threads, NoThread, GateSteps,
        dataVars, stateVars, gateVars, touchVars, lockVars, ctlVars, envVars
<1> USE DEF GateInv, LockInv, ThreadInv, NotRunning, MainAt, Owes, OpenInv,
        ReopenInv, StaleInv, JustClosed, AllowedInv, Allowed, Opening, Pending
<1>1. ASSUME NEW t \in Threads, GateEnter(t) PROVE AllowedInv'
  BY <1>1, EnterFacts DEF Decides, Skips, Forced, Desired, HallOpen
<1>2. ASSUME NEW t \in Threads, TouchOff(t) PROVE AllowedInv'
  BY <1>2 DEF TouchOff, Write21MayFail
<1>3. ASSUME NEW t \in Threads, TouchOffDone(t) PROVE AllowedInv'
  BY <1>3 DEF TouchOffDone
<1>4. ASSUME NEW t \in Threads, Sysfs(t) PROVE AllowedInv'
  BY <1>4 DEF Sysfs
<1>5. ASSUME NEW t \in Threads, SysfsDone(t) PROVE AllowedInv'
  BY <1>5 DEF SysfsDone
<1>6. ASSUME NEW t \in Threads, TouchOn(t) PROVE AllowedInv'
  BY <1>6 DEF TouchOn, Write21MayFail
<1>7. ASSUME NEW t \in Threads, TouchOnDone(t) PROVE AllowedInv'
  BY <1>7 DEF TouchOnDone
<1>8. CASE QueryTop
  BY <1>8 DEF QueryTop
<1>9. CASE QueryOpen \/ QueryClosed \/ QueryWait
  BY <1>9 DEF QueryOpen, QueryClosed, QueryWait
<1>10. CASE QueryCheck
  BY <1>10 DEF QueryCheck
<1>11. CASE QueryWipe
  BY <1>11 DEF QueryWipe
<1>12. CASE ReaderTop
  BY <1>12 DEF ReaderTop
<1>13. CASE ReaderNothing
  BY <1>13 DEF ReaderNothing
<1>14. CASE ReaderError
  BY <1>14 DEF ReaderError
<1>15. CASE ReaderClose
  BY <1>15 DEF ReaderClose
<1>16. ASSUME NEW c \in BOOLEAN, ReaderStatus(c) PROVE AllowedInv'
  BY <1>16 DEF ReaderStatus
<1>17. ASSUME NEW c \in BOOLEAN, ReaderSleep(c) PROVE AllowedInv'
  BY <1>17 DEF ReaderSleep
<1>18. ASSUME NEW h \in {"open", "closed"}, ReaderHall(h) PROVE AllowedInv'
  BY <1>18 DEF ReaderHall
<1>19. CASE HallTop \/ HallNothing
  BY <1>19 DEF HallTop, HallNothing
<1>20. ASSUME NEW h \in HallStates, HallCallback(h) PROVE AllowedInv'
  BY <1>20 DEF HallCallback
<1>21. CASE Start
  BY <1>21 DEF Start
<1>22. CASE StartHall \/ StartDevice \/ StartQuery
  BY <1>22, LaunchFacts DEF LaunchStep
<1>23. CASE Stop
  BY <1>23 DEF Stop
<1>24. CASE JoinQuery
  BY <1>24 DEF JoinQuery
<1>25. CASE JoinHall
  BY <1>25 DEF JoinHall
<1>26. CASE JoinReader
  BY <1>26 DEF JoinReader
<1>27. CASE DeviceLost
  BY <1>27, LostFacts
<1>28. CASE ClientToggle
  BY <1>28 DEF ClientToggle
<1>29. CASE Crash
  BY <1>29 DEF Crash
<1>30. ASSUME NEW s \in Sources, Expire(s) PROVE AllowedInv'
  BY <1>30 DEF Expire
<1>31. CASE UNCHANGED vars
  BY <1>31 DEF vars
<1> QED
  BY <1>1, <1>2, <1>3, <1>4, <1>5, <1>6, <1>7, <1>8, <1>9, <1>10, <1>11, <1>12,
     <1>13, <1>14, <1>15, <1>16, <1>17, <1>18, <1>19, <1>20, <1>21, <1>22,
     <1>23, <1>24, <1>25, <1>26, <1>27, <1>28, <1>29, <1>30, <1>31 DEF Next,
     UpdateInputGate, QueryLoop, DeviceReader, ReaderData, HallMonitor, Main,
     Environment

\* What the members say is off is off.
LEMMA TouchCacheStep ==
    ASSUME ~WriteMayFail, ~ClientMayToggle, TypeOK, GateInv, OpenInv,
           TouchCacheInv, TouchOffInv, [Next]_vars
    PROVE  TouchCacheInv'
<1> USE DEF TypeOK, ControlOK, Goto, CallGate, GateReturn, MainStep, Launch,
        BootPc, Write21, TimedOut, CanRead, Threads, NoThread, GateSteps,
        dataVars, stateVars, gateVars, touchVars, lockVars, ctlVars, envVars
<1> USE DEF GateInv, LockInv, ThreadInv, NotRunning, MainAt, Owes,
        TouchCacheInv, TouchOffInv, Writable
<1>1. ASSUME NEW t \in Threads, GateEnter(t) PROVE TouchCacheInv'
  BY <1>1, EnterFacts DEF Decides, Skips, Forced, Desired, HallOpen
<1>2. ASSUME NEW t \in Threads, TouchOff(t) PROVE TouchCacheInv'
  BY <1>2 DEF TouchOff, Write21MayFail
<1>3. ASSUME NEW t \in Threads, TouchOffDone(t) PROVE TouchCacheInv'
  BY <1>3 DEF TouchOffDone
<1>4. ASSUME NEW t \in Threads, Sysfs(t) PROVE TouchCacheInv'
  BY <1>4 DEF Sysfs
<1>5. ASSUME NEW t \in Threads, SysfsDone(t) PROVE TouchCacheInv'
  BY <1>5 DEF SysfsDone
<1>6. ASSUME NEW t \in Threads, TouchOn(t) PROVE TouchCacheInv'
  BY <1>6 DEF TouchOn, Write21MayFail
<1>7. ASSUME NEW t \in Threads, TouchOnDone(t) PROVE TouchCacheInv'
  BY <1>7 DEF TouchOnDone
<1>8. CASE QueryTop
  BY <1>8 DEF QueryTop
<1>9. CASE QueryOpen \/ QueryClosed \/ QueryWait
  BY <1>9 DEF QueryOpen, QueryClosed, QueryWait
<1>10. CASE QueryCheck
  BY <1>10 DEF QueryCheck
<1>11. CASE QueryWipe
  BY <1>11 DEF QueryWipe
<1>12. CASE ReaderTop
  BY <1>12 DEF ReaderTop
<1>13. CASE ReaderNothing
  BY <1>13 DEF ReaderNothing
<1>14. CASE ReaderError
  BY <1>14 DEF ReaderError
<1>15. CASE ReaderClose
  BY <1>15 DEF ReaderClose
<1>16. ASSUME NEW c \in BOOLEAN, ReaderStatus(c) PROVE TouchCacheInv'
  BY <1>16 DEF ReaderStatus
<1>17. ASSUME NEW c \in BOOLEAN, ReaderSleep(c) PROVE TouchCacheInv'
  BY <1>17 DEF ReaderSleep
<1>18. ASSUME NEW h \in {"open", "closed"}, ReaderHall(h) PROVE TouchCacheInv'
  BY <1>18 DEF ReaderHall
<1>19. CASE HallTop \/ HallNothing
  BY <1>19 DEF HallTop, HallNothing
<1>20. ASSUME NEW h \in HallStates, HallCallback(h) PROVE TouchCacheInv'
  BY <1>20 DEF HallCallback
<1>21. CASE Start
  BY <1>21 DEF Start
<1>22. CASE StartHall \/ StartDevice \/ StartQuery
  BY <1>22, LaunchFacts DEF LaunchStep
<1>23. CASE Stop
  BY <1>23 DEF Stop
<1>24. CASE JoinQuery
  BY <1>24 DEF JoinQuery
<1>25. CASE JoinHall
  BY <1>25 DEF JoinHall
<1>26. CASE JoinReader
  BY <1>26 DEF JoinReader
<1>27. CASE DeviceLost
  BY <1>27, LostFacts
<1>28. CASE ClientToggle
  BY <1>28 DEF ClientToggle
<1>29. CASE Crash
  BY <1>29 DEF Crash
<1>30. ASSUME NEW s \in Sources, Expire(s) PROVE TouchCacheInv'
  BY <1>30 DEF Expire
<1>31. CASE UNCHANGED vars
  BY <1>31 DEF vars
<1> QED
  BY <1>1, <1>2, <1>3, <1>4, <1>5, <1>6, <1>7, <1>8, <1>9, <1>10, <1>11, <1>12,
     <1>13, <1>14, <1>15, <1>16, <1>17, <1>18, <1>19, <1>20, <1>21, <1>22,
     <1>23, <1>24, <1>25, <1>26, <1>27, <1>28, <1>29, <1>30, <1>31 DEF Next,
     UpdateInputGate, QueryLoop, DeviceReader, ReaderData, HallMonitor, Main,
     Environment

\* Touch reporting is off before the gate closes and before the device does.
LEMMA TouchOffStep ==
    ASSUME ~WriteMayFail, ~ClientMayToggle, TypeOK, GateInv, OpenInv,
           TouchCacheInv, TouchOffInv, [Next]_vars
    PROVE  TouchOffInv'
<1> USE DEF TypeOK, ControlOK, Goto, CallGate, GateReturn, MainStep, Launch,
        BootPc, Write21, TimedOut, CanRead, Threads, NoThread, GateSteps,
        dataVars, stateVars, gateVars, touchVars, lockVars, ctlVars, envVars
<1> USE DEF GateInv, LockInv, ThreadInv, NotRunning, MainAt, Owes, OpenInv,
        ReopenInv, Closes, KeptInv, TouchCacheInv, TouchOffInv, Writable
<1>1. ASSUME NEW t \in Threads, GateEnter(t) PROVE TouchOffInv'
  BY <1>1, EnterFacts DEF Decides, Skips, Forced, Desired, HallOpen
<1>2. ASSUME NEW t \in Threads, TouchOff(t) PROVE TouchOffInv'
  <2>1. /\ gateOwner = t /\ pc[t] = "touchOff"
        /\ UNCHANGED <<dataVars, lockVars, stopping, fd, kernelGate, sysfsFailed>>
    BY <1>2 DEF TouchOff
  <2>2. CASE pc' = [pc EXCEPT ![t] = "touchOffDone"] /\ ~hwTouch'
    BY <2>1, <2>2
  <2>3. CASE /\ pc' = [pc EXCEPT ![t] = "sysfs"] /\ UNCHANGED hwTouch
             /\ op.enabled \/ ~op.writeTouch \/ fd # "live" \/ ~Writable
    <3>1. CASE ~Writable
      BY <2>1, <2>3, <3>1
    <3>2. CASE op.enabled
      BY <2>1, <2>3, <3>2
    <3>3. CASE ~op.enabled /\ ~op.writeTouch
      <4>1. ~hwTouch'
        BY <2>1, <2>3, <3>3
      <4> QED
        BY <2>1, <2>3, <4>1
    <3>4. CASE fd # "live"
      <4>1. fd = "dead" \/ fd = "closed"
        BY <3>4 DEF WorldOK
      <4>2. Writable => ~(hwTouch' /\ touchKnown')
        BY <2>1, <2>3, <3>4
      <4>3. ret["reader"] = "rClose" => ~hwTouch'
        BY <2>1, <2>3, <4>1
      <4> QED
        BY <2>1, <2>3, <3>4, <4>2, <4>3
    <3> QED
      BY <2>3, <3>1, <3>2, <3>3, <3>4
  <2> QED
    BY <1>2, <2>2, <2>3 DEF TouchOff, Write21MayFail
<1>3. ASSUME NEW t \in Threads, TouchOffDone(t) PROVE TouchOffInv'
  BY <1>3 DEF TouchOffDone
<1>4. ASSUME NEW t \in Threads, Sysfs(t) PROVE TouchOffInv'
  BY <1>4 DEF Sysfs
<1>5. ASSUME NEW t \in Threads, SysfsDone(t) PROVE TouchOffInv'
  BY <1>5 DEF SysfsDone
<1>6. ASSUME NEW t \in Threads, TouchOn(t) PROVE TouchOffInv'
  BY <1>6 DEF TouchOn, Write21MayFail
<1>7. ASSUME NEW t \in Threads, TouchOnDone(t) PROVE TouchOffInv'
  <2>1. /\ gateOwner = t /\ pc[t] = "touchOnDone" /\ op.enabled
        /\ UNCHANGED <<stopping, hwTouch, fd, kernelGate, sysfsFailed>>
    BY <1>7 DEF TouchOnDone
  <2>2. fd # "closed" /\ (kernelGate \/ sysfsFailed \/ fd = "dead")
    BY <2>1
  <2>3. hwTouch => fd = "live" /\ (kernelGate \/ sysfsFailed)
    BY <2>2 DEF WorldOK
  <2>4. /\ gateOwner' = NoThread /\ ret' = [ret EXCEPT ![t] = "off"]
        /\ pc' = [pc EXCEPT ![t] = ret[t]]
    BY <1>7 DEF TouchOnDone
  <2>5. pc'["reader"] = "rClose" => pc["reader"] = "rClose"
    BY <2>1, <2>4
  <2> QED
    BY <2>1, <2>3, <2>4, <2>5
<1>8. CASE QueryTop
  BY <1>8 DEF QueryTop
<1>9. CASE QueryOpen \/ QueryClosed \/ QueryWait
  BY <1>9 DEF QueryOpen, QueryClosed, QueryWait
<1>10. CASE QueryCheck
  BY <1>10 DEF QueryCheck
<1>11. CASE QueryWipe
  BY <1>11 DEF QueryWipe
<1>12. CASE ReaderTop
  BY <1>12 DEF ReaderTop
<1>13. CASE ReaderNothing
  BY <1>13 DEF ReaderNothing
<1>14. CASE ReaderError
  BY <1>14 DEF ReaderError
<1>15. CASE ReaderClose
  BY <1>15 DEF ReaderClose
<1>16. ASSUME NEW c \in BOOLEAN, ReaderStatus(c) PROVE TouchOffInv'
  BY <1>16 DEF ReaderStatus
<1>17. ASSUME NEW c \in BOOLEAN, ReaderSleep(c) PROVE TouchOffInv'
  BY <1>17 DEF ReaderSleep
<1>18. ASSUME NEW h \in {"open", "closed"}, ReaderHall(h) PROVE TouchOffInv'
  BY <1>18 DEF ReaderHall
<1>19. CASE HallTop \/ HallNothing
  BY <1>19 DEF HallTop, HallNothing
<1>20. ASSUME NEW h \in HallStates, HallCallback(h) PROVE TouchOffInv'
  BY <1>20 DEF HallCallback
<1>21. CASE Start
  BY <1>21 DEF Start
<1>22. CASE StartHall \/ StartDevice \/ StartQuery
  BY <1>22, LaunchFacts DEF LaunchStep
<1>23. CASE Stop
  BY <1>23 DEF Stop
<1>24. CASE JoinQuery
  BY <1>24 DEF JoinQuery
<1>25. CASE JoinHall
  BY <1>25 DEF JoinHall
<1>26. CASE JoinReader
  BY <1>26 DEF JoinReader
<1>27. CASE DeviceLost
  BY <1>27, LostFacts
<1>28. CASE ClientToggle
  BY <1>28 DEF ClientToggle
<1>29. CASE Crash
  BY <1>29 DEF Crash
<1>30. ASSUME NEW s \in Sources, Expire(s) PROVE TouchOffInv'
  BY <1>30 DEF Expire
<1>31. CASE UNCHANGED vars
  BY <1>31 DEF vars
<1> QED
  BY <1>1, <1>2, <1>3, <1>4, <1>5, <1>6, <1>7, <1>8, <1>9, <1>10, <1>11, <1>12,
     <1>13, <1>14, <1>15, <1>16, <1>17, <1>18, <1>19, <1>20, <1>21, <1>22,
     <1>23, <1>24, <1>25, <1>26, <1>27, <1>28, <1>29, <1>30, <1>31 DEF Next,
     UpdateInputGate, QueryLoop, DeviceReader, ReaderData, HallMonitor, Main,
     Environment

\* Which steps write: a failed write to the driver is Sysfs's, and the only step of
\* a thread that turns touch reporting on is TouchOn's.
HardwareStep ==
    /\ sysfsFailed' => sysfsFailed \/ SysfsMayFail
    /\ pc' # pc /\ ~hwTouch /\ hwTouch' =>
         /\ gateOwner \in Threads /\ op.enabled /\ fd = "live"
         /\ pc[gateOwner] = "touchOn"

\* Every step is one of these.
LEMMA HardwareSteps ==
    ASSUME TypeOK, [Next]_vars
    PROVE  HardwareStep
<1> USE DEF TypeOK, ControlOK, Goto, CallGate, GateReturn, MainStep, Launch,
        BootPc, Write21, TimedOut, CanRead, Threads, NoThread, GateSteps,
        dataVars, stateVars, gateVars, touchVars, lockVars, ctlVars, envVars
<1> USE DEF HardwareStep, WorldOK
<1>1. ASSUME NEW t \in Threads, GateEnter(t) PROVE HardwareStep
  BY <1>1, EnterFacts DEF Decides, Skips, Forced, Desired, HallOpen
<1>2. ASSUME NEW t \in Threads, TouchOff(t) PROVE HardwareStep
  BY <1>2 DEF TouchOff, Write21MayFail
<1>3. ASSUME NEW t \in Threads, TouchOffDone(t) PROVE HardwareStep
  BY <1>3 DEF TouchOffDone
<1>4. ASSUME NEW t \in Threads, Sysfs(t) PROVE HardwareStep
  BY <1>4 DEF Sysfs
<1>5. ASSUME NEW t \in Threads, SysfsDone(t) PROVE HardwareStep
  BY <1>5 DEF SysfsDone
<1>6. ASSUME NEW t \in Threads, TouchOn(t) PROVE HardwareStep
  BY <1>6 DEF TouchOn, Write21MayFail
<1>7. ASSUME NEW t \in Threads, TouchOnDone(t) PROVE HardwareStep
  BY <1>7 DEF TouchOnDone
<1>8. CASE QueryTop
  BY <1>8 DEF QueryTop
<1>9. CASE QueryOpen \/ QueryClosed \/ QueryWait
  BY <1>9 DEF QueryOpen, QueryClosed, QueryWait
<1>10. CASE QueryCheck
  BY <1>10 DEF QueryCheck
<1>11. CASE QueryWipe
  BY <1>11 DEF QueryWipe
<1>12. CASE ReaderTop
  BY <1>12 DEF ReaderTop
<1>13. CASE ReaderNothing
  BY <1>13 DEF ReaderNothing
<1>14. CASE ReaderError
  BY <1>14 DEF ReaderError
<1>15. CASE ReaderClose
  BY <1>15 DEF ReaderClose
<1>16. ASSUME NEW c \in BOOLEAN, ReaderStatus(c) PROVE HardwareStep
  BY <1>16 DEF ReaderStatus
<1>17. ASSUME NEW c \in BOOLEAN, ReaderSleep(c) PROVE HardwareStep
  BY <1>17 DEF ReaderSleep
<1>18. ASSUME NEW h \in {"open", "closed"}, ReaderHall(h) PROVE HardwareStep
  BY <1>18 DEF ReaderHall
<1>19. CASE HallTop \/ HallNothing
  BY <1>19 DEF HallTop, HallNothing
<1>20. ASSUME NEW h \in HallStates, HallCallback(h) PROVE HardwareStep
  BY <1>20 DEF HallCallback
<1>21. CASE Start
  BY <1>21 DEF Start
<1>22. CASE StartHall \/ StartDevice \/ StartQuery
  BY <1>22, LaunchFacts DEF LaunchStep
<1>23. CASE Stop
  BY <1>23 DEF Stop
<1>24. CASE JoinQuery
  BY <1>24 DEF JoinQuery
<1>25. CASE JoinHall
  BY <1>25 DEF JoinHall
<1>26. CASE JoinReader
  BY <1>26 DEF JoinReader
<1>27. CASE DeviceLost
  BY <1>27, LostFacts
<1>28. CASE ClientToggle
  BY <1>28 DEF ClientToggle
<1>29. CASE Crash
  BY <1>29 DEF Crash
<1>30. ASSUME NEW s \in Sources, Expire(s) PROVE HardwareStep
  BY <1>30 DEF Expire
<1>31. CASE UNCHANGED vars
  BY <1>31 DEF vars
<1> QED
  BY <1>1, <1>2, <1>3, <1>4, <1>5, <1>6, <1>7, <1>8, <1>9, <1>10, <1>11, <1>12,
     <1>13, <1>14, <1>15, <1>16, <1>17, <1>18, <1>19, <1>20, <1>21, <1>22,
     <1>23, <1>24, <1>25, <1>26, <1>27, <1>28, <1>29, <1>30, <1>31 DEF Next,
     UpdateInputGate, QueryLoop, DeviceReader, ReaderData, HallMonitor, Main,
     Environment

\* The inductive invariant of the opening side, for every choice of the constants.
THEOREM OpenInvariant == Spec => []OpenInv
<1>1. Init => OpenInv
  BY DEF Init, OpenInv, ReopenInv, KeptInv, DoneInv, StaleInv, AllowedInv, Closes,
         Allowed, Owes, MainAt, BootPc, Threads, NoThread, GateSteps
<1>2. TypeOK /\ GateInv /\ OpenInv /\ [Next]_vars => OpenInv'
  <2> SUFFICES ASSUME TypeOK, GateInv, OpenInv, [Next]_vars PROVE OpenInv'
    OBVIOUS
  <2>1. ReopenInv'
    BY ReopenStep DEF OpenInv
  <2> QED
    BY <2>1, KeptStep, DoneStep, StaleStep, AllowedStep DEF OpenInv
<1> QED
  BY <1>1, <1>2, TypeCorrect, GateInvariant, PTL DEF Spec

\* A connected, awake keyboard on a live device whose switches are open and fresh
\* is registered once no update is pending, although a device that was lost may
\* have left the driver closed and the members saying "open": whatever updates of
\* other threads, errors and reopenings came in between.
THEOREM GateOpens == Spec => []GateOpensWhenAllowed
<1>1. TypeOK /\ GateInv /\ OpenInv => GateOpensWhenAllowed
  <2> SUFFICES ASSUME TypeOK, GateInv, OpenInv, Quiescent, pc["main"] = "up",
                      fd = "live", Allowed
               PROVE  kernelGate \/ sysfsFailed
    BY DEF GateOpensWhenAllowed, Allowed
  <2>1. ~Pending /\ \A t \in Threads : pc[t] \notin GateSteps
    BY DEF Quiescent, Owes, Pending
  <2>2. ~Opening
    BY <2>1 DEF Opening, GateSteps, TypeOK, ControlOK, NoThread, Threads
  <2>3. ~MainAt("stopped")
    BY <2>1 DEF MainAt, GateInv, ThreadInv, Owes, Threads, Quiescent
  <2> QED
    BY <2>1, <2>2, <2>3 DEF OpenInv, AllowedInv
<1> QED
  BY <1>1, TypeCorrect, GateInvariant, OpenInvariant, PTL

\* Touch reports stop before their input device goes: when every command to a live
\* device is written and no client sends 0x21 itself, a live device whose touch
\* state is known reports touches only behind a registered device, through crashes,
\* failed writes to the driver, errors and reopenings.
THEOREM TouchBehindGate ==
    ASSUME ~WriteMayFail, ~ClientMayToggle
    PROVE  Spec => []TouchOnlyWhileRegistered
<1>1. Init => TouchCacheInv /\ TouchOffInv
  BY DEF Init, TouchCacheInv, TouchOffInv, Writable, MainAt, BootPc, Threads, NoThread
<1>2. TypeOK /\ GateInv /\ OpenInv /\ TouchCacheInv /\ TouchOffInv /\ [Next]_vars
        => (TouchCacheInv /\ TouchOffInv)'
  BY TouchCacheStep, TouchOffStep
<1>3. GateInv /\ TouchCacheInv /\ TouchOffInv => TouchOnlyWhileRegistered
  <2> SUFFICES ASSUME GateInv, TouchCacheInv, TouchOffInv, Quiescent,
                      pc["main"] = "up", touchKnown, hwTouch
               PROVE  kernelGate \/ sysfsFailed
    BY DEF TouchOnlyWhileRegistered
  <2>1. Writable
    BY DEF TouchCacheInv, MainAt, GateInv, ThreadInv, Quiescent, Threads
  <2> QED
    BY <2>1 DEF TouchOffInv
<1> QED
  BY <1>1, <1>2, <1>3, TypeCorrect, GateInvariant, OpenInvariant, PTL DEF Spec

\* No step of updateInputGate turns touch reporting on while the device is not
\* registered, when writes to the driver succeed: a decision to open that other
\* threads, an error or a lost device overtake never reaches the hardware.
THEOREM TouchWaitsForGate ==
    ASSUME ~SysfsMayFail
    PROVE  Spec => TouchAfterRegister
<1>1. Init => ~sysfsFailed
  BY DEF Init
<1>2. TypeOK /\ [Next]_vars => HardwareStep
  BY HardwareSteps
<1>3. HardwareStep /\ ~sysfsFailed => ~sysfsFailed'
  BY DEF HardwareStep
<1>4. OpenInv /\ ~sysfsFailed /\ HardwareStep
        => [pc' # pc /\ ~hwTouch /\ hwTouch' => kernelGate]_vars
  BY DEF HardwareStep, OpenInv, KeptInv, Threads, NoThread
<1> QED
  BY <1>1, <1>2, <1>3, <1>4, TypeCorrect, OpenInvariant, PTL
     DEF Spec, TouchAfterRegister
=============================================================================
