------------------------- MODULE KeyboardController -------------------------
(***************************************************************************)
(* The input gate of the keyboard service (aidl/keyboard).                 *)
(*                                                                         *)
(* Four threads run KeyboardController's code: main (start / stop), the    *)
(* query thread (queryLoop), the reader thread of NanoappDevice, which     *)
(* runs the data and error callbacks, and the thread of HallInputMonitor,  *)
(* which runs the Hall callback.  A block under mStateMutex is one step;   *)
(* updateInputGate holds mGateMutex over several steps, so that the other  *)
(* threads' blocks interleave with its writes.                             *)
(*                                                                         *)
(* Two flag/value pairs of the class are one variable each, because the    *)
(* code always clears the value with the flag: mHaveStatus with            *)
(* mStatus.connected, mHaveSleepState with mKeyboardSleeping.  A Hall      *)
(* state is "open" when both switches are (0x11) and "closed" otherwise.   *)
(* The three time stamps become the set "fresh" of the sources whose last  *)
(* update is at most kStatusTimeout old; time passing is the action        *)
(* Expire.  A time stamp is read only together with a flag that says its   *)
(* value is there (and connected), so a source leaves "fresh" when that    *)
(* flag is cleared.                                                        *)
(***************************************************************************)
EXTENDS FiniteSets

CONSTANTS
    Inputs,         \* the kinds of report that arrive: a subset of AllInputs
    SysfsMayFail,   \* the write to _inputenable may fail
    WriteMayFail,   \* a command write to an open, live device may fail
    ClientMayToggle,\* a binder client may send 0x21 itself
    MayCrash        \* the service process may die at any point

AllInputs == {"status", "sleep", "input", "proto"}

ASSUME InputsAssumption == Inputs \subseteq AllInputs

ASSUME SwitchesAreBoolean ==
    {SysfsMayFail, WriteMayFail, ClientMayToggle, MayCrash} \subseteq BOOLEAN

Threads == {"main", "query", "reader", "hall"}
NoThread == "none"

VARIABLES
    \* guarded by mStateMutex
    status,       \* mHaveStatus, mStatus.connected
    sleep,        \* mHaveSleepState, mKeyboardSleeping
    inputHall,    \* mHaveInputHallState, mInputHallState
    protoHall,    \* mHaveProtocolHallState, mProtocolHallState
    fresh,        \* the sources updated within kStatusTimeout
    gateKnown,    \* mInputGateKnown
    inputEnabled, \* mInputEnabled
    touchKnown,   \* mTouchpadStateKnown
    touchEnabled, \* mTouchpadEnabled
    \* control
    pc,           \* where each thread is
    ret,          \* where it goes when updateInputGate returns
    gateOwner,    \* the holder of mGateMutex
    op,           \* the holder's locals of updateInputGate
    qSleeping,    \* queryLoop's local "sleeping"
    stopping,     \* which of the three mStopping flags are set
    \* the world outside the process
    fd,           \* mDeviceFd: closed, or open on a live or a dead node
    kernelGate,   \* what the driver holds in _inputenable
    hwTouch,      \* whether the firmware reports touches
    kbAsleep,     \* the last sleep report read from this fd said "asleep"
    sysfsFailed   \* the last write to _inputenable failed

stateVars == <<status, sleep, inputHall, protoHall, fresh>>
gateVars  == <<gateKnown, inputEnabled>>
touchVars == <<touchKnown, touchEnabled>>
ctlVars   == <<pc, ret, gateOwner, op, qSleeping, stopping>>
envVars   == <<fd, kernelGate, hwTouch, kbAsleep, sysfsFailed>>
dataVars  == <<stateVars, gateVars, touchVars>>
lockVars  == <<ret, gateOwner, op>>
vars == <<dataVars, ctlVars, envVars>>

Sources == {"status", "input", "proto"}
HallStates == {"none", "closed", "open"}

\* The steps of updateInputGate after it took the lock.
GateSteps == {"touchOff", "touchOffDone", "sysfs", "sysfsDone", "touchOn",
              "touchOnDone"}
Labels ==
    GateSteps \cup
    {"off", "gate",
     "boot", "startHall", "startDevice", "startQuery", "up",
     "joinQuery", "joinHall", "joinReader", "stopped",
     "qTop", "qOpen", "qClosed", "qCheck", "qWipe", "qWait",
     "rTop", "rPoll", "rClose",
     "hTop", "hPoll"}

NoOp == [enabled |-> FALSE, writeGate |-> FALSE, writeTouch |-> FALSE]

DataOK ==
    /\ status \in {"none", "disconnected", "connected"}
    /\ sleep \in {"unknown", "asleep", "awake"}
    /\ inputHall \in HallStates /\ protoHall \in HallStates
    /\ fresh \subseteq Sources
    /\ gateKnown \in BOOLEAN /\ inputEnabled \in BOOLEAN
    /\ touchKnown \in BOOLEAN /\ touchEnabled \in BOOLEAN

ControlOK ==
    /\ pc \in [Threads -> Labels] /\ ret \in [Threads -> Labels]
    /\ gateOwner \in Threads \cup {NoThread}
    /\ op \in [enabled : BOOLEAN, writeGate : BOOLEAN, writeTouch : BOOLEAN]
    /\ qSleeping \in BOOLEAN
    /\ stopping \subseteq {"controller", "hall", "device"}

WorldOK ==
    /\ fd \in {"closed", "live", "dead"}
    /\ kernelGate \in BOOLEAN /\ hwTouch \in BOOLEAN
    /\ kbAsleep \in BOOLEAN /\ sysfsFailed \in BOOLEAN

\* Every variable of the controller and its surroundings keeps its type.
TypeOK == DataOK /\ ControlOK /\ WorldOK

BootPc == [t \in Threads |-> IF t = "main" THEN "boot" ELSE "off"]

\* The members' initialisers.  The driver and the firmware keep what an earlier
\* process left in them.
Init ==
    /\ status = "none" /\ sleep = "unknown"
    /\ inputHall = "none" /\ protoHall = "none" /\ fresh = {}
    /\ gateKnown = FALSE /\ inputEnabled = FALSE
    /\ touchKnown = FALSE /\ touchEnabled = FALSE
    /\ pc = BootPc
    /\ ret = [t \in Threads |-> "off"]
    /\ gateOwner = NoThread /\ op = NoOp /\ qSleeping = FALSE
    /\ stopping = {} /\ fd = "closed"
    /\ kbAsleep = FALSE /\ sysfsFailed = FALSE
    /\ kernelGate \in BOOLEAN /\ hwTouch \in BOOLEAN

----------------------------------------------------------------------------
Goto(t, l) == pc' = [pc EXCEPT ![t] = l]

\* t calls updateInputGate and continues at l when the call returns.
CallGate(t, l) ==
    /\ pc' = [pc EXCEPT ![t] = "gate"]
    /\ ret' = [ret EXCEPT ![t] = l]
    /\ UNCHANGED <<gateOwner, op>>

\* The gate lock is released and updateInputGate returns.
GateReturn(t) ==
    /\ Goto(t, ret[t])
    /\ ret' = [ret EXCEPT ![t] = "off"]
    /\ gateOwner' = NoThread
    /\ op' = NoOp

\* mutant: the Hall reply of the device outranks gpio-keys
HallOpenProtoFirst ==
    IF protoHall # "none" /\ "proto" \in fresh
    THEN protoHall = "open"
    ELSE inputHall = "open" /\ "input" \in fresh

\* gpio-keys is authoritative while it is fresh, the Hall reply a fallback.
HallOpen ==
    IF inputHall # "none" /\ "input" \in fresh
    THEN inputHall = "open"
    ELSE protoHall = "open" /\ "proto" \in fresh

\* What updateInputGate re-reads as the desired state of the gate.
Desired == status = "connected" /\ HallOpen /\ sleep # "asleep"

\* mutant: force is ignored
NeverForced(t) == FALSE

\* Only start() and stop(), on the main thread, pass force.
Forced(t) == t = "main"

----------------------------------------------------------------------------
\* updateInputGate, run by thread t.

GateEnter(t) ==
    /\ pc[t] = "gate" /\ gateOwner = NoThread
    /\ LET enabled == ~Forced(t) /\ Desired
           wGate   == Forced(t) \/ ~gateKnown \/ inputEnabled # enabled
           wTouch  == ~touchKnown \/ touchEnabled # enabled
       IN IF wGate \/ wTouch
          THEN /\ gateOwner' = t
               /\ op' = [enabled |-> enabled, writeGate |-> wGate,
                         writeTouch |-> wTouch]
               /\ Goto(t, "touchOff")
               /\ UNCHANGED ret
          ELSE GateReturn(t)
    /\ UNCHANGED <<dataVars, qSleeping, stopping, envVars>>

\* mutants: a closed device counts as written; the value is inverted
Write21NoDevice(v) == hwTouch' = IF fd = "live" THEN v ELSE hwTouch
Write21Inverted(v) ==
    /\ fd = "live" /\ "device" \notin stopping
    /\ hwTouch' = ~v

\* mDevice.isOpen() && sendRaw(makeFeatureCommand(0x21, v)): writeCommand
\* refuses a closed fd and a stopping device; a dead node fails the write.
Write21(v) ==
    /\ fd = "live" /\ "device" \notin stopping
    /\ hwTouch' = v

Write21MayFail == fd # "live" \/ "device" \in stopping \/ WriteMayFail

TouchOff(t) ==
    /\ pc[t] = "touchOff" /\ gateOwner = t
    /\ \/ /\ ~op.enabled /\ op.writeTouch
          /\ Write21(FALSE)
          /\ Goto(t, "touchOffDone")
       \/ /\ op.enabled \/ ~op.writeTouch \/ Write21MayFail
          /\ Goto(t, "sysfs")
          /\ UNCHANGED hwTouch
    /\ UNCHANGED <<dataVars, lockVars, qSleeping, stopping, fd, kernelGate,
                   kbAsleep, sysfsFailed>>

TouchOffDone(t) ==
    /\ pc[t] = "touchOffDone" /\ gateOwner = t
    /\ touchEnabled' = FALSE /\ touchKnown' = TRUE
    /\ Goto(t, "sysfs")
    /\ UNCHANGED <<stateVars, gateVars, lockVars, qSleeping, stopping,
                   envVars>>

\* WriteStringToFile(enabled ? "1" : "0", kInputEnablePath)
Sysfs(t) ==
    /\ pc[t] = "sysfs" /\ gateOwner = t
    /\ \/ /\ ~op.writeGate
          /\ Goto(t, "touchOn")
          /\ UNCHANGED <<lockVars, kernelGate, sysfsFailed>>
       \/ /\ op.writeGate
          /\ kernelGate' = op.enabled /\ sysfsFailed' = FALSE
          /\ Goto(t, "sysfsDone")
          /\ UNCHANGED lockVars
       \/ /\ op.writeGate /\ SysfsMayFail
          /\ sysfsFailed' = TRUE
          /\ GateReturn(t)
          /\ UNCHANGED kernelGate
    /\ UNCHANGED <<dataVars, qSleeping, stopping, fd, hwTouch, kbAsleep>>

SysfsDone(t) ==
    /\ pc[t] = "sysfsDone" /\ gateOwner = t
    /\ inputEnabled' = op.enabled /\ gateKnown' = TRUE
    /\ Goto(t, "touchOn")
    /\ UNCHANGED <<stateVars, touchVars, lockVars, qSleeping, stopping,
                   envVars>>

TouchOn(t) ==
    /\ pc[t] = "touchOn" /\ gateOwner = t
    /\ \/ /\ op.enabled /\ op.writeTouch
          /\ Write21(TRUE)
          /\ Goto(t, "touchOnDone")
          /\ UNCHANGED lockVars
       \/ /\ ~op.enabled \/ ~op.writeTouch \/ Write21MayFail
          /\ GateReturn(t)
          /\ UNCHANGED hwTouch
    /\ UNCHANGED <<dataVars, qSleeping, stopping, fd, kernelGate, kbAsleep,
                   sysfsFailed>>

TouchOnDone(t) ==
    /\ pc[t] = "touchOnDone" /\ gateOwner = t
    /\ touchEnabled' = TRUE /\ touchKnown' = TRUE
    /\ GateReturn(t)
    /\ UNCHANGED <<stateVars, gateVars, qSleeping, stopping, envVars>>

UpdateInputGate(t) ==
    \/ GateEnter(t) \/ TouchOff(t) \/ TouchOffDone(t) \/ Sysfs(t)
    \/ SysfsDone(t) \/ TouchOn(t) \/ TouchOnDone(t)

----------------------------------------------------------------------------
\* queryLoop.  The commands it sends are modelled in KeyboardQuery; here only
\* what the loop does to the gate's inputs.

\* mutant: the loop does not look at mStopping
QueryTopDeaf ==
    /\ pc["query"] = "qTop"
    /\ Goto("query", "qOpen") /\ qSleeping' = (sleep = "asleep")
    /\ UNCHANGED <<dataVars, lockVars, stopping, envVars>>

QueryTop ==
    /\ pc["query"] = "qTop"
    /\ IF "controller" \in stopping
       THEN Goto("query", "off") /\ UNCHANGED qSleeping
       ELSE Goto("query", "qOpen") /\ qSleeping' = (sleep = "asleep")
    /\ UNCHANGED <<dataVars, lockVars, stopping, envVars>>

\* The first isOpen() (and the sleeping flag read before it).
QueryOpen ==
    /\ pc["query"] = "qOpen"
    /\ Goto("query", IF fd # "closed" /\ ~qSleeping THEN "qCheck"
                                                    ELSE "qClosed")
    /\ qSleeping' = FALSE
    /\ UNCHANGED <<dataVars, lockVars, stopping, envVars>>

\* The second isOpen(), of the else-if.
QueryClosed ==
    /\ pc["query"] = "qClosed"
    /\ Goto("query", IF fd = "closed" THEN "qWipe" ELSE "qWait")
    /\ UNCHANGED <<dataVars, lockVars, qSleeping, stopping, envVars>>

StatusTimedOut == status = "connected" /\ "status" \notin fresh

\* mutant: both Hall sources must have reported
HallTimedOutBoth ==
    /\ status = "connected"
    /\ inputHall # "none" /\ protoHall # "none"
    /\ fresh \cap {"input", "proto"} = {}

HallTimedOut ==
    /\ status = "connected"
    /\ inputHall # "none" \/ protoHall # "none"
    /\ fresh \cap {"input", "proto"} = {}

\* mutant: only a status timeout updates the gate
TimedOutByStatus == StatusTimedOut

\* Whether the block below ends in a gate update.
TimedOut == StatusTimedOut \/ HallTimedOut

\* The block that looks for a timeout after the polls were sent.
QueryCheck ==
    /\ pc["query"] = "qCheck"
    /\ status' = IF StatusTimedOut THEN "none" ELSE status
    /\ inputHall' = IF HallTimedOut THEN "none" ELSE inputHall
    /\ protoHall' = IF HallTimedOut THEN "none" ELSE protoHall
    /\ IF TimedOut THEN CallGate("query", "qWait")
                   ELSE Goto("query", "qWait") /\ UNCHANGED lockVars
    /\ UNCHANGED <<sleep, fresh, gateVars, touchVars, qSleeping, stopping,
                   envVars>>

\* The device was found closed: forget everything it had reported.
QueryWipe ==
    /\ pc["query"] = "qWipe"
    /\ status' = "none" /\ sleep' = "unknown" /\ protoHall' = "none"
    /\ fresh' = fresh \ {"status", "proto"}
    /\ CallGate("query", "qWait")
    /\ UNCHANGED <<inputHall, gateVars, touchVars, qSleeping, stopping,
                   envVars>>

\* wait_for(kQueryInterval): it ends at the latest when the interval does, so
\* a notification sent before the wait began is not needed.
QueryWait ==
    /\ pc["query"] = "qWait"
    /\ Goto("query", "qTop")
    /\ UNCHANGED <<dataVars, lockVars, qSleeping, stopping, envVars>>

QueryLoop ==
    \/ QueryTop \/ QueryOpen \/ QueryClosed \/ QueryCheck \/ QueryWipe
    \/ QueryWait

----------------------------------------------------------------------------
\* NanoappDevice::run and the callbacks it makes.

ReaderTop ==
    /\ pc["reader"] = "rTop"
    /\ \/ /\ "device" \in stopping
          /\ Goto("reader", "off")
          /\ UNCHANGED <<fd, kbAsleep>>
       \/ /\ "device" \notin stopping /\ fd = "closed"    \* openDevice()
          /\ fd' = "live" /\ kbAsleep' = FALSE
          /\ Goto("reader", "rPoll")
       \/ /\ "device" \notin stopping /\ fd # "closed"
          /\ Goto("reader", "rPoll")
          /\ UNCHANGED <<fd, kbAsleep>>
    /\ UNCHANGED <<dataVars, lockVars, qSleeping, stopping, kernelGate,
                   hwTouch, sysfsFailed>>

\* The stop pipe, or a wake-up or packet that changes nothing here.
ReaderNothing ==
    /\ pc["reader"] = "rPoll"
    /\ fd = "live" \/ "device" \in stopping
    /\ Goto("reader", IF "device" \in stopping THEN "off" ELSE "rTop")
    /\ UNCHANGED <<dataVars, lockVars, qSleeping, stopping, envVars>>

\* A packet is read only from a live node.  poll may have returned just before
\* the stop pipe was written, so one more packet can follow mStopping.
CanRead == pc["reader"] = "rPoll" /\ fd = "live"

\* An A2 status report: handleStatus, which drops it while asleep.
ReaderStatus(connected) ==
    /\ "status" \in Inputs /\ CanRead
    /\ IF sleep = "asleep"
       THEN /\ Goto("reader", "rTop")
            /\ UNCHANGED <<status, fresh, lockVars>>
       ELSE /\ status' = IF connected THEN "connected" ELSE "disconnected"
            /\ fresh' = IF connected THEN fresh \cup {"status"}
                                     ELSE fresh \ {"status"}
            /\ CallGate("reader", "rTop")
    /\ UNCHANGED <<sleep, inputHall, protoHall, gateVars, touchVars,
                   qSleeping, stopping, envVars>>

\* A sleep report.  A keyboard that falls asleep may drop touch reporting.
ReaderSleep(asleep) ==
    /\ "sleep" \in Inputs /\ CanRead
    /\ kbAsleep' = asleep
    /\ sleep' = IF asleep THEN "asleep" ELSE "awake"
    /\ IF asleep
       THEN /\ status' = "none" /\ fresh' = fresh \ {"status"}
            /\ UNCHANGED touchKnown
       ELSE touchKnown' = FALSE /\ UNCHANGED <<status, fresh>>
    /\ hwTouch' \in IF asleep THEN {hwTouch, FALSE} ELSE {hwTouch}
    /\ CallGate("reader", "rTop")
    /\ UNCHANGED <<inputHall, protoHall, gateVars, touchEnabled, qSleeping,
                   stopping, fd, kernelGate, sysfsFailed>>

\* A reply to the local Hall query.
ReaderHall(state) ==
    /\ "proto" \in Inputs /\ CanRead
    /\ protoHall' = state
    /\ fresh' = fresh \cup {"proto"}
    /\ CallGate("reader", "rTop")
    /\ UNCHANGED <<status, sleep, inputHall, gateVars, touchVars, qSleeping,
                   stopping, envVars>>

\* poll or read failed: onDeviceError runs before closeDevice.
ReaderError ==
    /\ pc["reader"] = "rPoll"
    /\ status' = "none" /\ sleep' = "unknown" /\ protoHall' = "none"
    /\ fresh' = fresh \ {"status", "proto"}
    /\ gateKnown' = FALSE /\ touchKnown' = FALSE
    /\ CallGate("reader", "rClose")
    /\ UNCHANGED <<inputHall, inputEnabled, touchEnabled, qSleeping, stopping,
                   envVars>>

ReaderClose ==
    /\ pc["reader"] = "rClose"
    /\ fd' = "closed" /\ kbAsleep' = FALSE
    /\ Goto("reader", "rTop")
    /\ UNCHANGED <<dataVars, lockVars, qSleeping, stopping, kernelGate,
                   hwTouch, sysfsFailed>>

ReaderData ==
    \/ \E c \in BOOLEAN : ReaderStatus(c) \/ ReaderSleep(c)
    \/ \E h \in {"open", "closed"} : ReaderHall(h)

DeviceReader ==
    ReaderTop \/ ReaderNothing \/ ReaderData \/ ReaderError \/ ReaderClose

----------------------------------------------------------------------------
\* HallInputMonitor::run and onHallSwitchState.

HallTop ==
    /\ pc["hall"] = "hTop"
    /\ Goto("hall", IF "hall" \in stopping THEN "off" ELSE "hPoll")
    /\ UNCHANGED <<dataVars, lockVars, qSleeping, stopping, envVars>>

\* Nothing found or read, or the stop pipe.
HallNothing ==
    /\ pc["hall"] = "hPoll"
    /\ Goto("hall", IF "hall" \in stopping THEN "off" ELSE "hTop")
    /\ UNCHANGED <<dataVars, lockVars, qSleeping, stopping, envVars>>

\* A switch snapshot, its refresh after a poll timeout, or ("none") a rescan.
HallCallback(state) ==
    /\ "input" \in Inputs /\ pc["hall"] = "hPoll"
    /\ inputHall' = state
    /\ fresh' = IF state = "none" THEN fresh \ {"input"}
                                  ELSE fresh \cup {"input"}
    /\ CallGate("hall", "hTop")
    /\ UNCHANGED <<status, sleep, protoHall, gateVars, touchVars, qSleeping,
                   stopping, envVars>>

HallMonitor == HallTop \/ HallNothing \/ \E h \in HallStates : HallCallback(h)

----------------------------------------------------------------------------
\* The main thread: start(), stop(), and the joins inside stop().

MainStep(from, to) == pc["main"] = from /\ Goto("main", to)

\* start(): the forced update, then the three threads, in this order.
Start ==
    /\ pc["main"] = "boot"
    /\ CallGate("main", "startHall")
    /\ UNCHANGED <<dataVars, qSleeping, stopping, envVars>>

Launch(thread, first, from, to) ==
    /\ pc["main"] = from
    /\ pc' = [pc EXCEPT !["main"] = to, ![thread] = first]
    /\ UNCHANGED <<dataVars, lockVars, qSleeping, stopping, envVars>>

StartHall   == Launch("hall", "hTop", "startHall", "startDevice")
StartDevice == Launch("reader", "rTop", "startDevice", "startQuery")
StartQuery  == Launch("query", "qTop", "startQuery", "up")

Stop ==
    /\ MainStep("up", "joinQuery")
    /\ stopping' = stopping \cup {"controller"}
    /\ UNCHANGED <<dataVars, lockVars, qSleeping, envVars>>

\* The query thread is joined; mHallMonitor.stop() begins.
JoinQuery ==
    /\ pc["query"] = "off"
    /\ MainStep("joinQuery", "joinHall")
    /\ stopping' = stopping \cup {"hall"}
    /\ UNCHANGED <<dataVars, lockVars, qSleeping, envVars>>

\* The Hall thread is joined; mDevice.stop() begins.
JoinHall ==
    /\ pc["hall"] = "off"
    /\ MainStep("joinHall", "joinReader")
    /\ stopping' = stopping \cup {"device"}
    /\ UNCHANGED <<dataVars, lockVars, qSleeping, envVars>>

\* The reader is joined, the fd closed, and the forced update called.
JoinReader ==
    /\ pc["reader"] = "off" /\ pc["main"] = "joinReader"
    /\ fd' = "closed" /\ kbAsleep' = FALSE
    /\ CallGate("main", "stopped")
    /\ UNCHANGED <<dataVars, qSleeping, stopping, kernelGate, hwTouch,
                   sysfsFailed>>

Main == Start \/ StartHall \/ StartDevice \/ StartQuery \/ Stop \/ JoinQuery
        \/ JoinHall \/ JoinReader

----------------------------------------------------------------------------
\* The world outside.

\* Six seconds pass without an update from source s.
Expire(s) ==
    /\ s \in fresh
    /\ fresh' = fresh \ {s}
    /\ UNCHANGED <<status, sleep, inputHall, protoHall, gateVars, touchVars,
                   ctlVars, envVars>>

\* The node goes away under the open fd.  The firmware loses its settings and
\* the driver may come back in its default, disabled state.
DeviceLost ==
    /\ fd = "live"
    /\ fd' = "dead" /\ hwTouch' = FALSE
    /\ kernelGate' \in {kernelGate, FALSE}
    /\ UNCHANGED <<dataVars, ctlVars, kbAsleep, sysfsFailed>>

\* sendClientCommand with a touchpad command, from a binder thread.
ClientToggle ==
    /\ ClientMayToggle
    /\ \E v \in BOOLEAN : Write21(v)
    /\ UNCHANGED <<dataVars, ctlVars, fd, kernelGate, kbAsleep, sysfsFailed>>

\* The process dies; init starts the service again.
Crash ==
    /\ MayCrash
    /\ status' = "none" /\ sleep' = "unknown"
    /\ inputHall' = "none" /\ protoHall' = "none" /\ fresh' = {}
    /\ gateKnown' = FALSE /\ inputEnabled' = FALSE
    /\ touchKnown' = FALSE /\ touchEnabled' = FALSE
    /\ pc' = BootPc
    /\ ret' = [t \in Threads |-> "off"]
    /\ gateOwner' = NoThread /\ op' = NoOp /\ qSleeping' = FALSE
    /\ stopping' = {} /\ fd' = "closed"
    /\ kbAsleep' = FALSE /\ sysfsFailed' = FALSE
    /\ UNCHANGED <<kernelGate, hwTouch>>

Environment ==
    (\E s \in Sources : Expire(s)) \/ DeviceLost \/ ClientToggle \/ Crash

Next ==
    \/ \E t \in Threads : UpdateInputGate(t)
    \/ QueryLoop \/ DeviceReader \/ HallMonitor \/ Main
    \/ Environment

\* Every thread keeps running while it can, and mGateMutex does not starve a
\* waiter for ever; stop() itself, failures, crashes and what the peripherals
\* send are never promised.
Fairness ==
    /\ \A t \in Threads : WF_vars(UpdateInputGate(t)) /\ SF_vars(GateEnter(t))
    /\ WF_vars(QueryLoop)
    /\ WF_vars(ReaderTop \/ ReaderNothing \/ ReaderClose)
    /\ WF_vars(fd = "dead" /\ ReaderError)
    /\ WF_vars(HallTop \/ HallNothing)
    /\ WF_vars(Start \/ StartHall \/ StartDevice \/ StartQuery
               \/ JoinQuery \/ JoinHall \/ JoinReader)

Spec == Init /\ [][Next]_vars
FairSpec == Spec /\ Fairness

----------------------------------------------------------------------------
\* Properties.

\* t is inside updateInputGate, or about to enter it.
Owes(t) == pc[t] = "gate" \/ pc[t] \in GateSteps

\* No gate update is pending and start() has run its forced one.
Quiescent == pc["main"] # "boot" /\ \A t \in Threads : ~Owes(t)

\* The evidence behind an open gate: a connected status that nothing discarded,
\* a keyboard not known to sleep, and a Hall source that said "open" (the
\* gpio-keys one, while it is fresh).
Evidence ==
    /\ status = "connected" /\ sleep # "asleep"
    /\ inputHall = "open" \/ protoHall = "open"
    /\ "input" \in fresh => inputHall # "closed"

\* Whatever the order in which status, sleep, Hall and error callbacks and
\* timeouts reach updateInputGate, once no update is pending the driver keeps
\* the input devices registered only on current evidence: an old decision never
\* overrides newer state.  Only a failed write to _inputenable is excused.
GateJustified ==
    Quiescent /\ pc["main"] # "stopped" /\ kernelGate => Evidence \/ sysfsFailed

\* The other direction: with a connected, awake keyboard on a live device and
\* fresh open switches, no pending update means the devices are registered.
GateOpensWhenAllowed ==
    /\ Quiescent /\ pc["main"] = "up" /\ fd = "live"
    /\ status = "connected" /\ sleep # "asleep"
    /\ inputHall = "open" /\ "input" \in fresh
    => kernelGate \/ sysfsFailed

\* start() and stop() end with the gate closed, whatever an earlier process or
\* the threads left behind: nothing can run after stop()'s forced update.
ForcedClosed ==
    /\ pc["main"] = "startHall" => ~kernelGate \/ sysfsFailed
    /\ pc["main"] = "stopped" =>
         /\ ~kernelGate \/ sysfsFailed
         /\ fd = "closed" /\ \A t \in Threads \ {"main"} : pc[t] = "off"

\* "Stop touch reports before unregistering their Linux input device": with
\* writes that succeed, a live device whose touch state the controller claims
\* to know reports touches only while the input device is registered.
TouchOnlyWhileRegistered ==
    Quiescent /\ pc["main"] = "up" /\ fd = "live" /\ touchKnown /\ hwTouch
        => kernelGate \/ sysfsFailed

\* "Enable hardware touch reporting only after its Linux input device exists":
\* no step of updateInputGate turns reporting on while the gate is closed.
TouchAfterRegister ==
    [][pc' # pc /\ ~hwTouch /\ hwTouch' => kernelGate]_vars

\* "Status ... data older than six seconds fails closed", and so does Hall data
\* when neither source is fresh: a registered gate whose status or Hall data has
\* expired is closed, unless a new report arrives, a write to _inputenable fails
\* or the service stops or dies.
StaleDataClosesGate ==
    \A sources \in {{"status"}, {"input", "proto"}} :
        (pc["main"] = "up" /\ kernelGate /\ fresh \cap sources = {})
            ~> (~kernelGate \/ fresh \cap sources # {}
                \/ sysfsFailed \/ pc["main"] # "up")

\* stop() returns: no join waits for a thread that waits for the gate lock.
StopTerminates == (pc["main"] = "joinQuery") ~> (pc["main"] = "stopped")

\* The inductive invariant behind GateJustified and ForcedClosed.

\* mGateMutex: its holder is the one thread past the lock in updateInputGate.
LockInv ==
    /\ \A t \in Threads : pc[t] \in GateSteps <=> gateOwner = t
    /\ \A t \in Threads : ret[t] \notin GateSteps \cup {"gate"}

\* Which threads run while main is where it is.
NotRunning(ts) == \A t \in ts : pc[t] = "off"
MainAt(l) == pc["main"] = l \/ ret["main"] = l
ThreadInv ==
    /\ pc["main"] = "boot" \/ MainAt("startHall") \/ MainAt("stopped")
         => NotRunning({"query", "reader", "hall"})
    /\ pc["main"] = "startDevice" => NotRunning({"query", "reader"})
    /\ pc["main"] = "startQuery" => NotRunning({"query"})
    /\ pc["main"] = "joinHall" => NotRunning({"query"})
    /\ pc["main"] = "joinReader" => NotRunning({"query", "hall"})
    /\ MainAt("stopped") => fd = "closed"
    /\ IF Owes("main") THEN ret["main"] \in {"startHall", "stopped"}
                       ELSE ret["main"] = "off"

Pending == \E t \in Threads : pc[t] = "gate"

\* The holder is about to close the gate.
Closing ==
    /\ gateOwner # NoThread /\ ~op.enabled /\ op.writeGate
    /\ pc[gateOwner] \in {"touchOff", "touchOffDone", "sysfs"}

\* A closed decision that was written, or needed no write, left the gate closed.
ClosedInv ==
    /\ gateOwner # NoThread /\ ~op.enabled => \/ Closing \/ ~kernelGate
    /\ gateOwner = "main" => ~op.enabled /\ op.writeGate
    /\ gateOwner # NoThread /\ op.enabled => Evidence \/ Pending

\* An open gate is either known to be open or about to be.
CacheInv ==
    kernelGate => \/ ~gateKnown \/ inputEnabled
                  \/ /\ gateOwner # NoThread /\ op.enabled
                     /\ pc[gateOwner] = "sysfsDone"

EvidenceInv ==
    kernelGate /\ pc["main"] \notin {"boot", "stopped"} =>
        Evidence \/ sysfsFailed \/ Pending \/ Closing

\* Together: an open gate without evidence is one that a waiting or working
\* updateInputGate, or a failed write, still answers for.
GateInv ==
    /\ LockInv /\ ThreadInv /\ ClosedInv /\ CacheInv /\ EvidenceInv
    /\ ForcedClosed

----------------------------------------------------------------------------
\* What the documentation says and the code does not do.

\* "While asleep ... enabled again only after a fresh pogo response": the last
\* sleep report read from the open device is respected.
SleepRespected == Quiescent /\ kbAsleep => ~kernelGate \/ sysfsFailed

\* "On each gate transition, command 0x21 disables/enables touch reporting as
\* well": with the gate open, what the controller believes it switched on is on.
TouchCacheTruthful ==
    Quiescent /\ fd = "live" /\ kernelGate /\ touchKnown /\ touchEnabled
        => hwTouch

=============================================================================
