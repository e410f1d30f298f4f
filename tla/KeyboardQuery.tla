--------------------------- MODULE KeyboardQuery ---------------------------
(***************************************************************************)
(* The commands that KeyboardController::queryLoop sends (aidl/keyboard),  *)
(* against the reports the reader thread handles meanwhile.  What the same *)
(* loop does to the input gate is in KeyboardController.                   *)
(*                                                                         *)
(* queryCount is only ever used modulo the two periods, of which one       *)
(* divides the other, so it is kept modulo VersionPeriod.                  *)
(***************************************************************************)
EXTENDS KeyboardProtocol

CONSTANTS
    Frames,          \* what the device may deliver
    GsensorPeriod,   \* kGsensorQueryPeriod (5)
    VersionPeriod,   \* kVersionQueryPeriod (15)
    WriteMayFail     \* sendRaw may fail on an open device

ASSUME PeriodsAssumption ==
    /\ GsensorPeriod \in Nat \ {0} /\ VersionPeriod \in Nat \ {0}
    /\ VersionPeriod % GsensorPeriod = 0
    /\ WriteMayFail \in BOOLEAN

ASSUME FramesAssumption == Frames \subseteq Frame

VARIABLES
    pc,               \* where the query thread is in its pass
    queryCount,       \* modulo VersionPeriod
    identityQueried,
    status,           \* mHaveStatus, mStatus.connected
    asleep,           \* mHaveSleepState && mKeyboardSleeping
    haveIdentity,     \* mHaveKeyboardIdentity
    open,             \* mDevice.isOpen()
    \* history
    requests,         \* identity requests written in this connection, up to 2
    overrun           \* a byte that no checksum covers was used

loopVars  == <<pc, queryCount, identityQueried>>
stateVars == <<status, asleep, haveIdentity>>
queryVars == <<loopVars, stateVars, open, requests, overrun>>

TypeOK ==
    /\ pc \in {"top", "closed", "wipe", "pogo", "hall", "sample", "gsensor", "version",
               "mcu", "identity", "passed", "wait"}
    /\ queryCount \in 0 .. VersionPeriod - 1
    /\ identityQueried \in BOOLEAN
    /\ status \in {"none", "disconnected", "connected"}
    /\ asleep \in BOOLEAN /\ haveIdentity \in BOOLEAN /\ open \in BOOLEAN
    /\ requests \in 0 .. 2
    /\ overrun \in BOOLEAN

Init ==
    /\ pc = "top" /\ queryCount = 0
    /\ identityQueried = FALSE
    /\ status = "none" /\ asleep = FALSE /\ haveIdentity = FALSE
    /\ open = FALSE /\ requests = 0
    /\ overrun = FALSE

----------------------------------------------------------------------------
\* One pass of the loop.

\* A command reaches an open device (ok) or not.
Written(ok) == IF open THEN ok \in {TRUE, ~WriteMayFail} ELSE ok = FALSE

\* The sleeping flag and isOpen().
Begin ==
    /\ pc = "top"
    /\ pc' = IF open /\ ~asleep THEN "pogo" ELSE "closed"
    /\ UNCHANGED <<queryCount, identityQueried, stateVars, open, requests, overrun>>

\* sendRaw of a command whose result the loop ignores.
Send(at, next) ==
    /\ pc = at
    /\ pc' = next
    /\ \E ok \in BOOLEAN : Written(ok)
    /\ UNCHANGED <<queryCount, identityQueried, stateVars, open, requests, overrun>>

\* The loop skips a periodic command on most passes.
Skip(at, next) ==
    /\ pc = at
    /\ pc' = next
    /\ UNCHANGED <<queryCount, identityQueried, stateVars, open, requests, overrun>>

SendPogoQuery == Send("pogo", "hall")
SendHallQuery == Send("hall", "sample")

\* connected = mHaveStatus && mStatus.connected
Sample ==
    /\ pc = "sample"
    /\ IF status = "connected"
       THEN pc' = "gsensor" /\ UNCHANGED <<queryCount, identityQueried>>
       ELSE pc' = "passed" /\ queryCount' = 0 /\ identityQueried' = FALSE
    /\ UNCHANGED <<stateVars, open, requests, overrun>>

GsensorQuery ==
    IF queryCount % GsensorPeriod = 0 THEN Send("gsensor", "version")
                                      ELSE Skip("gsensor", "version")

VersionQuery ==
    IF queryCount % VersionPeriod = 0 THEN Send("version", "mcu")
                                      ELSE Skip("version", "identity")

McuQuery == Send("mcu", "identity")

\* mutant: the request is repeated on every pass
IdentityEveryPass ==
    /\ pc = "identity"
    /\ pc' = "passed"
    /\ queryCount' = (queryCount + 1) % VersionPeriod
    /\ \E ok \in BOOLEAN :
         /\ Written(ok)
         /\ requests' = IF ok /\ requests < 2 THEN requests + 1 ELSE requests
    /\ UNCHANGED <<identityQueried, stateVars, open, overrun>>

\* identityQueried = sendRaw(...), then ++queryCount.
IdentityQuery ==
    /\ pc = "identity"
    /\ pc' = "passed"
    /\ queryCount' = (queryCount + 1) % VersionPeriod
    /\ IF identityQueried
       THEN UNCHANGED <<identityQueried, requests>>
       ELSE \E ok \in BOOLEAN :
              /\ Written(ok)
              /\ identityQueried' = ok
              /\ requests' = IF ok /\ requests < 2 THEN requests + 1
                                                   ELSE requests
    /\ UNCHANGED <<stateVars, open, overrun>>

\* The history of a connection starts afresh when the connection goes.
SameConnection(same) ==
    requests' = IF same THEN requests ELSE 0

\* The timeout block that ends a pass.
PassDone ==
    /\ pc = "passed"
    /\ pc' = "wait"
    /\ status' \in IF status = "connected" THEN {status, "none"} ELSE {status}
    /\ SameConnection(status' = "connected")
    /\ UNCHANGED <<queryCount, identityQueried, asleep, haveIdentity, open, overrun>>

\* The isOpen() of the else branch, and what a closed device restarts.
FoundClosed ==
    /\ pc = "closed"
    /\ IF open
       THEN pc' = "wait" /\ UNCHANGED <<queryCount, identityQueried>>
       ELSE pc' = "wipe" /\ queryCount' = 0 /\ identityQueried' = FALSE
    /\ UNCHANGED <<stateVars, open, requests, overrun>>

Wipe ==
    /\ pc = "wipe"
    /\ pc' = "wait"
    /\ status' = "none" /\ asleep' = FALSE /\ haveIdentity' = FALSE
    /\ SameConnection(FALSE)
    /\ UNCHANGED <<queryCount, identityQueried, open, overrun>>

WaitOver == Skip("wait", "top")

Pass == Begin \/ SendPogoQuery \/ SendHallQuery \/ Sample \/ GsensorQuery
        \/ VersionQuery \/ McuQuery \/ IdentityQuery \/ PassDone \/ FoundClosed
        \/ Wipe \/ WaitOver

----------------------------------------------------------------------------
\* The reader thread, with what the keyboard sends.

OpenDevice ==
    /\ ~open /\ open' = TRUE
    /\ UNCHANGED <<loopVars, stateVars, requests, overrun>>

\* handleStatus
StatusReport(c) ==
    /\ IF asleep
       THEN UNCHANGED <<status, requests>>
       ELSE /\ status' = IF c THEN "connected" ELSE "disconnected"
            /\ SameConnection(c /\ status = "connected")
    /\ UNCHANGED <<asleep, haveIdentity>>

SleepReport(s) ==
    /\ asleep' = s
    /\ status' = IF s THEN "none" ELSE status
    /\ SameConnection(~s)
    /\ UNCHANGED haveIdentity

IdentityReport ==
    /\ haveIdentity' = TRUE
    /\ UNCHANGED <<status, asleep, requests>>

\* Versions, GSensor samples, effects and acknowledgements leave the loop alone,
\* and so does a frame that no parser accepts.
OtherReport == UNCHANGED <<stateVars, requests>>

\* onDeviceData for one frame: a debug packet ends it at once, and at most one
\* parser accepts another frame.
Receive(f) ==
    /\ open
    /\ IF IsDebugPacket(f)
       THEN UNCHANGED <<stateVars, requests, overrun>>
       ELSE /\ \/ ParseStatusReport(f) /\ StatusReport(f.on)
               \/ ParseSleepReport(f) /\ SleepReport(~f.on)
               \/ ParseKeyboardIdentityReport(f) /\ IdentityReport
               \/ /\ ~(\/ ParseStatusReport(f) \/ ParseSleepReport(f)
                       \/ ParseKeyboardIdentityReport(f))
                  /\ OtherReport
            /\ overrun' = (overrun \/ (/\ Accepted(f)
                                       /\ ~(Consumed(f) \subseteq Authenticated(f))))
    /\ UNCHANGED <<loopVars, open>>

\* onDeviceError and closeDevice
DeviceError ==
    /\ open
    /\ open' = FALSE
    /\ status' = "none" /\ asleep' = FALSE /\ haveIdentity' = FALSE
    /\ SameConnection(FALSE)
    /\ UNCHANGED <<loopVars, overrun>>

----------------------------------------------------------------------------
\* Properties.

\* "It requests the keyboard identity once per connection": never twice.
IdentityAtMostOnce == requests <= 1

\* "The read buffer may be padded beyond the checksum; never treat that padding
\* as authenticated status data": whatever a frame declares and however short the
\* read was, every byte a parser uses is one of this read and, in the reports
\* that have a checksum, one that the checksum covers.
PaddingUnused == ~overrun
=============================================================================
