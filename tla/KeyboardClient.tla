--------------------------- MODULE KeyboardClient ---------------------------
(***************************************************************************)
(* keyboard_client.cpp with the service it talks to: one run of the        *)
(* program against the query loop and the reader thread of KeyboardQuery.  *)
(* The binder thread that delivers onDeviceData's frames and onDeviceError *)
(* is joined to the step that forwards them: it shares nothing else with   *)
(* the service.                                                            *)
(***************************************************************************)
EXTENDS KeyboardQuery

CONSTANTS
    RawCommands      \* the commands of "raw" that a user may type

ASSUME RawAssumption == RawCommands \subseteq ClientCommand

VARIABLES
    phase,        \* where main() is
    request,      \* argv[1]
    seen,         \* mSeenResponses, the bits that the request tests
    frames,       \* mFrames.size() # 0
    verdict,      \* what the first frame of mFrames about the feature says
    lastError,    \* mLastError # 0
    \* history
    einval        \* the service refused the form of the command

clientVars == <<phase, request, seen, frames, verdict, lastError, einval>>
vars == <<queryVars, clientVars>>

\* requiredResponses of each query.
Required ==
    [status |-> {"status"}, version |-> {"keyboardVersion", "mcuVersion"},
     hall |-> {"hall"}, identity |-> {"identity"}, gsensor |-> {"gsensor"}]

Queries  == DOMAIN Required
Features == {"feature"}    \* backlight, caps and mute wait for the effect
Switches == {"switch"}     \* touchpad and power wait for nothing

\* The reports that may answer a request.
Awaited == IF request \in Queries THEN Required[request]
           ELSE IF request \in Features THEN {"ack", "effect"} ELSE {}

Requests == Queries \cup Features \cup Switches \cup {"raw"}

ClientTypeOK ==
    /\ TypeOK
    /\ phase \in {"start", "send", "sendMcu", "wait", "success", "failure"}
    /\ request \in Requests
    /\ seen \subseteq ResponseKinds
    /\ frames \in BOOLEAN /\ lastError \in BOOLEAN /\ einval \in BOOLEAN
    /\ verdict \in {"none", "done", "refused"}

ClientInit ==
    /\ Init
    /\ phase = "start" /\ request \in Requests
    /\ seen = {} /\ frames = FALSE /\ verdict = "none" /\ lastError = FALSE
    /\ einval = FALSE

----------------------------------------------------------------------------
\* The callback object, once setCallback_aidl has returned.

Registered == phase \in {"send", "sendMcu", "wait"}

\* waitForFeatureResult looks for the first frame that decides.
Decides(f) ==
    f.good /\ (ParseCommandAckReport(f) \/ (ParseFeatureEffectReport(f) /\ f.on))

\* dataReceive_aidl and printFrame
DataReceive(f) ==
    /\ IF Registered /\ ~IsDebugPacket(f) /\ Forwarded(f.size)
       THEN /\ seen' = IF Accepted(f)
                       THEN seen \cup ({f.kind} \cap ResponseKinds \cap Awaited)
                       ELSE seen
            /\ frames' = TRUE
            /\ verdict' = IF verdict = "none" /\ Decides(f)
                          THEN IF f.on THEN "done" ELSE "refused" ELSE verdict
       ELSE UNCHANGED <<seen, frames, verdict>>
    /\ UNCHANGED <<phase, request, lastError, einval>>

\* errorReceive_aidl
ErrorReceive ==
    /\ lastError' = (lastError \/ Registered)
    /\ UNCHANGED <<phase, request, seen, frames, verdict, einval>>

----------------------------------------------------------------------------
\* main().

SetCallback ==
    /\ phase = "start" /\ phase' = "send"
    /\ UNCHANGED <<request, seen, frames, verdict, lastError, einval>>

\* Wrong arguments, found once the command is known.
UsageError ==
    /\ phase = "send" /\ phase' = "failure"
    /\ UNCHANGED <<request, seen, frames, verdict, lastError, einval>>

\* sendCmd_aidl reports a failed write to the callback as well.
Sent(at, next) ==
    /\ phase = at
    /\ \E ok \in BOOLEAN :
         /\ Written(ok)
         /\ phase' = IF ok THEN next ELSE "failure"
         /\ lastError' = (lastError \/ ~ok)
    /\ UNCHANGED <<request, seen, frames, verdict, einval>>

SendQuery == request \in Queries \ {"version"} /\ Sent("send", "wait")

SendVersionQueries ==
    request = "version" /\ (Sent("send", "sendMcu") \/ Sent("sendMcu", "wait"))

SendFeature == request \in Features /\ Sent("send", "wait")

SendSwitch == request \in Switches /\ Sent("send", "success")

\* A command whose form the client rejects is not sent.
SendRaw(c) ==
    /\ phase = "send" /\ request = "raw"
    /\ IF ~ValidRawCommand(c)
       THEN phase' = "failure" /\ UNCHANGED <<lastError, einval>>
       ELSE IF DecodeClientCommand(c) # kNanoappRawFrameSize
       THEN phase' = "failure" /\ lastError' = TRUE /\ einval' = TRUE
       ELSE \E ok \in BOOLEAN :
              /\ Written(ok)
              /\ phase' = IF ok THEN "wait" ELSE "failure"
              /\ lastError' = (lastError \/ ~ok)
              /\ UNCHANGED einval
    /\ UNCHANGED <<request, seen, frames, verdict>>

\* The predicates of waitForResponses and waitForFeatureResult, errors apart.
Complete ==
    CASE request \in Queries  -> Required[request] \subseteq seen
      [] request \in Features -> verdict # "none"
      [] OTHER                -> frames

\* wait_for returns, notified or timed out, and tests its predicate last.
ClientWaitOver ==
    /\ phase = "wait"
    /\ phase' = IF ~lastError /\ Complete /\ (request \in Features => verdict = "done")
                THEN "success" ELSE "failure"
    /\ UNCHANGED <<request, seen, frames, verdict, lastError, einval>>

Client == SetCallback \/ UsageError \/ SendQuery \/ SendVersionQueries
          \/ SendFeature \/ SendSwitch \/ ClientWaitOver
          \/ \E c \in RawCommands : SendRaw(c)

----------------------------------------------------------------------------

Next ==
    \/ Pass /\ UNCHANGED clientVars
    \/ OpenDevice /\ UNCHANGED clientVars
    \/ \E f \in Frames : Receive(f) /\ DataReceive(f)
    \/ DeviceError /\ ErrorReceive
    \/ Client /\ UNCHANGED queryVars

Spec == ClientInit /\ [][Next]_vars

----------------------------------------------------------------------------
\* Properties.

\* The client and the service agree on the forms of a command: what
\* validRawCommand accepts, decodeClientCommand accepts as one full transfer.
RawFormsAgree == ~einval
=============================================================================
