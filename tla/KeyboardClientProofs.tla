------------------------ MODULE KeyboardClientProofs ------------------------
(***************************************************************************)
(* Frames and commands of the keyboard: proofs for every frame the device  *)
(* may deliver and every command a user may type.                          *)
(***************************************************************************)
EXTENDS KeyboardClient, TLAPS

\* A command that validRawCommand of the client accepts is accepted by
\* decodeClientCommand of the service, as one full transfer.
LEMMA FormsAgree ==
    ASSUME NEW c \in ClientCommand, ValidRawCommand(c)
    PROVE  DecodeClientCommand(c) = kNanoappRawFrameSize
BY DEF ClientCommand, ValidRawCommand, DecodeClientCommand,
       kNanoappRawFrameSize, kTransportReport, kBinderFrame

\* Every byte that the parser of an accepted frame reads is one of this frame
\* and, where it has a checksum, one that the checksum covers.
LEMMA ConsumedIsAuthenticated ==
    ASSUME NEW f \in Frame, Accepted(f)
    PROVE  Consumed(f) \subseteq Authenticated(f)
<1> USE DEF Frame, Consumed, Authenticated, IsVendorResponse, HasVendorHeader,
            HasValidChecksum, kNanoappMaxPayloadSize
<1>1. CASE ParseStatusReport(f)
  BY <1>1 DEF ParseStatusReport
<1>2. CASE ParseKeyboardVersionReport(f)
  BY <1>2 DEF ParseKeyboardVersionReport
<1>3. CASE ParseMcuVersionReport(f)
  BY <1>3 DEF ParseMcuVersionReport
<1>4. CASE ParseHallReport(f)
  BY <1>4 DEF ParseHallReport
<1>5. CASE ParseKeyboardIdentityReport(f)
  BY <1>5 DEF ParseKeyboardIdentityReport
<1>6. CASE ParseGsensorReport(f)
  BY <1>6 DEF ParseGsensorReport
<1>7. CASE ParseSleepReport(f)
  BY <1>7 DEF ParseSleepReport
<1>8. CASE ParseFeatureEffectReport(f)
  BY <1>8 DEF ParseFeatureEffectReport
<1>9. CASE ParseCommandAckReport(f)
  BY <1>9 DEF ParseCommandAckReport
<1> QED
  BY <1>1, <1>2, <1>3, <1>4, <1>5, <1>6, <1>7, <1>8, <1>9 DEF Accepted

\* The service never refuses the form of a command that the client let pass.
THEOREM RawFormsAlwaysAgree == Spec => []RawFormsAgree
<1>1. ClientInit => RawFormsAgree
  BY DEF ClientInit, RawFormsAgree
<1>2. RawFormsAgree /\ [Next]_vars => RawFormsAgree'
  <2> SUFFICES ASSUME RawFormsAgree, [Next]_vars PROVE RawFormsAgree'
    OBVIOUS
  <2>1. ASSUME NEW c \in RawCommands, SendRaw(c) PROVE einval' = einval
    BY <2>1, FormsAgree, RawAssumption DEF SendRaw
  <2>2. CASE Client
    BY <2>1, <2>2 DEF Client, RawFormsAgree, SetCallback, UsageError, SendQuery,
       SendVersionQueries, SendFeature, SendSwitch, Sent, ClientWaitOver
  <2>3. ASSUME NEW f, DataReceive(f) PROVE RawFormsAgree'
    BY <2>3 DEF DataReceive, RawFormsAgree
  <2>4. CASE ErrorReceive
    BY <2>4 DEF ErrorReceive, RawFormsAgree
  <2>5. CASE UNCHANGED clientVars
    BY <2>5 DEF clientVars, RawFormsAgree
  <2> QED
    BY <2>2, <2>3, <2>4, <2>5 DEF Next, vars
<1> QED
  BY <1>1, <1>2, PTL DEF Spec

----------------------------------------------------------------------------
\* Types of the query loop.

Flags ==
    /\ identityQueried \in BOOLEAN /\ asleep \in BOOLEAN
    /\ haveIdentity \in BOOLEAN /\ open \in BOOLEAN /\ overrun \in BOOLEAN

Counters ==
    /\ queryCount \in 0 .. VersionPeriod - 1
    /\ requests \in 0 .. 2

Places ==
    /\ pc \in {"top", "closed", "wipe", "pogo", "hall", "sample", "gsensor",
               "version", "mcu", "identity", "passed", "wait"}
    /\ status \in {"none", "disconnected", "connected"}

\* A step of the loop or of the reader.
QueryStep ==
    \/ Pass \/ OpenDevice \/ DeviceError \/ UNCHANGED queryVars
    \/ \E f \in Frames : Receive(f)

\* Flags are only assigned truth values.
LEMMA FlagsTyped ==
    ASSUME Flags, QueryStep PROVE Flags'
<1> USE DEF Flags, loopVars, stateVars
<1>1. CASE Begin
  BY <1>1, Zenon DEF Begin
<1>2. CASE Sample
  BY <1>2, Zenon DEF Sample
<1>3. CASE PassDone
  BY <1>3, Zenon DEF PassDone
<1>4. CASE FoundClosed
  BY <1>4, Zenon DEF FoundClosed
<1>5. CASE Wipe
  BY <1>5, Zenon DEF Wipe
<1>6. ASSUME NEW a, NEW b, Send(a, b) \/ Skip(a, b) PROVE Flags'
  BY <1>6, Zenon DEF Send, Skip
<1>7. CASE IdentityQuery
  BY <1>7, Zenon DEF IdentityQuery
<1>8. CASE OpenDevice
  BY <1>8, Zenon DEF OpenDevice
<1>9. CASE DeviceError
  BY <1>9, Zenon DEF DeviceError
<1>10. ASSUME NEW f \in Frames, Receive(f) PROVE Flags'
  <2>1. overrun' \in BOOLEAN /\ UNCHANGED <<loopVars, open>>
    BY <1>10, Zenon DEF Receive
  <2>2. (~f.on) \in BOOLEAN
    BY Zenon
  <2>3. asleep' \in BOOLEAN /\ haveIdentity' \in BOOLEAN
    BY <1>10, <2>2, Zenon DEF Receive, StatusReport, SleepReport, IdentityReport,
       OtherReport
  <2> QED
    BY <2>1, <2>3, Zenon
<1>11. CASE UNCHANGED queryVars
  BY <1>11, Zenon DEF queryVars
<1> QED
  BY <1>1, <1>2, <1>3, <1>4, <1>5, <1>6, <1>7, <1>8, <1>9, <1>10, <1>11, Zenon
     DEF QueryStep, Pass, SendPogoQuery, SendHallQuery, GsensorQuery, VersionQuery,
         McuQuery, WaitOver

\* Counters stay within their bounds, the loop and the status at known places.
LEMMA CountersTyped ==
    ASSUME Counters, Places, QueryStep PROVE Counters' /\ Places'
<1> USE PeriodsAssumption
        DEF Counters, Places, loopVars, stateVars, SameConnection
<1>1. CASE Begin
  BY <1>1 DEF Begin
<1>2. CASE Sample
  BY <1>2 DEF Sample
<1>3. CASE PassDone
  BY <1>3 DEF PassDone
<1>4. CASE FoundClosed
  BY <1>4 DEF FoundClosed
<1>5. CASE Wipe
  BY <1>5 DEF Wipe
<1>6. CASE SendPogoQuery \/ SendHallQuery \/ McuQuery \/ WaitOver
  BY <1>6 DEF SendPogoQuery, SendHallQuery, McuQuery, WaitOver, Send, Skip
<1>7. CASE GsensorQuery \/ VersionQuery
  BY <1>7 DEF GsensorQuery, VersionQuery, Send, Skip
<1>8. CASE IdentityQuery
  <2>1. (queryCount + 1) % VersionPeriod \in 0 .. VersionPeriod - 1
    OBVIOUS
  <2> QED
    BY <1>8, <2>1 DEF IdentityQuery
<1>9. CASE OpenDevice \/ DeviceError
  BY <1>9 DEF OpenDevice, DeviceError
<1>10. ASSUME NEW f \in Frames, Receive(f) PROVE Counters' /\ Places'
  BY <1>10 DEF Receive, StatusReport, SleepReport, IdentityReport, OtherReport
<1>11. CASE UNCHANGED queryVars
  BY <1>11 DEF queryVars
<1> QED
  BY <1>1, <1>2, <1>3, <1>4, <1>5, <1>6, <1>7, <1>8, <1>9, <1>10, <1>11
     DEF QueryStep, Pass

\* Whatever the client does, the service takes a step of its own or none.
LEMMA NextIsQueryStep == [Next]_vars => QueryStep
BY DEF Next, vars, QueryStep

\* Every reachable state of the query loop is well typed.
THEOREM QueryTypeCorrect == Spec => []TypeOK
<1>1. ClientInit => Flags /\ Counters /\ Places
  <2>1. ClientInit => Flags
    BY Zenon DEF ClientInit, Init, Flags
  <2>2. ClientInit => Counters /\ Places
    BY PeriodsAssumption DEF ClientInit, Init, Counters, Places
  <2> QED
    BY <2>1, <2>2
<1>2. Flags /\ Counters /\ Places /\ [Next]_vars => (Flags /\ Counters /\ Places)'
  BY NextIsQueryStep, FlagsTyped, CountersTyped
<1>3. Flags /\ Counters /\ Places => TypeOK
  BY Zenon DEF Flags, Counters, Places, TypeOK
<1> QED
  BY <1>1, <1>2, <1>3, PTL DEF Spec

\* No parser of the service uses a byte of an earlier frame or, in a report that
\* has a checksum, one that it does not cover.
THEOREM PaddingIsUnused == Spec => []PaddingUnused
<1>1. ClientInit => PaddingUnused
  BY DEF ClientInit, Init, PaddingUnused
<1>2. PaddingUnused /\ [Next]_vars => PaddingUnused'
  <2> SUFFICES ASSUME PaddingUnused, QueryStep PROVE PaddingUnused'
    BY NextIsQueryStep
  <2>1. ASSUME NEW f \in Frames, Receive(f) PROVE PaddingUnused'
    BY <2>1, FramesAssumption, ConsumedIsAuthenticated DEF Receive, PaddingUnused
  <2>2. CASE Pass
    BY <2>2 DEF Pass, PaddingUnused, Begin, SendPogoQuery, SendHallQuery, Sample,
       GsensorQuery, VersionQuery, McuQuery, IdentityQuery, PassDone, FoundClosed,
       Wipe, WaitOver, Send, Skip
  <2>3. CASE OpenDevice \/ DeviceError \/ UNCHANGED queryVars
    BY <2>3 DEF OpenDevice, DeviceError, queryVars, PaddingUnused
  <2> QED
    BY <2>1, <2>2, <2>3 DEF QueryStep
<1> QED
  BY <1>1, <1>2, PTL DEF Spec

----------------------------------------------------------------------------
\* One identity request per connection.

\* While the loop does not know of a request it is about to make another: none
\* was made in this connection by then, and none through a closed device.
IdentityInv ==
    /\ requests \in {0, 1}
    /\ ~open => requests = 0
    /\ status = "connected" /\ ~identityQueried => requests = 0
    /\ pc \in {"gsensor", "version", "mcu", "identity"} /\ ~identityQueried
         => requests = 0

\* Every step of the loop and of the reader preserves it.
LEMMA IdentityStep ==
    ASSUME IdentityInv, QueryStep PROVE IdentityInv'
<1> USE DEF IdentityInv, loopVars, stateVars, SameConnection
<1>1. CASE Begin
  BY <1>1 DEF Begin
<1>2. CASE Sample
  BY <1>2 DEF Sample
<1>3. CASE PassDone
  BY <1>3 DEF PassDone
<1>4. CASE FoundClosed
  BY <1>4 DEF FoundClosed
<1>5. CASE Wipe
  BY <1>5 DEF Wipe
<1>6. CASE SendPogoQuery \/ SendHallQuery \/ McuQuery \/ WaitOver
  BY <1>6 DEF SendPogoQuery, SendHallQuery, McuQuery, WaitOver, Send, Skip
<1>7. CASE GsensorQuery \/ VersionQuery
  BY <1>7 DEF GsensorQuery, VersionQuery, Send, Skip
<1>8. CASE IdentityQuery
  <2>1. CASE identityQueried
    BY <1>8, <2>1 DEF IdentityQuery
  <2>2. CASE ~identityQueried
    <3>1. requests = 0
      BY <1>8, <2>2 DEF IdentityQuery
    <3>2. PICK ok \in BOOLEAN : /\ Written(ok) /\ identityQueried' = ok
                               /\ requests' = IF ok /\ requests < 2 THEN requests + 1
                                                                    ELSE requests
      BY <1>8, <2>2 DEF IdentityQuery
    <3>3. CASE ok = TRUE
      <4>1. open
        BY <3>2, <3>3 DEF Written
      <4>2. identityQueried'
        BY <3>2, <3>3
      <4>3. requests' = 1
        BY <3>1, <3>2, <3>3
      <4> QED
        BY <1>8, <4>1, <4>2, <4>3 DEF IdentityQuery
    <3>4. CASE ok = FALSE
      BY <1>8, <3>1, <3>2, <3>4 DEF IdentityQuery
    <3> QED
      BY <3>3, <3>4
  <2> QED
    BY <2>1, <2>2
<1>9. CASE OpenDevice \/ DeviceError
  BY <1>9 DEF OpenDevice, DeviceError
<1>10. ASSUME NEW f \in Frames, Receive(f) PROVE IdentityInv'
  BY <1>10 DEF Receive, StatusReport, SleepReport, IdentityReport, OtherReport
<1>11. CASE UNCHANGED queryVars
  BY <1>11 DEF queryVars
<1> QED
  BY <1>1, <1>2, <1>3, <1>4, <1>5, <1>6, <1>7, <1>8, <1>9, <1>10, <1>11
     DEF QueryStep, Pass

\* With any frames, failing writes and lost devices, the loop asks for the
\* identity at most once per connection.
THEOREM IdentityAskedOnce == Spec => []IdentityAtMostOnce
<1>1. ClientInit => IdentityInv
  BY DEF ClientInit, Init, IdentityInv
<1>2. IdentityInv /\ [Next]_vars => IdentityInv'
  BY NextIsQueryStep, IdentityStep
<1>3. IdentityInv => IdentityAtMostOnce
  BY DEF IdentityInv, IdentityAtMostOnce
<1> QED
  BY <1>1, <1>2, <1>3, PTL DEF Spec

----------------------------------------------------------------------------
\* Types of the client.

ClientTypes ==
    /\ phase \in {"start", "send", "sendMcu", "wait", "success", "failure"}
    /\ request \in Requests
    /\ seen \subseteq ResponseKinds
    /\ frames \in BOOLEAN /\ lastError \in BOOLEAN /\ einval \in BOOLEAN
    /\ verdict \in {"none", "done", "refused"}

\* Neither main() nor its callback leaves the types.
LEMMA ClientTyped ==
    ASSUME ClientTypes, [Next]_vars PROVE ClientTypes'
<1> USE DEF ClientTypes
<1>1. ASSUME NEW f \in Frames, DataReceive(f) PROVE ClientTypes'
  <2>1. f.kind \in Kinds
    BY FramesAssumption DEF Frame
  <2>2. seen' \subseteq ResponseKinds
    BY <1>1, <2>1 DEF DataReceive
  <2>3. verdict' \in {"none", "done", "refused"}
    BY <1>1 DEF DataReceive
  <2> QED
    BY <1>1, <2>2, <2>3, Zenon DEF DataReceive
<1>2. CASE ErrorReceive
  BY <1>2, Zenon DEF ErrorReceive
<1>3. CASE SetCallback
  BY <1>3, Zenon DEF SetCallback
<1>4. CASE UsageError
  BY <1>4, Zenon DEF UsageError
<1>5. ASSUME NEW a, NEW b \in {"sendMcu", "wait", "success"}, Sent(a, b)
      PROVE  ClientTypes'
  BY <1>5, Zenon DEF Sent
<1>6. CASE SendQuery \/ SendVersionQueries \/ SendFeature \/ SendSwitch
  BY <1>5, <1>6, Zenon DEF SendQuery, SendVersionQueries, SendFeature, SendSwitch
<1>7. ASSUME NEW c \in RawCommands, SendRaw(c) PROVE ClientTypes'
  BY <1>7, Zenon DEF SendRaw
<1>8. CASE ClientWaitOver
  BY <1>8, Zenon DEF ClientWaitOver
<1>9. CASE UNCHANGED clientVars
  BY <1>9, Zenon DEF clientVars
<1> QED
  BY <1>1, <1>2, <1>3, <1>4, <1>6, <1>7, <1>8, <1>9, Zenon DEF Next, Client, vars

\* Every reachable state of the client, and of the loop it runs against, is well
\* typed.
THEOREM ClientTypeCorrect == Spec => []ClientTypeOK
<1>1. ClientInit => ClientTypes
  BY Zenon DEF ClientInit, ClientTypes
<1>2. ClientTypes /\ [Next]_vars => ClientTypes'
  BY ClientTyped
<1>3. ClientTypes /\ TypeOK => ClientTypeOK
  BY Zenon DEF ClientTypes, ClientTypeOK
<1> QED
  BY <1>1, <1>2, <1>3, QueryTypeCorrect, PTL DEF Spec
=============================================================================
