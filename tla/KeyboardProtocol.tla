-------------------------- MODULE KeyboardProtocol --------------------------
(***************************************************************************)
(* Protocol.cpp of aidl/keyboard.  A frame read from the device is a       *)
(* record: kind names the route that hasVendorHeader tests (report,        *)
(* protocol, source, target and command bytes), size is what read()        *)
(* returned, len is d5, sum says that the byte at 6 + len is the checksum  *)
(* of the bytes before it, good and on stand for the value bytes that a    *)
(* parser tests.  The buffer is reused, so a byte past size is one of an   *)
(* earlier and longer frame.  A client's command is a record of its size   *)
(* and its first three bytes.                                              *)
(***************************************************************************)
EXTENDS Naturals

kNanoappRawFrameSize   == 66
kNanoappMaxPayloadSize == 128
kTransportReport       == 50    \* 0x32
kBinderFrame           == 170   \* 0xaa

\* The answers that a client waits for by name.
ResponseKinds == {"status", "keyboardVersion", "mcuVersion", "hall", "identity",
                  "gsensor", "sleep"}
Kinds == ResponseKinds \cup {"effect", "ack", "debug", "other"}

Frame == [kind : Kinds, size : 1 .. kNanoappMaxPayloadSize, len : 0 .. 255,
          sum : BOOLEAN, good : BOOLEAN, on : BOOLEAN]

----------------------------------------------------------------------------
\* Reports.

HasValidChecksum(f) == f.size >= 7 /\ 6 + f.len < f.size /\ f.sum

HasVendorHeader(f, k) == f.size >= 5 /\ f.kind = k

IsVendorResponse(f, k) == HasVendorHeader(f, k) /\ HasValidChecksum(f)

\* mutant: the declared length is not tested
ParseStatusReportPadded(f) ==
    f.size >= 20 /\ IsVendorResponse(f, "status") /\ f.good

\* good: d7 is 0.  on: the pogo pins are healthy and there is no over-current.
ParseStatusReport(f) ==
    f.size >= 20 /\ f.len >= 13 /\ IsVendorResponse(f, "status") /\ f.good

ParseKeyboardVersionReport(f) ==
    f.size >= 12 /\ f.len >= 5 /\ IsVendorResponse(f, "keyboardVersion")

ParseMcuVersionReport(f) ==
    f.size >= 24 /\ f.len >= 17 /\ IsVendorResponse(f, "mcuVersion")

\* A fixed prefix and no checksum.  good: no bit outside the mask is set.
ParseHallReport(f) == f.size >= 7 /\ f.kind = "hall" /\ f.good

ParseKeyboardIdentityReport(f) ==
    f.size > 25 /\ f.len >= 19 /\ IsVendorResponse(f, "identity")

ParseGsensorReport(f) ==
    f.size >= 13 /\ f.len >= 6 /\ IsVendorResponse(f, "gsensor")

\* good: d6 is 0 or 1.  on: the keyboard is awake.
ParseSleepReport(f) ==
    f.size >= 8 /\ f.len = 1 /\ IsVendorResponse(f, "sleep") /\ f.good

\* For a client, good: the command is its own; on: so is the value.
ParseFeatureEffectReport(f) ==
    f.size >= 8 /\ f.len = 1 /\ IsVendorResponse(f, "effect")

\* d5 is the command acknowledged and not a length.  For a client, good: the
\* command is its own; on: the status is 0.
ParseCommandAckReport(f) == f.size >= 8 /\ HasVendorHeader(f, "ack")

Accepted(f) ==
    \/ ParseStatusReport(f) \/ ParseKeyboardVersionReport(f)
    \/ ParseMcuVersionReport(f) \/ ParseHallReport(f)
    \/ ParseKeyboardIdentityReport(f) \/ ParseGsensorReport(f)
    \/ ParseSleepReport(f) \/ ParseFeatureEffectReport(f)
    \/ ParseCommandAckReport(f)

\* The packet that onDeviceData consumes before any parser sees it.
IsDebugPacket(f) == f.size >= 4 /\ f.kind = "debug"

\* The bytes that the parser of an accepted frame reads after its tests.
Consumed(f) ==
    CASE f.kind = "status"          -> {7} \cup 9 .. 18
      [] f.kind = "keyboardVersion" ->
             {6, 7, 10} \cup (IF f.len # 5 /\ f.size > 9 THEN {8, 9} ELSE {})
             \cup (IF f.len >= 12 /\ f.size >= 19 THEN {13, 14, 17} ELSE {})
      [] f.kind = "mcuVersion"      -> 7 .. 22
      [] f.kind = "identity"        -> 19 .. 24
      [] f.kind = "gsensor"         -> 6 .. 11
      [] f.kind \in {"sleep", "effect", "hall"} -> {6}
      [] f.kind = "ack"             -> {5, 7}
      [] OTHER                      -> {}

\* The bytes of this frame that its checksum vouches for; a Hall report and an
\* acknowledgement have none.
Authenticated(f) ==
    {i \in 0 .. f.size - 1 : f.kind \in {"hall", "ack"} \/ i < 6 + f.len}

----------------------------------------------------------------------------
\* Commands of a client, at the client and at the service.

ClientCommand == [size : Nat, d0 : 0 .. 255, d1 : 0 .. 255, d2 : 0 .. 255]

\* mutant: a framed command may be longer than it says
ValidRawCommandLoose(c) ==
    \/ c.size >= 1 /\ c.d0 = kTransportReport /\ c.size <= kNanoappRawFrameSize
    \/ /\ c.size >= 3 /\ c.d0 = kBinderFrame
       /\ c.d1 \in 1 .. kNanoappRawFrameSize
       /\ c.size >= c.d1 + 2 /\ c.d2 = kTransportReport

\* validRawCommand of the client.
ValidRawCommand(c) ==
    \/ c.size >= 1 /\ c.d0 = kTransportReport /\ c.size <= kNanoappRawFrameSize
    \/ /\ c.size >= 3 /\ c.d0 = kBinderFrame
       /\ c.d1 \in 1 .. kNanoappRawFrameSize
       /\ c.size = c.d1 + 2 /\ c.d2 = kTransportReport

\* decodeClientCommand of the service: the size of the transfer, 0 if refused.
DecodeClientCommand(c) ==
    IF \/ c.size > 0 /\ c.size <= kNanoappRawFrameSize /\ c.d0 = kTransportReport
       \/ /\ ~(c.size < 3 \/ c.d0 # kBinderFrame)
          /\ ~(\/ c.d1 = 0 \/ c.d1 > kNanoappRawFrameSize
               \/ c.size # c.d1 + 2 \/ c.d2 # kTransportReport)
    THEN kNanoappRawFrameSize ELSE 0

\* wrapDevicePayload forwards a frame of this size.
Forwarded(size) == size # 0 /\ size <= kNanoappMaxPayloadSize
=============================================================================
