---------------------- MODULE FingerprintServiceProofs ----------------------
(***************************************************************************)
(* The fingerprint services for any number of modules, sessions and        *)
(* clients: what their constructors leave, that sessions are closed        *)
(* exactly once, and whom the vendor thread calls.                         *)
(***************************************************************************)
EXTENDS FingerprintService, TLAPS

\* The variables that creation, closing and death of a session touch.
SessionTypes ==
    /\ mSession \in 0 .. MaxSessions
    /\ closed \in [Sessions -> BOOLEAN]
    /\ deleted \in [Sessions -> {0, 1}]

\* A session has its recipient deleted exactly if it is closed; one that is not
\* yet created is not closed; a busy framework has an open one; and one that the
\* framework has let go is closed, or the death of its client is on its way.
ClosedInv ==
    /\ \A s \in Sessions : deleted[s] = IF closed[s] THEN 1 ELSE 0
    /\ \A s \in Sessions : s > mSession => ~closed[s]
    /\ framework = "busy" => mSession # 0 /\ ~closed[mSession] /\ ~obituary
    /\ framework # "busy" /\ mSession # 0 /\ ~obituary => closed[mSession]
    /\ obituary => mSession # 0

sessionVars == <<mSession, closed, deleted, framework, obituary>>

\* Steps of the other threads leave the sessions alone.
LEMMA OthersLeaveSessions ==
    ASSUME \/ Construct \/ TryModule \/ MakeUdfpsHandler \/ EnumerateEnrollments
           \/ Cancel \/ Vendor \/ Hidl \/ UNCHANGED vars
    PROVE  UNCHANGED sessionVars
<1> USE DEF sessionVars, session, history
<1>1. CASE Construct \/ TryModule \/ MakeUdfpsHandler
  BY <1>1 DEF Construct, TryModule, MakeUdfpsHandler
<1>2. CASE EnumerateEnrollments \/ Cancel
  BY <1>2 DEF EnumerateEnrollments, Cancel
<1>3. CASE Vendor
  BY <1>3 DEF Vendor, VendorTests, VendorCalls, VendorNotifies
<1>4. CASE Hidl
  BY <1>4 DEF Hidl, HidlVendorTests, HidlVendorNotifies, SetNotify
<1>5. CASE UNCHANGED vars
  BY <1>5 DEF vars
<1> QED
  BY <1>1, <1>2, <1>3, <1>4, <1>5

\* close() on an open session closes it and deletes its recipient, once.
LEMMA Closing ==
    ASSUME SessionTypes, ClosedInv, mSession # 0, ~closed[mSession], CloseSession,
           mSession' = mSession, framework' # "busy", obituary' = FALSE
    PROVE  SessionTypes' /\ ClosedInv'
<1>1. mSession \in Sessions /\ deleted[mSession] = 0
  BY ServiceAssumption DEF SessionTypes, ClosedInv, Sessions
<1>2. /\ closed' = [closed EXCEPT ![mSession] = TRUE]
      /\ deleted' = [deleted EXCEPT ![mSession] = 1]
  BY <1>1 DEF CloseSession, SessionTypes
<1> QED
  BY <1>1, <1>2 DEF SessionTypes, ClosedInv, Sessions

\* Every step preserves the books of the sessions.
LEMMA ClosedStep ==
    ASSUME SessionTypes, ClosedInv, [Next]_vars
    PROVE  SessionTypes' /\ ClosedInv'
<1> USE ServiceAssumption
<1>1. CASE \/ Construct \/ TryModule \/ MakeUdfpsHandler \/ EnumerateEnrollments
           \/ Cancel \/ Vendor \/ Hidl \/ UNCHANGED vars
  <2>1. UNCHANGED sessionVars
    BY <1>1, OthersLeaveSessions
  <2> QED
    BY <2>1 DEF sessionVars, SessionTypes, ClosedInv
<1>2. CASE Restart
  BY <1>2 DEF Restart, Fresh, SessionTypes, ClosedInv, Sessions
<1>3. ASSUME NEW u \in Users, CreateSession(u) PROVE SessionTypes' /\ ClosedInv'
  <2>1. CASE UNCHANGED sessionVars
    BY <2>1 DEF sessionVars, SessionTypes, ClosedInv
  <2>2. CASE /\ mSession' = mSession + 1 /\ framework' = "busy"
             /\ UNCHANGED <<closed, obituary, deleted>>
    <3>1. ~obituary /\ mSession < MaxSessions
      BY <1>3 DEF CreateSession
    <3>2. mSession + 1 \in Sessions /\ ~closed[mSession + 1]
      BY <3>1 DEF SessionTypes, ClosedInv, Sessions
    <3> QED
      BY <2>2, <3>1, <3>2 DEF SessionTypes, ClosedInv, Sessions
  <2> QED
    BY <1>3, <2>1, <2>2 DEF CreateSession, sessionVars, session, history
<1>4. CASE Close
  <2>1. mSession # 0 /\ ~closed[mSession] /\ ~obituary
    BY <1>4 DEF Close, ClosedInv
  <2>2. /\ CloseSession /\ mSession' = mSession
        /\ framework' # "busy" /\ obituary' = obituary
    BY <1>4 DEF Close
  <2>3. obituary' = FALSE
    BY <1>4, <2>1, <2>2 DEF Close
  <2> QED
    BY <2>1, <2>2, <2>3, Closing
<1>5. CASE FrameworkDies
  BY <1>5 DEF FrameworkDies, SessionTypes, ClosedInv, history
<1>6. CASE OnClientDeath
  <2>1. mSession # 0 /\ mSession' = mSession /\ framework' = framework
    BY <1>6 DEF OnClientDeath, ClosedInv
  <2>2. framework # "busy" /\ obituary' = FALSE
    BY <1>6 DEF OnClientDeath, ClosedInv
  <2>3. CASE closed[mSession]
    BY <1>6, <2>1, <2>2, <2>3 DEF OnClientDeath, DeathCloses, SessionTypes, ClosedInv
  <2>4. CASE ~closed[mSession]
    <3>1. CloseSession
      BY <1>6, <2>4 DEF OnClientDeath, DeathCloses
    <3> QED
      BY <2>1, <2>2, <2>4, <3>1, Closing
  <2> QED
    BY <2>3, <2>4
<1>7. CASE FrameworkStarts
  BY <1>7 DEF FrameworkStarts, SessionTypes, ClosedInv, history
<1> QED
  BY <1>1, <1>2, <1>3, <1>4, <1>5, <1>6, <1>7 DEF Next, Boot, Binder

LEMMA ClosedAlways == Spec => [](SessionTypes /\ ClosedInv)
<1>1. Init => SessionTypes /\ ClosedInv
  BY ServiceAssumption DEF Init, SessionTypes, ClosedInv, Sessions
<1>2. SessionTypes /\ ClosedInv /\ [Next]_vars => (SessionTypes /\ ClosedInv)'
  BY ClosedStep
<1> QED
  BY <1>1, <1>2, PTL DEF Spec

\* However close(), the death of the client and new sessions interleave with the
\* vendor thread, restarts included, a session is closed and its recipient deleted
\* exactly once, and the CHECK of createSession does not fire.
THEOREM SessionsClosedOnce == Spec => []ClosedOnce
<1>1. SessionTypes /\ ClosedInv => ClosedOnce
  BY DEF SessionTypes, ClosedInv, ClosedOnce
<1> QED
  BY <1>1, ClosedAlways, PTL

----------------------------------------------------------------------------
\* The constructors.

\* Once the constructor has begun, sInstance is set; its loop stays within
\* kModules; what it leaves in mDevice, unless that was stale, is what it wrote to
\* the property.
ServiceInv ==
    /\ boot \in {"new", "open", "udfps", "ready", "crashed"}
    /\ tried \in 0 .. Modules /\ device \in 0 .. Stale /\ prop \in 0 .. Stale
    /\ instances \in {0, 1}
    /\ boot = "new" => tried = 0 /\ instances = 0 /\ device \in {0, Stale}
    /\ boot # "new" => published
    /\ boot = "open" => tried < Modules
    /\ boot \in {"udfps", "ready"} /\ device # Stale => prop = device

\* Every step preserves it.
LEMMA ServiceStep ==
    ASSUME ServiceInv, [Next]_vars PROVE ServiceInv'
<1> USE ServiceAssumption DEF ServiceInv, Stale
<1>1. CASE Construct
  BY <1>1 DEF Construct
<1>2. CASE TryModule
  <2>1. PICK o \in Outcomes :
          LET d == IF Aidl THEN OpenFingerprintHal(o) ELSE OpenHal(o) IN
          /\ device' = d /\ prop' = PropAfter(d)
          /\ boot' = IF d # 0 \/ LastModule(tried + 1) THEN "udfps" ELSE "open"
    BY <1>2 DEF TryModule
  <2>2. device' \in {0, tried + 1}
    BY <2>1 DEF OpenFingerprintHal, OpenHal
  <2>3. /\ prop' = PropAfter(device')
        /\ boot' = IF device' # 0 \/ LastModule(tried + 1) THEN "udfps" ELSE "open"
    BY <2>1
  <2>4. /\ boot = "open" /\ tried' = tried + 1
        /\ published' = published /\ instances' = instances
    BY <1>2 DEF TryModule
  <2> QED
    BY <2>2, <2>3, <2>4 DEF PropAfter, LastModule
<1>3. CASE MakeUdfpsHandler
  BY <1>3 DEF MakeUdfpsHandler, Crash
<1>4. CASE Restart
  <2>1. /\ boot' = "new" /\ tried' = 0 /\ prop' = prop /\ instances' = 0
        /\ device' \in {0, Stale}
    BY <1>4 DEF Restart, Fresh
  <2> QED
    BY <2>1
<1>5. CASE /\ (boot' \in {boot, "crashed"} /\ boot # "new") \/ boot' = boot
           /\ UNCHANGED <<tried, device, prop, published, instances>>
  BY <1>5
<1>6. CASE Binder
  <2>1. /\ (boot' \in {boot, "crashed"} /\ boot = "ready") \/ boot' = boot
        /\ UNCHANGED <<tried, device, prop, published, instances>>
    BY <1>6 DEF Binder, Close, FrameworkDies, OnClientDeath, FrameworkStarts,
       EnumerateEnrollments, Cancel, CreateSession, Crash, service
  <2> QED
    BY <1>5, <2>1
<1>7. CASE Vendor
  <2>1. /\ boot' \in {boot, "crashed"} /\ boot # "new"
        /\ UNCHANGED <<tried, device, prop, published, instances>>
    BY <1>7 DEF Vendor, VendorTests, VendorCalls, VendorNotifies, Crash, service,
       Registered
  <2> QED
    BY <1>5, <2>1
<1>8. CASE HidlVendorTests
  <2>1. /\ boot # "new" /\ published /\ published' = TRUE
        /\ instances' = instances
        /\ UNCHANGED <<boot, tried, device, prop>>
    BY <1>8 DEF HidlVendorTests, GetInstance, Registered
  <2> QED
    BY <2>1
<1>9. CASE HidlVendorNotifies \/ (\E c \in Clients : SetNotify(c)) \/ UNCHANGED vars
  BY <1>9 DEF HidlVendorNotifies, SetNotify, vars, service
<1> QED
  BY <1>1, <1>2, <1>3, <1>4, <1>6, <1>7, <1>8, <1>9 DEF Next, Boot, Hidl

\* The constructors establish their promises and nothing undoes them.
LEMMA ServiceAlways == Spec => []ServiceInv
<1>1. Init => ServiceInv
  BY ServiceAssumption DEF Init, ServiceInv, Stale
<1> QED
  BY <1>1, ServiceStep, PTL DEF Spec

\* Whichever modules fail to open, and through crashes and restarts, the vendor
\* property of a service that is up names the module it opened.
THEOREM VendorPropIsTruthful == Spec => []VendorPropTruthful
<1>1. ServiceInv => VendorPropTruthful
  BY DEF ServiceInv, VendorPropTruthful
<1> QED
  BY <1>1, ServiceAlways, PTL

\* A vendor library that calls back while the constructor runs never makes
\* getInstance() construct a second service.
THEOREM OneInstanceOnly == Spec => []OneInstance
<1>1. ServiceInv => OneInstance
  BY DEF ServiceInv, OneInstance
<1> QED
  BY <1>1, ServiceAlways, PTL

----------------------------------------------------------------------------
\* Types.

PlainTypes ==
    /\ handler \in {"null", "made", "stale"} /\ published \in BOOLEAN
    /\ user \in [Sessions -> Users]
    /\ framework \in {"gone", "idle", "busy"} /\ obituary \in BOOLEAN
    /\ slot \in Clients \cup {0}
    /\ variant \in {"aidl", "aidl2", "hidl"}

\* The plain variables keep their types.
LEMMA PlainTyped ==
    ASSUME PlainTypes, [Next]_vars PROVE PlainTypes'
<1> USE DEF PlainTypes, service, session, history
<1>1. CASE Construct
  BY <1>1, Zenon DEF Construct
<1>2. CASE TryModule
  BY <1>2, Zenon DEF TryModule
<1>3. CASE MakeUdfpsHandler
  BY <1>3, Zenon DEF MakeUdfpsHandler
<1>4. CASE Restart
  <2>1. handler' \in {"null", "made", "stale"}
    BY <1>4 DEF Restart, Fresh
  <2>2. user' \in [Sessions -> Users]
    BY <1>4 DEF Restart, Fresh, Users
  <2> QED
    BY <1>4, <2>1, <2>2, Zenon DEF Restart, Fresh
<1>5. ASSUME NEW u \in Users, CreateSession(u) PROVE PlainTypes'
  <2>1. user' \in [Sessions -> Users]
    BY <1>5 DEF CreateSession
  <2> QED
    BY <1>5, <2>1, Zenon DEF CreateSession, Crash
<1>6. CASE Close
  BY <1>6, Zenon DEF Close
<1>7. CASE FrameworkDies
  BY <1>7, Zenon DEF FrameworkDies
<1>8. CASE OnClientDeath
  BY <1>8, Zenon DEF OnClientDeath
<1>9. CASE FrameworkStarts
  BY <1>9, Zenon DEF FrameworkStarts
<1>10. CASE EnumerateEnrollments
  BY <1>10, Zenon DEF EnumerateEnrollments
<1>11. CASE Cancel
  BY <1>11, Zenon DEF Cancel
<1>12. CASE VendorTests
  BY <1>12, Zenon DEF VendorTests
<1>13. CASE VendorCalls
  BY <1>13, Zenon DEF VendorCalls
<1>14. CASE VendorNotifies
  BY <1>14, Zenon DEF VendorNotifies
<1>15. CASE HidlVendorTests
  BY <1>15, Zenon DEF HidlVendorTests, GetInstance
<1>16. CASE HidlVendorNotifies
  BY <1>16, Zenon DEF HidlVendorNotifies
<1>17. ASSUME NEW c \in Clients, SetNotify(c) PROVE PlainTypes'
  BY <1>17, Zenon DEF SetNotify
<1>18. CASE UNCHANGED vars
  BY <1>18, Zenon DEF vars
<1> QED
  BY <1>1, <1>2, <1>3, <1>4, <1>5, <1>6, <1>7, <1>8, <1>9, <1>10, <1>11, <1>12,
     <1>13, <1>14, <1>15, <1>16, <1>17, <1>18, Zenon
     DEF Next, Boot, Binder, Vendor, Hidl

\* The vendor thread's record keeps its shape.
VendorTypes ==
    /\ vendor = [at |-> vendor.at, msg |-> vendor.msg, to |-> vendor.to]
    /\ vendor.at \in {"idle", "tested", "inside"}

\* The vendor thread is at one of its places.
LEMMA VendorTyped ==
    ASSUME VendorTypes, [Next]_vars PROVE VendorTypes'
<1> USE DEF VendorTypes, Idle
<1>1. CASE Restart
  BY <1>1 DEF Restart, Fresh
<1>2. CASE VendorTests
  BY <1>2 DEF VendorTests
<1>3. CASE VendorCalls
  BY <1>3 DEF VendorCalls
<1>4. CASE VendorNotifies
  BY <1>4 DEF VendorNotifies
<1>5. CASE HidlVendorTests
  BY <1>5 DEF HidlVendorTests
<1>6. CASE HidlVendorNotifies
  BY <1>6 DEF HidlVendorNotifies
<1>7. CASE UNCHANGED vendor
  BY <1>7
<1> QED
  BY <1>1, <1>2, <1>3, <1>4, <1>5, <1>6, <1>7
     DEF Next, Boot, Binder, Vendor, Hidl, Construct, TryModule, MakeUdfpsHandler,
         Close, FrameworkDies, OnClientDeath, FrameworkStarts, CreateSession,
         EnumerateEnrollments, Cancel, SetNotify, vars

LEMMA TypesAlways == Spec => [](PlainTypes /\ VendorTypes)
<1>1. Init => VendorTypes
  BY DEF Init, VendorTypes, Idle
<1>2. ASSUME Init PROVE PlainTypes
  <2>1. user \in [Sessions -> Users] /\ handler \in {"null", "made", "stale"}
    BY <1>2 DEF Init, Users
  <2>2. variant \in {"aidl", "aidl2", "hidl"}
    BY <1>2, ServiceAssumption, Zenon DEF Init
  <2> QED
    BY <1>2, <2>1, <2>2, Zenon DEF Init, PlainTypes
<1>3. PlainTypes /\ VendorTypes /\ [Next]_vars => (PlainTypes /\ VendorTypes)'
  BY PlainTyped, VendorTyped
<1> QED
  BY <1>1, <1>2, <1>3, PTL DEF Spec

\* Every reachable state of the two services is well typed.
THEOREM ServiceTypeCorrect == Spec => []TypeOK
<1>1. PlainTypes /\ VendorTypes /\ SessionTypes /\ ServiceInv => TypeOK
  <2> SUFFICES ASSUME PlainTypes, VendorTypes, SessionTypes, ServiceInv PROVE TypeOK
    OBVIOUS
  <2>1. instances \in 0 .. 2
    BY DEF ServiceInv
  <2> QED
    BY <2>1, Zenon DEF PlainTypes, VendorTypes, SessionTypes, ServiceInv, TypeOK
<1> QED
  BY <1>1, TypesAlways, ClosedAlways, ServiceAlways, PTL

----------------------------------------------------------------------------
\* HIDL: the client callback.

\* The vendor thread holds mClientCallbackMutex from its test to its call, so that
\* the callback it calls is the one that is set.
QuietInv ==
    /\ ~replaced
    /\ variant = "hidl" => /\ vendor.at \in {"idle", "inside"}
                           /\ vendor.at = "inside" => vendor.to = slot

LEMMA QuietStep ==
    ASSUME VendorTypes, QuietInv, [Next]_vars PROVE QuietInv'
<1> USE DEF QuietInv, history
<1>1. CASE Restart
  BY <1>1 DEF Restart, Fresh, Idle
<1>2. CASE VendorTests
  BY <1>2 DEF VendorTests, Aidl
<1>3. CASE VendorCalls
  BY <1>3 DEF VendorCalls
<1>4. CASE Aidl /\ VendorNotifies
  BY <1>4 DEF VendorNotifies, Aidl
<1>5. CASE HidlVendorTests
  BY <1>5 DEF HidlVendorTests, Idle
<1>6. CASE HidlVendorNotifies
  BY <1>6 DEF HidlVendorNotifies, Idle
<1>7. ASSUME NEW c \in Clients, SetNotify(c) PROVE QuietInv'
  BY <1>7 DEF SetNotify, MutexFree
<1>8. CASE UNCHANGED <<variant, vendor, slot, replaced>>
  BY <1>8
<1> QED
  BY <1>1, <1>2, <1>3, <1>4, <1>5, <1>6, <1>7, <1>8
     DEF Next, Boot, Binder, Vendor, Hidl, Construct, TryModule, MakeUdfpsHandler,
         Close, FrameworkDies, OnClientDeath, FrameworkStarts, CreateSession,
         EnumerateEnrollments, Cancel, vars

\* Whenever setNotify comes, before, in or after a notification, a client that it
\* has replaced is not called any more.
THEOREM ReplacedClientIsQuiet == Spec => []ReplacedClientQuiet
<1>1. Init => QuietInv
  BY DEF Init, QuietInv, Idle
<1>2. VendorTypes /\ QuietInv /\ [Next]_vars => QuietInv'
  BY QuietStep
<1>3. QuietInv => ReplacedClientQuiet
  BY DEF QuietInv, ReplacedClientQuiet
<1> QED
  BY <1>1, <1>2, <1>3, TypesAlways, PTL DEF Spec

----------------------------------------------------------------------------
\* AIDL: messages to a closed session.

\* A session that was called late is closed, and the message that is under way, if
\* there is one, goes to a session that was not called late: the test found an
\* open one, and mSession can only have moved on to a newer one since.
LateInv ==
    /\ late \in [Sessions -> {0, 1}]
    /\ \A s \in Sessions : late[s] = 1 => closed[s]
    /\ Aidl /\ vendor.at = "tested" => mSession \in Sessions /\ late[mSession] = 0
    /\ Aidl /\ vendor.at = "inside" =>
           vendor.to \in Sessions /\ late[vendor.to] = 0

LEMMA LateStep ==
    ASSUME SessionTypes, ClosedInv, VendorTypes, LateInv, [Next]_vars
    PROVE  LateInv'
<1> USE ServiceAssumption DEF LateInv, history, session, Aidl
<1>1. CASE UNCHANGED <<variant, vendor, late, mSession, closed>>
  BY <1>1
<1>2. CASE Restart
  BY <1>2 DEF Restart, Fresh, Idle, Sessions
<1>3. ASSUME NEW u \in Users, CreateSession(u) PROVE LateInv'
  <2>1. CASE UNCHANGED <<variant, vendor, late, mSession, closed>>
    BY <2>1, <1>1
  <2>2. CASE mSession' = mSession + 1 /\ UNCHANGED <<variant, vendor, late, closed>>
    <3>1. mSession + 1 \in Sessions /\ ~closed[mSession + 1]
      BY <1>3 DEF CreateSession, SessionTypes, ClosedInv, Sessions
    <3>2. late[mSession + 1] = 0
      BY <3>1
    <3> QED
      BY <2>2, <3>1, <3>2
  <2> QED
    BY <1>3, <2>1, <2>2 DEF CreateSession
<1>4. CASE Close \/ OnClientDeath
  <2>1. UNCHANGED <<variant, vendor, late, mSession>>
    BY <1>4 DEF Close, OnClientDeath
  <2>2. \A s \in Sessions : closed[s] => closed'[s]
    BY <1>4 DEF Close, OnClientDeath, CloseSession, SessionTypes
  <2> QED
    BY <2>1, <2>2
<1>5. CASE VendorTests
  <2>1. UNCHANGED <<variant, late, mSession, closed>>
    BY <1>5 DEF VendorTests
  <2>2. CASE vendor' = Idle
    BY <2>1, <2>2 DEF Idle
  <2>3. CASE SessionOpen /\ vendor'.at = "tested"
    <3>1. mSession \in Sessions /\ ~closed[mSession]
      BY <2>3 DEF SessionOpen, SessionTypes, Sessions
    <3> QED
      BY <2>1, <2>3, <3>1
  <2> QED
    BY <1>5, <2>2, <2>3 DEF VendorTests
<1>6. CASE VendorCalls
  <2>1. /\ UNCHANGED <<variant, late, mSession, closed>>
        /\ vendor'.at = "inside" /\ vendor'.to = mSession
        /\ vendor.at = "tested"
    BY <1>6 DEF VendorCalls, VendorTypes
  <2> QED
    BY <2>1
<1>7. CASE Aidl /\ VendorNotifies
  <2>1. /\ vendor' = Idle /\ vendor.at = "inside"
        /\ UNCHANGED <<variant, closed, mSession>>
    BY <1>7 DEF VendorNotifies
  <2>2. vendor.to \in Sessions /\ late[vendor.to] = 0
    BY <1>7, <2>1
  <2>3. \/ late' = late
        \/ late' = [late EXCEPT ![vendor.to] =
                      IF /\ Forwarded(vendor.msg)
                         /\ closed[vendor.to] /\ @ < 2
                      THEN @ + 1 ELSE @]
    BY <1>7 DEF VendorNotifies
  <2>4. /\ late' \in [Sessions -> {0, 1}]
        /\ \A s \in Sessions : late'[s] = 1 => closed[s]
    BY <2>2, <2>3
  <2> QED
    BY <2>1, <2>4 DEF Idle
<1>8. CASE Hidl
  BY <1>8 DEF Hidl, HidlVendorTests, HidlVendorNotifies, SetNotify
<1> QED
  BY <1>1, <1>2, <1>3, <1>4, <1>5, <1>6, <1>7, <1>8
     DEF Next, Boot, Binder, Vendor, Construct, TryModule, MakeUdfpsHandler,
         FrameworkDies, FrameworkStarts, EnumerateEnrollments, Cancel, vars

\* notify tests isClosed() and calls without a lock; however close(), the death of
\* the client and new sessions fall between the two, a closed session passes
\* on at most one vendor message more.
THEOREM LateMessageAtMostOnce == Spec => []OneLateMessage
<1>1. Init => LateInv
  BY DEF Init, LateInv, Idle
<1>2. SessionTypes /\ ClosedInv /\ VendorTypes /\ LateInv /\ [Next]_vars => LateInv'
  BY LateStep
<1>3. LateInv => OneLateMessage
  BY DEF LateInv, OneLateMessage
<1> QED
  BY <1>1, <1>2, <1>3, ClosedAlways, TypesAlways, PTL DEF Spec

=============================================================================
