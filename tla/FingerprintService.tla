------------------------- MODULE FingerprintService -------------------------
(***************************************************************************)
(* The fingerprint services around the vendor library: the AIDL one        *)
(* (Fingerprint, Session, CancellationSignal; with and without IMPL_V2)    *)
(* and the HIDL one (BiometricsFingerprint).  Their constructors, the      *)
(* sessions or the client callback, and the vendor thread that calls       *)
(* notify while the one binder thread works.  The lockout of a session,    *)
(* which close() leaves alone with its timer, is in FingerprintLockout.    *)
(*                                                                         *)
(* The AIDL object leaves mDevice and mUdfpsHandler uninitialised: each    *)
(* may start as a stale pointer, and a call through one crashes the        *)
(* process, as does one through a null mDevice.  The framework closes a    *)
(* session once and before it asks for the next; its death reaches the     *)
(* binder thread before what its successor sends.                          *)
(***************************************************************************)
EXTENDS Naturals, Sequences

CONSTANTS
    Variants,      \* of "aidl", "aidl2" (IMPL_V2) and "hidl"
    Modules,       \* the length of kModules
    MaxSessions,   \* bound: sessions opened
    MaxRemains,    \* bound: templates left over when an enumeration starts
    Clients        \* HIDL client callbacks

ASSUME ServiceAssumption ==
    /\ Variants \subseteq {"aidl", "aidl2", "hidl"} /\ Modules \in Nat \ {0}
    /\ MaxSessions \in Nat \ {0} /\ MaxRemains \in Nat /\ 0 \notin Clients

Stale    == Modules + 1        \* an uninitialised pointer that is not null
Sessions == 1 .. MaxSessions
Users    == {1, 2}

\* FINGERPRINT_ACQUIRED_VENDOR_BASE
VendorBase == 1000

\* The templates of a user, in the order the vendor library lists them.
Templates(u) == IF u = 1 THEN <<1, 2>> ELSE <<>>

\* What it has to send about them: a template 0 if there are none.
Listing(u) == IF Templates(u) = <<>> THEN <<0>> ELSE Templates(u)

VARIABLES
    variant,
    boot,         \* how far the constructor is
    tried,        \* modules tried
    device,       \* mDevice: 0 is null, else the module
    prop,         \* persist.vendor.sys.fp.vendor: 0 is "none"
    handler,      \* mUdfpsHandler
    published,    \* sInstance is set
    instances,    \* service objects constructed
    mSession,     \* 0 is null
    closed,       \* mClosed of each session
    user,         \* mUserId of each session
    framework,    \* "gone", "idle", or "busy" with the session mSession
    obituary,     \* the death of the client of mSession waits on the binder thread
    enrollments,  \* the static vector of notify
    job,          \* what the vendor library has yet to enumerate
    vendor,       \* the vendor thread in notify
    slot,         \* mClientCallback
    \* history
    deleted,      \* AIBinder_DeathRecipient_delete of each session, up to 2
    late,         \* vendor messages each session passed on when closed, up to 2
    replaced      \* a replaced client callback was called

service  == <<boot, tried, device, prop, handler, published, instances>>
session  == <<mSession, closed, user, framework, obituary>>
history  == <<deleted, late, replaced>>
vars == <<variant, service, session, enrollments, job, vendor, slot, history>>

Aidl == variant # "hidl"

\* What the vendor thread holds while it is in notify.
NoMsg == [kind |-> "none", info |-> 0, fids |-> <<>>, last |-> FALSE]
Idle  == [at |-> "idle", msg |-> NoMsg, to |-> 0]

TypeOK ==
    /\ boot \in {"new", "open", "udfps", "ready", "crashed"}
    /\ tried \in 0 .. Modules /\ device \in 0 .. Stale /\ prop \in 0 .. Stale
    /\ handler \in {"null", "made", "stale"}
    /\ published \in BOOLEAN /\ instances \in 0 .. 2
    /\ mSession \in 0 .. MaxSessions
    /\ closed \in [Sessions -> BOOLEAN] /\ user \in [Sessions -> Users]
    /\ framework \in {"gone", "idle", "busy"} /\ obituary \in BOOLEAN
    /\ vendor.at \in {"idle", "tested", "inside"}
    /\ slot \in Clients \cup {0}

\* What a new process starts with; the rest survives it.
Fresh ==
    /\ boot' = "new" /\ tried' = 0 /\ UNCHANGED <<variant, prop>>
    /\ device' \in IF variant = "hidl" THEN {0} ELSE {0, Stale}
    /\ handler' \in IF variant = "hidl" THEN {"null"} ELSE {"null", "stale"}
    /\ published' = FALSE /\ instances' = 0
    /\ mSession' = 0 /\ closed' = [s \in Sessions |-> FALSE]
    /\ user' = [s \in Sessions |-> 1] /\ framework' = "idle" /\ obituary' = FALSE
    /\ enrollments' = <<>> /\ job' = <<>> /\ vendor' = Idle /\ slot' = 0
    /\ deleted' = [s \in Sessions |-> 0] /\ late' = [s \in Sessions |-> 0]
    /\ replaced' = FALSE

Init ==
    /\ variant \in Variants
    /\ boot = "new" /\ tried = 0 /\ prop = Stale
    /\ device \in IF variant = "hidl" THEN {0} ELSE {0, Stale}
    /\ handler \in IF variant = "hidl" THEN {"null"} ELSE {"null", "stale"}
    /\ published = FALSE /\ instances = 0
    /\ mSession = 0 /\ closed = [s \in Sessions |-> FALSE]
    /\ user = [s \in Sessions |-> 1] /\ framework = "idle" /\ obituary = FALSE
    /\ enrollments = <<>> /\ job = <<>> /\ vendor = Idle /\ slot = 0
    /\ deleted = [s \in Sessions |-> 0] /\ late = [s \in Sessions |-> 0]
    /\ replaced = FALSE

Crash == boot' = "crashed"

----------------------------------------------------------------------------
\* The constructors.

\* mutant: sInstance is set once the constructor is done
ConstructUnpublished ==
    /\ boot = "new" /\ instances' = 1
    /\ boot' = IF device # 0 THEN "udfps" ELSE "open"
    /\ UNCHANGED <<variant, tried, device, prop, handler, published, session,
                   enrollments, job, vendor, slot, history>>

\* sInstance = this; an AIDL mDevice that is not null is taken for an open one.
Construct ==
    /\ boot = "new" /\ published' = TRUE /\ instances' = 1
    /\ boot' = IF device # 0 THEN "udfps" ELSE "open"
    /\ UNCHANGED <<variant, tried, device, prop, handler, session, enrollments,
                   job, vendor, slot, history>>

\* openFingerprintHal and openHal return null at the first thing that fails; HIDL
\* wants its version too.
Outcomes == [module : BOOLEAN, open : BOOLEAN, version : BOOLEAN, notify : BOOLEAN]

OpenFingerprintHal(o) == IF o.module /\ o.open /\ o.notify THEN tried + 1 ELSE 0

OpenHal(o) == IF o.module /\ o.open /\ o.version /\ o.notify THEN tried + 1 ELSE 0

LastModule(n) == n = Modules

\* mutant: "none" is not written
PropUnlessFound(d) == IF d # 0 THEN d ELSE prop

\* persist.vendor.sys.fp.vendor after the module tried next gave d.
PropAfter(d) == IF d # 0 \/ LastModule(tried + 1) THEN d ELSE prop

\* One round of the loop over kModules.
TryModule ==
    /\ boot = "open" /\ tried' = tried + 1
    /\ \E o \in Outcomes :
         LET d == IF Aidl THEN OpenFingerprintHal(o) ELSE OpenHal(o) IN
         /\ device' = d /\ prop' = PropAfter(d)
         /\ boot' = IF d # 0 \/ LastModule(tried + 1) THEN "udfps" ELSE "open"
    /\ UNCHANGED <<variant, handler, published, instances, session, enrollments,
                   job, vendor, slot, history>>

\* A UDFPS sensor gets a handler if the factory makes one; a sensor of a type
\* that AIDL does not know is fatal.  HIDL's mIsUdfps is uninitialised when no
\* module opened.
MakeUdfpsHandler ==
    /\ boot = "udfps"
    /\ \/ boot' = "ready" /\ handler' \in {handler, "null", "made"}
       \/ Aidl /\ Crash /\ UNCHANGED handler
    /\ published' = TRUE
    /\ UNCHANGED <<variant, tried, device, prop, instances, session, enrollments,
                   job, vendor, slot, history>>

\* init starts the process again.
Restart == boot = "crashed" /\ Fresh

----------------------------------------------------------------------------
\* AIDL: the binder thread.

CreateSession(u) ==
    /\ Aidl /\ boot = "ready" /\ framework = "idle" /\ ~obituary
    /\ mSession < MaxSessions
    /\ IF \/ mSession # 0 /\ ~closed[mSession]      \* CHECK
          \/ device \notin 1 .. Modules             \* set_active_group
       THEN Crash /\ UNCHANGED session
       ELSE /\ mSession' = mSession + 1
            /\ user' = [user EXCEPT ![mSession + 1] = u]
            /\ framework' = "busy"
            /\ UNCHANGED <<boot, closed, obituary>>
    /\ UNCHANGED <<variant, tried, device, prop, handler, published, instances,
                   enrollments, job, vendor, slot, history>>

\* Session::close()
CloseSession ==
    /\ closed' = [closed EXCEPT ![mSession] = TRUE]
    /\ deleted' = [deleted EXCEPT ![mSession] = IF @ < 2 THEN @ + 1 ELSE @]

Close ==
    /\ Aidl /\ boot = "ready" /\ framework = "busy" /\ framework' = "idle"
    /\ CloseSession
    /\ UNCHANGED <<variant, service, mSession, user, obituary, enrollments, job,
                   vendor, slot, late, replaced>>

FrameworkDies ==
    /\ Aidl /\ boot = "ready" /\ framework # "gone" /\ framework' = "gone"
    /\ obituary' = (mSession # 0)
    /\ UNCHANGED <<variant, service, mSession, closed, user, enrollments, job,
                   vendor, slot, history>>

\* mutant: the death of a client closes its session again
DeathAlwaysCloses == TRUE

DeathCloses == ~closed[mSession]

OnClientDeath ==
    /\ obituary /\ boot = "ready" /\ obituary' = FALSE
    /\ IF DeathCloses THEN CloseSession ELSE UNCHANGED <<closed, deleted>>
    /\ UNCHANGED <<variant, service, mSession, user, framework, enrollments, job,
                   vendor, slot, late, replaced>>

FrameworkStarts ==
    /\ framework = "gone" /\ framework' = "idle"
    /\ UNCHANGED <<variant, service, mSession, closed, user, obituary, enrollments,
                   job, vendor, slot, history>>

\* enumerateEnrollments: a vendor library that is still enumerating refuses.
EnumerateEnrollments ==
    /\ Aidl /\ boot = "ready" /\ framework = "busy" /\ job = <<>>
    /\ Len(enrollments) <= MaxRemains
    /\ job' = Listing(user[mSession])
    /\ UNCHANGED <<variant, service, session, enrollments, vendor, slot, history>>

\* CancellationSignal::cancel, Session::cancel: the handler, then the device.
Cancel ==
    /\ Aidl /\ boot = "ready" /\ framework = "busy"
    /\ IF handler = "stale" THEN Crash /\ UNCHANGED job
       ELSE job' \in {<<>>, job} /\ UNCHANGED boot
    /\ UNCHANGED <<variant, tried, device, prop, handler, published, instances,
                   session, enrollments, vendor, slot, history>>

----------------------------------------------------------------------------
\* The vendor thread.

\* GOOD to TOO_FAST are known.
VendorAcquiredFilter(info) ==
    IF info <= 5 THEN "known" ELSE IF info >= VendorBase THEN "vendor" ELSE "unknown"

\* HIDL calls an unknown one INSUFFICIENT.
HidlAcquiredFilter(info) == IF info >= VendorBase THEN "vendor" ELSE "known"

\* The next message: one about the enumeration (IMPL_V2 has all templates in one
\* and reads them up to the first 0), a finger acquired or authenticated, of
\* which the handler hears too, or any other.
Messages ==
    [kind : {"acquired"}, info : {0, VendorBase - 1, VendorBase}, fids : {<<>>},
     last : {FALSE}]
    \cup [kind : {"authenticated", "plain"}, info : {0}, fids : {<<>>}, last : {FALSE}]
    \cup (IF job = <<>> \/ ~Aidl THEN {}
          ELSE IF variant = "aidl2"
          THEN {[kind |-> "enumerating", info |-> 0,
                 fids |-> IF job = <<0>> THEN <<>> ELSE job, last |-> TRUE]}
          ELSE {[kind |-> "enumerating", info |-> 0, fids |-> <<Head(job)>>,
                 last |-> Len(job) = 1]})

\* The message is passed on to the framework.
Forwarded(m) ==
    CASE m.kind = "enumerating" -> m.last
      [] m.kind = "acquired"    -> "vendor" # IF Aidl THEN VendorAcquiredFilter(m.info)
                                              ELSE HidlAcquiredFilter(m.info)
      [] OTHER                  -> TRUE

\* The vendor library knows notify, and the process lives.
Registered == device \in 1 .. Modules /\ boot \in {"udfps", "ready"}

\* mutant: mClosed is not looked at
SessionThere == published /\ mSession # 0

SessionOpen == published /\ mSession # 0 /\ ~closed[mSession]

\* Fingerprint::notify tests mSession and isClosed().
VendorTests ==
    /\ Aidl /\ Registered /\ vendor = Idle
    /\ \E m \in Messages :
         /\ job' = IF m.kind = "enumerating"
                   THEN IF m.last THEN <<>> ELSE Tail(job)
                   ELSE job
         /\ vendor' = IF SessionOpen
                      THEN [at |-> "tested", msg |-> m, to |-> 0] ELSE Idle
    /\ UNCHANGED <<variant, service, session, enrollments, slot, history>>

\* It reads mSession again for the call.
VendorCalls ==
    /\ Registered /\ vendor.at = "tested"
    /\ vendor' = [vendor EXCEPT !.at = "inside", !.to = mSession]
    /\ UNCHANGED <<variant, service, session, enrollments, job, slot, history>>

\* What is left in the vector once a message is in it and, if it is the last,
\* the vector is reported.  IMPL_V2 has none.
Enumerated(m) ==
    IF variant = "aidl2" THEN enrollments
    ELSE IF m.last THEN <<>> ELSE enrollments \o m.fids

\* Session::notify, with all the callbacks it makes for one message.
VendorNotifies ==
    /\ Registered /\ vendor.at = "inside" /\ vendor' = Idle
    /\ LET m == vendor.msg
           s == vendor.to IN
       IF m.kind \in {"acquired", "authenticated"} /\ handler = "stale"
       THEN Crash /\ UNCHANGED <<enrollments, late>>
       ELSE /\ UNCHANGED boot
            /\ late' = [late EXCEPT ![s] = IF Forwarded(m) /\ closed[s] /\ @ < 2
                                           THEN @ + 1 ELSE @]
            /\ enrollments' = IF m.kind = "enumerating" THEN Enumerated(m)
                              ELSE enrollments
    /\ UNCHANGED <<variant, tried, device, prop, handler, published, instances,
                   session, job, slot, deleted, replaced>>

----------------------------------------------------------------------------
\* HIDL: setNotify and notify exclude each other by mClientCallbackMutex, which
\* the vendor thread holds while it is "inside".

\* mutant: setNotify does not take the mutex
MutexIgnored == TRUE

MutexFree == vendor.at = "idle"

SetNotify(c) ==
    /\ variant = "hidl" /\ boot = "ready" /\ MutexFree
    /\ slot' = c
    /\ UNCHANGED <<variant, service, session, enrollments, job, vendor, history>>

\* getInstance() constructs a service if there is none.
GetInstance ==
    /\ instances' = IF published \/ instances = 2 THEN instances ELSE instances + 1
    /\ published' = TRUE

HidlVendorTests ==
    /\ variant = "hidl" /\ Registered /\ vendor.at = "idle"
    /\ GetInstance
    /\ \E m \in Messages :
         vendor' = IF slot = 0 THEN Idle ELSE [at |-> "inside", msg |-> m, to |-> slot]
    /\ UNCHANGED <<variant, boot, tried, device, prop, handler, session,
                   enrollments, job, slot, history>>

HidlVendorNotifies ==
    /\ variant = "hidl" /\ Registered /\ vendor.at = "inside" /\ vendor' = Idle
    /\ replaced' = (replaced \/ (Forwarded(vendor.msg) /\ vendor.to # slot))
    /\ UNCHANGED <<variant, service, session, enrollments, job, slot, deleted,
                   late>>

----------------------------------------------------------------------------

Boot == Construct \/ TryModule \/ MakeUdfpsHandler \/ Restart

Binder == Close \/ FrameworkDies \/ OnClientDeath \/ FrameworkStarts
          \/ EnumerateEnrollments \/ Cancel \/ \E u \in Users : CreateSession(u)

Vendor == VendorTests \/ VendorCalls \/ (Aidl /\ VendorNotifies)

Hidl == HidlVendorTests \/ HidlVendorNotifies \/ \E c \in Clients : SetNotify(c)

Next == Boot \/ Binder \/ Vendor \/ Hidl

Spec == Init /\ [][Next]_vars

----------------------------------------------------------------------------
\* Properties.

\* The property that selects vendor code names the module that was opened, or
\* "none" if none was; only a stale mDevice leaves it as the last boot set it.
VendorPropTruthful ==
    boot = "ready" /\ device # Stale => prop = device

\* A vendor library that calls back from set_notify on, while the constructor
\* runs, finds that instance: getInstance() never makes a second one.
OneInstance == instances <= 1

\* close() by the framework, by its death or by both in any order closes a
\* session and deletes its death recipient once: the CHECK of createSession ("Open
\* session already exists!") never fires for a framework that closes its sessions
\* or dies, and no recipient is deleted twice.
ClosedOnce ==
    /\ Aidl /\ boot = "ready" /\ framework = "idle" /\ ~obituary /\ mSession # 0
         => closed[mSession]
    /\ \A s \in Sessions : deleted[s] <= 1

\* notify tests isClosed() and calls later, so a closed session may still pass
\* a vendor message on, with all the callbacks that message causes, but only the
\* one that was under way.
OneLateMessage == \A s \in Sessions : late[s] <= 1

\* A HIDL client is not called once setNotify has replaced it.
ReplacedClientQuiet == ~replaced
=============================================================================
