# TLA+ models of the Xiaomi hardware services

This directory holds TLA+ specifications of the services in this repository,
TLC configurations that check them on small instances, and TLAPS proofs.
`PROJECT.json` lists the components, the runs, the mutants that show each
property can fail, the map from definitions to source lines, the findings, the
hazards and the theorems.

## 1. Inventory

| Component | State it keeps | Operations | What is hard |
|---|---|---|---|
| Keyboard controller (`aidl/keyboard/KeyboardController`) | last status, sleep and two Hall states with time stamps; cached gate and touch state | `start`, `stop`, `queryLoop`, `updateInputGate`, data, error and Hall callbacks | four threads, two mutexes, writes to sysfs and the firmware between critical sections, timeouts, crash and restart |
| Nanoapp device (`NanoappDevice`) | the device fd, stop flag and pipe | reader thread, `writeCommand`, open, close, `stop` | device loss under an open fd, join while a callback runs |
| Hall input monitor (`HallInputMonitor`) | switch snapshot, stop flag | monitor thread, `stop` | rescans, refresh of an unchanged snapshot |
| Keyboard binder service (`KeyboardNanoapp`) | one client callback | `sendCmd_aidl`, `setCallback_aidl`, `sendData`, `sendError`, `clearDeadCallback` | replacement and death of the callback during a delivery |
| Keyboard protocol (`Protocol`) | none | framing and parsing of frames | lengths and offsets in a reused read buffer, two framings of a client command |
| Keyboard test client (`keyboard_client`) | the frames, responses and last error its callback collected | one request and its wait | answers in parts, late, mixed with errors |
| Fingerprint lockout (`aidl/fingerprint/Session`, `LockoutTracker`) | failure count, mode, start time, two timer flags | `authenticate`, `resetLockout`, `notify`, detached timers | three kinds of thread without a lock, timers outliving their lockout, uninitialised members |
| Fingerprint session and service (`Session`, `Fingerprint`, `CancellationSignal`) | the current session, its closed flag, a static enumeration list | `createSession`, `close`, client death, `cancel`, enrolment, enumeration and removal notifications | notify racing close, data of one session seen by the next |
| Sensors multi-HAL proxy (`aidl/sensors/HalProxy`) | event and wakelock queues, pending writes, reference count, operation mode, table of dynamic sensors | `initialize`, `postEventsToMessageQueue`, pending-writes and wakelock threads, `setOperationMode` | blocking writes with the lock dropped, wakelock timeouts, notification without the mutex, partial failure |
| Sensors sub-HALs (`sensors/v2`, `sensors/lcd`, `sensors/v1`) | enabled flag, mode, wait pipe, lid switch | activate, mode, the sensor thread; batch does nothing and flush is refused | one thread that waits on a condition variable or polls on a pipe, events posted with a lock held |
| Fingerprint HIDL 2.3 (`hidl/biometrics`) | the vendor device, one client callback | constructor, `setNotify`, `notify` | callbacks during construction, replacement of the callback |
| HIDL wrappers (`hidl/sensors`, `hidl/touchfeature`) | a vendor module handle, per-mode touch values | forwarding calls | little: each call is one request |
| Touch services, vibrator effects, apps | a file, a table, eSIM switching state | single calls | retries in the eSIM controller |

The keyboard components form one process: `KeyboardNanoapp` owns a
`KeyboardController`, which owns the device and the Hall monitor and is called
back on their threads; data and errors go on to the binder client's callback.
The fingerprint service creates one session at a time; the vendor library calls
`Fingerprint::notify`, which forwards to that session. The multi-HAL proxy loads
sub-HALs that post events to it on their own threads.

What makes each of them correct:

* gate: the Linux input devices are registered only on fresh, consistent
  evidence that an awake keyboard is attached and the covers are open, they
  are registered when that evidence is there, and a stopped, stale or crashed
  service leaves or puts them away; touch reports only flow into a registered
  device;
* query loop: at most one identity request per connection;
* binder service: a notification goes to the callback registered at that
  moment, and no call hangs;
* lockout: none is imposed early, no failed attempt is forgotten without a reset
  or a success, and the timer of a timed lockout ends it;
* sensor events: they reach the framework in the order of posting and at most
  once, whatever thread writes them; the kernel wakelock is held while a wake-up
  event is on its way and is never leaked;
* protocol and client: a parser uses only bytes of this read that the checksum
  covers, and both ends agree on the framings;
* fingerprint services: one service object, sessions closed exactly once, a
  closed session or a replaced client left alone by the vendor library but for the
  message that was under way;
* proxy life cycle: a re-initialisation gets through, replaces the queues while
  nobody uses them, and leaves neither backlog nor wakelock count unwatched; a
  sensor's thread heeds its mode; a refused operation mode is rolled back.

## 2. Modules

| Module | Models |
|---|---|
| `KeyboardController` | the input gate with all threads that reach it |
| `MCKeyboardController` | its instances for TLC: which kinds of report arrive |
| `KeyboardControllerProofs` | proofs about it |
| `KeyboardProtocol` | the parsers and framings of `Protocol.cpp`, as operators |
| `KeyboardQuery` | the commands of `queryLoop`, its local variables and the frames it provokes |
| `KeyboardClient` | composes the query loop and the reader with one run of the test client |
| `MCKeyboardClient` | its instance for TLC: frames and raw commands at the sizes that matter |
| `KeyboardClientProofs` | proofs about the protocol, the query loop and the client |
| `CallbackRegistry` | abstract: one atomic callback slot |
| `KeyboardNanoapp` | the binder service; implements `CallbackRegistry` |
| `KeyboardNanoappProofs` | proofs about it, the refinement included |
| `FingerprintLockout` | lockout, tracker and timers of one session |
| `FingerprintLockoutProofs` | proofs about it |
| `FingerprintService` | the AIDL and HIDL fingerprint services around the vendor library |
| `FingerprintServiceProofs` | proofs about them |
| `EventChannel` | abstract: one FIFO of events that may lose some |
| `HalProxyEvents` | event path and shared wakelock of the multi-HAL proxy; implements `EventChannel` |
| `HalProxyEventsLemmas` | lemmas about its operators, for sequences of any length |
| `HalProxyEventsProofs` | proofs about it, the refinement included |
| `SubHalSensor` | a one-shot gesture sensor of the sub-HALs and its thread |
| `HalProxyLifecycle` | composes that sensor with the proxy through initialize and operation modes |
| `MCHalProxyLifecycle` | its instance for TLC: what the state node holds |
| `HalProxyLifecycleProofs` | proofs about the two |

### KeyboardController

Threads are `main` (`start`, `stop`), `query` (`queryLoop`), `reader`
(`NanoappDevice::run` with the data and error callbacks) and `hall`
(`HallInputMonitor::run` with its callback). `pc` says where each one is.
A block under `mStateMutex` is one step. `updateInputGate` is split at every
point where another thread can interleave: `GateEnter` (lock `mGateMutex`,
re-read the state, decide), `TouchOff` and `TouchOffDone` (send 0x21 0, record
it), `Sysfs` and `SysfsDone` (write `_inputenable`, record it), `TouchOn` and
`TouchOnDone`. `op` holds its locals and `ret` the caller's continuation.

Data is reduced to what decides the gate. A status is none, disconnected or
connected; sleep is unknown, asleep or awake; a Hall state is none, closed or
open (open is 0x11, both switches). The three time stamps become `fresh`, the
sources updated within `kStatusTimeout`; `Expire` is six seconds passing. The
`changed` flags only choose log lines and are left out, as are the reports that
only fill caches nobody reads (versions, GSensor, acknowledgements).

The world outside is explicit: what the driver holds in `_inputenable`
(`kernelGate`), whether the firmware reports touches (`hwTouch`), whether the
node behind the fd is alive, and whether the last sleep report said "asleep".
`DeviceLost`, `ClientToggle` (a client's own 0x21), failing writes and `Crash`
are switched by constants. A crash keeps what the driver and the firmware hold
and restarts the process.

### KeyboardProtocol, KeyboardQuery and KeyboardClient

A frame keeps what the parsers test: the route that its header names (`kind`),
the number of bytes read, the declared length, whether the checksum fits, and
two bits for the value bytes. Each `parse...` function is the operator of its
name; `Consumed` is the set of byte offsets that an accepted frame's parser
reads, `Authenticated` those of this read that its checksum vouches for. A
client's command keeps its size and its first three bytes, which is all that
`validRawCommand` (client) and `decodeClientCommand` (service) look at.

`KeyboardQuery` is the query loop seen from its commands: the sleeping flag is
read at the top, the connection is sampled after the Hall query, GSensor and
version queries go out on every `GsensorPeriod`th and `VersionPeriod`th pass (5
and 15 in the code), and `identityQueried` holds the result of the last identity
request. `queryCount` is kept modulo `VersionPeriod`, which is all the code looks
at. The reader's frames come at any point of a pass; a debug packet goes no further
than the controller.

`KeyboardClient` adds `keyboard_client`: `main()` registers its callback, sends
one request (a query, a feature, a switch or a raw command), and waits for what
it requires, for an error or for the timeout. The callback's steps are joined to
those of the reader that forwards to it. Wrong arguments are a choice.

### KeyboardNanoapp and CallbackRegistry

`CallbackRegistry` is the promise: `Register`, `Deliver` and `Drop` are atomic.
`KeyboardNanoapp` has the code's steps: lock `mDispatchMutex` and copy the
callback (`Copy`), call it (`Call`), drop it if the client was dead
(`ClearDead`), unlock (`Leave`); `Install` is `setCallback_aidl` with both
locks. The refinement mapping is the identity on the callback slot and the last
delivery.

### FingerprintLockout

The binder thread (`authenticate`, `resetLockout`), the vendor thread
(`notify`) and up to `MaxTimers` detached timers. Each access to a shared
member and each callback is a step, because no lock joins them, and the steps of
the handlers come in any order. A thread reads `mFailedCount` and writes it back
(`NotifyFailed`, `AddCount`), decides (`Lock`), and `getMode` reads the mode,
compares the clock, perhaps clears and reads again (`GetMode`, `Expire`, `Reread`).
`mCurrentMode` and `mLockoutTimedStart` have no initialiser: `Init` allows every
mode, also a lockout ("garbage" is a value outside the enumeration), and a start
time now, long ago or far in the future. `mLockoutTimedStart` is kept as what is
left of the lockout (`period`), and a timer sleeps until that is over. `told`
records the last of `onLockoutTimed`, `onLockoutPermanent` and `onLockoutCleared`;
a successful authentication counts as telling the framework that the sensor is
usable. `failures` and `since` count the failed attempts of the session and of the
time since `mFailedCount` was last cleared; `initial` is what the constructor left.

### FingerprintService

Three variants: the AIDL service, the same built with `IMPL_V2`, and the HIDL
service. The constructor is a step for `sInstance`, one for each module tried
(`TryModule`, in which opening fails at any of its steps) and one for the UDFPS
handler. `mDevice` and `mUdfpsHandler` of the AIDL object have no initialiser: each
starts null or `Stale`, and a call through a stale or null pointer crashes the
process, which init restarts (`Restart`). One binder thread runs `CreateSession`,
`Close`, `OnClientDeath`, `EnumerateEnrollments` and `Cancel`. The vendor thread
tests the session (`VendorTests`), reads the pointer again for the call
(`VendorCalls`) and runs `Session::notify` (`VendorNotifies`), so that all the
others can come in between; in HIDL it holds `mClientCallbackMutex` throughout.
The framework closes a session before it asks for the next, may die at any time,
and its death is delivered before its successor calls. A session that is replaced
stays a valid object in the model (see section 5). One user has two templates, the
other none, for whom the library sends a template 0. Templates, messages and
acquired codes are reduced to those the code tells apart, with the codes next to
`FINGERPRINT_ACQUIRED_VENDOR_BASE`.

### HalProxyEvents and EventChannel

Sub-HAL threads (`Posters`) create a scoped wakelock (`CreateWakelock`), have
their batch processed (`Process`: pickup events may be suppressed, and a wakelock
that nothing needs any more is given back), count its wake-ups under
`mEventQueueWriteMutex` (`PostCount`), write what fits, or nothing if the write
fails, and queue the rest (`PostWrite`), and destroy the wakelock (`Release`). The
pending-writes thread takes the front entry and drops the mutex (`WriterTake`),
writes it or fails after the timeout (`WriterWrite`, `WriterFail`,
`WriterUncount`) and locks again to remove it (`WriterDone`). The wakelock thread
looks at the timeout (`WakerLook`), waits for an answer of the framework without
its mutex (`WakerRead`, `WakerReadTimeout`) and counts it (`WakerCount`). The
framework reads events and answers for wake-ups (`FrameworkRead`, `FrameworkAck`),
or does neither.

An event is its number in the order of posting and whether its sensor wakes the
device. `mWakelockTimeoutStartTime` is the flag `expired`, cleared by every
increment; a scoped wakelock created before the last reset is `stale`, which is
what the comparison with `mWakelockTimeoutResetTime` finds out. `held` is the
kernel wakelock. The proxy is initialised and its threads run: `initialize` and
`stopThreads` are in `HalProxyLifecycle`. In `EventChannel`, events
are accepted in batches, lost in runs and taken in order; the refinement mapping
is the event queue followed by the backlog, without the part of the front entry
that the writer has dealt with but not yet removed.

### SubHalSensor and HalProxyLifecycle

The sensor's thread is at its loop, in its wait, in `poll()`, past it, or in one of
the four steps of a post. It holds `mRunMutex` everywhere but in the wait and in
`poll()`, so `activate` and `setOperationMode` are single steps that need the
thread out of a post. The wait pipe is counted up to `PipeMany`, from which on
reading a byte may leave it as full. The base constructor starts the thread before
the derived object exists: `Loops` gives both `run()` functions it may enter. A
failing `poll` stops the thread. What the state node holds is a sequence of
numbers, parsed as `readFd` does.

`HalProxyLifecycle` runs `initialize` in the code's order: `mThreadsRun` is
cleared, the event queue drained (`Drain`), the condition variables notified
without their mutexes (`NotifyStop`), both threads joined, the sensors disabled,
the backlog cleared and the queues replaced (`Clear`), the threads started
(`Launch`), the sub-HALs initialised. A thread of the proxy that has tested
its predicate and not begun to wait is `"tested"` and does not hear a
notification. `mThreadsRun` is also read before `mWakelockMutex` is locked, so an
increment that initialize overtakes may still count (`MayCount`) or be refused. A
post by the sensor's thread takes a scoped wakelock (`PostCreate`), returns if the
threads do not run (`PostCheck`), enqueues (`PostEnqueue`) and gives the wakelock
back (`PostRelease`). `SetOperationMode` asks the sensor's sub-HAL, then the
others, of which one may refuse. `batch` and `flush` of a one-shot sensor are an
empty function and `BAD_VALUE`, and no sub-HAL of the repository has dynamic
sensors: neither is modelled.

## 3. Runs

| Run | Shows |
|---|---|
| `keyboard_gate` | all kinds of report, a client's own touchpad commands, crashes: `GateJustified` and `GateOpensWhenAllowed` say that a quiescent controller has the gate open only, and always, on current evidence; `ForcedClosed` that `start()` and `stop()` close it; `TouchAfterRegister` that touch is never turned on before the device is registered |
| `keyboard_live` | writes to `_inputenable` may fail: stale status and stale Hall data close the gate (`StaleDataClosesGate`), `stop()` returns, and a quiescent controller has touch on only behind a registered device |
| `keyboard_query` | at most one successful identity request per connection that the loop samples; no parser uses a byte that is not of this read or not covered by its checksum (`PaddingUnused`); what the client accepts as a raw command the service accepts (`RawFormsAgree`) |
| `keyboard_nanoapp` | a delivery under way holds the registered callback; refinement of `CallbackRegistry`; every call returns |
| `fp_lockout` | every overlap of the handlers, every content of the uninitialised members: no lockout is set or reported before its threshold, except one found in the memory (`LockoutEarned`); every failed attempt since the last reset or success stays counted, through timed lockouts and their timers (`AttemptsKept`); a lockout that has a timer ends, unless the timer was aborted (`TimerEndsLockout`) |
| `fp_service` | whatever module fails to open, the vendor property names the open one; the vendor's callbacks during construction find the one instance; close and death together close a session once; a closed session passes on at most one more message of the vendor library (`OneLateMessage`); a replaced HIDL client is not called |
| `sensors_events` | the event queue and the backlog implement one FIFO (`ImplementsChannel`); `mSizePendingWriteEventsQueue` is exact; the kernel wakelock is held exactly while the count is positive; without timeouts the count covers every wake-up event in the queues, with the framework or in an answer not yet counted (`RefCovers`) |
| `sensors_live` | the backlog drains and the wakelock is released, even if the framework never reads |
| `sensors_lifecycle` | a re-initialisation gets as far as the new threads, unless a notification was lost (`ReinitializeProceeds`); a thread that is joined was woken, or was in the gap between its test and its wait; no post is on its way into the queues while they are replaced (`QueuesReplacedSafely`); neither backlog nor count is left to a sleeping thread; the sensor's thread neither sleeps while armed nor stays in `poll()` while disarmed; the sensor posts once per activation; a refused mode is rolled back |

Runs that refute what the documentation says (see `findings`):

| Run | Shows |
|---|---|
| `keyboard_sleep_wiped` | the wipe of a closed device can erase the sleep report of the reopened one; the gate then opens for a sleeping keyboard |
| `keyboard_touch_cache` | the touch state is committed after a device error reset it; touch stays off on the reopened device |
| `fp_lockout_clears` | without any overlap of handlers: a lockout that begins while the aborted timer of the previous one still sleeps is never reported as cleared |

Bounds. The gate model is finite as it stands; `Inputs` selects the kinds of
report so that each run stays near two million states. `keyboard_gate` has all
of them, crashes and toggles, and writes that succeed; `keyboard_live` a tablet
without gpio-keys, where the Hall reply is the only source, and failing sysfs
writes. Failing writes to the device (`WriteMayFail`) and every mix of the faults
are covered by the proofs of `GateJustified`, `GateOpensWhenAllowed` and
`ForcedClosed`.
`keyboard_query` has periods 1 and 2 in place of 5 and 15, so that passes with and
without the rare queries alternate, one frame just large enough and one just too
small for each parser, and raw commands around the limits 66 and 68.
`keyboard_nanoapp` has two binder threads, two callbacks and two frames: enough
for a replacement and a death during a delivery and for frames in sequence; it
needs no symmetry, and liveness would not allow it. `fp_lockout` has the
thresholds 1 and 2 in place of 5 and 20, the least at which a timed lockout and a
permanent one follow each other, so that three kinds of thread can be interleaved
access by access; the count stops at the permanent threshold, where the mode no
longer changes, and there are two timers, one more than the code intends.
`fp_lockout_clears` looks for its violation in `OrderlySpec`, the behaviours in
which at most one handler is under way and the tracker's memory was zero, so that
no race has a part in it. `fp_service` has two modules, three sessions of two
users with two templates and none, and one template left over when an enumeration
starts: enough for a session that inherits the remains of a cut one.
`sensors_events` has two posters, batches of up to two events, three
events in all, an event queue of one and a backlog of two: enough for a batch
that is split between queue and backlog, an entry larger than the event queue
that takes two writes, a poster arriving during each of them, and a full backlog
that drops; `sensors_live` has the same with one poster.
`sensors_lifecycle` has an event queue, a backlog, a count and a wait pipe of one,
which reaches full queues, a dropped event, failed writes and bytes left over from
earlier interrupts. Deadlock is checked
except in the gate runs, which end when `stop()` has returned, and in the runs of
`HalProxyEvents`, where the sub-HALs may fall silent.

Fairness. A thread that can take a step eventually does (weak fairness of each
loop): the OS schedules runnable threads, every `wait_for` and retry has a
timeout, and the stop pipe wakes both polls. The mutexes get strong fairness
(`GateEnter`, `Copy`, `Install`): the bodies under them are short and a waiter is
not starved for ever. In `FingerprintLockout` time passes (`Elapse`) and each
timer thread runs; of the binder and vendor threads `TimerSpec` assumes nothing,
and `OrderlySpec` that a handler which has begun goes on. In `HalProxyEvents`
every thread runs on, the event queue's mutex starves neither a poster nor the
writer (strong fairness of `PostCount`, `WriterTake`, `WriterDone`), and time
passes (`Expire`, the two timeouts of the blocking calls); nothing is assumed of
the framework. In `HalProxyLifecycle` the binder thread goes on with its call, the
proxy's threads and a post under way run, and `mRunMutex` and the proxy's mutexes
do not starve who waits for them (strong fairness of `Disable` and `Post`);
spurious wake-ups are allowed and not assumed. Never assumed: that a report
arrives, that a write succeeds, that a client calls, that `stop()` is called, or
that a device is lost or comes back.

## 4. Proofs

All theorems hold for every value of the constants that their assumptions
allow; they are checked from nothing by TLAPS.

* `KeyboardControllerProofs`: `TypeCorrect`, `GateInvariant`,
  `GateIsJustified`, `ForcedUpdatesClose`. `GateJustified` is not inductive,
  since it says nothing while an update is under way. `GateInv` adds: the
  holder of `mGateMutex` is the one thread inside `updateInputGate`
  (`LockInv`); which threads run at each point of `start()` and `stop()`
  (`ThreadInv`); a holder that decided "closed" either still has to write it or
  the gate is closed, and one that decided "open" has evidence or a thread is
  waiting that will decide again (`ClosedInv`); an open gate is known to be
  open or about to be recorded (`CacheInv`); and an open gate has evidence, or
  a failed write, or someone waiting or working to close it (`EvidenceInv`).
  The argument is that every step that destroys evidence also makes its thread
  call `updateInputGate`. The proof takes each conjunct through each action
  (`LockStep`, `ThreadStep`, `ClosedStep`, `CacheStep`, `EvidenceStep`,
  `ForcedStep`).
  `GateOpens` is the other direction and needs a second invariant on top of
  `GateInv`, `OpenInv` (theorem `OpenInvariant`). The danger is a closed gate
  that the members call open, which `updateInputGate` would leave as it is. It
  exists when the device is lost, because the driver closes the gate then, and
  `StaleInv` says that it does not outlive that device: the reader clears the
  status, has to get through `updateInputGate` and only then closes the fd
  (`ReopenInv`), and that update leaves the members saying "closed" (`DoneInv`).
  `KeptInv` says what an opening update leaves behind, `AllowedInv` that a gate
  which should be open is, or that an update which opens it waits or works.
  `TouchBehindGate` assumes that commands to a live device are written and that
  no client sends 0x21 itself; sysfs writes may fail. It needs that what the
  members call off is off (`TouchCacheInv`) and that touch is off before a closing
  update writes to sysfs and before the reader closes the device (`TouchOffInv`).
  `TouchWaitsForGate` is the action property, for sysfs writes that succeed:
  whichever thread runs `updateInputGate`, it sends 0x21 1 only from a decision
  whose gate is open by then (`HardwareStep`, `KeptInv`). Section 5 says what
  happens without these assumptions.
* `KeyboardNanoappProofs`: `TypeCorrect`, `CopyStaysCurrent` and `Implements`,
  for any number of binder threads, callbacks and frames. `CopyIsCurrent` is
  inductive together with the types, and gives the step simulation: `Install`
  is `Register`, `Call` is `Deliver`, an effective `ClearDead` is `Drop`, all
  else stutters.
* `FingerprintLockoutProofs`: `TypeCorrect`, `LockoutIsEarned` and
  `FailedAttemptsKept`, for all thresholds, any number of timers, every content of
  the uninitialised members and every overlap of the handlers. `EarnedInv` says
  that every copy of the count and of a decision that a thread holds is covered by
  failures that happened, or is the lockout found in the memory. `AttemptsInv`
  follows the count through the read and the write of `mFailedCount++`: what the
  vendor thread holds in between is no less than the attempts it stands for,
  because a reset that overlaps clears both sides.
* `HalProxyEventsProofs`: for any finite set of sub-HAL threads, all queue sizes
  and all batches. For `WakelockFollowsCount`, `HeldIffCounted` is not inductive:
  an increment by zero at a count of zero acquires the lock without counting
  anything, so the invariant adds that a poster about to count has a locked scoped
  wakelock only if its batch still has a wake-up event (`LockedForWake`). That is
  what lines 51-56 of `HalProxyCallback.cpp` establish, and the mutant that keeps
  the lock of a suppressed event breaks it. `HeldInv` is the conjunction of this,
  the types of what is counted (`CountTypes`) and the property. A poster writes
  what fits or, when the write fails, nothing (`PostWrites`). `SizeIsAccurate`
  needs that the entry which the writer took is still the front of the backlog
  when it locks again (`CountTypes`, in `SizeInv`): removing what was written then
  takes as much from the counter as from the backlog. It also bounds the backlog,
  which `EventsTypes` states. `EventsFormOneQueue` is the refinement of
  `EventChannel`: a post is `Accept` of its whole batch, whether it is written,
  queued, split or dropped; a write of the pending-writes thread stutters, because
  the mapping already leaves out what it has written and not removed; a failed
  write loses a run. `CountCoversEvents` needs what the count stands for besides
  the events themselves: one for each locked scoped wakelock and the batch between
  `PostCount` and `PostWrite` (`Counted`); and that a poster without a locked
  wakelock has no wake-up event left (`PlainUnlocked`). `RefInv` puts these
  together. `FlattenSeq`, `SumOf` and `NumWake` are recursive or count over a
  sequence; `HalProxyEventsLemmas` proves what they compute when a queue grows at
  its end or is cut at its front. Its induction (`SetInduction`) is over a set of
  natural numbers and comes from `WFMin`, the minimal element of a well-founded
  relation, so that no operator has to be instantiated.
* `KeyboardClientProofs`: for every set of frames and raw commands, every
  `GsensorPeriod` and every `VersionPeriod`. `PaddingIsUnused` and
  `RawFormsAlwaysAgree` rest on two lemmas about operators
  (`ConsumedIsAuthenticated`, `FormsAgree`), that is, on the tests of the parsers
  alone. `IdentityAskedOnce` needs `IdentityInv`: from the sample on, a pass that
  has not asked yet is of a connection that was not asked, because losing the
  connection resets the count and only the sample resets `identityQueried`.
  `QueryTypeCorrect` and `ClientTypeCorrect` are the types.
* `FingerprintServiceProofs`: for any number of modules, sessions, users and
  clients. `SessionsClosedOnce` needs that a session's recipient is deleted exactly
  when it is closed, that sessions not yet created are not closed, and that the
  current one is open while the framework is busy or its death is still to be
  delivered (`ClosedInv`). `VendorPropIsTruthful` and `OneInstanceOnly` follow from
  `ServiceInv`, which follows the constructor: `sInstance` is set before anything
  is opened, and the property is written with each attempt.
  `ServiceTypeCorrect` is the types.
  `ReplacedClientIsQuiet`: the HIDL vendor thread holds `mClientCallbackMutex`, so
  the callback it is in is the one that is set (`QuietInv`).
  `LateMessageAtMostOnce`: the notification under way goes to a session that passed
  on nothing late before, since its test found an open one and `mSession` only
  moves on to newer ones (`LateInv`).
* `HalProxyLifecycleProofs`: for all queue sizes, and any number of
  initialisations. Each property has a strengthening of its own: the sensor's mode
  at every step of the binder thread (`ModesInv`, for `ModesAlwaysAgree`); a thread
  that has tested its predicate counts as asleep (`WatchedInv`, for
  `WorkIsWatched`); the pipe has a byte whenever `poll` reports it (`HeedsInv`, for
  `SensorAlwaysHeedsMode`); a polling thread was activated and a posting one is
  disarmed (`EarnedInv`, for `OnePostEach`); `mThreadsRun` stays clear until the
  joins are over, so that no thread goes back to its wait (`JoinedInv`, for
  `JoinedWereWoken`); until the new threads run `mThreadsRun` is clear, so that a
  post which starts now turns back, and `disableAllSensors` takes `mRunMutex`, which
  a post that had passed the test still holds (`ReplacedInv`, for
  `QueuesAreReplacedSafely`). `LifecycleTypes` needs more than
  types: the writer at its write has a backlog to take from, and has ended before
  `initialize` empties it (`QueueInv`); a byte that `poll` reported is still in
  the pipe (`SensorInv`).

Every invariant, the action property and both refinements that the passing runs
check are stated by a theorem. Only model-checked are the seven liveness properties
(`StaleDataClosesGate`, `StopTerminates`, `CallsReturn`, `TimerEndsLockout`,
`BacklogDrains`, `WakelockReleased`, `ReinitializeProceeds`), since fairness is out
of the prover's reach, and the three violations. Where a theorem has an assumption,
the run that checks its property has it too: written commands and no toggles in
`keyboard_live`, sysfs writes that succeed in `keyboard_gate`. The type invariants
of `KeyboardController`, `KeyboardNanoapp`, `FingerprintLockout`,
`FingerprintService` and `KeyboardClient` and the inductive invariants are proved
and no run repeats them.

## 5. What the models show besides

* `TouchAfterRegister` needs sysfs writes that succeed. When one fails after a
  device error, `mInputEnabled` keeps the old value and a later update may turn
  touch on behind a closed gate.
* `stop()` stops and closes the device before its forced `updateInputGate`, so
  the 0x21 command that the keyboard README describes for each gate transition
  cannot be sent there, and touch reporting stays as it was.
* `identityQueried` is only reset when a pass samples no connection: a keyboard
  that leaves and returns between two samples, or another in its place, is not asked
  at all. `IdentityAtMostOnce` is the upper bound only.
* A keyboard that falls asleep gets the rest of the pass under way. In the race of
  `keyboard_sleep_wiped` the loop forgets that it sleeps and polls it for as long as
  it does.
* An entry of the sensors backlog keeps the wake-up count of its whole batch
  although a part may have been written directly or in an earlier round; when
  its last write fails, more is subtracted than was dropped. `RefCovers` is
  therefore stated for behaviours without a failed write or a timeout.
* Wake-ups dropped at the limit of the backlog stay counted until the wakelock
  timeout releases them.
* `stopThreads` clears `mThreadsRun` first, and the decrement returns early
  without it: the `resetSharedWakelock` of `initializeCommon` releases nothing,
  and the count survives until a timeout of the new wakelock thread.
* The client takes any frame after its registration for an answer: one that the
  service's own query loop asked for, before the client's command was sent, is as
  good. For a feature any acknowledgement or effect report ends the wait.
* `PaddingUnused` does not speak for Hall reports and acknowledgements, which have
  no checksum to cover them; for them it says that the bytes are of this read.
* `Fingerprint::notify` may still be in a session that is gone: `createSession`
  replaces the shared pointer, which frees the old object if no one else holds it,
  while the vendor thread may be inside it. The model keeps the object.
* `Session.h` asks that its callback be called only from non-binder threads;
  several AIDL calls (`close`, `generateChallenge`, `invalidateAuthenticatorId` and
  others) call it from the binder thread they run on.
* An AIDL `mDevice` that is not null by accident is taken for an open device and
  no module is opened; `VendorPropTruthful` excludes that case. When `set_notify`
  fails, the device just opened is not closed.
* The failures counted by one session are not known to the next: each gets a
  copy of the service's tracker, which nothing updates.
* An enumeration cut short leaves its templates in a static vector, and the next
  one, of whatever user, reports them too. A user without templates is reported
  with a template 0 (without `IMPL_V2`), because `notify` collects the id of the
  message that says there are none.
* `close()` does not stop the lockout timer: it calls `onLockoutCleared` of the
  closed session up to ten seconds later, or of an object that is gone.
  `OneLateMessage` is about the vendor library's messages only.
* `stopThreads` notifies without the mutexes. A thread in the gap between its test
  and its wait sleeps on, and `initialize` waits in `join` for a notification that
  only a spurious wake-up or, for the wakelock thread, a post can bring;
  `JoinedThreadsWoken` and `ReinitializeProceeds` leave out exactly these cases.
* The comment before `disableAllSensors` says that the queue can be cleared safely
  and that no new events come until `initialize` has reset the sub-HALs. The first
  half holds (`QueuesReplacedSafely`). The second does not quite: a gesture polled
  before the sensor was disabled is posted afterwards, and is accepted as soon as
  `mThreadsRun` is set again, before the sub-HALs are initialised.
* A gesture that was notified and not polled before the sensor was disabled is
  delivered at the next activation.
* A lid switch that is missing or cannot be read counts as open: the gesture is
  delivered.
* A thread that the base constructor starts too early runs `Sensor::run` for good,
  which posts without a gesture, again and again while the sensor is armed.
* The wait pipe is never drained while the thread waits and blocks its writers when
  it is full; 64 KiB of mode changes without an activation would be needed.
* `HallInputMonitor::start` does not drain its stop pipe as
  `NanoappDevice::start` does. The service never restarts it within a process.
* Handlers that overlap break what one would like to say of the lockout besides. A
  timer between its look at the abort flag and its reset undoes a permanent lockout
  set meanwhile; an expiry found by one thread overwrites the mode another just set,
  so that the framework believes in a lockout the tracker no longer holds; a reset
  between the read and the write of `mFailedCount++` is lost for the count; a timer
  that ends before `mIsLockoutTimerStarted` is set leaves the flag set for good, and
  the next timed lockout gets no timer and no `onLockoutCleared`.
* An `mCurrentMode` that happens to be a lockout is reported at the first
  authentication; one that is neither of the three modes keeps timed lockouts from
  ever starting, and the permanent one still comes.
* `authenticate` ignores the result of `checkSensorLockout`; the vendor library
  decides whether a locked-out attempt is refused.

## 6. Not modelled, and the plan

The safety properties are proved. Next would be: the temporal argument below the
liveness properties as far as it is an invariant (which steps stay enabled until
they are taken), and lemmas about the operators of `KeyboardProtocol` that
`PaddingUnused` does not need.

Not modelled, and why:

* `TouchFeature` and the AIDL touch services: one mutex around a table, or one
  file; each call is a single request to the driver.
* Sensors HIDL 1.0 and the UDFPS sensor HAL v1: wrappers of one legacy poll loop;
  what they do with its events is data conversion.
* Fingerprint calls that forward to the vendor library and keep no state.
* Proxy: loading sub-HALs, the static sensor list, direct channels, injection and
  an event flag that cannot be created. Dynamic sensors: no sub-HAL of the
  repository reports one; the callbacks to the framework come after
  `mDynamicSensorsMutex` was released, in no order that the code guarantees.
* Sub-HAL: the destructor, which the service never runs, and `batch` and `flush`,
  which do nothing for a one-shot sensor.
* Vibrator effects and the apps: a cache filled from a file, single calls, and
  user interface around the eSIM switch.

Out of reach or without behaviour: interface declarations, manifests and build
files; user-interface classes of the apps; data conversions of the HIDL sensors
wrapper; the vendor libraries, the Nanosic driver and the framework, which
appear only as the environment of the models.
