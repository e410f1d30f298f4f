------------------------ MODULE HalProxyEventsProofs ------------------------
(***************************************************************************)
(* Proofs about HalProxyEvents, for any number of sub-HAL threads, any     *)
(* queue sizes and batches of any length.                                  *)
(***************************************************************************)
EXTENDS HalProxyEventsLemmas

\* A count of wake-up events is a natural number, and positive if there is one.
LEMMA NumWakeFacts ==
    ASSUME NEW n \in Nat, NEW e, DOMAIN e = 1 .. n
    PROVE  /\ NumWake(e) \in Nat
           /\ (\E i \in 1 .. n : e[i].wake) => NumWake(e) > 0
<1> DEFINE W == {i \in DOMAIN e : e[i].wake}
<1>1. IsFiniteSet(1 .. n)
  BY FS_Interval
<1>2. IsFiniteSet(W)
  BY <1>1, FS_Subset
<1>3. Cardinality(W) \in Nat
  BY <1>2, FS_CardinalityType
<1>4. Cardinality(W) = 0 <=> W = {}
  BY <1>2, FS_EmptySet
<1> QED
  BY <1>3, <1>4 DEF NumWake

\* The types that the counting relies on.
CountTypes ==
    /\ refCount \in Nat /\ held \in BOOLEAN /\ got \in Nat
    /\ acks \in Seq(Nat) /\ handling \in Nat
    /\ posted \in Nat /\ fmq \in Seq(Event) /\ Len(fmq) <= QueueSize
    /\ pending \in Seq([events : Seq(Event), wake : Nat])
    /\ writer # "wait" => pending # <<>>
    /\ poster \in [Posters -> [at : PosterSteps, batch : Batches \cup {<<>>},
                               locked : BOOLEAN, stale : BOOLEAN]]

\* A wakelock that is still locked after processEvents has a wake-up event to
\* wait for, so that Increment is never called with zero.
LockedForWake ==
    \A p \in Posters :
        poster[p].at = "processed" /\ poster[p].locked =>
            \E i \in DOMAIN poster[p].batch : poster[p].batch[i] # "plain"

HeldInv == CountTypes /\ LockedForWake /\ HeldIffCounted

\* The two operations on the count preserve what it means.
LEMMA CountStep ==
    ASSUME CountTypes, HeldIffCounted, NEW n \in Nat,
           \/ Increment(n) /\ n > 0
           \/ Decrement(n)
           \/ UNCHANGED lockVars
    PROVE  refCount' \in Nat /\ held' \in BOOLEAN /\ HeldIffCounted'
<1>1. CASE Increment(n) /\ n > 0
  <2>1. refCount' \in Nat /\ refCount' > 0
    BY <1>1 DEF CountTypes, Increment
  <2>2. refCount = 0 \/ refCount > 0
    BY DEF CountTypes
  <2>3. held' = TRUE
    BY <1>1, <2>2, Zenon DEF Increment, HeldIffCounted
  <2> QED
    BY <2>1, <2>3 DEF HeldIffCounted
<1>2. CASE Decrement(n)
  <2>1. refCount' \in Nat /\ (refCount = 0 => refCount' = 0)
    BY <1>2 DEF CountTypes, Decrement, MinOf
  <2>2. CASE refCount > 0 /\ refCount' = 0
    <3>1. held' = FALSE
      BY <1>2, <2>2 DEF Decrement
    <3>2. ~(refCount' > 0)
      BY <2>2
    <3> QED
      BY <2>1, <3>1, <3>2, Zenon DEF HeldIffCounted
  <2>3. CASE ~(refCount > 0 /\ refCount' = 0)
    <3>1. held' = held
      BY <1>2, <2>3 DEF Decrement
    <3>2. refCount > 0 <=> refCount' > 0
      BY <2>1, <2>3, <1>2 DEF CountTypes, Decrement, MinOf
    <3>3. held' \in BOOLEAN
      BY <3>1 DEF CountTypes
    <3> QED
      BY <2>1, <3>1, <3>2, <3>3, Zenon DEF HeldIffCounted
  <2> QED
    BY <2>2, <2>3
<1>3. CASE UNCHANGED lockVars
  BY <1>3 DEF CountTypes, HeldIffCounted, lockVars
<1> QED
  BY <1>1, <1>2, <1>3

\* The same through a scoped wakelock.
LEMMA ScopedStep ==
    ASSUME CountTypes, HeldIffCounted, NEW p, DecrementScoped(p)
    PROVE  refCount' \in Nat /\ held' \in BOOLEAN /\ HeldIffCounted'
BY CountStep DEF DecrementScoped

\* Batches and their numbered events.
LEMMA BatchFacts ==
    ASSUME NEW b \in Batches \cup {<<>>}
    PROVE  \E n \in Nat : DOMAIN b = 1 .. n /\ b \in [1 .. n -> Kinds]
<1>1. CASE b = <<>>
  BY <1>1
<1>2. CASE b \in Batches
  BY <1>2, SizesAssumption DEF Batches
<1> QED
  BY <1>1, <1>2

LEMMA NumberedFacts ==
    ASSUME CountTypes, NEW p \in Posters
    PROVE  /\ Numbered(p) \in Seq(Event)
           /\ NumWake(Numbered(p)) \in Nat
           /\ (\E i \in DOMAIN poster[p].batch : poster[p].batch[i] # "plain")
                => NumWake(Numbered(p)) > 0
<1>1. poster[p].batch \in Batches \cup {<<>>}
  BY DEF CountTypes
<1>2. PICK n \in Nat : /\ DOMAIN poster[p].batch = 1 .. n
                       /\ poster[p].batch \in [1 .. n -> Kinds]
  BY <1>1, BatchFacts
<1>3. Numbered(p) \in [1 .. n -> Event]
  BY <1>2 DEF Numbered, Event, CountTypes
<1>4. \A i \in 1 .. n : Numbered(p)[i].wake = (poster[p].batch[i] # "plain")
  BY <1>2 DEF Numbered
<1>5. DOMAIN Numbered(p) = 1 .. n
  BY <1>3
<1>6. /\ NumWake(Numbered(p)) \in Nat
      /\ (\E i \in 1 .. n : Numbered(p)[i].wake) => NumWake(Numbered(p)) > 0
  BY <1>5, NumWakeFacts
<1>7. Numbered(p) \in Seq(Event)
  BY <1>3
<1>8. (\E i \in DOMAIN poster[p].batch : poster[p].batch[i] # "plain")
        => \E i \in 1 .. n : Numbered(p)[i].wake
  BY <1>2, <1>4
<1> QED
  BY <1>6, <1>7, <1>8, Zenon

\* A step of a poster that touches neither queue keeps the invariant, if the
\* poster's new record is fine and the count is handled by an operation.
LEMMA PosterStep ==
    ASSUME HeldInv, NEW p \in Posters, NEW r,
           r \in [at : PosterSteps, batch : Batches \cup {<<>>},
                  locked : BOOLEAN, stale : BOOLEAN],
           r.at = "processed" /\ r.locked =>
               \E i \in DOMAIN r.batch : r.batch[i] # "plain",
           poster' = [poster EXCEPT ![p] = r],
           refCount' \in Nat, held' \in BOOLEAN, HeldIffCounted',
           UNCHANGED <<pending, writer, wakerVars, fmq, endVars, posted>>
    PROVE  HeldInv'
<1>1. CountTypes'
  BY DEF HeldInv, CountTypes, wakerVars, endVars
<1>2. LockedForWake'
  BY DEF HeldInv, CountTypes, LockedForWake
<1> QED
  BY <1>1, <1>2 DEF HeldInv

LEMMA CreateStep ==
    ASSUME HeldInv, NEW p \in Posters, CreateWakelock(p)
    PROVE  HeldInv'
<1>1. PICK b \in Batches :
        LET lock == \E i \in DOMAIN b : b[i] # "plain"
        IN /\ poster' = [poster EXCEPT ![p] = [at |-> "created",
                         batch |-> b, locked |-> lock, stale |-> FALSE]]
           /\ IF lock THEN Increment(1) ELSE UNCHANGED lockVars
  BY DEF CreateWakelock
<1> DEFINE lock == \E i \in DOMAIN b : b[i] # "plain"
           r == [at |-> "created", batch |-> b, locked |-> lock,
                 stale |-> FALSE]
<1>2. Increment(1) \/ UNCHANGED lockVars
  BY <1>1
<1>3. refCount' \in Nat /\ held' \in BOOLEAN /\ HeldIffCounted'
  BY <1>2, CountStep DEF HeldInv
<1>4. lock \in BOOLEAN
  OBVIOUS
<1>5. poster' = [poster EXCEPT ![p] = r]
  BY <1>1
<1>6. /\ r \in [at : PosterSteps, batch : Batches \cup {<<>>},
                locked : BOOLEAN, stale : BOOLEAN]
      /\ r.at # "processed"
  <2> HIDE DEF lock
  <2> QED
    BY <1>4 DEF PosterSteps
<1>7. UNCHANGED <<pending, writer, wakerVars, fmq, endVars, posted>>
  BY DEF CreateWakelock, queueVars
<1> QED
  <2> HIDE DEF r
  <2> QED
    BY <1>3, <1>5, <1>6, <1>7, PosterStep

LEMMA ProcessStep ==
    ASSUME HeldInv, NEW p \in Posters, Process(p)
    PROVE  HeldInv'
<1>1. PICK out \in Batches \cup {<<>>} :
        LET wake == \E i \in DOMAIN out : out[i] # "plain"
            free == poster[p].locked /\ ~wake
        IN /\ poster' = [poster EXCEPT ![p].at = "processed",
                                       ![p].batch = out,
                                       ![p].locked = @ /\ ~free]
           /\ IF free THEN DecrementScoped(p) ELSE UNCHANGED lockVars
  BY DEF Process, Outputs
<1> DEFINE wake == \E i \in DOMAIN out : out[i] # "plain"
           free == poster[p].locked /\ ~wake
           r == [poster[p] EXCEPT !.at = "processed", !.batch = out,
                                  !.locked = @ /\ ~free]
<1>2. DecrementScoped(p) \/ UNCHANGED lockVars
  BY <1>1
<1>3. refCount' \in Nat /\ held' \in BOOLEAN /\ HeldIffCounted'
  BY <1>2, CountStep, ScopedStep DEF HeldInv
<1>4. poster[p] \in [at : PosterSteps, batch : Batches \cup {<<>>},
                     locked : BOOLEAN, stale : BOOLEAN]
  BY DEF HeldInv, CountTypes
<1>5. poster' = [poster EXCEPT ![p] = r]
  BY <1>1 DEF HeldInv, CountTypes
<1>6. /\ r \in [at : PosterSteps, batch : Batches \cup {<<>>},
                locked : BOOLEAN, stale : BOOLEAN]
      /\ r.batch = out /\ (r.locked => wake)
  BY <1>4 DEF PosterSteps
<1>7. UNCHANGED <<pending, writer, wakerVars, fmq, endVars, posted>>
  BY DEF Process, queueVars
<1>8. r.locked => \E i \in DOMAIN r.batch : r.batch[i] # "plain"
  BY <1>6
<1> QED
  <2> HIDE DEF r
  <2> QED
    BY <1>3, <1>5, <1>6, <1>7, <1>8, PosterStep

LEMMA PostCountStep ==
    ASSUME HeldInv, NEW p \in Posters, PostCount(p)
    PROVE  HeldInv'
<1> DEFINE r == [poster[p] EXCEPT !.at = "counted"]
           n == NumWake(Numbered(p))
<1>1. n \in Nat
  BY NumberedFacts DEF HeldInv
<1>2. poster[p].locked => n > 0
  BY NumberedFacts DEF HeldInv, LockedForWake, PostCount
<1>3. (Increment(n) /\ n > 0) \/ UNCHANGED lockVars
  BY <1>2 DEF PostCount
<1>4. refCount' \in Nat /\ held' \in BOOLEAN /\ HeldIffCounted'
  <2> HIDE DEF n
  <2> QED
    BY <1>1, <1>3, CountStep DEF HeldInv
<1>5. /\ r \in [at : PosterSteps, batch : Batches \cup {<<>>},
                locked : BOOLEAN, stale : BOOLEAN]
      /\ r.at # "processed" /\ poster' = [poster EXCEPT ![p] = r]
  BY DEF PostCount, HeldInv, CountTypes, PosterSteps
<1>6. UNCHANGED <<pending, writer, wakerVars, fmq, endVars, posted>>
  BY DEF PostCount
<1> QED
  <2> HIDE DEF r
  <2> QED
    BY <1>4, <1>5, <1>6, PosterStep

LEMMA ReleaseStep ==
    ASSUME HeldInv, NEW p \in Posters, Release(p)
    PROVE  HeldInv'
<1>1. DecrementScoped(p) \/ UNCHANGED lockVars
  BY DEF Release
<1>2. refCount' \in Nat /\ held' \in BOOLEAN /\ HeldIffCounted'
  BY <1>1, CountStep, ScopedStep DEF HeldInv
<1>3. /\ Idle \in [at : PosterSteps, batch : Batches \cup {<<>>},
                   locked : BOOLEAN, stale : BOOLEAN]
      /\ Idle.at # "processed" /\ poster' = [poster EXCEPT ![p] = Idle]
  BY DEF Release, Idle, PosterSteps
<1>4. UNCHANGED <<pending, writer, wakerVars, fmq, endVars, posted>>
  BY DEF Release, queueVars
<1> QED
  BY <1>2, <1>3, <1>4, PosterStep

\* What a poster writes is a part of its batch that the event queue has room for,
\* and nothing while something is pending.
LEMMA PostWrites ==
    ASSUME CountTypes, NEW p \in Posters, PostWrite(p)
    PROVE  \E n \in 0 .. Len(Numbered(p)) :
               /\ Len(fmq) + n <= QueueSize /\ (pending # <<>> => n = 0)
               /\ WriteAndQueue(p, n)
<1> DEFINE l == Len(Numbered(p))
<1>1. l \in Nat
  BY NumberedFacts
<1>2. Len(fmq) \in Nat /\ QueueSize \in Nat /\ Len(fmq) <= QueueSize
  BY SizesAssumption DEF CountTypes
<1>3. PICK n \in {NumToPost(p), 0} : Len(fmq) + n <= QueueSize /\ WriteAndQueue(p, n)
  BY DEF PostWrite
<1>4. n \in 0 .. l /\ (pending # <<>> => n = 0)
  <2>1. n = 0 \/ n = IF pending = <<>> THEN MinOf(l, QueueSize - Len(fmq)) ELSE 0
    BY <1>3 DEF NumToPost
  <2> HIDE DEF l
  <2> QED
    BY <1>1, <1>2, <2>1 DEF MinOf
<1> QED
  BY <1>3, <1>4

\* The room in the event queue bounds what a poster writes.
LEMMA PostWriteStep ==
    ASSUME HeldInv, NEW p \in Posters, PostWrite(p)
    PROVE  HeldInv'
<1> DEFINE es == Numbered(p)
<1>1. es \in Seq(Event) /\ NumWake(es) \in Nat
  BY NumberedFacts DEF HeldInv
<1>2. fmq \in Seq(Event) /\ posted \in Nat /\ QueueSize \in Nat
  BY SizesAssumption DEF HeldInv, CountTypes
<1>3. PICK n \in 0 .. Len(es) : Len(fmq) + n <= QueueSize /\ WriteAndQueue(p, n)
  BY PostWrites DEF HeldInv
<1>4. /\ First(es, n) \in Seq(Event) /\ Len(First(es, n)) = n
      /\ Rest(es, n) \in Seq(Event)
  <2> HIDE DEF es
  <2> QED
    BY <1>1, <1>3, Split
<1>5. /\ fmq' = fmq \o First(es, n)
      /\ posted' = posted + Len(es)
      /\ \/ pending' = Append(pending, [events |-> Rest(es, n),
                                       wake |-> NumWake(es)])
         \/ pending' = pending
      /\ poster' = [poster EXCEPT ![p].at = "posted"]
      /\ UNCHANGED <<lockVars, writer, wakerVars, endVars>>
  BY <1>3 DEF PostWrite, WriteAndQueue
<1>6. /\ fmq' \in Seq(Event) /\ Len(fmq') <= QueueSize
      /\ posted' \in Nat
      /\ pending' \in Seq([events : Seq(Event), wake : Nat])
      /\ pending # <<>> => pending' # <<>>
  <2> HIDE DEF es
  <2>1. fmq' \in Seq(Event) /\ Len(fmq') <= QueueSize
    <3>1. /\ fmq \o First(es, n) \in Seq(Event)
          /\ Len(fmq \o First(es, n)) = Len(fmq) + Len(First(es, n))
      BY <1>2, <1>4, ConcatProperties
    <3>2. Len(fmq) + n <= QueueSize
      BY <1>3
    <3> QED
      BY <1>4, <1>5, <3>1, <3>2
  <2>2. posted' \in Nat
    <3>1. Len(es) \in Nat
      BY <1>1
    <3> QED
      BY <1>2, <1>5, <3>1
  <2> DEFINE Entry == [events : Seq(Event), wake : Nat]
             e == [events |-> Rest(es, n), wake |-> NumWake(es)]
  <2>3. e \in Entry /\ pending \in Seq(Entry)
    BY <1>1, <1>4 DEF HeldInv, CountTypes
  <2>4. pending' = Append(pending, e) \/ pending' = pending
    BY <1>5
  <2>5. pending' \in Seq(Entry) /\ (pending # <<>> => pending' # <<>>)
    <3> HIDE DEF Entry, e
    <3> QED
      BY <2>3, <2>4
  <2> QED
    BY <2>1, <2>2, <2>5
<1>7. poster' \in [Posters -> [at : PosterSteps,
                               batch : Batches \cup {<<>>},
                               locked : BOOLEAN, stale : BOOLEAN]]
  BY <1>5 DEF HeldInv, CountTypes, PosterSteps
<1>8. CountTypes'
  BY <1>5, <1>6, <1>7 DEF HeldInv, CountTypes, lockVars, wakerVars, endVars
<1>9. LockedForWake'
  BY <1>5 DEF HeldInv, CountTypes, LockedForWake
<1>10. HeldIffCounted'
  BY <1>5 DEF HeldInv, HeldIffCounted, lockVars
<1> QED
  BY <1>8, <1>9, <1>10 DEF HeldInv

\* The pending-writes thread: its front entry is there while it works on it.
LEMMA FrontFacts ==
    ASSUME CountTypes, writer # "wait"
    PROVE  /\ Head(pending).events \in Seq(Event)
           /\ Head(pending).wake \in Nat
           /\ NumToWrite \in 0 .. Len(Head(pending).events)
           /\ NumToWrite <= QueueSize
<1> DEFINE Entry == [events : Seq(Event), wake : Nat]
<1>1. pending \in Seq(Entry) /\ pending # <<>>
  BY DEF CountTypes
<1>2. Head(pending) \in Entry
  <2> HIDE DEF Entry
  <2> QED
    BY <1>1
<1>3. Len(Head(pending).events) \in Nat /\ QueueSize \in Nat
  BY <1>2, SizesAssumption
<1> QED
  BY <1>2, <1>3 DEF NumToWrite, MinOf

LEMMA WriterKeeps ==
    ASSUME HeldInv, HandlePendingWrites
    PROVE  HeldInv'
<1> USE DEF HeldInv, WriterStep
<1> DEFINE Entry == [events : Seq(Event), wake : Nat]
<1>1. CASE WriterTake
  BY <1>1 DEF WriterTake, CountTypes, LockedForWake, HeldIffCounted, queueVars,
              lockVars, wakerVars, endVars
<1>2. CASE WriterWrite
  <2> DEFINE w == First(Head(pending).events, NumToWrite)
  <2>1. w \in Seq(Event) /\ Len(w) = NumToWrite /\ NumToWrite \in Nat
    BY <1>2, FrontFacts, Split DEF WriterWrite
  <2>2. fmq' = fmq \o w /\ Len(fmq) + NumToWrite <= QueueSize
    BY <1>2 DEF WriterWrite
  <2>3. fmq' \in Seq(Event) /\ Len(fmq') <= QueueSize
    <3> HIDE DEF w
    <3> QED
      BY <2>1, <2>2 DEF CountTypes
  <2> QED
    BY <1>2, <2>3 DEF WriterWrite, CountTypes, LockedForWake, HeldIffCounted,
                      queueVars, lockVars, wakerVars, endVars
<1>3. CASE WriterFail
  BY <1>3 DEF WriterFail, CountTypes, LockedForWake, HeldIffCounted, queueVars,
              lockVars, wakerVars, endVars
<1>4. CASE WriterUncount
  <2> DEFINE front == Head(pending)
             n == IF Len(front.events) > QueueSize
                  THEN NumWake(First(front.events, QueueSize))
                  ELSE front.wake
  <2>1. front.events \in Seq(Event) /\ front.wake \in Nat
    BY <1>4, FrontFacts DEF WriterUncount
  <2>2. n \in Nat
    <3>1. CASE Len(front.events) > QueueSize
      <4>1. QueueSize \in 0 .. Len(front.events)
        BY <2>1, <3>1, SizesAssumption
      <4>2. /\ First(front.events, QueueSize) \in Seq(Event)
            /\ Len(First(front.events, QueueSize)) = QueueSize
        BY <2>1, <4>1, Split
      <4>3. DOMAIN First(front.events, QueueSize) = 1 .. QueueSize
        BY <4>2
      <4>4. NumWake(First(front.events, QueueSize)) \in Nat
        BY <4>1, <4>3, NumWakeFacts, SizesAssumption
      <4> QED
        BY <3>1, <4>4
    <3> QED
      BY <2>1, <3>1
  <2>3. Decrement(n) \/ UNCHANGED lockVars
    BY <1>4 DEF WriterUncount
  <2>4. refCount' \in Nat /\ held' \in BOOLEAN /\ HeldIffCounted'
    <3> HIDE DEF n
    <3> QED
      BY <2>2, <2>3, CountStep
  <2> QED
    BY <1>4, <2>4 DEF WriterUncount, CountTypes, LockedForWake, queueVars,
                      wakerVars, endVars
<1>5. CASE WriterDone
  <2>1. pending \in Seq(Entry) /\ pending # <<>>
    BY <1>5 DEF WriterDone, CountTypes
  <2>2. Head(pending).events \in Seq(Event)
    BY <1>5, FrontFacts DEF WriterDone
  <2>3. CASE Len(Head(pending).events) > QueueSize
    <3>1. Rest(Head(pending).events, QueueSize) \in Seq(Event)
      BY <2>2, <2>3, Split, SizesAssumption
    <3>2. pending' = [pending EXCEPT ![1].events = Rest(@, QueueSize)]
      BY <1>5, <2>3 DEF WriterDone
    <3> DEFINE e == [pending[1] EXCEPT !.events = Rest(@, QueueSize)]
    <3>3. pending[1] \in Entry /\ Head(pending) = pending[1]
      <4> HIDE DEF Entry
      <4> QED
        BY <2>1
    <3>4. e \in Entry /\ pending' = [pending EXCEPT ![1] = e]
      BY <3>1, <3>2, <3>3
    <3> QED
      <4> HIDE DEF Entry, e
      <4>1. pending' \in Seq(Entry)
        BY <2>1, <3>4
      <4> QED
        BY <1>5, <4>1 DEF Entry, WriterDone, CountTypes, LockedForWake,
                 HeldIffCounted, lockVars, wakerVars, endVars
  <2>4. CASE ~(Len(Head(pending).events) > QueueSize)
    <3>1. pending' = Tail(pending)
      BY <1>5, <2>4 DEF WriterDone
    <3>2. pending' \in Seq(Entry)
      <4> HIDE DEF Entry
      <4> QED
        BY <2>1, <3>1
    <3> QED
      BY <1>5, <3>2 DEF WriterDone, CountTypes, LockedForWake,
               HeldIffCounted, lockVars, wakerVars, endVars
  <2> QED
    BY <2>3, <2>4
<1> QED
  BY <1>1, <1>2, <1>3, <1>4, <1>5 DEF HandlePendingWrites

LEMMA WakerKeeps ==
    ASSUME HeldInv, HandleWakelocks
    PROVE  HeldInv'
<1> USE DEF HeldInv, WakerStep
<1>1. CASE WakerLook
  <2>1. CASE expired
    <3>1. Decrement(refCount) /\ refCount \in Nat
      BY <1>1, <2>1 DEF WakerLook, CountTypes
    <3>2. refCount' \in Nat /\ held' \in BOOLEAN /\ HeldIffCounted'
      BY <3>1, CountStep
    <3>3. poster' = [p \in Posters |->
              [poster[p] EXCEPT !.stale = poster[p].locked]]
      BY <1>1, <2>1 DEF WakerLook
    <3>4. /\ poster' \in [Posters -> [at : PosterSteps,
                                      batch : Batches \cup {<<>>},
                                      locked : BOOLEAN, stale : BOOLEAN]]
          /\ \A p \in Posters :
                /\ poster'[p].at = poster[p].at
                /\ poster'[p].locked = poster[p].locked
                /\ poster'[p].batch = poster[p].batch
      BY <3>3 DEF CountTypes
    <3>5. LockedForWake'
      BY <3>4 DEF LockedForWake
    <3>6. CountTypes'
      BY <1>1, <3>2, <3>4 DEF WakerLook, CountTypes, queueVars, endVars
    <3> QED
      BY <3>2, <3>5, <3>6
  <2>2. CASE ~expired
    BY <1>1, <2>2 DEF WakerLook, CountTypes, LockedForWake, HeldIffCounted,
                      queueVars, lockVars, endVars
  <2> QED
    BY <2>1, <2>2
<1>2. CASE WakerRead
  <2>1. acks' \in Seq(Nat) /\ got' \in Nat
    BY <1>2 DEF WakerRead, CountTypes
  <2> QED
    BY <1>2, <2>1 DEF WakerRead, CountTypes, LockedForWake, HeldIffCounted,
                      queueVars, lockVars
<1>3. CASE WakerReadTimeout
  BY <1>3 DEF WakerReadTimeout, CountTypes, LockedForWake, HeldIffCounted,
              queueVars, lockVars, endVars
<1>4. CASE WakerCount
  <2>1. refCount' \in Nat /\ held' \in BOOLEAN /\ HeldIffCounted'
    BY <1>4, CountStep DEF WakerCount, CountTypes
  <2> QED
    BY <1>4, <2>1 DEF WakerCount, CountTypes, LockedForWake, queueVars, endVars
<1> QED
  BY <1>1, <1>2, <1>3, <1>4 DEF HandleWakelocks

LEMMA FrameworkKeeps ==
    ASSUME HeldInv, FrameworkRead \/ FrameworkAck \/ Expire
    PROVE  HeldInv'
<1> USE DEF HeldInv
<1>1. CASE FrameworkRead
  <2>1. PICK k \in 1 .. Len(fmq) :
          /\ fmq' = Rest(fmq, k)
          /\ handling' = handling + NumWake(First(fmq, k))
    BY <1>1 DEF FrameworkRead
  <2>2. k \in Nat /\ k \in 0 .. Len(fmq) /\ fmq \in Seq(Event)
    BY <2>1 DEF CountTypes
  <2>3. /\ First(fmq, k) \in Seq(Event) /\ Len(First(fmq, k)) = k
        /\ Rest(fmq, k) \in Seq(Event)
    BY <2>2, Split
  <2>4. DOMAIN First(fmq, k) = 1 .. k
    BY <2>3
  <2>5. NumWake(First(fmq, k)) \in Nat
    BY <2>2, <2>4, NumWakeFacts
  <2>6. Len(Rest(fmq, k)) <= Len(fmq)
    BY <2>2 DEF Rest
  <2>7. /\ fmq' \in Seq(Event) /\ Len(fmq') <= QueueSize
        /\ handling' \in Nat
    <3>1. fmq' = Rest(fmq, k) /\ handling' = handling + NumWake(First(fmq, k))
      BY <2>1
    <3>2. handling \in Nat /\ Len(fmq) <= QueueSize /\ Len(fmq) \in Nat
      BY <2>2 DEF CountTypes
    <3>3. Len(Rest(fmq, k)) <= QueueSize
      BY <2>3, <2>6, <3>2, SizesAssumption
    <3> QED
      BY <2>3, <2>5, <3>1, <3>2, <3>3
  <2> QED
    BY <1>1, <2>7 DEF FrameworkRead, CountTypes, LockedForWake,
                      HeldIffCounted, queueVars, lockVars, wakerVars
<1>2. CASE FrameworkAck
  BY <1>2 DEF FrameworkAck, CountTypes, LockedForWake, HeldIffCounted,
              queueVars, lockVars, wakerVars
<1>3. CASE Expire
  BY <1>3 DEF Expire, CountTypes, LockedForWake, HeldIffCounted, queueVars,
              wakerVars, endVars
<1> QED
  BY <1>1, <1>2, <1>3

LEMMA HeldInit ==
    ASSUME Init
    PROVE  HeldInv
<1>1. CountTypes
  <2>1. pending = <<>> /\ fmq = <<>> /\ acks = <<>>
    BY DEF Init
  <2>2. Len(fmq) <= QueueSize
    BY <2>1, SizesAssumption
  <2>3. poster \in [Posters -> [at : PosterSteps,
                                batch : Batches \cup {<<>>},
                                locked : BOOLEAN, stale : BOOLEAN]]
    BY DEF Init, Idle, PosterSteps
  <2>4. /\ pending \in Seq([events : Seq(Event), wake : Nat])
        /\ fmq \in Seq(Event) /\ acks \in Seq(Nat)
    BY <2>1
  <2> QED
    BY <2>2, <2>3, <2>4 DEF Init, CountTypes
<1>2. LockedForWake /\ HeldIffCounted
  BY DEF Init, LockedForWake, HeldIffCounted, Idle
<1> QED
  BY <1>1, <1>2 DEF HeldInv

LEMMA HeldNext ==
    ASSUME HeldInv, [Next]_vars
    PROVE  HeldInv'
<1>1. CASE \E p \in Posters : CreateWakelock(p) \/ Post(p)
  BY <1>1, CreateStep, ProcessStep, PostCountStep, PostWriteStep,
     ReleaseStep DEF Post
<1>2. CASE HandlePendingWrites
  BY <1>2, WriterKeeps
<1>3. CASE HandleWakelocks
  BY <1>3, WakerKeeps
<1>4. CASE FrameworkRead \/ FrameworkAck \/ Expire
  BY <1>4, FrameworkKeeps
<1>5. CASE UNCHANGED vars
  BY <1>5 DEF vars, HeldInv, CountTypes, LockedForWake, HeldIffCounted,
              queueVars, lockVars, wakerVars, endVars
<1> QED
  BY <1>1, <1>2, <1>3, <1>4, <1>5 DEF Next

LEMMA HeldInvariant == Spec => []HeldInv
<1>1. Init => HeldInv
  BY HeldInit
<1>2. HeldInv /\ [Next]_vars => HeldInv'
  BY HeldNext
<1> QED
  BY <1>1, <1>2, PTL DEF Spec

\* The kernel wakelock is held exactly while mWakelockRefCount is positive,
\* through posts, suppressed pickups, failed writes, acknowledgements and
\* timeouts, whatever the queue sizes and the number of sub-HAL threads.
THEOREM WakelockFollowsCount == Spec => []HeldIffCounted
<1>1. HeldInv => HeldIffCounted
  BY DEF HeldInv
<1> QED
  BY <1>1, HeldInvariant, PTL

----------------------------------------------------------------------------
\* The events on their way.

\* numToWrite for the front of q, and what is still to be written of q while
\* the pending-writes thread is at step w.
Written(q) == MinOf(Len(Head(q).events), QueueSize)
BacklogOf(q, w) ==
    IF w \in {"failed", "done"} THEN Rest(AllOf(q), Written(q)) ELSE AllOf(q)

OnTheWay == fmq \o Backlog

LEMMA BacklogIs ==
    /\ NumToWrite = Written(pending) /\ NumToWrite' = Written(pending')
    /\ Backlog = BacklogOf(pending, writer)
    /\ Backlog' = BacklogOf(pending', writer')
BY DEF Backlog, BacklogOf, AllOf, EventsOf, NumToWrite, Written

\* The front batch, its written part and the rest.
LEMMA WrittenFacts ==
    ASSUME NEW q \in Seq(PendingEntry), q # <<>>
    PROVE  /\ Head(q).events \in Seq(Event)
           /\ AllOf(q) \in Seq(Event) /\ AllOf(Tail(q)) \in Seq(Event)
           /\ Written(q) \in 0 .. Len(Head(q).events)
           /\ Written(q) \in 0 .. Len(AllOf(q))
           /\ AllOf(q) = Head(q).events \o AllOf(Tail(q))
           /\ Rest(AllOf(q), Written(q)) =
                  Rest(Head(q).events, Written(q)) \o AllOf(Tail(q))
<1> DEFINE h == Head(q).events
           t == AllOf(Tail(q))
<1>1. h \in Seq(Event) /\ t \in Seq(Event) /\ AllOf(q) = h \o t
  BY AllHead
<1>2. Len(h) \in Nat /\ Len(t) \in Nat /\ QueueSize \in Nat
  BY <1>1, SizesAssumption
<1>3. Written(q) \in 0 .. Len(h)
  <2> HIDE DEF h
  <2> QED
    BY <1>2 DEF Written, MinOf, h
<1> HIDE DEF h, t
<1>4. h \o t \in Seq(Event) /\ Len(h \o t) = Len(h) + Len(t)
  BY <1>1, ConcatProperties
<1>5. Rest(h \o t, Written(q)) = Rest(h, Written(q)) \o t
  BY <1>1, <1>3, RestConcat
<1>6. Written(q) \in 0 .. Len(h \o t)
  BY <1>2, <1>3, <1>4
<1> QED
  BY <1>1, <1>3, <1>4, <1>5, <1>6 DEF h, t

\* Between its steps, the pending-writes thread has a front batch.
LEMMA BacklogType ==
    ASSUME NEW q \in Seq(PendingEntry), NEW w, w # "wait" => q # <<>>
    PROVE  /\ BacklogOf(q, w) \in Seq(Event)
           /\ q = <<>> => BacklogOf(q, w) = <<>>
<1>1. CASE w \in {"failed", "done"}
  <2>1. q # <<>>
    BY <1>1
  <2>2. AllOf(q) \in Seq(Event) /\ Written(q) \in 0 .. Len(AllOf(q))
    BY <2>1, WrittenFacts
  <2>3. Rest(AllOf(q), Written(q)) \in Seq(Event)
    BY <2>2, Split
  <2> QED
    BY <1>1, <2>1, <2>3 DEF BacklogOf
<1>2. CASE w \notin {"failed", "done"}
  BY <1>2, AllType DEF BacklogOf
<1> QED
  BY <1>1, <1>2

\* A batch that is queued meanwhile comes last.
LEMMA BacklogAppend ==
    ASSUME NEW q \in Seq(PendingEntry), NEW w, w # "wait" => q # <<>>,
           NEW e \in PendingEntry
    PROVE  BacklogOf(Append(q, e), w) = BacklogOf(q, w) \o e.events
<1>1. AllOf(Append(q, e)) = AllOf(q) \o e.events
  BY AllAppend
<1>2. CASE w \in {"failed", "done"}
  <2>1. q # <<>>
    BY <1>2
  <2>2. Head(Append(q, e)) = Head(q)
    BY <2>1, HeadTailAppend
  <2>3. Written(Append(q, e)) = Written(q)
    BY <2>2 DEF Written
  <2>4. AllOf(q) \in Seq(Event) /\ Written(q) \in 0 .. Len(AllOf(q))
    BY <2>1, WrittenFacts
  <2>5. e.events \in Seq(Event)
    BY DEF PendingEntry
  <2>6. Rest(AllOf(q) \o e.events, Written(q)) =
            Rest(AllOf(q), Written(q)) \o e.events
    BY <2>4, <2>5, RestConcat
  <2> QED
    BY <1>1, <1>2, <2>3, <2>6 DEF BacklogOf
<1>3. CASE w \notin {"failed", "done"}
  BY <1>1, <1>3 DEF BacklogOf
<1> QED
  BY <1>2, <1>3

\* What WriterDone removes is what was written.
Remaining(q) ==
    IF Len(Head(q).events) > QueueSize
    THEN [q EXCEPT ![1].events = Rest(@, QueueSize)]
    ELSE Tail(q)

LEMMA RemainingIs ==
    ASSUME NEW q \in Seq(PendingEntry), q # <<>>
    PROVE  /\ Remaining(q) \in Seq(PendingEntry)
           /\ AllOf(Remaining(q)) = Rest(AllOf(q), Written(q))
<1> DEFINE h == Head(q).events
           t == AllOf(Tail(q))
<1>1. /\ h \in Seq(Event) /\ t \in Seq(Event)
      /\ Rest(AllOf(q), Written(q)) = Rest(h, Written(q)) \o t
  BY WrittenFacts
<1>2. Len(h) \in Nat /\ QueueSize \in Nat
  BY <1>1, SizesAssumption
<1>3. CASE Len(h) > QueueSize
  <2>1. Written(q) = QueueSize /\ QueueSize \in 0 .. Len(h)
    BY <1>2, <1>3 DEF Written, MinOf
  <2>2. Remaining(q) = [q EXCEPT ![1].events = Rest(@, QueueSize)]
    BY <1>3 DEF Remaining
  <2>3. /\ Remaining(q) \in Seq(PendingEntry)
        /\ AllOf(Remaining(q)) = Rest(h, QueueSize) \o t
    BY <2>1, <2>2, AllCut
  <2> QED
    BY <1>1, <2>1, <2>3
<1>4. CASE ~(Len(h) > QueueSize)
  <2>1. Written(q) = Len(h)
    BY <1>2, <1>4 DEF Written, MinOf
  <2>2. Rest(h, Len(h)) = <<>>
    BY <1>1, SplitLimits
  <2>3. <<>> \o t = t
    BY <1>1, ConcatEmptySeq
  <2>4. Remaining(q) = Tail(q)
    BY <1>4 DEF Remaining
  <2>5. Tail(q) \in Seq(PendingEntry)
    BY HeadTailProperties
  <2> QED
    BY <1>1, <2>1, <2>2, <2>3, <2>4, <2>5
<1> QED
  BY <1>3, <1>4

LEMMA EventsAssociative ==
    \A a, b, c \in Seq(Event) : (a \o b) \o c = a \o (b \o c)
BY ConcatAssociative

LEMMA WayType ==
    ASSUME CountTypes
    PROVE  /\ fmq \in Seq(Event) /\ Backlog \in Seq(Event)
           /\ OnTheWay \in Seq(Event)
           /\ pending \in Seq(PendingEntry)
           /\ writer # "wait" => pending # <<>>
           /\ pending = <<>> => Backlog = <<>>
<1>1. /\ fmq \in Seq(Event) /\ pending \in Seq(PendingEntry)
      /\ writer # "wait" => pending # <<>>
  BY DEF CountTypes, PendingEntry
<1>2. /\ BacklogOf(pending, writer) \in Seq(Event)
      /\ pending = <<>> => BacklogOf(pending, writer) = <<>>
  BY <1>1, BacklogType
<1>3. Backlog \in Seq(Event) /\ (pending = <<>> => Backlog = <<>>)
  BY <1>2, BacklogIs
<1>4. fmq \o Backlog \in Seq(Event)
  BY <1>1, <1>3, ConcatProperties
<1> QED
  BY <1>1, <1>3, <1>4 DEF OnTheWay

\* Steps that leave both queues and the pending-writes thread alone.
LEMMA WaySame ==
    ASSUME UNCHANGED <<fmq, pending, writer>>
    PROVE  OnTheWay' = OnTheWay /\ Backlog' = Backlog
BY BacklogIs DEF OnTheWay

\* A poster adds the first events of its batch, and only at the end.
LEMMA PostWriteWay ==
    ASSUME CountTypes, NEW p \in Posters, PostWrite(p)
    PROVE  \E k \in 0 .. Len(Numbered(p)) :
               OnTheWay' = OnTheWay \o First(Numbered(p), k)
<1>0. PICK n \in 0 .. Len(Numbered(p)) :
            (pending # <<>> => n = 0) /\ WriteAndQueue(p, n)
  BY PostWrites
<1> DEFINE es == Numbered(p)
           e == [events |-> Rest(es, n), wake |-> NumWake(es)]
           b == BacklogOf(pending, writer)
<1>1. es \in Seq(Event) /\ NumWake(es) \in Nat
  BY NumberedFacts
<1>2. /\ fmq \in Seq(Event) /\ b \in Seq(Event)
      /\ pending \in Seq(PendingEntry)
      /\ writer # "wait" => pending # <<>>
      /\ pending = <<>> => b = <<>>
  BY WayType, BacklogIs
<1>3. n \in 0 .. Len(es) /\ Len(es) \in Nat
  BY <1>0, <1>1
<1>4. /\ fmq' = fmq \o First(es, n) /\ writer' = writer
      /\ \/ pending' = Append(pending, e)
         \/ pending' = pending
  BY <1>0 DEF PostWrite, WriteAndQueue
<1> HIDE DEF es
<1>5. e \in PendingEntry /\ e.events = Rest(es, n)
  <2>1. Rest(es, n) \in Seq(Event)
    <3> QED
      BY <1>1, <1>3, Split
  <2> QED
    BY <1>1, <2>1 DEF PendingEntry
<1>6. /\ First(es, n) \in Seq(Event) /\ Rest(es, n) \in Seq(Event)
      /\ First(es, n) \o Rest(es, n) = es
  <2> QED
    BY <1>1, <1>3, Split
<1>7. /\ First(es, 0) = <<>> /\ First(es, Len(es)) = es /\ Rest(es, 0) = es
  BY <1>1, SplitLimits
<1>8. OnTheWay = fmq \o b /\ OnTheWay' = fmq' \o BacklogOf(pending', writer)
  BY <1>4, BacklogIs DEF OnTheWay
<1> HIDE DEF e, b
<1>9. CASE pending = <<>>
  <2>1. OnTheWay = fmq
    BY <1>2, <1>8, <1>9, ConcatEmptySeq
  <2>2. CASE pending' = Append(pending, e)
    <3>1. BacklogOf(pending', writer) = b \o Rest(es, n)
      BY <1>2, <1>5, <2>2, BacklogAppend DEF b
    <3>2. b \o Rest(es, n) = Rest(es, n)
      BY <1>2, <1>6, <1>9, ConcatEmptySeq
    <3>3. OnTheWay' = (fmq \o First(es, n)) \o Rest(es, n)
      BY <1>4, <1>8, <3>1, <3>2
    <3>4. (fmq \o First(es, n)) \o Rest(es, n) =
              fmq \o (First(es, n) \o Rest(es, n))
      BY <1>2, <1>6, EventsAssociative, Zenon
    <3>5. OnTheWay' = OnTheWay \o First(es, Len(es)) /\ Len(es) \in 0 .. Len(es)
      BY <1>3, <1>6, <1>7, <2>1, <3>3, <3>4
    <3> QED
      BY <3>5 DEF es
  <2>3. CASE pending' = pending
    <3>1. BacklogOf(pending', writer) = <<>>
      BY <1>2, <1>9, <2>3 DEF b
    <3>2. fmq \o First(es, n) \in Seq(Event)
      BY <1>2, <1>6, ConcatProperties
    <3>3. OnTheWay' = OnTheWay \o First(es, n)
      BY <1>4, <1>8, <2>1, <3>1, <3>2, ConcatEmptySeq
    <3> QED
      BY <1>3, <3>3 DEF es
  <2> QED
    BY <1>4, <2>2, <2>3
<1>10. CASE pending # <<>>
  <2>1. n = 0
    BY <1>0, <1>10
  <2>2. fmq' = fmq
    BY <1>2, <1>4, <1>7, <2>1, ConcatEmptySeq
  <2>3. CASE pending' = Append(pending, e)
    <3>1. BacklogOf(pending', writer) = b \o es
      BY <1>2, <1>5, <1>7, <2>1, <2>3, BacklogAppend DEF b
    <3>2. fmq \o (b \o es) = (fmq \o b) \o es
      BY <1>1, <1>2, EventsAssociative, Zenon
    <3>3. OnTheWay' = OnTheWay \o First(es, Len(es)) /\ Len(es) \in 0 .. Len(es)
      BY <1>3, <1>7, <1>8, <2>2, <3>1, <3>2
    <3> QED
      BY <3>3 DEF es
  <2>4. CASE pending' = pending
    <3>1. fmq \o b \in Seq(Event)
      BY <1>2, ConcatProperties
    <3>2. OnTheWay' = OnTheWay
      BY <1>8, <2>2, <2>4 DEF b
    <3>3. (fmq \o b) \o <<>> = fmq \o b
      BY <3>1, ConcatEmptySeq
    <3>4. OnTheWay' = OnTheWay \o First(es, n)
      BY <1>7, <1>8, <2>1, <3>2, <3>3
    <3> QED
      BY <1>3, <3>4 DEF es
  <2> QED
    BY <1>4, <2>3, <2>4
<1> QED
  BY <1>9, <1>10

\* Whether it writes, gives up or removes what it wrote, the pending-writes
\* thread moves events from the backlog to the event queue in order; only a
\* write that fails takes the front of the backlog away.
LEMMA WriterWay ==
    ASSUME CountTypes, HandlePendingWrites
    PROVE  \/ OnTheWay' = OnTheWay
           \/ /\ writer' = "failed" /\ fmq' = fmq
              /\ NumToWrite \in 0 .. Len(Backlog)
              /\ OnTheWay' = fmq \o Rest(Backlog, NumToWrite)
<1> DEFINE n == Written(pending)
           h == Head(pending).events
           t == AllOf(Tail(pending))
<1>1. /\ fmq \in Seq(Event) /\ pending \in Seq(PendingEntry)
      /\ writer # "wait" => pending # <<>>
  BY WayType
<1>2. /\ OnTheWay = fmq \o BacklogOf(pending, writer)
      /\ OnTheWay' = fmq' \o BacklogOf(pending', writer')
      /\ NumToWrite = n
  BY BacklogIs DEF OnTheWay
<1>3. CASE WriterTake
  BY <1>2, <1>3 DEF WriterTake, WriterStep, queueVars, BacklogOf
<1>4. CASE WriterWrite
  <2>1. /\ writer = "write" /\ writer' = "done" /\ pending' = pending
        /\ fmq' = fmq \o First(h, n)
    BY <1>2, <1>4 DEF WriterWrite, WriterStep, queueVars
  <2>2. /\ h \in Seq(Event) /\ t \in Seq(Event) /\ n \in 0 .. Len(h)
        /\ AllOf(pending) = h \o t
        /\ Rest(AllOf(pending), n) = Rest(h, n) \o t
    BY <1>1, <2>1, WrittenFacts
  <2> HIDE DEF h, t, n
  <2>3. /\ First(h, n) \in Seq(Event) /\ Rest(h, n) \in Seq(Event)
        /\ First(h, n) \o Rest(h, n) = h
    BY <2>2, Split
  <2>4. /\ OnTheWay = fmq \o (h \o t)
        /\ OnTheWay' = (fmq \o First(h, n)) \o (Rest(h, n) \o t)
    BY <1>2, <2>1, <2>2 DEF BacklogOf, n
  <2> DEFINE a == First(h, n)
             c == Rest(h, n)
  <2>5. a \in Seq(Event) /\ c \in Seq(Event) /\ a \o c = h
    BY <2>3
  <2>6. (fmq \o a) \o (c \o t) = fmq \o ((a \o c) \o t)
    <3> HIDE DEF a, c
    <3>1. c \o t \in Seq(Event)
      BY <2>2, <2>5, ConcatProperties
    <3>2. (fmq \o a) \o (c \o t) = fmq \o (a \o (c \o t))
      BY <1>1, <2>5, <3>1, EventsAssociative, Zenon
    <3>3. a \o (c \o t) = (a \o c) \o t
      BY <2>2, <2>5, EventsAssociative, Zenon
    <3> QED
      BY <3>2, <3>3
  <2> QED
    BY <2>4, <2>5, <2>6
<1>5. CASE WriterFail
  <2>1. /\ writer = "write" /\ writer' = "failed" /\ pending' = pending
        /\ fmq' = fmq
    BY <1>5 DEF WriterFail, WriterStep, queueVars
  <2>2. n \in 0 .. Len(AllOf(pending))
    BY <1>1, <2>1, WrittenFacts
  <2>3. Backlog = AllOf(pending)
    BY <2>1, BacklogIs DEF BacklogOf
  <2> QED
    BY <1>2, <2>1, <2>2, <2>3 DEF BacklogOf
<1>6. CASE WriterUncount
  BY <1>2, <1>6 DEF WriterUncount, WriterStep, queueVars, BacklogOf
<1>7. CASE WriterDone
  <2>1. /\ writer = "done" /\ writer' = "wait" /\ fmq' = fmq
        /\ pending' = Remaining(pending)
    BY <1>7 DEF WriterDone, WriterStep, Remaining
  <2>2. AllOf(pending') = Rest(AllOf(pending), n)
    BY <1>1, <2>1, RemainingIs
  <2> QED
    BY <1>2, <2>1, <2>2 DEF BacklogOf
<1> QED
  BY <1>3, <1>4, <1>5, <1>6, <1>7 DEF HandlePendingWrites

\* The framework takes events from the front.
LEMMA ReadWay ==
    ASSUME CountTypes, NEW k \in 1 .. Len(fmq), fmq' = Rest(fmq, k),
           UNCHANGED <<pending, writer>>
    PROVE  /\ k \in 1 .. Len(OnTheWay) /\ OnTheWay' = Rest(OnTheWay, k)
           /\ OnTheWay[k] = fmq[k]
           /\ NumWake(OnTheWay) = NumWake(First(fmq, k)) + NumWake(OnTheWay')
           /\ NumWake(First(fmq, k)) \in Nat /\ NumWake(OnTheWay') \in Nat
<1>1. fmq \in Seq(Event) /\ Backlog \in Seq(Event) /\ k \in 0 .. Len(fmq)
  BY WayType
<1>2. Backlog' = Backlog
  BY BacklogIs
<1>3. OnTheWay = fmq \o Backlog /\ OnTheWay' = Rest(fmq, k) \o Backlog
  BY <1>2 DEF OnTheWay
<1>4. Rest(fmq \o Backlog, k) = Rest(fmq, k) \o Backlog
  BY <1>1, RestConcat
<1>5. /\ Len(fmq \o Backlog) = Len(fmq) + Len(Backlog)
      /\ Len(fmq) \in Nat /\ Len(Backlog) \in Nat
      /\ (fmq \o Backlog)[k] = fmq[k]
  BY <1>1, ConcatProperties
<1>6. k \in 1 .. Len(fmq \o Backlog)
  BY <1>5
<1>7. /\ NumWake(First(fmq, k)) \in Nat /\ NumWake(Rest(fmq, k)) \in Nat
      /\ NumWake(fmq) = NumWake(First(fmq, k)) + NumWake(Rest(fmq, k))
  BY <1>1, WakeSplit
<1>8. NumWake(fmq \o Backlog) = NumWake(fmq) + NumWake(Backlog)
  BY <1>1, WakeConcat
<1>9. Rest(fmq, k) \in Seq(Event)
  BY <1>1, Split
<1>10. NumWake(Rest(fmq, k) \o Backlog) =
           NumWake(Rest(fmq, k)) + NumWake(Backlog)
  BY <1>1, <1>9, WakeConcat
<1>11. NumWake(Backlog) \in Nat
  BY <1>1, WakeAtFacts
<1> QED
  BY <1>3, <1>4, <1>5, <1>6, <1>7, <1>8, <1>10, <1>11

----------------------------------------------------------------------------
\* The size of the backlog and the types.

\* The types that the counting did not need.
StepTypes ==
    /\ writeLock \in Posters \cup {"none"}
    /\ expired \in BOOLEAN /\ clean \in BOOLEAN
    /\ writer \in {"wait", "write", "failed", "done"}
    /\ waker \in {"wait", "read", "got"}
    /\ begun \in 0 .. MaxEvents /\ taken \in Nat

SizeInv ==
    /\ HeldInv /\ StepTypes
    /\ pendingSize \in 0 .. MaxPending /\ SizeAccurate

LEMMA SizeIs ==
    /\ SizeAccurate <=> pendingSize = Len(AllOf(pending))
    /\ SizeAccurate' <=> pendingSize' = Len(AllOf(pending'))
BY DEF SizeAccurate, AllOf, EventsOf

LEMMA PosterTypes ==
    ASSUME StepTypes, NEW p \in Posters, CreateWakelock(p) \/ Post(p)
    PROVE  StepTypes'
<1> USE DEF StepTypes, Increment, Decrement, DecrementScoped, queueVars,
            lockVars, wakerVars, endVars
<1>1. CASE CreateWakelock(p)
  <2>1. PICK b \in Batches : /\ begun + Len(b) <= MaxEvents
                             /\ begun' = begun + Len(b)
    BY <1>1 DEF CreateWakelock
  <2>2. Len(b) \in Nat /\ MaxEvents \in Nat
    <3>1. PICK n \in Nat : b \in [1 .. n -> Kinds]
      BY BatchFacts
    <3> QED
      BY <3>1, SizesAssumption
  <2>3. begun' \in 0 .. MaxEvents
    BY <2>1, <2>2
  <2>4. expired' \in BOOLEAN
    BY <1>1 DEF CreateWakelock
  <2> QED
    BY <1>1, <2>3, <2>4 DEF CreateWakelock
<1>2. CASE Process(p)
  BY <1>2 DEF Process
<1>3. CASE PostCount(p)
  BY <1>3 DEF PostCount
<1>4. CASE PostWrite(p)
  BY <1>4 DEF PostWrite
<1>5. CASE Release(p)
  BY <1>5 DEF Release
<1> QED
  BY <1>1, <1>2, <1>3, <1>4, <1>5 DEF Post

LEMMA WriterTypes ==
    ASSUME StepTypes, HandlePendingWrites
    PROVE  StepTypes'
<1> USE DEF StepTypes, WriterStep, queueVars, lockVars, wakerVars, endVars
<1>1. CASE WriterTake
  BY <1>1 DEF WriterTake
<1>2. CASE WriterWrite
  BY <1>2 DEF WriterWrite
<1>3. CASE WriterFail
  BY <1>3 DEF WriterFail
<1>4. CASE WriterUncount
  BY <1>4 DEF WriterUncount, Decrement
<1>5. CASE WriterDone
  BY <1>5 DEF WriterDone
<1> QED
  BY <1>1, <1>2, <1>3, <1>4, <1>5 DEF HandlePendingWrites

LEMMA OtherTypes ==
    ASSUME CountTypes, StepTypes,
           HandleWakelocks \/ FrameworkRead \/ FrameworkAck \/ Expire
    PROVE  StepTypes'
<1> USE DEF StepTypes, WakerStep, Decrement, queueVars, lockVars, wakerVars,
            endVars
<1>1. CASE WakerLook
  BY <1>1 DEF WakerLook
<1>2. CASE WakerRead
  BY <1>2 DEF WakerRead
<1>3. CASE WakerReadTimeout
  BY <1>3 DEF WakerReadTimeout
<1>4. CASE WakerCount
  BY <1>4 DEF WakerCount
<1>5. CASE FrameworkRead
  <2>1. PICK k \in 1 .. Len(fmq) : taken' = fmq[k].id
    BY <1>5 DEF FrameworkRead
  <2>2. fmq[k] \in Event
    BY <2>1, ElementOfSeq DEF CountTypes
  <2>3. taken' \in Nat
    BY <2>1, <2>2 DEF Event
  <2> QED
    BY <1>5, <2>3 DEF FrameworkRead
<1>6. CASE FrameworkAck
  BY <1>6 DEF FrameworkAck
<1>7. CASE Expire
  BY <1>7 DEF Expire
<1> QED
  BY <1>1, <1>2, <1>3, <1>4, <1>5, <1>6, <1>7 DEF HandleWakelocks

\* A poster adds to the size what it queues, within the limit.
LEMMA PostWriteSize ==
    ASSUME SizeInv, NEW p \in Posters, PostWrite(p)
    PROVE  pendingSize' \in 0 .. MaxPending /\ SizeAccurate'
<1>0. PICK n \in 0 .. Len(Numbered(p)) : WriteAndQueue(p, n)
  BY PostWrites DEF SizeInv, HeldInv
<1> DEFINE es == Numbered(p)
           left == Len(es) - n
           e == [events |-> Rest(es, n), wake |-> NumWake(es)]
<1>1. es \in Seq(Event) /\ NumWake(es) \in Nat
  BY NumberedFacts DEF SizeInv, HeldInv
<1>2. /\ pending \in Seq(PendingEntry) /\ pendingSize \in 0 .. MaxPending
      /\ MaxPending \in Nat /\ pendingSize = Len(AllOf(pending))
  BY WayType, SizeIs, SizesAssumption DEF SizeInv, HeldInv
<1>3. n \in 0 .. Len(es) /\ Len(es) \in Nat
  BY <1>0, <1>1
<1>4. IF left > 0 /\ pendingSize + left <= MaxPending
      THEN /\ pending' = Append(pending, e)
           /\ pendingSize' = pendingSize + left
      ELSE pending' = pending /\ pendingSize' = pendingSize
  BY <1>0 DEF WriteAndQueue, HasSpace
<1>5. Rest(es, n) \in Seq(Event) /\ Len(Rest(es, n)) = left
  <2> HIDE DEF es
  <2> QED
    BY <1>1, <1>3, Split
<1>6. e \in PendingEntry /\ e.events = Rest(es, n)
  BY <1>1, <1>5 DEF PendingEntry
<1> HIDE DEF es, e
<1>7. CASE left > 0 /\ pendingSize + left <= MaxPending
  <2>1. AllOf(Append(pending, e)) = AllOf(pending) \o Rest(es, n)
    BY <1>2, <1>6, AllAppend
  <2>2. AllOf(pending) \in Seq(Event)
    BY <1>2, AllType
  <2>3. Len(AllOf(pending) \o Rest(es, n)) = Len(AllOf(pending)) + left
    BY <1>5, <2>2, ConcatProperties
  <2>4. pendingSize' = Len(AllOf(pending'))
    BY <1>2, <1>4, <1>7, <2>1, <2>3
  <2>5. pendingSize' \in 0 .. MaxPending
    BY <1>2, <1>3, <1>4, <1>7
  <2> QED
    BY <2>4, <2>5, SizeIs
<1>8. CASE ~(left > 0 /\ pendingSize + left <= MaxPending)
  BY <1>2, <1>4, <1>8, SizeIs
<1> QED
  BY <1>7, <1>8

\* The pending-writes thread subtracts what it removes: a part of its front
\* batch or all of it.
LEMMA WriterDoneSize ==
    ASSUME SizeInv, WriterDone
    PROVE  pendingSize' \in 0 .. MaxPending /\ SizeAccurate'
<1> DEFINE all == AllOf(pending)
           n == Written(pending)
<1>1. /\ pending \in Seq(PendingEntry) /\ pending # <<>>
      /\ pendingSize \in 0 .. MaxPending /\ MaxPending \in Nat
      /\ pendingSize = Len(all)
  BY WayType, SizeIs, SizesAssumption
     DEF SizeInv, HeldInv, WriterDone, WriterStep
<1>2. /\ pendingSize' = pendingSize - n
      /\ pending' = Remaining(pending)
  BY BacklogIs DEF WriterDone, Remaining
<1>3. AllOf(pending') = Rest(all, n)
  BY <1>1, <1>2, RemainingIs
<1>4. all \in Seq(Event) /\ n \in 0 .. Len(all)
  BY <1>1, WrittenFacts
<1> HIDE DEF all, n
<1>5. Len(Rest(all, n)) = Len(all) - n
  BY <1>4, Split
<1>6. pendingSize' \in 0 .. MaxPending
  BY <1>1, <1>2, <1>4
<1>7. pendingSize' = Len(AllOf(pending'))
  BY <1>1, <1>2, <1>3, <1>5
<1> QED
  BY <1>6, <1>7, SizeIs

LEMMA SizeInvariant == Spec => []SizeInv
<1>1. Init => SizeInv
  <2> SUFFICES ASSUME Init PROVE SizeInv
    OBVIOUS
  <2>1. HeldInv
    BY HeldInit
  <2>2. /\ pending = <<>> /\ pendingSize = 0
        /\ MaxPending \in Nat /\ MaxEvents \in Nat
    BY SizesAssumption DEF Init
  <2>3. AllOf(pending) = <<>>
    <3>1. pending \in Seq(PendingEntry)
      BY <2>2
    <3> QED
      BY <2>2, <3>1, AllType
  <2>4. StepTypes
    <3>1. /\ begun = 0 /\ taken = 0 /\ writeLock = "none"
          /\ writer = "wait" /\ waker = "wait"
      BY DEF Init
    <3>2. begun \in 0 .. MaxEvents /\ taken \in Nat
      BY <2>2, <3>1
    <3>3. expired \in BOOLEAN /\ clean \in BOOLEAN
      BY Zenon DEF Init
    <3> QED
      BY <3>1, <3>2, <3>3, Zenon DEF StepTypes
  <2> QED
    BY <2>1, <2>2, <2>3, <2>4, SizeIs DEF SizeInv
<1>2. SizeInv /\ [Next]_vars => SizeInv'
  <2> SUFFICES ASSUME SizeInv, [Next]_vars PROVE SizeInv'
    OBVIOUS
  <2>1. HeldInv'
    BY HeldNext DEF SizeInv
  <2>2. StepTypes'
    <3>1. CASE UNCHANGED vars
      BY <3>1 DEF SizeInv, StepTypes, vars, queueVars, lockVars, wakerVars,
                  endVars
    <3> QED
      BY <3>1, PosterTypes, WriterTypes, OtherTypes DEF SizeInv, HeldInv, Next
  <2>3. CASE UNCHANGED <<pending, pendingSize>>
    <3>1. pendingSize' \in 0 .. MaxPending /\ SizeAccurate'
      BY <2>3, SizeIs DEF SizeInv
    <3> QED
      BY <2>1, <2>2, <3>1 DEF SizeInv
  <2>4. CASE \E p \in Posters : PostWrite(p)
    BY <2>1, <2>2, <2>4, PostWriteSize DEF SizeInv
  <2>5. CASE WriterDone
    BY <2>1, <2>2, <2>5, WriterDoneSize DEF SizeInv
  <2>6. \/ UNCHANGED <<pending, pendingSize>> \/ WriterDone
        \/ \E p \in Posters : PostWrite(p)
    BY DEF Next, vars, queueVars, Post, CreateWakelock, Process, PostCount,
           Release, HandlePendingWrites, WriterTake, WriterWrite, WriterFail,
           WriterUncount, HandleWakelocks, WakerLook, WakerRead,
           WakerReadTimeout, WakerCount, FrameworkRead, FrameworkAck, Expire
  <2> QED
    BY <2>3, <2>4, <2>5, <2>6
<1> QED
  BY <1>1, <1>2, PTL DEF Spec

\* mSizePendingWriteEventsQueue is the number of events in the backlog, however
\* posts, blocking writes, timeouts and partial writes interleave and however
\* the sizes of the batches and of the event queue relate.
THEOREM SizeIsAccurate == Spec => []SizeAccurate
<1>1. SizeInv => SizeAccurate
  BY DEF SizeInv
<1> QED
  BY <1>1, SizeInvariant, PTL

\* The event queue never holds more than its capacity, the backlog never more
\* than kMaxSizePendingWriteEventsQueue events, and every variable has its type.
THEOREM EventsTypes == Spec => []TypeOK
<1>1. ASSUME SizeInv PROVE TypeOK
  <2>1. \A b \in Batches \cup {<<>>} : b \in Seq(Kinds)
    BY BatchFacts
  <2>2. poster \in [Posters -> [at : PosterSteps, batch : Batches \cup {<<>>},
                                locked : BOOLEAN, stale : BOOLEAN]]
    BY <1>1 DEF SizeInv, HeldInv, CountTypes
  <2>3. poster \in [Posters -> [at : PosterSteps, batch : Seq(Kinds),
                                locked : BOOLEAN, stale : BOOLEAN]]
    BY <2>1, <2>2
  <2> QED
    BY <1>1, <2>3 DEF SizeInv, HeldInv, CountTypes, StepTypes, TypeOK
<1> QED
  BY <1>1, SizeInvariant, PTL

----------------------------------------------------------------------------
\* The refinement of EventChannel.

LEMMA InitChannel == Init => Channel!ChanInit
<1> SUFFICES ASSUME Init PROVE Channel!ChanInit
  OBVIOUS
<1>1. CountTypes
  BY HeldInit DEF HeldInv
<1>2. fmq = <<>> /\ Backlog = <<>>
  BY <1>1, WayType DEF Init
<1>3. Ids(fmq \o Backlog) = <<>>
  <2>1. fmq \o Backlog \in Seq(Event) /\ Len(fmq \o Backlog) = 0
    BY <1>2
  <2>2. Ids(fmq \o Backlog) \in Seq(Nat) /\ Len(Ids(fmq \o Backlog)) = 0
    BY <2>1, IdsFacts
  <2> QED
    BY <2>2
<1> QED
  BY <1>3 DEF Channel!ChanInit, Init

\* The numbers that a batch gets.
LEMMA NumberedIds ==
    ASSUME CountTypes, NEW p \in Posters, NEW k \in 0 .. Len(Numbered(p))
    PROVE  /\ Numbered(p) \in Seq(Event) /\ Len(Numbered(p)) \in 0 .. MaxBatch
           /\ Ids(First(Numbered(p), k)) = [i \in 1 .. k |-> posted + i]
<1> DEFINE es == Numbered(p)
           b == poster[p].batch
<1>1. es \in Seq(Event)
  BY NumberedFacts
<1>2. b \in Batches \cup {<<>>} /\ posted \in Nat /\ MaxBatch \in Nat
  BY SizesAssumption DEF CountTypes
<1>3. PICK n \in 0 .. MaxBatch : DOMAIN b = 1 .. n
  <2> HIDE DEF b
  <2>1. CASE b = <<>>
    BY <1>2, <2>1
  <2>2. CASE b \in Batches
    <3>1. PICK n \in 1 .. MaxBatch : b \in [1 .. n -> Kinds]
      BY <2>2 DEF Batches
    <3> QED
      BY <1>2, <3>1
  <2> QED
    BY <1>2, <2>1, <2>2
<1>4. Len(es) = n /\ \A i \in 1 .. n : es[i].id = posted + i
  <2>1. DOMAIN es = 1 .. n /\ \A i \in 1 .. n : es[i].id = posted + i
    BY <1>3 DEF Numbered
  <2> HIDE DEF es
  <2> QED
    BY <1>1, <1>3, <2>1
<1> HIDE DEF es
<1>5. k \in 0 .. Len(es) /\ Len(es) \in Nat
  BY <1>1 DEF es
<1>6. /\ First(es, k) \in Seq(Event) /\ Len(First(es, k)) = k
  BY <1>1, <1>5, Split
<1>7. \A i \in 1 .. k : First(es, k)[i] = es[i]
  BY <1>1, <1>5 DEF First
<1>8. /\ Ids(First(es, k)) \in Seq(Nat) /\ Len(Ids(First(es, k))) = k
      /\ \A i \in 1 .. k : Ids(First(es, k))[i] = First(es, k)[i].id
  BY <1>6, IdsFacts
<1>9. \A i \in 1 .. k : Ids(First(es, k))[i] = posted + i
  BY <1>4, <1>5, <1>7, <1>8
<1>10. Ids(First(es, k)) = [i \in 1 .. k |-> posted + i]
  <2> DEFINE x == Ids(First(es, k))
  <2>1. x \in Seq(Nat) /\ Len(x) = k /\ \A i \in 1 .. k : x[i] = posted + i
    BY <1>8, <1>9
  <2> HIDE DEF x
  <2>2. DOMAIN x = 1 .. k /\ x = [i \in DOMAIN x |-> x[i]]
    BY <2>1
  <2>3. x = [i \in 1 .. k |-> posted + i]
    BY <2>1, <2>2
  <2> QED
    BY <2>3 DEF x
<1> QED
  BY <1>1, <1>3, <1>4, <1>10 DEF es

\* A post is Accept; one of which nothing is left after processEvents is no
\* step of the channel.
LEMMA PostWriteAccepts ==
    ASSUME CountTypes, NEW p \in Posters, PostWrite(p)
    PROVE  Channel!ChanNext \/ UNCHANGED Channel!chanVars
<1> DEFINE es == Numbered(p)
           n == Len(es)
<1>1. PICK k \in 0 .. n : OnTheWay' = OnTheWay \o First(es, k)
  BY PostWriteWay
<1>2. /\ es \in Seq(Event) /\ n \in 0 .. MaxBatch
      /\ Ids(First(es, k)) = [i \in 1 .. k |-> posted + i]
  BY <1>1, NumberedIds
<1>3. posted' = posted + n /\ taken' = taken /\ posted \in Nat
  <2>1. posted' = posted + n
    BY PostWrites DEF WriteAndQueue
  <2> QED
    BY <2>1 DEF PostWrite, endVars, CountTypes
<1>4. OnTheWay \in Seq(Event)
  BY WayType
<1> HIDE DEF es
<1>5. First(es, k) \in Seq(Event)
  BY <1>1, <1>2, Split
<1>6. Ids(OnTheWay \o First(es, k)) = Ids(OnTheWay) \o Ids(First(es, k))
  BY <1>4, <1>5, IdsConcat
<1>7. Ids(OnTheWay)' = Ids(OnTheWay) \o [i \in 1 .. k |-> posted + i]
  BY <1>1, <1>2, <1>6
<1>8. CASE n = 0
  <2>1. k = 0
    BY <1>1, <1>8
  <2>2. First(es, k) = <<>>
    BY <1>2, <2>1, SplitLimits
  <2>3. OnTheWay' = OnTheWay
    BY <1>1, <1>4, <2>2, ConcatEmptySeq
  <2>4. posted' = posted
    BY <1>3, <1>8
  <2> QED
    BY <1>3, <2>3, <2>4 DEF Channel!chanVars, OnTheWay
<1>9. CASE n # 0
  <2>1. n \in 1 .. MaxBatch /\ k \in 0 .. MaxBatch /\ k <= n
    <3>1. MaxBatch \in Nat
      BY SizesAssumption
    <3> HIDE DEF n
    <3> QED
      BY <1>1, <1>2, <1>9, <3>1
  <2>2. Channel!Accept(n, k)
    BY <1>3, <1>7, <2>1 DEF Channel!Accept, OnTheWay
  <2> QED
    BY <2>1, <2>2 DEF Channel!ChanNext
<1> QED
  BY <1>8, <1>9

\* A write that times out is Lose; the other steps of the pending-writes thread
\* are no steps of the channel.
LEMMA WriterLoses ==
    ASSUME CountTypes, HandlePendingWrites
    PROVE  Channel!ChanNext \/ UNCHANGED Channel!chanVars
<1> DEFINE n == NumToWrite
           q == Ids(OnTheWay)
<1>1. UNCHANGED <<posted, taken>>
  BY DEF HandlePendingWrites, WriterTake, WriterWrite, WriterFail,
         WriterUncount, WriterDone, endVars
<1>2. CASE OnTheWay' = OnTheWay
  BY <1>1, <1>2 DEF Channel!chanVars, OnTheWay
<1>3. CASE /\ n \in 0 .. Len(Backlog)
           /\ OnTheWay' = fmq \o Rest(Backlog, n)
  <2>1. /\ fmq \in Seq(Event) /\ Backlog \in Seq(Event)
        /\ OnTheWay \in Seq(Event) /\ OnTheWay = fmq \o Backlog
    BY WayType DEF OnTheWay
  <2>2. /\ Len(fmq) \in Nat /\ Len(Backlog) \in Nat
        /\ Len(OnTheWay) = Len(fmq) + Len(Backlog)
    BY <2>1, ConcatProperties
  <2> HIDE DEF n
  <2>3. CASE n = 0
    <3>1. OnTheWay' = OnTheWay
      BY <1>3, <2>1, <2>3, SplitLimits
    <3> QED
      BY <1>1, <3>1 DEF Channel!chanVars, OnTheWay
  <2>4. CASE n # 0
    <3> DEFINE i == Len(fmq) + 1
               j == Len(fmq) + n
    <3>1. First(OnTheWay, Len(fmq)) = fmq /\ Rest(OnTheWay, j) = Rest(Backlog, n)
      BY <1>3, <2>1, CutRear
    <3>2. Rest(Backlog, n) \in Seq(Event)
      BY <1>3, <2>1, Split
    <3>3. Ids(OnTheWay)' = Ids(fmq) \o Ids(Rest(Backlog, n))
      BY <1>3, <2>1, <3>2, IdsConcat
    <3>4. Len(fmq) \in 0 .. Len(OnTheWay) /\ j \in 0 .. Len(OnTheWay)
      BY <1>3, <2>2
    <3>5. Ids(fmq) = First(q, Len(fmq))
      BY <2>1, <3>1, <3>4, IdsSplit
    <3>6. Ids(Rest(Backlog, n)) = Rest(q, j)
      <4> HIDE DEF j
      <4> QED
        BY <2>1, <3>1, <3>4, IdsSplit
    <3>7. Len(q) = Len(OnTheWay)
      BY <2>1, IdsFacts
    <3>8. i \in 1 .. Len(q) /\ j \in 1 .. Len(q) /\ i <= j /\ i - 1 = Len(fmq)
      BY <1>3, <2>2, <2>4, <3>7
    <3>9. Ids(OnTheWay)' = SubSeq(q, 1, i - 1) \o SubSeq(q, j + 1, Len(q))
      BY <3>3, <3>5, <3>6, <3>8 DEF First, Rest
    <3>10. Channel!Lose(i, j)
      BY <1>1, <3>9 DEF Channel!Lose, OnTheWay
    <3> QED
      BY <3>8, <3>10 DEF Channel!ChanNext, OnTheWay
  <2> QED
    BY <2>3, <2>4
<1> QED
  BY <1>2, <1>3, WriterWay

\* The framework's read is Take.
LEMMA ReadTakes ==
    ASSUME CountTypes, FrameworkRead
    PROVE  Channel!ChanNext
<1>1. PICK k \in 1 .. Len(fmq) : taken' = fmq[k].id /\ fmq' = Rest(fmq, k)
  BY DEF FrameworkRead
<1>2. posted' = posted /\ UNCHANGED <<pending, writer>>
  BY DEF FrameworkRead, queueVars
<1>3. /\ k \in 1 .. Len(OnTheWay) /\ OnTheWay' = Rest(OnTheWay, k)
      /\ OnTheWay[k] = fmq[k]
  BY <1>1, <1>2, ReadWay
<1>4. OnTheWay \in Seq(Event) /\ k \in 0 .. Len(OnTheWay)
  BY <1>3, WayType
<1>5. Ids(Rest(OnTheWay, k)) = Rest(Ids(OnTheWay), k)
  BY <1>4, IdsSplit
<1>6. Len(Ids(OnTheWay)) = Len(OnTheWay) /\ Ids(OnTheWay)[k] = OnTheWay[k].id
  BY <1>3, <1>4, IdsFacts
<1>7. taken' = Ids(OnTheWay)[k]
  BY <1>1, <1>3, <1>6
<1>8. Ids(OnTheWay)' = SubSeq(Ids(OnTheWay), k + 1, Len(Ids(OnTheWay)))
  BY <1>3, <1>5 DEF Rest
<1>9. Channel!Take(k)
  BY <1>2, <1>7, <1>8 DEF Channel!Take, OnTheWay
<1>10. k \in 1 .. Len(Ids(OnTheWay))
  BY <1>3, <1>6
<1> QED
  BY <1>9, <1>10 DEF Channel!ChanNext, OnTheWay

LEMMA NextChannel ==
    ASSUME CountTypes, [Next]_vars
    PROVE  Channel!ChanNext \/ UNCHANGED Channel!chanVars
<1>1. CASE UNCHANGED <<fmq, pending, writer, posted, taken>>
  BY <1>1, WaySame DEF Channel!chanVars, OnTheWay
<1>2. \/ UNCHANGED <<fmq, pending, writer, posted, taken>>
      \/ \E p \in Posters : PostWrite(p)
      \/ HandlePendingWrites
      \/ FrameworkRead
  BY DEF Next, vars, queueVars, endVars, Post, CreateWakelock, Process,
         PostCount, Release, HandleWakelocks, WakerLook, WakerRead,
         WakerReadTimeout, WakerCount, FrameworkAck, Expire
<1> QED
  BY <1>1, <1>2, PostWriteAccepts, WriterLoses, ReadTakes

\* The proxy with its two queues, its posters and the thread that writes without
\* the mutex implements one queue: events arrive in the order of posting and at
\* most once, and only the tail of a batch or a timed-out write is lost.
THEOREM EventsFormOneQueue == Spec => ImplementsChannel
<1>1. Init => Channel!ChanInit
  BY InitChannel
<1>2. HeldInv /\ [Next]_vars => [Channel!ChanNext]_(Channel!chanVars)
  BY NextChannel DEF HeldInv
<1> QED
  BY <1>1, <1>2, HeldInvariant, PTL DEF Spec, ImplementsChannel, Channel!ChanSpec

----------------------------------------------------------------------------
\* The wakelock count.

Locked == {p \in Posters : poster[p].locked}

\* The wake-up events that a poster has counted and not yet written.
Reserved == IF writeLock = "none" THEN 0 ELSE NumWake(Numbered(writeLock))

\* All that the count stands for: besides the events on their way, each locked
\* scoped wakelock and the batch between PostCount and PostWrite.
Counted ==
    NumWake(OnTheWay) + handling + SumOf(acks) + got + Cardinality(Locked)
        + Reserved

CountCovers == clean => refCount >= Counted

\* An unlocked poster has no wake-up event, and an idle one is unlocked.
PlainUnlocked ==
    \A p \in Posters :
        /\ poster[p].at = "idle" => ~poster[p].locked
        /\ ~poster[p].locked =>
               \A i \in DOMAIN poster[p].batch : poster[p].batch[i] = "plain"

StepInv ==
    /\ writeLock # "none" => poster[writeLock].at = "counted"
    /\ waker # "got" => got = 0
    /\ writer = "failed" => ~clean

RefInv == PlainUnlocked /\ StepInv /\ CountCovers

\* Every part of the count is a natural number.
LEMMA CountedTypes ==
    ASSUME CountTypes, StepTypes
    PROVE  /\ NumWake(OnTheWay) \in Nat /\ handling \in Nat /\ got \in Nat
           /\ SumOf(acks) \in Nat /\ acks \in Seq(Nat)
           /\ IsFiniteSet(Locked) /\ Cardinality(Locked) \in Nat
           /\ Reserved \in Nat /\ Counted \in Nat /\ refCount \in Nat
<1>1. NumWake(OnTheWay) \in Nat
  BY WayType, WakeAtFacts
<1>2. /\ handling \in Nat /\ got \in Nat /\ refCount \in Nat
      /\ acks \in Seq(Nat)
  BY DEF CountTypes
<1>3. SumOf(acks) \in Nat
  BY <1>2, SumType
<1>4. IsFiniteSet(Locked)
  BY PostersAssumption, FS_Subset DEF Locked
<1>5. Cardinality(Locked) \in Nat
  BY <1>4, FS_CardinalityType
<1>6. Reserved \in Nat
  BY NumberedFacts DEF Reserved, StepTypes
<1> QED
  BY <1>1, <1>2, <1>3, <1>4, <1>5, <1>6 DEF Counted

\* A batch without wake-up events counts nothing.
LEMMA PlainCounts ==
    ASSUME CountTypes, NEW p \in Posters,
           \A i \in DOMAIN poster[p].batch : poster[p].batch[i] = "plain"
    PROVE  NumWake(Numbered(p)) = 0
<1>1. {i \in DOMAIN Numbered(p) : Numbered(p)[i].wake} = {}
  BY DEF Numbered
<1> QED
  BY <1>1, FS_EmptySet DEF NumWake

\* Steps that leave everything counted alone.
LEMMA CountedSame ==
    ASSUME CountTypes, StepTypes,
           UNCHANGED <<fmq, pending, writer, handling, acks, got, poster,
                       writeLock, posted>>
    PROVE  Counted' = Counted
<1>1. OnTheWay' = OnTheWay
  BY WaySame
<1>2. Numbered(writeLock)' = Numbered(writeLock)
  BY DEF Numbered
<1> QED
  BY <1>1, <1>2 DEF Counted, Locked, Reserved

\* How a poster's new record changes the number of locked wakelocks.
LEMMA LockCount ==
    ASSUME CountTypes, NEW p \in Posters, NEW r,
           poster' = [poster EXCEPT ![p] = r]
    PROVE  /\ (poster[p].locked <=> r.locked) =>
                  Cardinality(Locked') = Cardinality(Locked)
           /\ ~poster[p].locked /\ r.locked =>
                  Cardinality(Locked') = Cardinality(Locked) + 1
           /\ poster[p].locked /\ ~r.locked =>
                  Cardinality(Locked') = Cardinality(Locked) - 1
<1>1. /\ poster'[p] = r
      /\ \A q \in Posters : q # p => poster'[q] = poster[q]
  BY DEF CountTypes
<1>2. Locked' = {q \in Posters : poster'[q].locked}
  BY DEF Locked
<1>3. IsFiniteSet(Locked)
  BY PostersAssumption, FS_Subset DEF Locked
<1>4. (poster[p].locked <=> r.locked) => Locked' = Locked
  BY <1>1, <1>2 DEF Locked
<1>5. ASSUME ~poster[p].locked, r.locked
      PROVE  Cardinality(Locked') = Cardinality(Locked) + 1
  <2>1. Locked' = Locked \cup {p} /\ p \notin Locked
    BY <1>1, <1>2, <1>5 DEF Locked
  <2> QED
    BY <1>3, <2>1, FS_AddElement
<1>6. ASSUME poster[p].locked, ~r.locked
      PROVE  Cardinality(Locked') = Cardinality(Locked) - 1
  <2>1. Locked' = Locked \ {p} /\ p \in Locked
    BY <1>1, <1>2, <1>6 DEF Locked
  <2> QED
    BY <1>3, <2>1, FS_RemoveElement
<1> QED
  BY <1>4, <1>5, <1>6

\* A poster's step that touches neither queue.
LEMMA OwnStep ==
    ASSUME CountTypes, StepTypes, RefInv, NEW p \in Posters, NEW r,
           poster' = [poster EXCEPT ![p] = r], poster[p].at # "counted",
           r.at = "idle" => ~r.locked,
           ~r.locked => \A i \in DOMAIN r.batch : r.batch[i] = "plain",
           \/ (poster[p].locked <=> r.locked) /\ refCount' = refCount
           \/ ~poster[p].locked /\ r.locked /\ refCount' = refCount + 1
           \/ /\ poster[p].locked /\ ~r.locked
              /\ refCount' = refCount \/ refCount' = refCount - MinOf(refCount, 1),
           UNCHANGED <<pending, writer, waker, got, fmq, handling, acks,
                       posted, writeLock, clean>>
    PROVE  RefInv'
<1>1. /\ poster'[p] = r
      /\ \A q \in Posters : q # p => poster'[q] = poster[q]
  BY DEF CountTypes
<1>2. PlainUnlocked'
  BY <1>1 DEF RefInv, PlainUnlocked
<1>3. writeLock # "none" => writeLock \in Posters /\ writeLock # p
  BY DEF RefInv, StepInv, StepTypes
<1>4. StepInv'
  BY <1>1, <1>3 DEF RefInv, StepInv
<1>5. Reserved' = Reserved
  <2>1. CASE writeLock = "none"
    BY <2>1 DEF Reserved
  <2>2. CASE writeLock # "none"
    <3>1. poster'[writeLock] = poster[writeLock]
      BY <1>1, <1>3, <2>2
    <3>2. Numbered(writeLock)' = Numbered(writeLock)
      BY <3>1 DEF Numbered
    <3> QED
      BY <2>2, <3>2 DEF Reserved
  <2> QED
    BY <2>1, <2>2
<1>6. OnTheWay' = OnTheWay
  BY WaySame
<1> DEFINE m == Cardinality(Locked)
           rest == NumWake(OnTheWay) + handling + SumOf(acks) + got
<1>7. /\ rest \in Nat /\ rest' = rest /\ Reserved \in Nat
      /\ m \in Nat /\ refCount \in Nat
  BY <1>6, CountedTypes
<1>8. Counted = rest + m + Reserved /\ Counted' = rest + m' + Reserved
  BY <1>5, <1>6 DEF Counted
<1>9. CASE (poster[p].locked <=> r.locked) /\ refCount' = refCount
  <2>1. m' = m
    BY <1>9, LockCount
  <2> QED
    BY <1>2, <1>4, <1>8, <1>9, <2>1 DEF RefInv, CountCovers
<1>10. CASE ~poster[p].locked /\ r.locked /\ refCount' = refCount + 1
  <2>1. m' = m + 1
    BY <1>10, LockCount
  <2> HIDE DEF m, rest
  <2>2. clean => refCount + 1 >= rest + (m + 1) + Reserved
    BY <1>7, <1>8 DEF RefInv, CountCovers
  <2> QED
    BY <1>2, <1>4, <1>8, <1>10, <2>1, <2>2 DEF RefInv, CountCovers
<1>11. CASE /\ poster[p].locked /\ ~r.locked
            /\ refCount' = refCount \/ refCount' = refCount - MinOf(refCount, 1)
  <2>1. m' = m - 1
    BY <1>11, LockCount
  <2> HIDE DEF m, rest
  <2>2. clean => refCount' >= rest + m' + Reserved
    BY <1>7, <1>8, <1>11, <2>1 DEF RefInv, CountCovers, MinOf
  <2> QED
    BY <1>2, <1>4, <1>8, <2>2 DEF RefInv, CountCovers
<1> QED
  BY <1>9, <1>10, <1>11

LEMMA RefCreate ==
    ASSUME CountTypes, StepTypes, RefInv, NEW p \in Posters, CreateWakelock(p)
    PROVE  RefInv'
<1>1. PICK b \in Batches :
        LET lock == \E i \in DOMAIN b : b[i] # "plain"
        IN /\ poster' = [poster EXCEPT ![p] = [at |-> "created",
                         batch |-> b, locked |-> lock, stale |-> FALSE]]
           /\ IF lock THEN Increment(1) ELSE UNCHANGED lockVars
  BY DEF CreateWakelock
<1> DEFINE lock == \E i \in DOMAIN b : b[i] # "plain"
           r == [at |-> "created", batch |-> b, locked |-> lock,
                 stale |-> FALSE]
<1>2. poster[p].at = "idle" /\ ~poster[p].locked
  BY DEF CreateWakelock, RefInv, PlainUnlocked
<1>3. /\ r.at = "created" /\ r.batch = b /\ (r.locked <=> lock)
      /\ poster' = [poster EXCEPT ![p] = r]
  BY <1>1
<1>4. lock => refCount' = refCount + 1
  BY <1>1 DEF Increment
<1>5. ~lock => refCount' = refCount
  BY <1>1 DEF lockVars
<1>6. ~r.locked => \A i \in DOMAIN r.batch : r.batch[i] = "plain"
  BY <1>3
<1>7. UNCHANGED <<pending, writer, waker, got, fmq, handling, acks, posted,
                  writeLock, clean>>
  BY DEF CreateWakelock, queueVars, wakerVars, endVars
<1> QED
  <2> HIDE DEF r, lock
  <2>1. r.at # "idle" /\ poster[p].at # "counted"
    BY <1>2, <1>3
  <2>2. \/ (poster[p].locked <=> r.locked) /\ refCount' = refCount
        \/ ~poster[p].locked /\ r.locked /\ refCount' = refCount + 1
    BY <1>2, <1>3, <1>4, <1>5
  <2> QED
    BY <1>3, <1>6, <1>7, <2>1, <2>2, OwnStep

LEMMA RefProcess ==
    ASSUME CountTypes, StepTypes, RefInv, NEW p \in Posters, Process(p)
    PROVE  RefInv'
<1>1. PICK out \in Outputs(poster[p].batch) :
        LET wake == \E i \in DOMAIN out : out[i] # "plain"
            free == poster[p].locked /\ ~wake
        IN /\ poster' = [poster EXCEPT ![p].at = "processed",
                                       ![p].batch = out,
                                       ![p].locked = @ /\ ~free]
           /\ IF free THEN DecrementScoped(p) ELSE UNCHANGED lockVars
  BY DEF Process
<1> DEFINE wake == \E i \in DOMAIN out : out[i] # "plain"
           free == poster[p].locked /\ ~wake
           r == [poster[p] EXCEPT !.at = "processed", !.batch = out,
                                  !.locked = @ /\ ~free]
<1>2. poster[p] \in [at : PosterSteps, batch : Batches \cup {<<>>},
                     locked : BOOLEAN, stale : BOOLEAN]
  BY DEF CountTypes
<1>3. /\ poster' = [poster EXCEPT ![p] = r]
      /\ r.at = "processed" /\ r.batch = out
      /\ r.locked <=> poster[p].locked /\ wake
  BY <1>1, <1>2 DEF CountTypes
<1>4. ~poster[p].locked => ~wake
  <2> SUFFICES ASSUME ~poster[p].locked PROVE \A i \in DOMAIN out : out[i] = "plain"
    OBVIOUS
  <2>1. \A i \in DOMAIN poster[p].batch : poster[p].batch[i] = "plain"
    BY DEF RefInv, PlainUnlocked
  <2>2. PICK from \in [DOMAIN out -> DOMAIN poster[p].batch] :
          \A i \in DOMAIN out : out[i] = poster[p].batch[from[i]]
    BY <1>1 DEF Outputs
  <2> QED
    BY <2>1, <2>2
<1>5. free => refCount' = refCount \/ refCount' = refCount - MinOf(refCount, 1)
  BY <1>1 DEF DecrementScoped, Decrement, lockVars
<1>6. ~free => refCount' = refCount
  BY <1>1 DEF lockVars
<1>7. UNCHANGED <<pending, writer, waker, got, fmq, handling, acks, posted,
                  writeLock, clean>>
  BY DEF Process, queueVars, wakerVars, endVars
<1>8. poster[p].at = "created"
  BY DEF Process
<1>9. ~wake => \A i \in DOMAIN out : out[i] = "plain"
  OBVIOUS
<1> HIDE DEF wake, r
<1>10. /\ ~r.locked => \A i \in DOMAIN r.batch : r.batch[i] = "plain"
       /\ \/ (poster[p].locked <=> r.locked) /\ refCount' = refCount
          \/ /\ poster[p].locked /\ ~r.locked
             /\ \/ refCount' = refCount
                \/ refCount' = refCount - MinOf(refCount, 1)
  BY <1>3, <1>4, <1>5, <1>6, <1>9
<1> QED
  BY <1>3, <1>7, <1>8, <1>10, OwnStep

LEMMA RefRelease ==
    ASSUME CountTypes, StepTypes, RefInv, NEW p \in Posters, Release(p)
    PROVE  RefInv'
<1>1. poster[p].at = "posted" /\ poster' = [poster EXCEPT ![p] = Idle]
  BY DEF Release
<1>2. /\ ~Idle.locked
      /\ \A i \in DOMAIN Idle.batch : Idle.batch[i] = "plain"
  BY DEF Idle
<1>3. \/ ~poster[p].locked /\ refCount' = refCount
      \/ /\ poster[p].locked
         /\ refCount' = refCount \/ refCount' = refCount - MinOf(refCount, 1)
  BY DEF Release, DecrementScoped, Decrement, lockVars
<1>4. UNCHANGED <<pending, writer, waker, got, fmq, handling, acks, posted,
                  writeLock, clean>>
  BY DEF Release, queueVars, wakerVars, endVars
<1> QED
  BY <1>1, <1>2, <1>3, <1>4, OwnStep

\* The count reserves the wake-ups of the batch before they are written.
LEMMA RefPostCount ==
    ASSUME CountTypes, StepTypes, RefInv, NEW p \in Posters, PostCount(p)
    PROVE  RefInv'
<1> DEFINE n == NumWake(Numbered(p))
           m == Cardinality(Locked)
           rest == NumWake(OnTheWay) + handling + SumOf(acks) + got
           r == [poster[p] EXCEPT !.at = "counted"]
<1>1. /\ writeLock = "none" /\ writeLock' = p /\ p # "none"
      /\ poster' = [poster EXCEPT ![p] = r]
      /\ UNCHANGED <<pending, writer, waker, got, fmq, handling, acks, posted,
                     clean>>
  BY PostersAssumption DEF PostCount, wakerVars, endVars, CountTypes
<1>2. /\ poster[p] \in [at : PosterSteps, batch : Batches \cup {<<>>},
                        locked : BOOLEAN, stale : BOOLEAN]
  BY DEF CountTypes
<1>3. /\ r.at = "counted" /\ r.batch = poster[p].batch
      /\ r.locked = poster[p].locked
  BY <1>2
<1> HIDE DEF r
<1>4. /\ poster'[p] = r
      /\ \A q \in Posters : q # p => poster'[q] = poster[q]
  BY <1>1 DEF CountTypes
<1>5. PlainUnlocked'
  BY <1>3, <1>4 DEF RefInv, PlainUnlocked
<1>6. StepInv'
  BY <1>1, <1>3, <1>4 DEF RefInv, StepInv
<1>7. Cardinality(Locked') = m
  BY <1>1, <1>3, LockCount
<1>8. Reserved = 0 /\ Reserved' = n
  <2>1. Numbered(p)' = Numbered(p)
    BY <1>1, <1>3, <1>4 DEF Numbered
  <2> QED
    BY <1>1, <2>1 DEF Reserved
<1>9. n \in Nat /\ (~poster[p].locked => n = 0)
  BY NumberedFacts, PlainCounts DEF RefInv, PlainUnlocked
<1>10. refCount' = refCount + n
  <2>1. CASE poster[p].locked
    BY <2>1 DEF PostCount, Increment
  <2>2. CASE ~poster[p].locked
    BY <1>9, <2>2, CountedTypes DEF PostCount, lockVars
  <2> QED
    BY <2>1, <2>2
<1>11. OnTheWay' = OnTheWay
  BY <1>1, WaySame
<1>12. Counted = rest + m + 0 /\ Counted' = rest + m + n
  BY <1>1, <1>7, <1>8, <1>11 DEF Counted
<1>13. rest \in Nat /\ m \in Nat /\ refCount \in Nat
  BY CountedTypes
<1> HIDE DEF n, m, rest
<1>14. CountCovers'
  BY <1>1, <1>9, <1>10, <1>12, <1>13 DEF RefInv, CountCovers
<1> QED
  BY <1>5, <1>6, <1>14 DEF RefInv

\* No more wake-ups get on their way than were reserved.
LEMMA RefPostWrite ==
    ASSUME CountTypes, StepTypes, RefInv, NEW p \in Posters, PostWrite(p)
    PROVE  RefInv'
<1> DEFINE n == NumWake(Numbered(p))
           m == Cardinality(Locked)
           r == [poster[p] EXCEPT !.at = "posted"]
           w == NumWake(OnTheWay)
<1>1. /\ writeLock = p /\ writeLock' = "none" /\ p # "none"
      /\ poster' = [poster EXCEPT ![p] = r]
      /\ UNCHANGED <<writer, waker, got, handling, acks, clean, refCount>>
  BY PostersAssumption DEF PostWrite, wakerVars, endVars, lockVars, CountTypes
<1>2. /\ poster[p] \in [at : PosterSteps, batch : Batches \cup {<<>>},
                        locked : BOOLEAN, stale : BOOLEAN]
  BY DEF CountTypes
<1>3. /\ r.at = "posted" /\ r.batch = poster[p].batch
      /\ r.locked = poster[p].locked
  BY <1>2
<1> HIDE DEF r
<1>4. /\ poster'[p] = r
      /\ \A q \in Posters : q # p => poster'[q] = poster[q]
  BY <1>1 DEF CountTypes
<1>5. PlainUnlocked'
  BY <1>3, <1>4 DEF RefInv, PlainUnlocked
<1>6. StepInv'
  BY <1>1 DEF RefInv, StepInv
<1>7. Cardinality(Locked') = m
  BY <1>1, <1>3, LockCount
<1>8. Reserved = n /\ Reserved' = 0
  BY <1>1 DEF Reserved
<1>9. PICK k \in 0 .. Len(Numbered(p)) :
        OnTheWay' = OnTheWay \o First(Numbered(p), k)
  BY PostWriteWay
<1>10. Numbered(p) \in Seq(Event)
  BY NumberedFacts
<1>11. /\ First(Numbered(p), k) \in Seq(Event)
       /\ NumWake(First(Numbered(p), k)) \in Nat
       /\ NumWake(Rest(Numbered(p), k)) \in Nat
       /\ n = NumWake(First(Numbered(p), k)) + NumWake(Rest(Numbered(p), k))
  BY <1>9, <1>10, Split, WakeSplit
<1>12. NumWake(OnTheWay') = w + NumWake(First(Numbered(p), k))
  BY <1>9, <1>11, WayType, WakeConcat
<1>13. /\ Counted = w + handling + SumOf(acks) + got + m + n
       /\ Counted' = NumWake(OnTheWay') + handling + SumOf(acks) + got + m + 0
  BY <1>1, <1>7, <1>8 DEF Counted
<1>14. /\ w \in Nat /\ handling \in Nat /\ SumOf(acks) \in Nat
       /\ got \in Nat /\ m \in Nat /\ refCount \in Nat
  BY CountedTypes
<1> DEFINE x == NumWake(First(Numbered(p), k))
           y == NumWake(Rest(Numbered(p), k))
<1>15. /\ x \in Nat /\ y \in Nat /\ n = x + y
       /\ Counted' = (w + x) + handling + SumOf(acks) + got + m + 0
  BY <1>11, <1>12, <1>13
<1> HIDE DEF n, m, w, x, y
<1>16. ASSUME refCount >= Counted PROVE refCount >= Counted'
  <2> DEFINE z == handling + SumOf(acks) + got + m
  <2>1. z \in Nat /\ Counted' = (w + x) + z
    BY <1>14, <1>15
  <2>2. Counted = (w + z) + n /\ n \in Nat
    <3>1. n \in Nat
      BY <1>15
    <3>2. Counted = w + handling + SumOf(acks) + got + m + n
      BY <1>13
    <3> QED
      BY <1>14, <3>1, <3>2
  <2> HIDE DEF z
  <2> QED
    BY <1>14, <1>15, <1>16, <2>1, <2>2
<1>17. CountCovers'
  BY <1>1, <1>16 DEF RefInv, CountCovers
<1> QED
  BY <1>5, <1>6, <1>17 DEF RefInv

LEMMA RefWriter ==
    ASSUME CountTypes, StepTypes, RefInv, HandlePendingWrites
    PROVE  RefInv'
<1>1. UNCHANGED <<poster, writeLock, posted, waker, got, handling, acks>>
  BY DEF HandlePendingWrites, WriterTake, WriterWrite, WriterFail,
         WriterUncount, WriterDone, queueVars, wakerVars, endVars
<1>2. PlainUnlocked'
  BY <1>1 DEF RefInv, PlainUnlocked
<1>3. clean' => /\ clean /\ ~WriterFail /\ ~WriterUncount
                /\ refCount' = refCount /\ writer' # "failed"
  BY DEF RefInv, StepInv, HandlePendingWrites, WriterTake, WriterWrite,
         WriterFail, WriterUncount, WriterDone, WriterStep, lockVars
<1>4. StepInv'
  BY <1>1, <1>3 DEF RefInv, StepInv
<1>5. ASSUME clean' PROVE refCount' >= Counted'
  <2>1. OnTheWay' = OnTheWay
    BY <1>3, <1>5, WriterWay
  <2>2. Numbered(writeLock)' = Numbered(writeLock)
    BY <1>1 DEF Numbered
  <2>3. Counted' = Counted
    BY <1>1, <2>1, <2>2 DEF Counted, Locked, Reserved
  <2> QED
    BY <1>3, <1>5, <2>3 DEF RefInv, CountCovers
<1> QED
  BY <1>2, <1>4, <1>5 DEF RefInv, CountCovers

LEMMA RefWaker ==
    ASSUME CountTypes, StepTypes, RefInv, HandleWakelocks
    PROVE  RefInv'
<1> DEFINE m == Cardinality(Locked)
           w == NumWake(OnTheWay)
<1>1. UNCHANGED <<pending, writer, fmq, handling, posted, writeLock>>
  BY DEF HandleWakelocks, WakerLook, WakerRead, WakerReadTimeout, WakerCount,
         queueVars, endVars
<1>2. OnTheWay' = OnTheWay
  BY <1>1, WaySame
<1>3. /\ w \in Nat /\ handling \in Nat /\ SumOf(acks) \in Nat /\ got \in Nat
      /\ m \in Nat /\ Reserved \in Nat /\ refCount \in Nat
      /\ acks \in Seq(Nat)
  BY CountedTypes
<1>4. Counted = w + handling + SumOf(acks) + got + m + Reserved
  BY DEF Counted
<1>5. CASE WakerLook /\ expired
  <2>1. /\ poster' = [p \in Posters |->
               [poster[p] EXCEPT !.stale = poster[p].locked]]
        /\ clean' = FALSE /\ waker' = "wait" /\ waker = "wait" /\ got' = got
    BY <1>5 DEF WakerLook, WakerStep
  <2>2. \A p \in Posters : /\ poster'[p].at = poster[p].at
                           /\ poster'[p].locked = poster[p].locked
                           /\ poster'[p].batch = poster[p].batch
    BY <2>1 DEF CountTypes
  <2>3. PlainUnlocked'
    BY <2>2 DEF RefInv, PlainUnlocked
  <2>4. StepInv'
    BY <1>1, <2>1, <2>2 DEF RefInv, StepInv, StepTypes
  <2> QED
    BY <2>1, <2>3, <2>4 DEF RefInv, CountCovers
<1>6. CASE WakerLook /\ ~expired
  <2>1. /\ UNCHANGED <<poster, clean, got, acks, refCount>>
        /\ waker = "wait" /\ waker' = "read"
    BY <1>6 DEF WakerLook, WakerStep, lockVars, endVars
  <2>2. Counted' = Counted
    BY <1>1, <2>1, CountedSame
  <2> QED
    BY <1>1, <2>1, <2>2
       DEF RefInv, PlainUnlocked, StepInv, CountCovers
<1>7. CASE WakerRead
  <2>1. /\ UNCHANGED <<poster, clean, refCount>> /\ waker = "read"
        /\ waker' = "got" /\ acks # <<>>
        /\ got' = Head(acks) /\ acks' = Tail(acks)
    BY <1>7 DEF WakerRead, WakerStep, lockVars
  <2>2. got = 0
    BY <2>1 DEF RefInv, StepInv
  <2>3. SumOf(acks) = got' + SumOf(acks')
    BY <1>3, <2>1, SumHead
  <2>4. acks' \in Seq(Nat) /\ got' \in Nat
    BY <1>3, <2>1
  <2>5. SumOf(acks') \in Nat
    BY <2>4, SumType
  <2>6. Numbered(writeLock)' = Numbered(writeLock)
    BY <1>1, <2>1 DEF Numbered
  <2>7. Counted' = w + handling + SumOf(acks') + got' + m + Reserved
    BY <1>1, <1>2, <2>1, <2>6 DEF Counted, Locked, Reserved
  <2> HIDE DEF w, m
  <2>8. Counted' = Counted
    BY <1>3, <1>4, <2>2, <2>3, <2>4, <2>5, <2>7
  <2> QED
    BY <1>1, <2>1, <2>8 DEF RefInv, PlainUnlocked, StepInv, CountCovers
<1>8. CASE WakerReadTimeout
  <2>1. /\ UNCHANGED <<poster, clean, got, acks, refCount>>
        /\ waker = "read" /\ waker' = "wait"
    BY <1>8 DEF WakerReadTimeout, WakerStep, lockVars, endVars
  <2>2. Counted' = Counted
    BY <1>1, <2>1, CountedSame
  <2> QED
    BY <1>1, <2>1, <2>2
       DEF RefInv, PlainUnlocked, StepInv, CountCovers
<1>9. CASE WakerCount
  <2>1. /\ UNCHANGED <<poster, clean, acks>> /\ got' = 0
        /\ refCount' = refCount - MinOf(refCount, got)
    BY <1>9 DEF WakerCount, Decrement, endVars
  <2>2. Numbered(writeLock)' = Numbered(writeLock)
    BY <1>1, <2>1 DEF Numbered
  <2>3. Counted' = w + handling + SumOf(acks) + 0 + m + Reserved
    BY <1>1, <1>2, <2>1, <2>2 DEF Counted, Locked, Reserved
  <2> HIDE DEF w, m
  <2>4. CountCovers'
    <3>1. clean => refCount >= w + handling + SumOf(acks) + got + m + Reserved
      BY <1>4 DEF RefInv, CountCovers
    <3>2. MinOf(refCount, got) \in Nat /\ MinOf(refCount, got) <= got
          /\ MinOf(refCount, got) <= refCount
      BY <1>3 DEF MinOf
    <3> DEFINE d == MinOf(refCount, got)
               c == w + handling + SumOf(acks) + m + Reserved
    <3>3. /\ c \in Nat /\ refCount \in Nat /\ got \in Nat
          /\ Counted' = c /\ (clean => refCount >= c + got)
      BY <1>3, <2>3, <3>1
    <3>4. refCount' = refCount - d /\ clean' = clean
      BY <2>1
    <3> HIDE DEF c, d
    <3>5. ASSUME NEW e \in Nat, e <= got, refCount >= c + got
          PROVE  refCount - e >= c
      BY <3>3, <3>5
    <3>6. clean => refCount - d >= c
      BY <3>2, <3>3, <3>5 DEF d
    <3> QED
      BY <3>3, <3>4, <3>6 DEF CountCovers
  <2> QED
    BY <1>1, <2>1, <2>4 DEF RefInv, PlainUnlocked, StepInv
<1> QED
  BY <1>5, <1>6, <1>7, <1>8, <1>9 DEF HandleWakelocks

LEMMA RefFramework ==
    ASSUME CountTypes, StepTypes, RefInv,
           FrameworkRead \/ FrameworkAck \/ Expire
    PROVE  RefInv'
<1> DEFINE m == Cardinality(Locked)
           w == NumWake(OnTheWay)
<1>1. UNCHANGED <<pending, writer, posted, writeLock, poster, waker, got,
                  refCount, clean>>
  BY DEF FrameworkRead, FrameworkAck, Expire, queueVars, lockVars, wakerVars
<1>2. PlainUnlocked' /\ StepInv'
  BY <1>1 DEF RefInv, PlainUnlocked, StepInv
<1>3. /\ w \in Nat /\ handling \in Nat /\ SumOf(acks) \in Nat /\ got \in Nat
      /\ m \in Nat /\ Reserved \in Nat /\ refCount \in Nat
      /\ acks \in Seq(Nat)
  BY CountedTypes
<1>4. Numbered(writeLock)' = Numbered(writeLock)
  BY <1>1 DEF Numbered
<1>5. /\ Counted = w + handling + SumOf(acks) + got + m + Reserved
      /\ Counted' = w' + handling' + SumOf(acks') + got + m + Reserved
  BY <1>1, <1>4 DEF Counted, Locked, Reserved
<1>6. CASE FrameworkRead
  <2>1. PICK k \in 1 .. Len(fmq) :
          /\ fmq' = Rest(fmq, k)
          /\ handling' = handling + NumWake(First(fmq, k))
    BY <1>6 DEF FrameworkRead
  <2>2. acks' = acks
    BY <1>6 DEF FrameworkRead
  <2>3. /\ w = NumWake(First(fmq, k)) + w'
        /\ NumWake(First(fmq, k)) \in Nat /\ w' \in Nat
    BY <1>1, <2>1, ReadWay
  <2> DEFINE x == NumWake(First(fmq, k))
  <2>4. /\ w = x + w' /\ x \in Nat /\ w' \in Nat /\ handling' = handling + x
        /\ SumOf(acks') = SumOf(acks)
    BY <2>1, <2>2, <2>3
  <2> HIDE DEF w, m, x
  <2>5. Counted' = Counted
    BY <1>3, <1>5, <2>4
  <2> QED
    BY <1>1, <1>2, <2>5 DEF RefInv, CountCovers
<1>7. CASE FrameworkAck
  <2>1. acks' = Append(acks, handling) /\ handling' = 0 /\ fmq' = fmq
    BY <1>7 DEF FrameworkAck
  <2>2. SumOf(acks') = SumOf(acks) + handling
    BY <1>3, <2>1, SumAppend
  <2>3. w' = w
    BY <1>1, <2>1, WaySame
  <2> HIDE DEF w, m
  <2>4. Counted' = Counted
    BY <1>3, <1>5, <2>1, <2>2, <2>3
  <2> QED
    BY <1>1, <1>2, <2>4 DEF RefInv, CountCovers
<1>8. CASE Expire
  <2>1. UNCHANGED <<fmq, acks, handling>>
    BY <1>8 DEF Expire, endVars
  <2>2. Counted' = Counted
    BY <1>1, <2>1, CountedSame
  <2> QED
    BY <1>1, <1>2, <2>2 DEF RefInv, CountCovers
<1> QED
  BY <1>6, <1>7, <1>8

\* As long as no wakelock and no blocking write times out, mWakelockRefCount is
\* at least the number of wake-up events in the queues, with the framework and
\* in its answers: the device cannot go to sleep with one of them on its way,
\* whatever the interleaving of posts, partial writes and acknowledgements.
THEOREM CountCoversEvents == Spec => []RefCovers
<1>1. Init => RefInv
  <2> SUFFICES ASSUME Init PROVE RefInv
    OBVIOUS
  <2>1. CountTypes
    BY HeldInit DEF HeldInv
  <2>2. /\ poster = [p \in Posters |-> Idle]
        /\ \A p \in Posters : poster[p] = Idle
    BY DEF Init
  <2>3. PlainUnlocked
    BY <2>2 DEF PlainUnlocked, Idle
  <2>4. StepInv
    BY DEF Init, StepInv
  <2>5. /\ refCount = 0 /\ handling = 0 /\ got = 0 /\ Reserved = 0
    BY DEF Init, Reserved
  <2>6. SumOf(acks) = 0
    <3>1. acks = <<>> /\ acks \in Seq(Nat)
      BY DEF Init
    <3> QED
      BY <3>1, SumType
  <2>7. Cardinality(Locked) = 0
    <3>1. Locked = {}
      BY <2>2 DEF Locked, Idle
    <3> QED
      BY <3>1, FS_EmptySet
  <2>8. NumWake(OnTheWay) = 0
    <3>1. fmq = <<>> /\ Backlog = <<>>
      BY <2>1, WayType DEF Init
    <3>2. OnTheWay \in Seq(Event) /\ Len(OnTheWay) = 0
      BY <3>1 DEF OnTheWay
    <3>3. WakeAt(OnTheWay) = {}
      BY <3>2 DEF WakeAt
    <3> QED
      BY <3>2, <3>3, WakeAtFacts, FS_EmptySet
  <2>9. Counted = 0
    BY <2>5, <2>6, <2>7, <2>8 DEF Counted
  <2> QED
    BY <2>3, <2>4, <2>5, <2>9 DEF RefInv, CountCovers
<1>2. SizeInv /\ RefInv /\ [Next]_vars => RefInv'
  <2> SUFFICES ASSUME SizeInv, RefInv, [Next]_vars PROVE RefInv'
    OBVIOUS
  <2>1. CountTypes /\ StepTypes
    BY DEF SizeInv, HeldInv
  <2>2. CASE \E p \in Posters : CreateWakelock(p) \/ Post(p)
    BY <2>1, <2>2, RefCreate, RefProcess, RefPostCount, RefPostWrite,
       RefRelease DEF Post
  <2>3. CASE HandlePendingWrites
    BY <2>1, <2>3, RefWriter
  <2>4. CASE HandleWakelocks
    BY <2>1, <2>4, RefWaker
  <2>5. CASE FrameworkRead \/ FrameworkAck \/ Expire
    BY <2>1, <2>5, RefFramework
  <2>6. CASE UNCHANGED vars
    <3>1. UNCHANGED <<fmq, pending, writer, handling, acks, got, poster,
                      writeLock, posted, waker, clean, refCount>>
      BY <2>6 DEF vars, queueVars, lockVars, wakerVars, endVars
    <3>2. Counted' = Counted
      BY <2>1, <3>1, CountedSame
    <3> QED
      BY <3>1, <3>2 DEF RefInv, PlainUnlocked, StepInv, CountCovers
  <2> QED
    BY <2>2, <2>3, <2>4, <2>5, <2>6 DEF Next
<1>3. SizeInv /\ RefInv => RefCovers
  <2> SUFFICES ASSUME SizeInv, RefInv, clean
               PROVE  refCount >= NumWake(OnTheWay) + handling + SumOf(acks)
                                    + got
    BY DEF RefCovers, OnTheWay
  <2>1. CountTypes /\ StepTypes
    BY DEF SizeInv, HeldInv
  <2>2. /\ NumWake(OnTheWay) \in Nat /\ handling \in Nat /\ got \in Nat
        /\ SumOf(acks) \in Nat /\ Cardinality(Locked) \in Nat
        /\ Reserved \in Nat /\ refCount \in Nat
    BY <2>1, CountedTypes
  <2>3. refCount >= NumWake(OnTheWay) + handling + SumOf(acks) + got
                      + Cardinality(Locked) + Reserved
    BY DEF RefInv, CountCovers, Counted
  <2> QED
    BY <2>2, <2>3
<1> QED
  BY <1>1, <1>2, <1>3, SizeInvariant, PTL DEF Spec

=============================================================================
