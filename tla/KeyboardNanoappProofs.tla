----------------------- MODULE KeyboardNanoappProofs -----------------------
(***************************************************************************)
(* The keyboard service's callback slot is atomic: proofs for any number   *)
(* of binder threads, callbacks and frames.                                *)
(***************************************************************************)
EXTENDS KeyboardNanoapp, TLAPS

\* Every variable keeps its type.
LEMMA Typed == TypeOK /\ [Next]_vars => TypeOK'
<1> SUFFICES ASSUME TypeOK, [Next]_vars PROVE TypeOK'
  OBVIOUS
<1> USE NanoappAssumption DEF TypeOK, Goto, Items, Error, Slot
<1>1. CASE ReaderData
  <2>1. frames + 1 \in 0 .. MaxFrames
    BY <1>1 DEF ReaderData
  <2> QED
    BY <1>1, <2>1 DEF ReaderData, Threads
<1>2. CASE ReaderError
  BY <1>2 DEF ReaderError, Threads
<1>3. ASSUME NEW t \in Binders, SendCmd(t) PROVE TypeOK'
  BY <1>3 DEF SendCmd
<1>4. ASSUME NEW t \in Binders, SendCmdResult(t) PROVE TypeOK'
  BY <1>4 DEF SendCmdResult
<1>5. ASSUME NEW t \in Binders, Install(t) PROVE TypeOK'
  BY <1>5 DEF Install, Threads
<1>6. ASSUME NEW t \in Binders, NEW c \in Slot, SetCallback(t, c) PROVE TypeOK'
  BY <1>6 DEF SetCallback
<1>7. ASSUME NEW t \in Threads, Copy(t) PROVE TypeOK'
  BY <1>7 DEF Copy
<1>8. ASSUME NEW t \in Threads, Call(t) PROVE TypeOK'
  BY <1>8 DEF Call
<1>9. ASSUME NEW t \in Threads, ClearDead(t) PROVE TypeOK'
  BY <1>9 DEF ClearDead
<1>10. ASSUME NEW t \in Threads, Leave(t) PROVE TypeOK'
  BY <1>10 DEF Leave
<1>11. ASSUME NEW c \in Callbacks, Die(c) PROVE TypeOK'
  BY <1>11 DEF Die
<1>12. CASE UNCHANGED vars
  BY <1>12 DEF vars
<1> QED
  BY <1>1, <1>2, <1>3, <1>4, <1>5, <1>6, <1>7, <1>8, <1>9, <1>10, <1>11, <1>12
     DEF Next, Notification

\* Every reachable state of the service is well typed.
THEOREM TypeCorrect == Spec => []TypeOK
<1>1. Init => TypeOK
  BY NanoappAssumption DEF Init, TypeOK, Items, Error, Slot
<1> QED
  BY <1>1, Typed, PTL DEF Spec

\* The dispatch lock keeps a notification's copy current over every step.
LEMMA CopyStep == TypeOK /\ CopyIsCurrent /\ [Next]_vars => CopyIsCurrent'
<1> SUFFICES ASSUME TypeOK, CopyIsCurrent, [Next]_vars PROVE CopyIsCurrent'
  OBVIOUS
<1> USE NanoappAssumption DEF TypeOK, CopyIsCurrent, Goto, Threads, Slot
<1>1. CASE ReaderData
  BY <1>1 DEF ReaderData
<1>2. CASE ReaderError
  BY <1>2 DEF ReaderError
<1>3. ASSUME NEW t \in Binders, SendCmd(t) PROVE CopyIsCurrent'
  BY <1>3 DEF SendCmd
<1>4. ASSUME NEW t \in Binders, SendCmdResult(t) PROVE CopyIsCurrent'
  BY <1>4 DEF SendCmdResult
<1>5. ASSUME NEW t \in Binders, Install(t) PROVE CopyIsCurrent'
  BY <1>5 DEF Install
<1>6. ASSUME NEW t \in Binders, NEW c \in Slot, SetCallback(t, c)
      PROVE  CopyIsCurrent'
  BY <1>6 DEF SetCallback
<1>7. ASSUME NEW t \in Threads, Copy(t) PROVE CopyIsCurrent'
  BY <1>7 DEF Copy
<1>8. ASSUME NEW t \in Threads, Call(t) PROVE CopyIsCurrent'
  BY <1>8 DEF Call
<1>9. ASSUME NEW t \in Threads, ClearDead(t) PROVE CopyIsCurrent'
  BY <1>9 DEF ClearDead
<1>10. ASSUME NEW t \in Threads, Leave(t) PROVE CopyIsCurrent'
  BY <1>10 DEF Leave
<1>11. ASSUME NEW c \in Callbacks, Die(c) PROVE CopyIsCurrent'
  BY <1>11 DEF Die
<1>12. CASE UNCHANGED vars
  BY <1>12 DEF vars
<1> QED
  BY <1>1, <1>2, <1>3, <1>4, <1>5, <1>6, <1>7, <1>8, <1>9, <1>10, <1>11, <1>12
     DEF Next, Notification

\* A replaced callback is never invoked after setCallback returned, and only
\* the callback that failed is cleared.
THEOREM CopyStaysCurrent == Spec => []CopyIsCurrent
<1>1. Init => CopyIsCurrent
  BY NanoappAssumption DEF Init, CopyIsCurrent, Threads
<1> QED
  BY <1>1, CopyStep, TypeCorrect, PTL DEF Spec

\* Every step of the service is a step of the atomic slot, or none.
LEMMA StepsImplement ==
    TypeOK /\ CopyIsCurrent /\ [Next]_vars
        => [Registry!RegNext]_(Registry!regVars)
<1> SUFFICES ASSUME TypeOK, CopyIsCurrent, [Next]_vars
             PROVE  [Registry!RegNext]_(Registry!regVars)
  OBVIOUS
<1> USE DEF TypeOK, CopyIsCurrent, Slot, Registry!RegNext, Registry!regVars
<1>1. CASE ReaderData
  BY <1>1 DEF ReaderData
<1>2. CASE ReaderError
  BY <1>2 DEF ReaderError
<1>3. ASSUME NEW t \in Binders, SendCmd(t) \/ SendCmdResult(t)
      PROVE  UNCHANGED Registry!regVars
  BY <1>3 DEF SendCmd, SendCmdResult
<1>4. ASSUME NEW t \in Binders, Install(t) PROVE Registry!RegNext
  <2>1. local[t] \in Slot
    BY DEF Threads
  <2>2. Registry!Register(local[t])
    BY <1>4 DEF Install, Registry!Register
  <2> QED
    BY <2>1, <2>2
<1>5. ASSUME NEW t \in Binders, NEW c \in Slot, SetCallback(t, c)
      PROVE  UNCHANGED Registry!regVars
  BY <1>5 DEF SetCallback
<1>6. ASSUME NEW t \in Threads, Copy(t) \/ Leave(t)
      PROVE  UNCHANGED Registry!regVars
  BY <1>6 DEF Copy, Leave
<1>7. ASSUME NEW t \in Threads, Call(t) PROVE Registry!RegNext
  <2>1. Registry!Deliver(item[t])
    BY <1>7 DEF Call, Registry!Deliver
  <2> QED
    BY <2>1
<1>8. ASSUME NEW t \in Threads, ClearDead(t) PROVE Registry!RegNext
  <2>1. Registry!Drop
    BY <1>8 DEF ClearDead, Registry!Drop
  <2> QED
    BY <2>1
<1>9. ASSUME NEW c \in Callbacks, Die(c) PROVE UNCHANGED Registry!regVars
  BY <1>9 DEF Die
<1>10. CASE UNCHANGED vars
  BY <1>10 DEF vars
<1> QED
  BY <1>1, <1>2, <1>3, <1>4, <1>5, <1>6, <1>7, <1>8, <1>9, <1>10
     DEF Next, Notification

\* The service implements the atomic callback slot.
THEOREM Implements == Spec => ImplementsRegistry
<1>1. Init => Registry!RegInit
  BY DEF Init, Registry!RegInit
<1> QED
  BY <1>1, StepsImplement, TypeCorrect, CopyStaysCurrent, PTL
     DEF Spec, ImplementsRegistry, Registry!RegSpec
=============================================================================
