---------------------------- MODULE EventProofs ----------------------------
(***************************************************************************)
(* CThreadEvent implements EventSpec, for any threads, manual or not, with *)
(* whatever timeouts.                                                      *)
(***************************************************************************)
EXTENDS EventUsers, TLAPS

EventInv == TypeOK /\ WakeMeansSet

\* The ways a step of a thread in Wait can change the event.
LEMMA InsideStep ==
  ASSUME TypeOK, NEW t \in Threads, Block(t) \/ Inside(t)
  PROVE  /\ UNCHANGED <<m_cSet, m_bWakeForEvent>>
         /\ cond' \in [Threads -> Places]
         /\ \A u \in Threads : u # t => cond'[u] = cond[u]
BY DEF TypeOK, EventTypeOK, Block, Inside, Expire, Again, Places

LEMMA TypeStep == EventInv /\ [Next]_vars => EventInv'
<1> SUFFICES ASSUME EventInv, [Next]_vars
             PROVE  EventInv'
  OBVIOUS
<1> USE DEF EventInv, TypeOK, EventTypeOK, WakeMeansSet
<1>1. CASE CallSet
  <2>1. /\ m_cSet' = 1 /\ m_bWakeForEvent' = TRUE /\ wait' = wait
        /\ cond' \in [Threads -> Places]
        /\ \A t \in Threads : cond'[t] # "out" => cond[t] # "out"
    BY <1>1 DEF CallSet, Set, Signal, Places
  <2> QED BY <2>1
<1>2. CASE CallReset
  BY <1>2 DEF CallReset, Reset
<1>3. ASSUME NEW t \in Threads, CallWait(t)
      PROVE  EventInv'
  BY <1>3 DEF CallWait, event
<1>4. ASSUME NEW t \in Threads, ReturnTrue(t)
      PROVE  EventInv'
  BY <1>4 DEF ReturnTrue, TakeSet, Succeed, Consume, Places
<1>5. ASSUME NEW t \in Threads, ReturnFalse(t)
      PROVE  EventInv'
  BY <1>5 DEF ReturnFalse, TimedOut, Places
<1>6. ASSUME NEW t \in Threads, KeepWaiting(t)
      PROVE  EventInv'
  <2>1. Block(t) \/ Inside(t)
    BY <1>6 DEF KeepWaiting
  <2>2. wait' = wait /\ wait[t] = "waiting"
    BY <1>6 DEF KeepWaiting
  <2> QED BY <2>1, <2>2, InsideStep
<1>7. CASE UNCHANGED vars
  BY <1>7 DEF vars, event
<1> QED BY <1>1, <1>2, <1>3, <1>4, <1>5, <1>6, <1>7 DEF Next, Waiter

LEMMA InitInv == Init => EventInv
BY DEF Init, EventInit, EventInv, TypeOK, EventTypeOK, WakeMeansSet, Places

\* The event's variables keep their types, and a thread is in the condition
\* variable only during a call of Wait.
THEOREM EventTypeCorrect == Spec => []TypeOK
<1> QED BY InitInv, TypeStep, PTL DEF Spec, EventInv

\* m_bWakeForEvent, which ends the loop of Wait, is never left set without m_cSet.
THEOREM EventWakeMeansSet == Spec => []WakeMeansSet
<1> QED BY InitInv, TypeStep, PTL DEF Spec, EventInv
-----------------------------------------------------------------------------
\* Wait returns true only if the event is set.
LEMMA TrueMeansSet ==
  ASSUME EventInv, NEW t \in Threads, ReturnTrue(t)
  PROVE  m_cSet > 0 /\ Consume
BY DEF EventInv, WakeMeansSet, ReturnTrue, TakeSet, Succeed, Leaves

LEMMA StepImplements == EventInv /\ [Next]_vars => [Abstract!Next]_Abstract!vars
<1> SUFFICES ASSUME EventInv, [Next]_vars
             PROVE  Abstract!Next \/ UNCHANGED Abstract!vars
  OBVIOUS
<1>1. CASE CallSet
  <2>1. Abstract!Set
    BY <1>1 DEF CallSet, Set, Abstract!Set
  <2> QED BY <2>1 DEF Abstract!Next
<1>2. CASE CallReset
  <2>1. Abstract!Reset
    BY <1>2 DEF CallReset, Reset, Abstract!Reset
  <2> QED BY <2>1 DEF Abstract!Next
<1>3. ASSUME NEW t \in Threads, CallWait(t)
      PROVE  Abstract!Next
  <2>1. Abstract!Begin(t)
    BY <1>3 DEF CallWait, event, Abstract!Begin
  <2> QED BY <2>1 DEF Abstract!Next
<1>4. ASSUME NEW t \in Threads, ReturnTrue(t)
      PROVE  Abstract!Next
  <2>1. m_cSet > 0 /\ Consume
    BY <1>4, TrueMeansSet
  <2>2. (m_cSet' > 0) = m_bManualReset
    BY <2>1, EventAssumption DEF Consume, EventAssumption
  <2>3. Abstract!Succeed(t)
    BY <1>4, <2>1, <2>2 DEF ReturnTrue, Abstract!Succeed
  <2> QED BY <2>3 DEF Abstract!Next
<1>5. ASSUME NEW t \in Threads, ReturnFalse(t)
      PROVE  Abstract!Next
  <2>1. Abstract!Fail(t)
    BY <1>5 DEF ReturnFalse, TimedOut, Abstract!Fail
  <2> QED BY <2>1 DEF Abstract!Next
<1>6. ASSUME NEW t \in Threads, KeepWaiting(t)
      PROVE  UNCHANGED Abstract!vars
  <2>1. Block(t) \/ Inside(t)
    BY <1>6 DEF KeepWaiting
  <2>2. wait' = wait /\ m_cSet' = m_cSet
    BY <1>6, <2>1, InsideStep DEF KeepWaiting, EventInv
  <2> QED BY <2>2 DEF Abstract!vars
<1>7. CASE UNCHANGED vars
  BY <1>7 DEF vars, event, Abstract!vars
<1> QED BY <1>1, <1>2, <1>3, <1>4, <1>5, <1>6, <1>7 DEF Next, Waiter

\* Every use of a CThreadEvent is one that EventSpec allows: a wait returns true
\* only while the event is set, and resets it in the same step unless it is manual.
THEOREM EventImplements == Spec => EventImplemented
<1>1. Init => Abstract!Init
  BY DEF Init, EventInit, Abstract!Init
<1> QED BY <1>1, InitInv, TypeStep, StepImplements, PTL
        DEF Spec, EventImplemented, Abstract!Spec
=============================================================================
