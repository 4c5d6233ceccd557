------------------------------- MODULE Event -------------------------------
(***************************************************************************)
(* CThreadEvent on POSIX: CThreadSyncObject::Wait, CThreadEvent::Set and   *)
(* Reset in src/tier0/threadtools.cpp, over a mutex and a condition        *)
(* variable.  The mutex is free only inside pthread_cond_timedwait, so the *)
(* code from one such call to the next is one action.                      *)
(*                                                                         *)
(* The module has no specification of its own: EventUsers lets any threads *)
(* use one event, RWLock is built from two.                                *)
(***************************************************************************)
EXTENDS Naturals

CONSTANTS
  Threads,
  m_bManualReset,      \* the event stays set until it is reset
  Limited,             \* threads that do not wait with TT_INFINITE
  TimeoutTakesSignal   \* a wait that times out may consume a signal

VARIABLES
  m_cSet,              \* the event is set: 1
  m_bWakeForEvent,     \* a thread in the wait may leave it
  cond                 \* for each thread: where it is in the condition variable

event == <<m_cSet, m_bWakeForEvent, cond>>

\* "out", or inside pthread_cond_timedwait: not signalled, chosen by
\* pthread_cond_signal, or with its time over.
Places == {"out", "blocked", "signalled", "expired"}

ASSUME EventAssumption ==
  /\ m_bManualReset \in BOOLEAN /\ TimeoutTakesSignal \in BOOLEAN
  /\ Limited \subseteq Threads

EventTypeOK ==
  /\ m_cSet \in {0, 1}
  /\ m_bWakeForEvent \in BOOLEAN
  /\ cond \in [Threads -> Places]

EventInit ==
  /\ m_cSet = 0
  /\ m_bWakeForEvent = FALSE
  /\ cond = [t \in Threads |-> "out"]
-----------------------------------------------------------------------------
\* Mutant: nobody is woken.
NoSignal == UNCHANGED cond

\* pthread_cond_signal wakes one of the threads that wait, if there is one.
Signal ==
  \/ /\ \A t \in Threads : cond[t] # "blocked"
     /\ UNCHANGED cond
  \/ \E t \in Threads : /\ cond[t] = "blocked"
                        /\ cond' = [cond EXCEPT ![t] = "signalled"]

Set ==
  /\ m_cSet' = 1
  /\ m_bWakeForEvent' = TRUE
  /\ Signal

Reset ==
  /\ m_cSet' = 0
  /\ m_bWakeForEvent' = FALSE
  /\ UNCHANGED cond

\* Mutant: the permission to leave the wait stays.
ConsumeKeepsWake ==
  /\ UNCHANGED m_bWakeForEvent
  /\ m_cSet' = IF m_bManualReset THEN m_cSet ELSE 0

\* An event that is not manual is reset by the wait that returns true.
Consume ==
  /\ m_bWakeForEvent' = FALSE
  /\ m_cSet' = IF m_bManualReset THEN m_cSet ELSE 0

\* Wait finds the event set and returns true.
TakeSet(t) ==
  /\ cond[t] = "out"
  /\ m_cSet > 0
  /\ Consume
  /\ UNCHANGED cond

\* Wait finds it not set and begins to wait.
Block(t) ==
  /\ cond[t] = "out"
  /\ m_cSet = 0
  /\ ~m_bWakeForEvent
  /\ cond' = [cond EXCEPT ![t] = "blocked"]
  /\ UNCHANGED <<m_cSet, m_bWakeForEvent>>

\* Mutant: an infinite wait wakes up only when it is signalled.
ExpireLimited(t) ==
  /\ t \in Limited
  /\ cond[t] = "blocked"
  /\ cond' = [cond EXCEPT ![t] = "expired"]
  /\ UNCHANGED <<m_cSet, m_bWakeForEvent>>

\* The time of a wait is over.  An infinite wait for a manual event wakes up
\* every 10 ms.
Expire(t) ==
  /\ t \in Limited \/ m_bManualReset
  /\ \/ cond[t] = "blocked"
     \/ TimeoutTakesSignal /\ cond[t] = "signalled"
  /\ cond' = [cond EXCEPT ![t] = "expired"]
  /\ UNCHANGED <<m_cSet, m_bWakeForEvent>>

\* Mutant: whoever wakes up leaves.
LeavesAtOnce == TRUE

\* pthread_cond_timedwait returned 0, perhaps without a signal, and the loop
\* ends: "if ( m_cSet ) break" or its condition.
Leaves == m_bWakeForEvent \/ (m_bManualReset /\ m_cSet > 0)

\* Wait returns true from the loop.
Succeed(t) ==
  /\ cond[t] \in {"blocked", "signalled"}
  /\ Leaves
  /\ Consume
  /\ cond' = [cond EXCEPT ![t] = "out"]

\* Wait returns false: ETIMEDOUT ends the loop of a limited wait, and of an
\* infinite one if the event is set.
TimedOut(t) ==
  /\ cond[t] = "expired"
  /\ t \in Limited \/ Leaves
  /\ cond' = [cond EXCEPT ![t] = "out"]
  /\ UNCHANGED <<m_cSet, m_bWakeForEvent>>

\* The loop waits again.  A wake-up without a signal that finds nothing changes
\* nothing.
Again(t) ==
  /\ \/ cond[t] = "signalled"
     \/ cond[t] = "expired" /\ t \notin Limited
  /\ ~Leaves
  /\ cond' = [cond EXCEPT ![t] = "blocked"]
  /\ UNCHANGED <<m_cSet, m_bWakeForEvent>>

\* A step of a wait that neither begins nor returns.
Inside(t) == Expire(t) \/ Again(t)
=============================================================================
