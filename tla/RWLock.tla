------------------------------- MODULE RWLock ------------------------------
(***************************************************************************)
(* CThreadRWLock: many readers or one writer, writers first                *)
(* (src/public/tier0/threadtools.h, src/tier0/threadtools.cpp).            *)
(*                                                                         *)
(* The counters are only used under m_mutex.  Between Lock and Unlock of   *)
(* it the code sets or resets at most one event, so each such section is   *)
(* one action.  The waits for the events are outside of it, step by step   *)
(* as in Event.                                                            *)
(***************************************************************************)
EXTENDS Integers, FiniteSets

CONSTANTS
  Threads,
  MaxCalls    \* bound: times each thread locks

VARIABLES
  pc,                \* where each thread is
  calls,             \* times each thread has called LockForRead or LockForWrite
  m_nWriters,        \* writers that wait or have the lock
  m_nActiveReaders,  \* readers that have the lock
  m_nPendingReaders, \* readers in WaitForRead
  readSet, readWake, readCond,    \* m_CanRead, a manual event
  writeSet, writeWake, writeCond  \* m_CanWrite

canRead == <<readSet, readWake, readCond>>
canWrite == <<writeSet, writeWake, writeCond>>
counters == <<m_nWriters, m_nActiveReaders, m_nPendingReaders>>
vars == <<pc, calls, counters, canRead, canWrite>>

CanRead == INSTANCE Event WITH
  m_bManualReset <- TRUE, Limited <- {}, TimeoutTakesSignal <- TRUE,
  m_cSet <- readSet, m_bWakeForEvent <- readWake, cond <- readCond

CanWrite == INSTANCE Event WITH
  m_bManualReset <- FALSE, Limited <- {}, TimeoutTakesSignal <- FALSE,
  m_cSet <- writeSet, m_bWakeForEvent <- writeWake, cond <- writeCond

ASSUME RWLockAssumption == IsFiniteSet(Threads) /\ MaxCalls \in Nat

\* "waitRead", "waitWrite": in Wait of the event.  "woken": the wait for
\* m_CanRead returned and the mutex is still to be locked.
Places == {"outside", "waitRead", "woken", "reading", "waitWrite", "writing"}

At(place) == {t \in Threads : pc[t] = place}
Move(t, place) == pc' = [pc EXCEPT ![t] = place]

Init ==
  /\ pc = [t \in Threads |-> "outside"]
  /\ calls = [t \in Threads |-> 0]
  /\ m_nWriters = 0 /\ m_nActiveReaders = 0 /\ m_nPendingReaders = 0
  /\ CanRead!EventInit
  /\ CanWrite!EventInit
-----------------------------------------------------------------------------
Call(t) ==
  /\ pc[t] = "outside"
  /\ calls[t] < MaxCalls
  /\ calls' = [calls EXCEPT ![t] = @ + 1]

\* LockForRead up to the first wait
LockForRead(t) ==
  /\ Call(t)
  /\ IF m_nWriters # 0
       THEN /\ m_nPendingReaders' = m_nPendingReaders + 1
            /\ Move(t, "waitRead")
            /\ UNCHANGED m_nActiveReaders
       ELSE /\ m_nActiveReaders' = m_nActiveReaders + 1
            /\ Move(t, "reading")
            /\ UNCHANGED m_nPendingReaders
  /\ UNCHANGED <<m_nWriters, canRead, canWrite>>

\* WaitForRead: m_CanRead.Wait().  What it returns is not looked at.
WaitForRead(t) ==
  /\ pc[t] = "waitRead"
  /\ \/ /\ CanRead!Block(t) \/ CanRead!Inside(t)
        /\ UNCHANGED pc
     \/ /\ CanRead!TakeSet(t) \/ CanRead!Succeed(t) \/ CanRead!TimedOut(t)
        /\ Move(t, "woken")
  /\ UNCHANGED <<calls, counters, canWrite>>

\* Mutant: the reader stays pending.
EndWaitForReadPending(t) ==
  /\ pc[t] = "woken"
  /\ IF m_nWriters # 0
       THEN Move(t, "waitRead") /\ UNCHANGED m_nActiveReaders
       ELSE Move(t, "reading") /\ m_nActiveReaders' = m_nActiveReaders + 1
  /\ UNCHANGED <<calls, m_nWriters, m_nPendingReaders, canRead, canWrite>>

\* WaitForRead: "while (m_nWriters)", and the rest of LockForRead.
EndWaitForRead(t) ==
  /\ pc[t] = "woken"
  /\ IF m_nWriters # 0
       THEN /\ Move(t, "waitRead")
            /\ UNCHANGED <<m_nPendingReaders, m_nActiveReaders>>
       ELSE /\ m_nPendingReaders' = m_nPendingReaders - 1
            /\ m_nActiveReaders' = m_nActiveReaders + 1
            /\ Move(t, "reading")
  /\ UNCHANGED <<calls, m_nWriters, canRead, canWrite>>

\* Mutant: every reader that leaves lets a writer in.
ReaderLeft == m_nWriters # 0

\* The last reader left, and writers wait.
LastReaderLeft == m_nActiveReaders' = 0 /\ m_nWriters # 0

UnlockRead(t) ==
  /\ pc[t] = "reading"
  /\ m_nActiveReaders' = m_nActiveReaders - 1
  /\ IF LastReaderLeft THEN CanWrite!Set ELSE UNCHANGED canWrite
  /\ Move(t, "outside")
  /\ UNCHANGED <<calls, m_nWriters, m_nPendingReaders, canRead>>

\* Mutant: only other writers make a writer wait.
WaitForWriters == m_nWriters # 0

\* LockForWrite: bWait
MustWait == m_nWriters # 0 \/ m_nActiveReaders # 0

\* LockForWrite up to the wait
LockForWrite(t) ==
  /\ Call(t)
  /\ Move(t, IF MustWait THEN "waitWrite" ELSE "writing")
  /\ m_nWriters' = m_nWriters + 1
  /\ CanRead!Reset
  /\ UNCHANGED <<m_nActiveReaders, m_nPendingReaders, canWrite>>

\* LockForWrite: m_CanWrite.Wait().  An infinite wait for an event that is not
\* manual does not time out.
WaitForWrite(t) ==
  /\ pc[t] = "waitWrite"
  /\ \/ /\ CanWrite!Block(t) \/ CanWrite!Again(t)
        /\ UNCHANGED pc
     \/ /\ CanWrite!TakeSet(t) \/ CanWrite!Succeed(t)
        /\ Move(t, "writing")
  /\ UNCHANGED <<calls, counters, canRead>>

UnlockWrite(t) ==
  /\ pc[t] = "writing"
  /\ m_nWriters' = m_nWriters - 1
  /\ IF m_nWriters' = 0
       THEN /\ IF m_nPendingReaders # 0 THEN CanRead!Set ELSE UNCHANGED canRead
            /\ UNCHANGED canWrite
       ELSE /\ CanWrite!Set
            /\ UNCHANGED canRead
  /\ Move(t, "outside")
  /\ UNCHANGED <<calls, m_nActiveReaders, m_nPendingReaders>>

Waits(t) == WaitForRead(t) \/ EndWaitForRead(t) \/ WaitForWrite(t)
Unlocks(t) == UnlockRead(t) \/ UnlockWrite(t)

Next ==
  \E t \in Threads : LockForRead(t) \/ LockForWrite(t) \/ Waits(t) \/ Unlocks(t)

Spec == Init /\ [][Next]_vars

\* A thread in a call goes on, except inside a condition variable (see
\* EventUsers), and one that has the lock gives it back.
Prompt(t) ==
  \/ readCond[t] # "blocked" /\ writeCond[t] # "blocked" /\ Waits(t)
  \/ WaitForRead(t) /\ CanRead!Expire(t)

FairSpec == Spec /\ \A t \in Threads : WF_vars(Prompt(t)) /\ WF_vars(Unlocks(t))
-----------------------------------------------------------------------------
(* Properties *)

\* Each counter is what it says, and a thread is in a condition variable only
\* while it waits for that event.
TypeOK ==
  /\ pc \in [Threads -> Places]
  /\ calls \in [Threads -> Nat]
  /\ m_nWriters = Cardinality(At("waitWrite") \cup At("writing"))
  /\ m_nActiveReaders = Cardinality(At("reading"))
  /\ m_nPendingReaders = Cardinality(At("waitRead") \cup At("woken"))
  /\ CanRead!EventTypeOK
  /\ CanWrite!EventTypeOK
  /\ \A t \in Threads : /\ readCond[t] # "out" => pc[t] = "waitRead"
                        /\ writeCond[t] # "out" => pc[t] = "waitWrite"

\* A writer is alone.
Exclusion ==
  \A t, u \in Threads :
    pc[t] = "writing" /\ t # u => pc[u] \notin {"writing", "reading"}

\* While there are writers, exactly one thing stands between them and the lock,
\* or lets one of them in: readers, a writer, or m_CanWrite.  No permission to
\* write is left over for later, and none is missing.
OnePermission ==
  Cardinality({x \in {"readers", "writer", "event"} :
                 \/ x = "readers" /\ m_nActiveReaders > 0
                 \/ x = "writer" /\ At("writing") # {}
                 \/ x = "event" /\ writeSet > 0})
    \in IF m_nWriters > 0 THEN {1}
        ELSE {IF m_nActiveReaders > 0 THEN 1 ELSE 0}

\* Everyone who asks for the lock gets it.
Waiting(t) == pc[t] \in {"waitRead", "woken", "waitWrite"}
EveryoneServed == \A t \in Threads : Waiting(t) ~> ~Waiting(t)
=============================================================================
