------------------------------ MODULE JobQueue ------------------------------
(***************************************************************************)
(* CJobQueue of vstdlib/jobthread.cpp: one lock-free queue per priority, a *)
(* count of the items that are not promised to anyone, and an event that   *)
(* tells whether there are any.  Pop first takes one off the count, under  *)
(* the mutex, and then looks for its item outside it.                      *)
(* A section under the mutex is one action.                                *)
(* One thread pushes and any number of threads pop.  Each CTSQueue is then *)
(* a sequence, with steps that take effect at once (module TSQueue): with  *)
(* several threads that push, PopItem may return false although an item is *)
(* in the queue, behind the half-finished push of another thread.          *)
(***************************************************************************)
EXTENDS Integers, Sequences, FiniteSets

CONSTANTS
  Threads,
  Main,               \* the thread that pushes
  Queues,             \* the queues of a pool: all work in the same way
  Jobs,
  JP_NUM_PRIORITIES

ASSUME JobQueueAssumption ==
  /\ JP_NUM_PRIORITIES \in Nat \ {0}
  /\ Main \in Threads /\ Queues # {} /\ IsFiniteSet(Threads)

Priorities == 0..(JP_NUM_PRIORITIES - 1)

VARIABLES
  m_queues,            \* per queue and priority: the jobs, the oldest first
  m_nItems,            \* per queue
  m_JobAvailableEvent, \* per queue: the manual event is set
  qStep,               \* per thread: "none", "count" (Push) or "scan" (Pop)
  qUsed,               \* per thread: the queue it is in
  level                \* per thread: the priority its Pop looks at next

queueVars == <<m_queues, m_nItems, m_JobAvailableEvent, qStep, qUsed, level>>

NoQueue == CHOOSE q \in Queues : TRUE

QueueInit ==
  /\ m_queues = [q \in Queues |-> [p \in Priorities |-> <<>>]]
  /\ m_nItems = [q \in Queues |-> 0]
  /\ m_JobAvailableEvent = [q \in Queues |-> FALSE]
  /\ qStep = [t \in Threads |-> "none"]
  /\ qUsed = [t \in Threads |-> NoQueue]
  /\ level = [t \in Threads |-> JP_NUM_PRIORITIES - 1]

(* Push: the item becomes visible before it is counted. *)
PushItem(t, q, j, p) ==
  /\ qStep[t] = "none"
  /\ m_queues' = [m_queues EXCEPT ![q][p] = Append(@, j)]
  /\ qStep' = [qStep EXCEPT ![t] = "count"]
  /\ qUsed' = [qUsed EXCEPT ![t] = q]
  /\ UNCHANGED <<m_nItems, m_JobAvailableEvent, level>>

\* Mutant: the event is set when the count was one, not when it becomes one.
CountItemNoSet(t) ==
  /\ qStep[t] = "count"
  /\ m_nItems' = [m_nItems EXCEPT ![qUsed[t]] = @ + 1]
  /\ m_JobAvailableEvent' = [m_JobAvailableEvent EXCEPT ![qUsed[t]] = @ \/ m_nItems[qUsed[t]] = 1]
  /\ qStep' = [qStep EXCEPT ![t] = "none"]
  /\ qUsed' = [qUsed EXCEPT ![t] = NoQueue]
  /\ UNCHANGED <<m_queues, level>>
CountItem(t) ==
  /\ qStep[t] = "count"
  /\ m_nItems' = [m_nItems EXCEPT ![qUsed[t]] = @ + 1]
  /\ m_JobAvailableEvent' = [m_JobAvailableEvent EXCEPT ![qUsed[t]] = @ \/ m_nItems[qUsed[t]] = 0]
  /\ qStep' = [qStep EXCEPT ![t] = "none"]
  /\ qUsed' = [qUsed EXCEPT ![t] = NoQueue]
  /\ UNCHANGED <<m_queues, level>>

(* Pop: under the mutex one item is promised to this thread. *)
\* Mutant: the count is looked at and not reduced.
ReserveNothing(t, q) ==
  /\ qStep[t] = "none" /\ m_nItems[q] > 0
  /\ qStep' = [qStep EXCEPT ![t] = "scan"]
  /\ qUsed' = [qUsed EXCEPT ![t] = q]
  /\ level' = [level EXCEPT ![t] = JP_NUM_PRIORITIES - 1]
  /\ UNCHANGED <<m_queues, m_nItems, m_JobAvailableEvent>>
Reserve(t, q) ==
  /\ qStep[t] = "none" /\ m_nItems[q] > 0
  /\ m_nItems' = [m_nItems EXCEPT ![q] = @ - 1]
  /\ m_JobAvailableEvent' = [m_JobAvailableEvent EXCEPT ![q] = @ /\ m_nItems[q] # 1]
  /\ qStep' = [qStep EXCEPT ![t] = "scan"]
  /\ qUsed' = [qUsed EXCEPT ![t] = q]
  /\ level' = [level EXCEPT ![t] = JP_NUM_PRIORITIES - 1]
  /\ UNCHANGED m_queues

Place(t) == m_queues[qUsed[t]][level[t]]

(* m_queues[i].PopItem( ppJob ), from the highest priority down. *)
ScanLower(t) ==
  /\ qStep[t] = "scan" /\ level[t] >= 0 /\ Place(t) = <<>>
  /\ level' = [level EXCEPT ![t] = @ - 1]
  /\ UNCHANGED <<m_queues, m_nItems, m_JobAvailableEvent, qStep, qUsed>>

TakeItem(t) ==
  /\ qStep[t] = "scan" /\ level[t] >= 0 /\ Place(t) # <<>>
  /\ m_queues' = [m_queues EXCEPT ![qUsed[t]][level[t]] = Tail(@)]
  /\ qStep' = [qStep EXCEPT ![t] = "none"]
  /\ qUsed' = [qUsed EXCEPT ![t] = NoQueue]
  /\ level' = [level EXCEPT ![t] = JP_NUM_PRIORITIES - 1]
  /\ UNCHANGED <<m_nItems, m_JobAvailableEvent>>

QueueNext ==
  \E t \in Threads :
    \/ t = Main /\ \E q \in Queues, j \in Jobs, p \in Priorities : PushItem(t, q, j, p)
    \/ \E q \in Queues : Reserve(t, q)
    \/ CountItem(t) \/ ScanLower(t) \/ TakeItem(t)

QueueSpec == QueueInit /\ [][QueueNext]_queueVars

-----------------------------------------------------------------------------

(* A thread that was promised an item finds one, whatever others push and take
   while it goes through the priorities: "Expected at least one queue item". *)
ExpectedItem == \A t \in Threads : level[t] >= 0
=============================================================================
