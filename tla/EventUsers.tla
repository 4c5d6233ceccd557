----------------------------- MODULE EventUsers ----------------------------
(***************************************************************************)
(* Any threads that set, reset and wait for one CThreadEvent, at any time. *)
(***************************************************************************)
EXTENDS Event

VARIABLE wait   \* for each thread: "idle", "waiting", or what Wait returned

vars == <<event, wait>>

Init ==
  /\ EventInit
  /\ wait = [t \in Threads |-> "idle"]

CallSet ==
  /\ Set
  /\ UNCHANGED wait

CallReset ==
  /\ Reset
  /\ UNCHANGED wait

\* A thread calls Wait; it has not locked the event's mutex yet.
CallWait(t) ==
  /\ wait[t] # "waiting"
  /\ wait' = [wait EXCEPT ![t] = "waiting"]
  /\ UNCHANGED event

ReturnTrue(t) ==
  /\ wait[t] = "waiting"
  /\ TakeSet(t) \/ Succeed(t)
  /\ wait' = [wait EXCEPT ![t] = "true"]

ReturnFalse(t) ==
  /\ wait[t] = "waiting"
  /\ TimedOut(t)
  /\ wait' = [wait EXCEPT ![t] = "false"]

KeepWaiting(t) ==
  /\ wait[t] = "waiting"
  /\ Block(t) \/ Inside(t)
  /\ UNCHANGED wait

Waiter(t) == ReturnTrue(t) \/ ReturnFalse(t) \/ KeepWaiting(t)

Next ==
  \/ CallSet
  \/ CallReset
  \/ \E t \in Threads : CallWait(t) \/ Waiter(t)

Spec == Init /\ [][Next]_vars

\* A thread that is in Wait runs on, except inside the condition variable, where
\* it stays until it is signalled or its time is over: that it wakes up without
\* a signal is possible but nothing to rely on.
Prompt(t) ==
  \/ cond[t] # "blocked" /\ Waiter(t)
  \/ Expire(t) /\ UNCHANGED wait

FairSpec == Spec /\ \A t \in Threads : WF_vars(Prompt(t))
-----------------------------------------------------------------------------
(* Properties *)

TypeOK ==
  /\ EventTypeOK
  /\ wait \in [Threads -> {"idle", "waiting", "true", "false"}]
  /\ \A t \in Threads : cond[t] # "out" => wait[t] = "waiting"

\* The permission to leave the loop never outlives the Set it came from, so no
\* wait returns true for a Set that was consumed or taken back.
WakeMeansSet == m_bWakeForEvent => m_cSet > 0

Abstract == INSTANCE EventSpec WITH set <- m_cSet > 0

\* The event is what EventSpec promises.
EventImplemented == Abstract!Spec

Waiting(t) == wait[t] = "waiting"

\* No wake-up of an automatic event is lost: threads do not all wait on while
\* the event is set.
SetReachesWaiters ==
  (m_cSet > 0 /\ \E t \in Threads : Waiting(t))
    ~> (m_cSet = 0 \/ \A t \in Threads : ~Waiting(t))

\* An infinite wait ends only with success: its timeouts make "the loop spin
\* back around".
InfiniteWaitsSucceed == \A t \in Threads \ Limited : wait[t] # "false"
=============================================================================
