----------------------------- MODULE EventSpec -----------------------------
(***************************************************************************)
(* What an event promises to those who use it, whatever it is made of      *)
(* (WaitForSingleObject on Windows, CThreadSyncObject::Wait elsewhere): a  *)
(* wait returns true only while the event is set, and then an event that   *)
(* is not manual is reset in the same step, so that each Set lets at most  *)
(* one wait succeed.                                                       *)
(***************************************************************************)
CONSTANTS Threads, m_bManualReset

VARIABLES
  set,    \* the event is set
  wait    \* for each thread: "idle", "waiting", or the result of its last wait

vars == <<set, wait>>

Init ==
  /\ set = FALSE
  /\ wait = [t \in Threads |-> "idle"]

Set ==
  /\ set' = TRUE
  /\ UNCHANGED wait

Reset ==
  /\ set' = FALSE
  /\ UNCHANGED wait

Begin(t) ==
  /\ wait[t] # "waiting"
  /\ wait' = [wait EXCEPT ![t] = "waiting"]
  /\ UNCHANGED set

Succeed(t) ==
  /\ wait[t] = "waiting"
  /\ set
  /\ set' = m_bManualReset
  /\ wait' = [wait EXCEPT ![t] = "true"]

Fail(t) ==
  /\ wait[t] = "waiting"
  /\ wait' = [wait EXCEPT ![t] = "false"]
  /\ UNCHANGED set

Next ==
  \/ Set
  \/ Reset
  \/ \E t \in Threads : Begin(t) \/ Succeed(t) \/ Fail(t)

Spec == Init /\ [][Next]_vars
=============================================================================
