----------------------------- MODULE AtomicStack -----------------------------
(***************************************************************************)
(* What CTSListBase promises: a stack of nodes whose Push, Pop and Detach  *)
(* each happen in one step.                                                *)
(***************************************************************************)
EXTENDS Sequences

CONSTANTS Threads, Nodes, NULL

VARIABLES
  stack,    \* the nodes, the one pushed last first
  pending,  \* per thread: the operation it has called and that was not done yet
  node      \* per thread: the node it pushes, or what its operation gave

vars == <<stack, pending, node>>

Top == IF stack = <<>> THEN NULL ELSE Head(stack)

Init ==
  /\ stack = <<>>
  /\ pending = [t \in Threads |-> "none"]
  /\ node = [t \in Threads |-> NULL]

Call(t, op, n) ==
  /\ pending[t] = "none"
  /\ pending' = [pending EXCEPT ![t] = op]
  /\ node' = [node EXCEPT ![t] = n]
  /\ UNCHANGED stack

Done(t, op, n) ==
  /\ pending[t] = op
  /\ pending' = [pending EXCEPT ![t] = "none"]
  /\ node' = [node EXCEPT ![t] = n]

Push(t) == Done(t, "push", NULL) /\ stack' = <<node[t]>> \o stack
Pop(t) == Done(t, "pop", Top) /\ stack' = IF stack = <<>> THEN <<>> ELSE Tail(stack)
Detach(t) == Done(t, "detach", Top) /\ stack' = <<>>

Next ==
  \E t \in Threads :
    \/ \E n \in Nodes : Call(t, "push", n)
    \/ \E op \in {"pop", "detach"} : Call(t, op, NULL)
    \/ Push(t) \/ Pop(t) \/ Detach(t)

Spec == Init /\ [][Next]_vars
=============================================================================
