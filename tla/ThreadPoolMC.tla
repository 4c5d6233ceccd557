---------------------------- MODULE ThreadPoolMC ----------------------------
(* ThreadPool with the programs of its runs. *)
EXTENDS ThreadPool

CONSTANTS j1, j2, j3

\* The second serial job gets the priority of the first one, or a higher one.
SerialPriorities == {f \in [Jobs -> Priorities] : f[j1] = 0 /\ f[j3] = 0}

Program123 == <<j1, j2, j3>>
\* With serial jobs that need not be queued the third one overtakes: SerialInOrder.
Program132 == <<j1, j3, j2>>
=============================================================================
