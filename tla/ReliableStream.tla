--------------------------- MODULE ReliableStream ---------------------------
(***************************************************************************)
(* What one stream of a network channel promises in one direction: the     *)
(* messages 1, 2, 3 ... handed in are received in that order, none twice   *)
(* and none skipped, except that the sender may abandon what it has not    *)
(* yet seen confirmed.                                                     *)
(***************************************************************************)
EXTENDS Integers, Sequences, FiniteSets

VARIABLES
  sent,       \* number of messages handed in
  received,   \* message numbers handed out
  confirmed,  \* messages the sender knows were received
  abandoned   \* messages the sender gave up

vars == <<sent, received, confirmed, abandoned>>

Init == sent = 0 /\ received = <<>> /\ confirmed = {} /\ abandoned = {}

Latest == IF received = <<>> THEN 0 ELSE received[Len(received)]
Range == {received[k] : k \in DOMAIN received}

Send ==
  /\ sent' = sent + 1
  /\ UNCHANGED <<received, confirmed, abandoned>>

\* The messages S are handed out together, in order.
Receive ==
  /\ \E S \in (SUBSET (Latest + 1 .. sent)) \ {{}} :
       LET count == Cardinality(S)
           nth == [k \in 1 .. count |->
                     CHOOSE m \in S : Cardinality({n \in S : n <= m}) = k]
       IN  /\ (Latest + 1 .. nth[count]) \ S \subseteq abandoned
           /\ received' = received \o nth
  /\ UNCHANGED <<sent, confirmed, abandoned>>

\* The sender learns of receptions and may give up the rest.
Settle ==
  /\ confirmed \subseteq confirmed' /\ confirmed' \subseteq Range
  /\ abandoned \subseteq abandoned' /\ abandoned' \subseteq 1 .. sent
  /\ UNCHANGED <<sent, received>>

Next == Send \/ Receive \/ Settle

Spec == Init /\ [][Next]_vars
=============================================================================
