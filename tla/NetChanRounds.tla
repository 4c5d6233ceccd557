--------------------------- MODULE NetChanRounds ---------------------------
(***************************************************************************)
(* Two hosts that run frames at the same rate over a network that loses at *)
(* most MaxLosses datagrams: each frame sends one datagram (the calls of   *)
(* SendDatagram in cl_main.cpp and baseclient.cpp), and a datagram arrives *)
(* or is lost before the sender's next frame.  What is handed to the       *)
(* channel by sequence number QueueUntil must get through.                 *)
(***************************************************************************)
EXTENDS NetChan

CONSTANTS
  MaxLosses,   \* bound: datagrams the network loses
  QueueUntil   \* bound: no data is handed over after this sequence number

ASSUME RoundsAssumption == MaxLosses \in Nat /\ QueueUntil \in Nat

VARIABLE losses  \* datagrams lost so far
roundVars == <<vars, losses>>

\* A round starts with the client's frame when everything sent in the previous
\* one arrived or was lost; the server's frame comes before or after the
\* client's datagram.
Frame(p) ==
  /\ IF p = "client"
       THEN outSeq["client"] = outSeq["server"] /\ \A q \in Peer : Live(q) = {}
       ELSE outSeq["server"] < outSeq["client"]
  /\ SendDatagram(p)
  /\ UNCHANGED losses

HandOver(p) ==
  /\ outSeq[p] <= QueueUntil
  /\ \/ \E n \in MessageBytes : SendReliable(p, n)
     \/ \E n \in FileBytes : SendFile(p, n, TRUE)
  /\ UNCHANGED losses

Arrival(p) == /\ \E pk \in Live(p) : Process(p, pk)
              /\ UNCHANGED losses

Loss(p) == /\ losses < MaxLosses
           /\ \E pk \in Live(p) : Lose(p, pk)
           /\ losses' = losses + 1

RoundsInit == Init /\ losses = 0
RoundsNext == \E p \in Peer : Frame(p) \/ HandOver(p) \/ Arrival(p) \/ Loss(p)

\* The hosts run their frames, and the network, once it has lost what it may
\* lose, hands over what it carries.  The guards of Frame keep one host from
\* running frames, or one direction from being served, at the other's expense.
Progress == \E p \in Peer : Frame(p) \/ Arrival(p)
RoundsSpec == RoundsInit /\ [][RoundsNext]_roundVars /\ WF_roundVars(Progress)

\* Everything handed to the channel is eventually received by the remote and
\* confirmed: no loss makes the sender wait for an acknowledgement that cannot
\* come (the resend logic of ProcessPacketHeader and UpdateSubChannels).
EventuallyConfirmed ==
  <>[](\A p \in Peer, s \in Streams :
         /\ confirmed[p][s] = 1 .. queued[p][s]
         /\ Len(delivered[Other(p)][s]) = queued[p][s])

MessagesOneWay == [p \in Peer |-> [s \in Streams |->
                     IF p = "client" /\ s = NORMAL THEN 3 ELSE 0]]
MessagesBothStreams == [p \in Peer |-> [s \in Streams |->
                          IF p = "client" THEN 1 ELSE 0]]
Rounds15 == [p \in Peer |-> 16]
=============================================================================
