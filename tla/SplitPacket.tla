---------------------------- MODULE SplitPacket ----------------------------
(***************************************************************************)
(* Datagrams larger than the routable size: src/engine/net_ws.cpp.         *)
(*                                                                         *)
(* NET_SendLong cuts a datagram into pieces that carry a sequence number   *)
(* of the channel, sends the first net_splitrate of them and queues the    *)
(* rest, for the sender thread or for the host's next frames.  NET_GetLong *)
(* collects the pieces of one datagram per remote address: splitflags has  *)
(* the sequence number of the last piece counted in each place, splitCount *)
(* the pieces still missing.  Nothing is acknowledged or sent again.       *)
(*                                                                         *)
(* One direction of one channel is modelled.  The datagrams are numbered   *)
(* in the order they are sent; the contents of a piece is the number of    *)
(* the datagram it was cut from.  The network loses, duplicates and        *)
(* reorders pieces.                                                        *)
(***************************************************************************)
EXTENDS Integers, Sequences, FiniteSets

CONSTANTS
  MAX_SPLITPACKET_SPLITS,  \* places in splitflags: of its 464, the 128 that
                           \* the signed byte of a piece's number can name
  SPLIT_RATE,    \* net_splitrate: pieces that are sent at once
  Threaded,      \* the thread of CQueuedPacketSender sends the queue
  Counts,        \* numbers of pieces a datagram may need
  SplitSizes,    \* bytes in a piece: the routable size of the channel
  MaxDatagrams,  \* bound: datagrams sent
  MaxResets      \* bound: times the channel starts its numbers again

VARIABLES
  splitSequence, \* m_nSplitPacketSequence of the sender's channel
  datagrams,     \* history: what was sent: number, pieces, size of a piece
  sendQueue,     \* pieces in m_QueuedPackets or in g_SendQueue
  net,           \* pieces on their way to the receiver
  entry,         \* CSplitPacketEntry of the sender's address
  resets,        \* number of times the channel started its numbers again
  received,      \* history: what NET_GetLong returned, 0 for a mixture
  seen,          \* history: pieces taken since the entry was created
  interrupted,   \* history: datagrams another one displaced since then
  reused         \* history: two datagrams of one number met in an entry

sender == <<splitSequence, datagrams, sendQueue, resets>>
receiver == <<entry, received, seen, interrupted, reused>>
vars == <<sender, receiver, net>>

Numbers == 0 .. MAX_SPLITPACKET_SPLITS - 1

ASSUME SplitAssumption ==
  /\ MAX_SPLITPACKET_SPLITS \in Nat
  /\ SPLIT_RATE \in Nat
  /\ Threaded \in BOOLEAN
  /\ Counts \subseteq 1 .. MAX_SPLITPACKET_SPLITS
  /\ SplitSizes \subseteq Nat
  /\ MaxDatagrams \in Nat /\ MaxResets \in Nat

-----------------------------------------------------------------------------
(* Sending *)

\* SPLITPACKET and the data that follows it: piece k of datagram d.
Piece(d, k) ==
  [of |-> d, number |-> k, sequence |-> datagrams'[d].sequence,
   count |-> datagrams'[d].count, splitSize |-> datagrams'[d].splitSize]

\* CNetChan::IncrementSplitPacketSequence
IncrementSplitPacketSequence == splitSequence' = splitSequence + 1

\* NET_SendLong of a datagram of n pieces.  The pieces leave one after the
\* other; the first one the socket refuses ends it.  A full queue (the queue of
\* the thread is limited to 1024 packets of all channels) drops pieces.
NET_SendLong(n, size) ==
  LET d == Len(datagrams) + 1
      direct == {k \in 0 .. n - 1 : k < SPLIT_RATE}
      Pieces(K) == {Piece(d, k) : k \in K}
  IN  /\ d <= MaxDatagrams
      /\ IncrementSplitPacketSequence
      /\ datagrams' = Append(datagrams, [sequence |-> splitSequence', count |-> n,
                                         splitSize |-> size])
      /\ \/ \E refused \in direct :
              /\ net' = net \cup Pieces(0 .. refused - 1)
              /\ UNCHANGED sendQueue
         \/ \E rest \in SUBSET ((0 .. n - 1) \ direct) :
              /\ rest = (0 .. n - 1) \ direct \/ Threaded
              /\ net' = net \cup Pieces(direct)
              /\ sendQueue' = sendQueue \cup Pieces(rest)
      /\ UNCHANGED <<receiver, resets>>

\* CQueuedPacketSender::Run sends what is due and NET_SendQueuedPackets the next
\* net_splitrate packets of the queue.  The network may reorder them anyway.
SendQueued ==
  /\ \E due \in SUBSET sendQueue \ {{}} :
       /\ ~Threaded => Cardinality(due) <= SPLIT_RATE
       /\ net' = net \cup due
       /\ sendQueue' = sendQueue \ due
  /\ UNCHANGED <<splitSequence, datagrams, resets, receiver>>

\* CNetChan::Clear: Reset starts the numbers again.
Clear ==
  /\ resets < MaxResets
  /\ resets' = resets + 1
  /\ splitSequence' = 1
  /\ UNCHANGED <<datagrams, sendQueue, net, receiver>>

\* NET_RemoveNetChannel and a new channel to the same address.  Only the queue
\* of the host's frames is cleared: nothing calls ClearQueuedPacketsForChannel
\* of the thread's queue.
NewChannel ==
  /\ resets < MaxResets
  /\ resets' = resets + 1
  /\ splitSequence' = 1
  /\ sendQueue' = IF Threaded THEN sendQueue ELSE {}
  /\ UNCHANGED <<datagrams, net, receiver>>

-----------------------------------------------------------------------------
(* Receiving *)

NewEntry == [currentSequence |-> 0, splitCount |-> 0, nExpectedSplitSize |-> 0,
             totalSize |-> 0, splitflags |-> [k \in Numbers |-> -1],
             buffer |-> [k \in Numbers |-> 0]]

\* "First packet in split series?"
Restarts(e, pk) == e.currentSequence = -1 \/ pk.sequence # e.currentSequence

Begin(e, pk) ==
  IF Restarts(e, pk)
    THEN [e EXCEPT !.currentSequence = pk.sequence, !.splitCount = pk.count,
                   !.nExpectedSplitSize = pk.splitSize]
    ELSE e

\* Mutant: a duplicate is counted again.
CountDuplicates(e, pk) ==
  [e EXCEPT !.splitCount = @ - 1, !.splitflags[pk.number] = pk.sequence,
            !.totalSize = IF pk.number = pk.count - 1 THEN pk.count ELSE @]

\* A piece is counted unless its place was counted under this number before;
\* the last one tells the total size (in pieces).
Count(e, pk) ==
  IF e.splitflags[pk.number] = pk.sequence THEN e
  ELSE [e EXCEPT !.splitCount = @ - 1, !.splitflags[pk.number] = pk.sequence,
                 !.totalSize = IF pk.number = pk.count - 1 THEN pk.count ELSE @]

Store(e, pk) == [e EXCEPT !.buffer[pk.number] = pk.of]

\* "Have we received all of the pieces to the packet?"
Complete(e) == e.splitCount <= 0

\* The datagram in the buffer, 0 if it is not the whole of one.
Contents(e) ==
  LET whole == {d \in 1 .. Len(datagrams) :
                  /\ datagrams[d].count = e.totalSize
                  /\ \A k \in 0 .. e.totalSize - 1 : e.buffer[k] = d}
  IN  IF whole = {} THEN 0 ELSE CHOOSE d \in whole : TRUE

\* Datagrams with pieces in the entry under number s.
Under(s) == {pk.of : pk \in {x \in seen : x.sequence = s}}

\* NET_GetLong: a piece is copied to the buffer and may complete a datagram.
TakePiece(pk) ==
  LET begun == Begin(entry, pk)
      stored == Store(Count(begun, pk), pk)
  IN  /\ pk \in net
      /\ begun.nExpectedSplitSize = pk.splitSize
      /\ entry' = IF Complete(stored) THEN [stored EXCEPT !.currentSequence = -1]
                                      ELSE stored
      /\ received' = IF Complete(stored) THEN received \cup {Contents(stored)}
                                         ELSE received
      /\ seen' = seen \cup {pk}
      /\ interrupted' = IF Restarts(entry, pk)
                          THEN interrupted \cup
                                 (Under(entry.currentSequence) \ received)
                          ELSE interrupted
      /\ reused' = (reused \/ \E d \in Under(pk.sequence) : d # pk.of)
      /\ UNCHANGED <<sender, net>>

\* NET_GetLong: a piece of another size than the first one is dropped.
RejectSize(pk) ==
  /\ pk \in net
  /\ Begin(entry, pk).nExpectedSplitSize # pk.splitSize
  /\ entry' = Begin(entry, pk)
  /\ UNCHANGED <<sender, net, received, seen, interrupted, reused>>

\* NET_DiscardStaleSplitpackets: nothing came for 15 seconds.  The next piece
\* finds a new entry.
DiscardStale ==
  /\ entry # NewEntry
  /\ entry' = NewEntry
  /\ seen' = {} /\ interrupted' = {}
  /\ UNCHANGED <<sender, net, received, reused>>

-----------------------------------------------------------------------------
\* The constructors of CNetChan and CSplitPacketEntry
Init ==
  /\ splitSequence = 1 /\ datagrams = <<>> /\ sendQueue = {} /\ resets = 0
  /\ net = {}
  /\ entry = NewEntry
  /\ received = {} /\ seen = {} /\ interrupted = {} /\ reused = FALSE

Sender == \/ \E n \in Counts, size \in SplitSizes : NET_SendLong(n, size)
          \/ SendQueued
          \/ Clear
          \/ NewChannel

Receiver == \/ \E pk \in net : TakePiece(pk) \/ RejectSize(pk)
            \/ DiscardStale

Next == Sender \/ Receiver

Spec == Init /\ [][Next]_vars
-----------------------------------------------------------------------------
(* Properties *)

PieceTyped(pk) ==
  /\ pk.of \in 1 .. Len(datagrams)
  /\ pk.sequence = datagrams[pk.of].sequence
  /\ pk.count = datagrams[pk.of].count
  /\ pk.splitSize = datagrams[pk.of].splitSize
  /\ pk.number \in 0 .. pk.count - 1

Entries == [currentSequence : Int, splitCount : Int, nExpectedSplitSize : Int,
            totalSize : Int, splitflags : [Numbers -> Int],
            buffer : [Numbers -> Nat]]

\* Every piece on its way is a piece of a datagram that was sent.
TypeOK ==
  /\ splitSequence \in Nat \ {0}
  /\ datagrams \in Seq([sequence : Nat \ {0}, count : Counts,
                         splitSize : SplitSizes])
  /\ \A pk \in sendQueue \cup net \cup seen : PieceTyped(pk)
  /\ entry \in Entries
  /\ received \in SUBSET (0 .. Len(datagrams))
  /\ interrupted \in SUBSET (1 .. Len(datagrams))
  /\ reused \in BOOLEAN
  /\ resets \in Nat

\* What NET_GetLong returns is one whole datagram that was sent: when it has
\* "received all of the pieces to the packet" they are pieces of one packet.
Intact == 0 \notin received

\* The places of datagram d whose pieces are in the entry.
Seen(d) == {pk.number : pk \in {x \in seen : x.of = d}}

\* A datagram all of whose pieces arrived was returned, unless the pieces of
\* another one came in between: the receiver loses nothing by itself.
Assembled ==
  \A d \in 1 .. Len(datagrams) :
    Seen(d) = 0 .. datagrams[d].count - 1 => d \in received \cup interrupted

\* Reordering, duplicates, lost pieces and stale entries make no mixture and
\* lose no datagram whose pieces arrived together: that takes two datagrams of
\* one number in the same entry.
WholeUnlessReused == ~reused => Intact /\ Assembled

\* Two datagrams get the same number only from a channel that was cleared or
\* made anew.
ReuseNeedsReset == reused => resets > 0
=============================================================================
