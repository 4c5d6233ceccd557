------------------------------ MODULE NetChan ------------------------------
(***************************************************************************)
(* The reliable half of a network channel: src/engine/net_chan.cpp.        *)
(*                                                                         *)
(* A client and a server each own a CNetChan.  Every datagram carries the  *)
(* sender's sequence number, the last sequence number it received and one  *)
(* bit per subchannel (its m_nInReliableState).  Reliable data waits in a  *)
(* list per stream, is cut into fragments and travels in subchannels: the  *)
(* sender flips the subchannel's bit when it loads it, the receiver flips  *)
(* its copy when it has read the fragments, and the two bits agree again   *)
(* when the data has arrived.  Datagrams are lost, duplicated, reordered.  *)
(*                                                                         *)
(* The reliable messages of one stream are numbered 1, 2, 3 ... in the     *)
(* order they are handed to the channel; a transfer (dataFragments_t) is   *)
(* an interval of those numbers with a size in bytes.  The contents of a   *)
(* fragment are the transfer it was cut from.                              *)
(***************************************************************************)
EXTENDS Integers, Sequences, FiniteSets

CONSTANTS
  MAX_SUBCHANNELS,  \* alternative send-and-wait bits (8 in the code)
  FRAGMENT_SIZE,    \* bytes in a fragment (256)
  NET_MAX_PAYLOAD,  \* capacity of m_StreamReliable, limit of a merged transfer
  MaxFragments,     \* m_MaxReliablePayloadSize / FRAGMENT_SIZE
  COMPRESS_MIN,     \* smaller transfers are not compressed (512)
  UseCompression,   \* m_bUseCompression /\ net_compresspackets
  Background,       \* m_bFileBackgroundTranmission
  CHOKE_WRAP,       \* the choke count travels in one byte (256)
  NULL,             \* a buffer that is not allocated, a packet without data
  MessageBytes,     \* sizes of reliable messages handed to the channel
  FileBytes,        \* sizes of files and of large asynchronous messages
  Outcomes,         \* what a message handler may do: subset of HandlerResults
  MaxMessages,      \* bound: messages per peer and stream
  MaxSeq,           \* bound: sequence numbers a peer may spend
  MaxClears,        \* bound: calls of Clear per peer
  MaxChokes         \* bound: calls of SetChoked per peer

VARIABLES
  outSeq,      \* m_nOutSequenceNr: number of the next datagram
  inSeq,       \* m_nInSequenceNr: last datagram accepted
  outAck,      \* m_nOutSequenceNrAck: last datagram known to have arrived
  outRel,      \* m_nOutReliableState: one bit per subchannel
  inRel,       \* m_nInReliableState: the remote's bits as received
  choked,      \* m_nChokedPackets: sequence numbers spent since the last send
  packetDrop,  \* m_PacketDrop: datagrams the last accepted one found missing
  reliable,    \* m_StreamReliable: messages not yet cut into fragments
  waiting,     \* m_WaitingList: transfers per stream, the head is being sent
  receive,     \* m_ReceiveList: the transfer being received, per stream
  sub,         \* m_SubChannels
  net,         \* datagrams on their way to each peer
  queued,      \* number of messages handed to the channel, per stream
  delivered,   \* history: message numbers given to the handler, per stream
  confirmed,   \* history: message numbers dropped as sent successfully
  clears,      \* number of calls of Clear
  skipped      \* history: sequence numbers spent by SetChoked

control == <<outSeq, inSeq, outAck, outRel, inRel, sub, net>>
vars == <<outSeq, inSeq, outAck, outRel, inRel, choked, packetDrop, reliable,
          waiting, receive, sub, net, queued, delivered, confirmed, clears,
          skipped>>

Peer == {"client", "server"}
Other(p) == IF p = "client" THEN "server" ELSE "client"

NORMAL == 0
FILE == 1
Streams == {NORMAL, FILE}
SubChans == 0 .. MAX_SUBCHANNELS - 1
SubStates == {"FREE", "TOSEND", "WAITING", "DIRTY"}
HandlerResults == {"ok", "fail", "clear"}

ASSUME NetChanAssumption ==
  /\ MAX_SUBCHANNELS \in Nat \ {0} /\ FRAGMENT_SIZE \in Nat \ {0}
  /\ NET_MAX_PAYLOAD \in Nat /\ COMPRESS_MIN \in Nat /\ CHOKE_WRAP \in Nat \ {0}
  /\ MaxFragments \in 1 .. 7          \* a chunk's length travels in three bits
  /\ UseCompression \in BOOLEAN /\ Background \in BOOLEAN
  /\ MessageBytes \subseteq Nat \ {0} /\ FileBytes \subseteq Nat
  /\ Outcomes \subseteq HandlerResults
  /\ NULL \notin SubChans
  /\ MaxSeq \in [Peer -> Nat] /\ MaxClears \in Nat
  /\ MaxChokes \in Nat /\ MaxMessages \in [Peer -> [Streams -> Nat]]

-----------------------------------------------------------------------------
(* Data *)

\* The state of a subchannel's bit; FLIPBIT.
Bit == {0, 1}
Flip(b) == 1 - b

Min2(a, b) == IF a <= b THEN a ELSE b
BYTES2FRAGMENTS(n) == (n + FRAGMENT_SIZE - 1) \div FRAGMENT_SIZE

\* subChannel_s::Free
FreeSub == [state |-> "FREE", sendSeq |-> -1,
            start |-> [s \in Streams |-> -1], num |-> [s \in Streams |-> 0]]

EmptyReliable == [first |-> 0, last |-> 0, bytes |-> 0, overflowed |-> FALSE]

Transfer(first, last, bytes, isFile) ==
  [first |-> first, last |-> last, bytes |-> bytes, isFile |-> isFile,
   isCompressed |-> FALSE, acked |-> 0, pending |-> 0]

NumFragments(d) == BYTES2FRAGMENTS(d.bytes)

\* Mutant: fragments that are on their way count as not sent.
UnsentIgnoresPending(d) == NumFragments(d) - d.acked

\* UpdateSubChannels: fragments of transfer d no subchannel has taken yet.
Unsent(d) == NumFragments(d) - (d.acked + d.pending)

\* What the first fragment announces, and what every fragment is cut from.
Header(d) == [first |-> d.first, last |-> d.last, bytes |-> d.bytes,
              isFile |-> d.isFile, isCompressed |-> d.isCompressed]

-----------------------------------------------------------------------------
(* Handing data to the channel *)

\* SendData, SendNetMsg: a message goes to the end of the reliable buffer.
SendReliable(p, n) ==
  /\ queued[p][NORMAL] < MaxMessages[p][NORMAL]
  /\ ~reliable[p].overflowed
  /\ reliable[p].bytes + n <= NET_MAX_PAYLOAD
  /\ LET m == queued[p][NORMAL] + 1 IN
       /\ queued' = [queued EXCEPT ![p][NORMAL] = m]
       /\ reliable' = [reliable EXCEPT ![p].bytes = @ + n, ![p].last = m,
                         ![p].first = IF reliable[p].bytes = 0 THEN m ELSE @]
  /\ UNCHANGED <<control, choked, packetDrop, waiting, receive, delivered,
                 confirmed, clears, skipped>>

\* SendNetMsg without room: the buffer is marked overflowed.
OverflowReliable(p, n) ==
  /\ queued[p][NORMAL] < MaxMessages[p][NORMAL]
  /\ ~reliable[p].overflowed
  /\ reliable[p].bytes + n > NET_MAX_PAYLOAD
  /\ reliable' = [reliable EXCEPT ![p].overflowed = TRUE]
  /\ UNCHANGED <<control, choked, packetDrop, waiting, receive, queued,
                 delivered, confirmed, clears, skipped>>

\* SendFile and EnqueueVeryLargeAsyncTransfer: straight to the file stream.
SendFile(p, n, isFile) ==
  /\ queued[p][FILE] < MaxMessages[p][FILE]
  /\ isFile \/ n > 0
  /\ LET m == queued[p][FILE] + 1 IN
       /\ queued' = [queued EXCEPT ![p][FILE] = m]
       /\ waiting' = [waiting EXCEPT ![p][FILE] =
                        Append(@, Transfer(m, m, n, isFile))]
  /\ UNCHANGED <<control, choked, packetDrop, reliable, receive, delivered,
                 confirmed, clears, skipped>>

-----------------------------------------------------------------------------
(* Sending a datagram *)

\* CreateFragmentsFromBuffer: the reliable buffer r joins transfer d.
Merge(d, r) ==
  [Transfer(d.first, r.last, d.bytes + r.bytes, d.isFile)
     EXCEPT !.isCompressed = d.isCompressed]

\* Mutant: the head of the list is merged into like any other.
CreateFragmentsIntoHead(q, r) ==
  IF r.bytes = 0 THEN q
  ELSE LET k == Len(q) IN
       IF k > 0
         THEN [q EXCEPT ![k] = Merge(@, r)]
         ELSE Append(q, Transfer(r.first, r.last, r.bytes, FALSE))

\* CreateFragmentsFromBuffer: a list q gets the reliable buffer r, merged into
\* its last transfer unless that is the head, which may be on its way.
CreateFragments(q, r) ==
  IF r.bytes = 0 THEN q
  ELSE LET k == Len(q) IN
       IF k > 1 /\ q[k].bytes + r.bytes < NET_MAX_PAYLOAD /\ ~q[k].isFile
         THEN [q EXCEPT ![k] = Merge(@, r)]
         ELSE Append(q, Transfer(r.first, r.last, r.bytes, FALSE))

\* CompressFragments: transfer d takes n bytes.
Compress(d, n) == [d EXCEPT !.bytes = n, !.isCompressed = TRUE]

\* CompressFragments on one list: a head that nothing was sent of may shrink.
CompressHead(q) ==
  {q} \cup
  IF /\ UseCompression /\ q # <<>>
     /\ ~Head(q).isCompressed /\ Head(q).bytes >= COMPRESS_MIN
     /\ Head(q).acked = 0 /\ Head(q).pending = 0
    THEN {[q EXCEPT ![1] = Compress(@, n)] :
             n \in 1 .. Head(q).bytes - 1}
    ELSE {}

Compressed(w) == {[s \in Streams |-> IF s = NORMAL THEN n ELSE f] :
                    n \in CompressHead(w[NORMAL]), f \in CompressHead(w[FILE])}

\* UpdateSubChannels: how many fragments of each head the next subchannel takes.
Load(w) ==
  LET n == IF w[NORMAL] = <<>> THEN 0
           ELSE Min2(MaxFragments, Unsent(Head(w[NORMAL])))
      f == IF w[FILE] = <<>> THEN 0
           ELSE Min2(IF Background THEN Min2(1, MaxFragments - n)
                                   ELSE MaxFragments - n,
                     Unsent(Head(w[FILE])))
  IN  [s \in Streams |-> IF s = NORMAL THEN n ELSE f]

Lowest(I) == CHOOSE i \in I : \A j \in I : i <= j
InState(c, st) == {i \in SubChans : c[i].state = st}

\* UpdateSubChannels: n more fragments of d are on their way.
Reserve(d, n) == [d EXCEPT !.pending = @ + n]

\* UpdateSubChannels: load one free subchannel and flip its bit.
UpdateSubChannels(ch) ==
  LET free == InState(ch.sub, "FREE")
      n == Load(ch.waiting)
      i == Lowest(free)
      Start(s) == Head(ch.waiting[s]).acked + Head(ch.waiting[s]).pending
  IN  IF free = {} \/ \A s \in Streams : n[s] = 0 THEN ch
      ELSE [waiting |-> [s \in Streams |->
                           IF n[s] = 0 THEN ch.waiting[s]
                           ELSE [ch.waiting[s] EXCEPT ![1] = Reserve(@, n[s])]],
            sub |-> [ch.sub EXCEPT ![i] =
                       [state |-> "TOSEND", sendSeq |-> 0, num |-> n,
                        start |-> [s \in Streams |->
                                     IF n[s] = 0 THEN -1 ELSE Start(s)]]],
            rel |-> [ch.rel EXCEPT ![i] = Flip(@)]]

\* SendSubChannelData: the chunk of stream s a loaded subchannel c carries.
Chunk(c, w, s) ==
  IF c.num[s] = 0 THEN NULL
  ELSE [start |-> c.start[s], num |-> c.num[s], of |-> Header(Head(w[s])),
        single |-> c.num[s] = NumFragments(Head(w[s])) /\ ~Head(w[s]).isFile]

NoChunks == [s \in Streams |-> NULL]

\* Mutant: the header acknowledges the datagram that is expected next.
DatagramAcksNext(p, ch, i) ==
  [seq |-> outSeq[p], ack |-> inSeq[p] + 1, rel |-> inRel[p],
   choked |-> choked[p] % CHOKE_WRAP, sub |-> i,
   chunk |-> IF i = NULL THEN NoChunks
             ELSE [s \in Streams |-> Chunk(ch.sub[i], ch.waiting, s)]]

\* SendDatagram after the reliable buffer was moved to the waiting list.
Datagram(p, ch, i) ==
  [seq |-> outSeq[p], ack |-> inSeq[p], rel |-> inRel[p],
   choked |-> choked[p] % CHOKE_WRAP, sub |-> i,
   chunk |-> IF i = NULL THEN NoChunks
             ELSE [s \in Streams |-> Chunk(ch.sub[i], ch.waiting, s)]]

\* SendSubChannelData: subchannel c travels with datagram seq.
Sent(c, seq) == [c EXCEPT !.state = "WAITING", !.sendSeq = seq]

\* SendDatagram, Transmit
SendDatagram(p) ==
  /\ ~reliable[p].overflowed
  /\ outSeq[p] < MaxSeq[p]
  /\ \E w \in Compressed([waiting[p] EXCEPT ![NORMAL] =
                            CreateFragments(@, reliable[p])]) :
       LET ch == UpdateSubChannels([waiting |-> w, sub |-> sub[p],
                                    rel |-> outRel[p]])
           toSend == InState(ch.sub, "TOSEND")
           i == IF toSend = {} THEN NULL ELSE Lowest(toSend)
       IN  /\ waiting' = [waiting EXCEPT ![p] = ch.waiting]
           /\ outRel' = [outRel EXCEPT ![p] = ch.rel]
           /\ sub' = [sub EXCEPT ![p] =
                        [j \in SubChans |->
                           IF j = i THEN Sent(ch.sub[j], outSeq[p]) ELSE ch.sub[j]]]
           /\ net' = [net EXCEPT ![Other(p)] = @ \cup {Datagram(p, ch, i)}]
  /\ reliable' = [reliable EXCEPT ![p] = EmptyReliable]
  /\ choked' = [choked EXCEPT ![p] = 0]
  /\ outSeq' = [outSeq EXCEPT ![p] = @ + 1]
  /\ UNCHANGED <<inSeq, outAck, inRel, packetDrop, receive, queued, delivered,
                 confirmed, clears, skipped>>

\* SetChoked: the host skips a datagram but spends its sequence number.
SetChoked(p) ==
  /\ outSeq[p] < MaxSeq[p]
  /\ Cardinality(skipped[p]) < MaxChokes
  /\ skipped' = [skipped EXCEPT ![p] = @ \cup {outSeq[p]}]
  /\ outSeq' = [outSeq EXCEPT ![p] = @ + 1]
  /\ choked' = [choked EXCEPT ![p] = @ + 1]
  /\ UNCHANGED <<inSeq, outAck, outRel, inRel, sub, net, packetDrop, reliable,
                 waiting, receive, queued, delivered, confirmed, clears>>

-----------------------------------------------------------------------------
(* Clear: drop all reliable data, in either direction *)

ClearedSub(c) == [i \in SubChans |->
                    IF c[i].state = "TOSEND" THEN FreeSub
                    ELSE IF c[i].state = "WAITING"
                           THEN [c[i] EXCEPT !.state = "DIRTY"] ELSE c[i]]

\* Mutant: the bit of data that is not sent any more is not flipped back.
ClearedRelKeepsBits(c, rel) == rel

ClearedRel(c, rel) == [i \in SubChans |-> IF c[i].state = "TOSEND" THEN Flip(rel[i])
                                      ELSE rel[i]]
NoLists == [s \in Streams |-> <<>>]
NoBuffers == [s \in Streams |-> NULL]

\* Clear, called by the host: CBaseClient::Reconnect and Inactivate.
Clear(p) ==
  /\ clears[p] < MaxClears
  /\ clears' = [clears EXCEPT ![p] = @ + 1]
  /\ waiting' = [waiting EXCEPT ![p] = NoLists]
  /\ receive' = [receive EXCEPT ![p] = NoBuffers]
  /\ outRel' = [outRel EXCEPT ![p] = ClearedRel(sub[p], @)]
  /\ sub' = [sub EXCEPT ![p] = ClearedSub(@)]
  /\ reliable' = [reliable EXCEPT ![p] = EmptyReliable]
  /\ choked' = [choked EXCEPT ![p] = 0]
  /\ UNCHANGED <<outSeq, inSeq, outAck, inRel, packetDrop, net, queued,
                 delivered, confirmed, skipped>>

-----------------------------------------------------------------------------
(* Receiving a datagram *)

\* Fragments of stream s that the subchannels I of c carry.
Carried(c, I, s) ==
  Cardinality({x \in I \X (1 .. MaxFragments) : x[2] <= c[x[1]].num[s]})

\* ProcessPacketHeader: n fragments of d have arrived.
Acknowledge(d, n) == [d EXCEPT !.acked = @ + n, !.pending = @ - n]

\* Mutant: a lost subchannel is never scheduled again.
ResendForgotten(c) == c

\* ProcessPacketHeader: "schedule for resend".
Resend(c) == [c EXCEPT !.state = "TOSEND"]

\* ProcessPacketHeader on the subchannels: ok is FALSE when it gives up at a
\* subchannel whose bit is confirmed before its datagram can have arrived.
AfterHeader(p, pk) ==
  LET c == sub[p]
      match == {i \in SubChans : outRel[p][i] = pk.rel[i]}
      due == {i \in SubChans : c[i].sendSeq <= pk.ack}
      invalid == (match \ InState(c, "DIRTY")) \ due
      seen == {i \in SubChans : \A j \in invalid : i < j}
      arrived == seen \cap match \cap InState(c, "WAITING")
      lost == ((seen \ match) \cap due) \cap InState(c, "WAITING")
      flipBack == ((seen \ match) \cap due) \cap InState(c, "DIRTY")
      free == arrived \cup flipBack
                \cup (seen \cap match \cap InState(c, "DIRTY"))
      Credit(q, s) ==
        IF q = <<>> THEN q
        ELSE [q EXCEPT ![1] = Acknowledge(@, Carried(c, arrived, s))]
  IN  [ok |-> invalid = {},
       sub |-> [i \in SubChans |->
                  IF i \in free THEN FreeSub
                  ELSE IF i \in lost THEN Resend(c[i])
                  ELSE c[i]],
       rel |-> [i \in SubChans |-> IF i \in flipBack THEN Flip(outRel[p][i])
                                      ELSE outRel[p][i]],
       waiting |-> [s \in Streams |-> Credit(waiting[p][s], s)]]

\* Mutant: a transfer is complete when all of it was sent.
CompleteWhenSent(q, ack) == q # <<>> /\ ack > 0 /\ Unsent(Head(q)) = 0

\* CheckWaitingList: the head of list q is complete, at acknowledgement ack.
Complete(q, ack) == q # <<>> /\ ack > 0 /\ Head(q).acked = NumFragments(Head(q))

\* ReadSubChannelData: the receive buffer b after reading chunk c.
ReadSubChannelData(b, c) ==
  LET start == IF c.single THEN 0 ELSE c.start
      num == IF c.single THEN BYTES2FRAGMENTS(c.of.bytes) ELSE c.num
      opened == IF start = 0
                  THEN [header |-> c.of, acked |-> 0, data |-> <<>>] ELSE b
      new == start .. start + num - 1
  IN  IF c = NULL THEN [ok |-> TRUE, buf |-> b]
      ELSE IF opened = NULL \/ start + num > BYTES2FRAGMENTS(opened.header.bytes)
        THEN [ok |-> FALSE, buf |-> opened]
      ELSE [ok |-> TRUE,
            buf |-> [opened EXCEPT !.acked = @ + num,
                       !.data = [k \in DOMAIN @ \cup new |->
                                   IF k \in new THEN c.of ELSE @[k]]]]

\* ProcessPacket: the streams are read in order until one fails.
ReadFragments(b, chunk) ==
  LET n == ReadSubChannelData(b[NORMAL], chunk[NORMAL])
      f == IF n.ok THEN ReadSubChannelData(b[FILE], chunk[FILE])
           ELSE [ok |-> FALSE, buf |-> b[FILE]]
  IN  [ok |-> f.ok,
       receive |-> [s \in Streams |-> IF s = NORMAL THEN n.buf ELSE f.buf]]

\* Mutant: one fragment too few completes a transfer.
ReceivedTooSoon(b) == b # NULL /\ b.acked + 1 >= BYTES2FRAGMENTS(b.header.bytes)

\* CheckReceivingList
Received(b) == b # NULL /\ b.acked >= BYTES2FRAGMENTS(b.header.bytes)
TooMany(b) == b # NULL /\ b.acked > BYTES2FRAGMENTS(b.header.bytes)

\* The message numbers in a buffer; 0 stands for contents that are not the
\* fragments of one transfer.
Contents(b) ==
  LET h == b.header IN
  IF b.data = [k \in 0 .. BYTES2FRAGMENTS(h.bytes) - 1 |-> h]
    THEN [k \in 1 .. h.last - h.first + 1 |-> h.first + k - 1] ELSE <<0>>

\* CheckReceivingList on both streams, the handlers doing what result says.
CheckReceiving(b, result) ==
  LET Result(s) == IF TooMany(b[s]) THEN "fail"
                   ELSE IF Received(b[s]) /\ ~b[s].header.isFile THEN result[s]
                   ELSE "ok"
      Reached(s) == s = NORMAL \/ Result(NORMAL) = "ok"
  IN  [cleared |-> \E s \in Streams : Reached(s) /\ Result(s) = "clear",
       receive |-> [s \in Streams |->
                      IF Reached(s) /\ Received(b[s]) /\ Result(s) = "ok"
                        THEN NULL ELSE b[s]],
       handed |-> [s \in Streams |->
                     IF Reached(s) /\ Received(b[s]) /\ ~TooMany(b[s])
                       THEN Contents(b[s]) ELSE <<>>]]

\* The network hands over a datagram and keeps a copy of it.  The datagrams it
\* overtakes need not be kept: DiscardStale would ignore them.
Arrive(p, pk) ==
  /\ pk \in net[p]
  /\ net' = [net EXCEPT ![p] = {other \in @ : other.seq >= pk.seq}]

\* Mutant: a duplicate passes the sequence test.
StaleUnlessEqual(p, pk) == pk.seq < inSeq[p]

\* ProcessPacketHeader: the sequence test.
Stale(p, pk) == pk.seq <= inSeq[p]

\* ProcessPacketHeader: stale and duplicated datagrams are discarded.
DiscardStale(p, pk) ==
  /\ pk \in net[p]
  /\ Stale(p, pk)
  /\ UNCHANGED <<net, outSeq, inSeq, outAck, outRel, inRel, sub, choked, packetDrop,
                 reliable, waiting, receive, queued, delivered, confirmed,
                 clears, skipped>>

\* Streams whose head the acknowledgements of a valid header complete.
Done(h, ack) == {s \in Streams : h.ok /\ Complete(h.waiting[s], ack)}
Remaining(h, ack) == [s \in Streams |-> IF s \in Done(h, ack)
                                          THEN Tail(h.waiting[s])
                                          ELSE h.waiting[s]]

\* Mutant: choked sequence numbers count as lost.
PacketDropChoked(p, pk) == pk.seq - (inSeq[p] + 1)

\* ProcessPacketHeader: m_PacketDrop
PacketDrop(p, pk) == pk.seq - (inSeq[p] + pk.choked + 1)

\* ProcessPacketHeader: bookkeeping, unless the reliable state was invalid.
AcceptHeader(p, pk, h) ==
  /\ ~Stale(p, pk)
  /\ inSeq' = [inSeq EXCEPT ![p] = IF h.ok THEN pk.seq ELSE @]
  /\ outAck' = [outAck EXCEPT ![p] = IF h.ok THEN pk.ack ELSE @]
  /\ packetDrop' = [packetDrop EXCEPT ![p] = PacketDrop(p, pk)]
  /\ confirmed' = [confirmed EXCEPT ![p] = [s \in Streams |->
       IF s \in Done(h, pk.ack)
         THEN @[s] \cup Head(h.waiting[s]).first .. Head(h.waiting[s]).last
         ELSE @[s]]]

\* ProcessPacket reads the chunks of a datagram whose header is valid.
ReadAll(p, pk, h) == IF h.ok THEN ReadFragments(receive[p], pk.chunk)
                     ELSE [ok |-> FALSE, receive |-> receive[p]]

\* ProcessPacket of a datagram without reliable data, or dropped on an error
\* in its header or while reading fragments.
ProcessHeaderOnly(p, pk) ==
  LET h == AfterHeader(p, pk)
      read == ReadAll(p, pk, h)
  IN  /\ Arrive(p, pk)
      /\ AcceptHeader(p, pk, h)
      /\ ~(pk.sub # NULL /\ read.ok)
      /\ sub' = [sub EXCEPT ![p] = h.sub]
      /\ outRel' = [outRel EXCEPT ![p] = h.rel]
      /\ waiting' = [waiting EXCEPT ![p] = Remaining(h, pk.ack)]
      /\ receive' = [receive EXCEPT ![p] = read.receive]
      /\ UNCHANGED <<outSeq, inRel, choked, reliable, queued, delivered, clears,
                     skipped>>

\* ProcessPacket with reliable data: flip the subchannel's bit and hand over
\* what is complete.  A handler that calls Clear on this channel (SIGNONSTATE
\* in client.cpp) ends the processing with everything dropped.
ProcessReliable(p, pk) ==
  LET h == AfterHeader(p, pk)
      read == ReadAll(p, pk, h)
  IN  /\ Arrive(p, pk)
      /\ AcceptHeader(p, pk, h)
      /\ pk.sub # NULL /\ read.ok
      /\ inRel' = [inRel EXCEPT ![p][pk.sub] = Flip(@)]
      /\ \E result \in [Streams -> Outcomes] :
           LET r == CheckReceiving(read.receive, result) IN
           /\ r.cleared => clears[p] < MaxClears
           /\ clears' = IF r.cleared THEN [clears EXCEPT ![p] = @ + 1] ELSE clears
           /\ delivered' = [delivered EXCEPT ![p] =
                              [s \in Streams |-> @[s] \o r.handed[s]]]
           /\ receive' = [receive EXCEPT ![p] =
                            IF r.cleared THEN NoBuffers ELSE r.receive]
           /\ waiting' = [waiting EXCEPT ![p] =
                            IF r.cleared THEN NoLists ELSE Remaining(h, pk.ack)]
           /\ sub' = [sub EXCEPT ![p] =
                        IF r.cleared THEN ClearedSub(h.sub) ELSE h.sub]
           /\ outRel' = [outRel EXCEPT ![p] =
                           IF r.cleared THEN ClearedRel(h.sub, h.rel) ELSE h.rel]
           /\ reliable' = IF r.cleared
                            THEN [reliable EXCEPT ![p] = EmptyReliable]
                            ELSE reliable
           /\ choked' = IF r.cleared THEN [choked EXCEPT ![p] = 0] ELSE choked
      /\ UNCHANGED <<outSeq, queued, skipped>>

\* The network loses a datagram.
Lose(p, pk) ==
  /\ pk \in net[p]
  /\ net' = [net EXCEPT ![p] = @ \ {pk}]
  /\ UNCHANGED <<outSeq, inSeq, outAck, outRel, inRel, sub, choked, packetDrop,
                 reliable, waiting, receive, queued, delivered, confirmed,
                 clears, skipped>>

-----------------------------------------------------------------------------
\* CNetChan::Setup on both ends
Init ==
  /\ outSeq = [p \in Peer |-> 1]
  /\ inSeq = [p \in Peer |-> 0]
  /\ outAck = [p \in Peer |-> 0]
  /\ outRel = [p \in Peer |-> [i \in SubChans |-> 0]]
  /\ inRel = [p \in Peer |-> [i \in SubChans |-> 0]]
  /\ choked = [p \in Peer |-> 0]
  /\ packetDrop = [p \in Peer |-> 0]
  /\ reliable = [p \in Peer |-> EmptyReliable]
  /\ waiting = [p \in Peer |-> NoLists]
  /\ receive = [p \in Peer |-> NoBuffers]
  /\ sub = [p \in Peer |-> [i \in SubChans |-> FreeSub]]
  /\ net = [p \in Peer |-> {}]
  /\ queued = [p \in Peer |-> [s \in Streams |-> 0]]
  /\ delivered = [p \in Peer |-> NoLists]
  /\ confirmed = [p \in Peer |-> [s \in Streams |-> {}]]
  /\ clears = [p \in Peer |-> 0]
  /\ skipped = [p \in Peer |-> {}]

Process(p, pk) == ProcessHeaderOnly(p, pk) \/ ProcessReliable(p, pk)

Host(p) ==
  \/ \E n \in MessageBytes : SendReliable(p, n) \/ OverflowReliable(p, n)
  \/ \E n \in FileBytes, isFile \in BOOLEAN : SendFile(p, n, isFile)
  \/ SendDatagram(p)
  \/ SetChoked(p)
  \/ Clear(p)

Network(p) ==
  \E pk \in net[p] : \/ DiscardStale(p, pk)
                     \/ Process(p, pk)

Next == \E p \in Peer : Host(p) \/ Network(p)

Spec == Init /\ [][Next]_vars
-----------------------------------------------------------------------------
(* Properties *)

Transfers == [first : Nat, last : Nat, bytes : Nat, isFile : BOOLEAN,
              isCompressed : BOOLEAN, acked : Nat, pending : Int]
SubRecords == [state : SubStates, sendSeq : Int,
               start : [Streams -> Int], num : [Streams -> Int]]
ReliableRecords == [first : Nat, last : Nat, bytes : Nat, overflowed : BOOLEAN]
Lists == [Streams -> Seq(Transfers)]
\* The arguments and results of UpdateSubChannels.
SendHalves == [waiting : Lists, sub : [SubChans -> SubRecords],
               rel : [SubChans -> Bit]]
DatagramTyped(pk) ==
  /\ pk.seq \in Nat /\ pk.ack \in Nat /\ pk.choked \in Nat
  /\ pk.rel \in [SubChans -> Bit]
  /\ pk.sub \in SubChans \cup {NULL}

\* The state of the channel outside the receive buffers has its type.
TypeOK ==
  /\ outSeq \in [Peer -> Nat] /\ inSeq \in [Peer -> Nat]
  /\ outAck \in [Peer -> Nat] /\ choked \in [Peer -> Nat]
  /\ outRel \in [Peer -> [SubChans -> Bit]]
  /\ inRel \in [Peer -> [SubChans -> Bit]]
  /\ sub \in [Peer -> [SubChans -> SubRecords]]
  /\ net = [p \in Peer |-> net[p]]
  /\ \A p \in Peer : \A pk \in net[p] : DatagramTyped(pk)
  /\ packetDrop \in [Peer -> Int]
  /\ reliable \in [Peer -> ReliableRecords]
  /\ waiting \in [Peer -> Lists]
  /\ queued \in [Peer -> [Streams -> Nat]]
  /\ clears \in [Peer -> Nat]
  /\ skipped \in [Peer -> SUBSET Nat]

\* Datagrams on their way to p that p would not discard.
Live(p) == {pk \in net[p] : pk.seq > inSeq[p]}

\* Sequence numbers: what is on the way to p was sent, acknowledges only what
\* its sender accepted, and acknowledges no less than what was sent before it
\* (the guards of ProcessPacketHeader rely on it).
SeqOrder ==
  \A p \in Peer :
    /\ inSeq[p] < outSeq[Other(p)]
    /\ \A pk \in net[p] : pk.seq < outSeq[Other(p)] /\ pk.ack <= inSeq[Other(p)]
    /\ \A x, y \in net[p] : x.seq < y.seq => x.ack <= y.ack
    /\ \A x, y \in net[p] : x.seq = y.seq => x = y

\* The bit protocol of subchannel i in one direction: c its record, o the bit at
\* the sender, r at the receiver; out the sender's next sequence number, in the
\* last one the receiver accepted; toQ and toP what is on the way to the
\* receiver and back.
Agree(i, c, o, r, out, in, toQ, toP) ==
  /\ c.state = "FREE" =>
       /\ c.sendSeq = -1 /\ o = r
       /\ \A pk \in toQ : pk.sub # i
       /\ \A pk \in toP : pk.rel[i] = o
  /\ c.state = "TOSEND" =>
       /\ o # r
       /\ \A pk \in toQ : pk.sub # i
       /\ \A pk \in toP : pk.rel[i] # o
  /\ c.state \in {"WAITING", "DIRTY"} =>
       /\ c.sendSeq < out
       /\ in < c.sendSeq => o # r
       /\ \A pk \in toQ : pk.sub = i => pk.seq = c.sendSeq
       /\ \A pk \in toP : IF pk.ack < c.sendSeq THEN pk.rel[i] # o
                                                ELSE pk.rel[i] = r

SubBits(p, q, i) == Agree(i, sub[p][i], outRel[p][i], inRel[q][i], outSeq[p],
                          inSeq[q], Live(q), Live(p))

\* A subchannel's bit differs at the two ends from the moment it is loaded until
\* its fragments are read or it is cleared, and every acceptable datagram of the
\* remote tells the truth about it (net_chan.cpp, ProcessPacketHeader).
ReliableBits == \A p \in Peer, i \in SubChans : SubBits(p, Other(p), i)

\* The two Asserts of ProcessPacketHeader: no acceptable datagram confirms a bit
\* before the datagram that carried it ("reliable state invalid"), and none
\* disagrees with a subchannel that carries nothing.
AssertsHold ==
  \A p \in Peer : \A pk \in Live(p) :
    /\ AfterHeader(p, pk).ok
    /\ \A i \in SubChans : sub[p][i].state = "FREE" => pk.rel[i] = outRel[p][i]

\* Subchannels of p with fragments of stream s of the present head.
Loaded(p, s) == {i \in SubChans : /\ sub[p][i].state \in {"TOSEND", "WAITING"}
                                  /\ sub[p][i].num[s] > 0}
Span(p, s, i) ==
  sub[p][i].start[s] .. sub[p][i].start[s] + sub[p][i].num[s] - 1

\* The counters of the head transfer are the fragments the subchannels carry:
\* no fragment is carried twice, none is skipped, and a subchannel never refers
\* to a head that is gone (the Asserts of UpdateSubChannels and of the loop
\* over waiting lists in ProcessPacketHeader).
FragmentsAccounted ==
  \A p \in Peer, s \in Streams :
    LET I == Loaded(p, s) IN
    IF waiting[p][s] = <<>> THEN I = {}
    ELSE LET d == Head(waiting[p][s]) IN
         /\ d.pending = Carried(sub[p], I, s)
         /\ d.acked + d.pending <= NumFragments(d)
         /\ \A i \in I : Span(p, s, i) \subseteq 0 .. d.acked + d.pending - 1
         /\ \A i, j \in I : i # j => Span(p, s, i) \cap Span(p, s, j) = {}

\* A receive buffer holds fragments of the transfer its header announced, each
\* counted once (ReadSubChannelData).
FragmentsOfOneTransfer ==
  \A p \in Peer, s \in Streams :
    LET b == receive[p][s] IN
    b # NULL => /\ \A k \in DOMAIN b.data : b.data[k] = b.header
                /\ b.acked = Cardinality(DOMAIN b.data)

\* A fragment that the remote has yet to accept and that is not the first of its
\* transfer can be accepted: the remote holds the buffer its header opened, or
\* the header is on its way too.  "Since we need the header to arrive we'll just
\* wait for a retry" (ReadSubChannelData).
HeaderComing ==
  \A p \in Peer, s \in Streams :
    LET q == Other(p)
        pending == {i \in Loaded(p, s) : outRel[p][i] # inRel[q][i]}
    IN  (\E i \in pending : sub[p][i].start[s] > 0) =>
          \/ \E i \in pending : sub[p][i].start[s] = 0
          \/ /\ receive[q][s] # NULL
             /\ receive[q][s].header = Header(Head(waiting[p][s]))

\* What is handed to the message handler is one whole transfer, never a mixture
\* of two (0 in delivered): a fragment whose header is lost waits for the retry
\* of the header (ReadSubChannelData).
DeliveredIntact ==
  \A p \in Peer, s \in Streams : \A k \in DOMAIN delivered[p][s] :
    delivered[p][s][k] # 0

\* "flip subChannel bit to signal successfull receiving", "all fragmenst were
\* send successfully": what the sender drops as sent was given to the remote's
\* message handler (CheckWaitingList, ProcessPacket).
ConfirmedMeansDelivered ==
  \A p \in Peer, s \in Streams :
    \A m \in confirmed[p][s] :
      \E k \in DOMAIN delivered[Other(p)][s] : delivered[Other(p)][s][k] = m

\* Messages p dropped without confirmation: what Clear threw away.
Abandoned(p, s) ==
  (1 .. queued[p][s]) \
    (confirmed[p][s]
       \cup (UNION {waiting[p][s][k].first .. waiting[p][s][k].last :
                      k \in DOMAIN waiting[p][s]})
       \cup (IF s = NORMAL /\ reliable[p].bytes > 0
               THEN reliable[p].first .. reliable[p].last ELSE {}))

ClientNormal == INSTANCE ReliableStream WITH
  sent <- queued["client"][NORMAL], received <- delivered["server"][NORMAL],
  confirmed <- confirmed["client"][NORMAL], abandoned <- Abandoned("client", NORMAL)
ClientFile == INSTANCE ReliableStream WITH
  sent <- queued["client"][FILE], received <- delivered["server"][FILE],
  confirmed <- confirmed["client"][FILE], abandoned <- Abandoned("client", FILE)
ServerNormal == INSTANCE ReliableStream WITH
  sent <- queued["server"][NORMAL], received <- delivered["client"][NORMAL],
  confirmed <- confirmed["server"][NORMAL], abandoned <- Abandoned("server", NORMAL)
ServerFile == INSTANCE ReliableStream WITH
  sent <- queued["server"][FILE], received <- delivered["client"][FILE],
  confirmed <- confirmed["server"][FILE], abandoned <- Abandoned("server", FILE)

\* Each stream of each direction delivers the messages in order, each at most
\* once, and skips none but those the sender abandoned: the channel implements
\* four reliable streams (net_chan.cpp from SendNetMsg to ProcessMessages).
StreamsReliable == /\ ClientNormal!Spec /\ ClientFile!Spec
                   /\ ServerNormal!Spec /\ ServerFile!Spec

\* m_PacketDrop counts the datagrams lost before the accepted one and no
\* sequence number that SetChoked spent just before it: it is 0 exactly when
\* no datagram was sent in between.
DropsCounted ==
  [][\A p \in Peer : inSeq'[p] # inSeq[p] =>
       LET between == (inSeq[p] + 1 .. inSeq'[p] - 1) \ skipped[Other(p)]
       IN  /\ packetDrop'[p] >= Cardinality(between)
           /\ packetDrop'[p] = 0 <=> between = {}]_vars
=============================================================================
