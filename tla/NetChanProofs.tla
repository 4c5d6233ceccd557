--------------------------- MODULE NetChanProofs ---------------------------
(***************************************************************************)
(* What holds of two channels for any number of subchannels, any sizes,    *)
(* any transfers, any loss, duplication and reordering, and Clear at any   *)
(* time: the types of the state, the bit protocol of the subchannels, and  *)
(* the count of the fragments they carry; and where one stream is used and *)
(* nothing is cleared, that each stream delivers all messages in order.    *)
(***************************************************************************)
EXTENDS NetChan, FiniteSetTheorems, SequenceTheorems,
        WellFoundedInduction, TLAPS

-----------------------------------------------------------------------------
(* The operators return what their callers expect *)

\* The sizes are positive numbers.
LEMMA Sizes ==
  /\ FRAGMENT_SIZE \in Nat /\ FRAGMENT_SIZE > 0
  /\ MaxFragments \in Nat /\ CHOKE_WRAP \in Nat /\ CHOKE_WRAP > 0
BY NetChanAssumption DEF NetChanAssumption

-----------------------------------------------------------------------------
(* Transfers and lists *)

\* A peer has a remote.
LEMMA OtherType ==
  ASSUME NEW p \in Peer
  PROVE  Other(p) \in Peer /\ Other(p) # p /\ Other(Other(p)) = p
BY DEF Other, Peer

\* Fragment counts are natural numbers (BYTES2FRAGMENTS).
LEMMA FragmentsType == ASSUME NEW n \in Nat PROVE BYTES2FRAGMENTS(n) \in Nat
BY Sizes DEF BYTES2FRAGMENTS

\* What is left to send of a transfer is a number (UpdateSubChannels).
LEMMA UnsentType ==
  ASSUME NEW d \in Transfers
  PROVE  NumFragments(d) \in Nat /\ Unsent(d) \in Int
BY FragmentsType DEF Transfers, NumFragments, Unsent

\* A new transfer has its type.
LEMMA TransferType ==
  ASSUME NEW first \in Nat, NEW last \in Nat, NEW bytes \in Nat,
         NEW isFile \in BOOLEAN
  PROVE  Transfer(first, last, bytes, isFile) \in Transfers
BY DEF Transfer, Transfers

\* Replacing the head of a list gives a list.
LEMMA HeadType ==
  ASSUME NEW q \in Seq(Transfers), q # <<>>
  PROVE  /\ Head(q) \in Transfers /\ Head(q) = q[1] /\ Tail(q) \in Seq(Transfers)
         /\ \A d \in Transfers : [q EXCEPT ![1] = d] \in Seq(Transfers)
BY ExceptSeq, EmptySeq, Len(q) > 0

\* Steps on one transfer keep its type.
LEMMA TransferSteps ==
  ASSUME NEW d \in Transfers
  PROVE  /\ \A r \in ReliableRecords : Merge(d, r) \in Transfers
         /\ \A n \in Nat : Compress(d, n) \in Transfers
         /\ \A n \in Int : Reserve(d, n) \in Transfers
         /\ \A n \in Nat : Acknowledge(d, n) \in Transfers
<1>1. ASSUME NEW r \in ReliableRecords PROVE Merge(d, r) \in Transfers
  <2>1. Transfer(d.first, r.last, d.bytes + r.bytes, d.isFile) \in Transfers
    BY TransferType DEF Transfers, ReliableRecords
  <2> QED
    BY <2>1 DEF Merge, Transfers
<1>2. ASSUME NEW n \in Nat PROVE Compress(d, n) \in Transfers
  BY DEF Compress, Transfers
<1>3. ASSUME NEW n \in Int PROVE Reserve(d, n) \in Transfers
  BY DEF Reserve, Transfers
<1>4. ASSUME NEW n \in Nat PROVE Acknowledge(d, n) \in Transfers
  <2>1. d.acked + n \in Nat /\ d.pending - n \in Int
    BY DEF Transfers
  <2> QED
    BY <2>1 DEF Acknowledge, Transfers
<1> QED
  BY <1>1, <1>2, <1>3, <1>4

\* CreateFragmentsFromBuffer returns a list.
LEMMA CreateFragmentsType ==
  ASSUME NEW q \in Seq(Transfers), NEW r \in ReliableRecords
  PROVE  CreateFragments(q, r) \in Seq(Transfers)
<1> DEFINE k == Len(q)
<1>1. Append(q, Transfer(r.first, r.last, r.bytes, FALSE)) \in Seq(Transfers)
  <2>1. Transfer(r.first, r.last, r.bytes, FALSE) \in Transfers
    BY TransferType DEF ReliableRecords
  <2> QED
    BY <2>1, AppendProperties
<1>2. ASSUME k > 1 PROVE [q EXCEPT ![k] = Merge(@, r)] \in Seq(Transfers)
  <2>1. q[k] \in Transfers /\ k \in 1 .. Len(q)
    BY <1>2
  <2> QED
    BY <2>1, ExceptSeq, TransferSteps
<1> QED
  BY <1>1, <1>2 DEF CreateFragments

\* CompressFragments returns lists.
LEMMA CompressedType ==
  ASSUME NEW w \in Lists, NEW v \in Compressed(w)
  PROVE  v \in Lists
<1>1. ASSUME NEW q \in Seq(Transfers), NEW x \in CompressHead(q)
      PROVE  x \in Seq(Transfers)
  <2>1. CASE x = q
    BY <2>1
  <2>2. CASE x # q
    <3>1. PICK n \in 1 .. Head(q).bytes - 1 :
            x = [q EXCEPT ![1] = Compress(@, n)]
      BY <1>1, <2>2 DEF CompressHead
    <3>2. q # <<>>
      BY <1>1, <2>2 DEF CompressHead
    <3>3. n \in Nat /\ q[1] \in Transfers
      BY <3>2, HeadType
    <3> QED
      BY <3>1, <3>2, <3>3, HeadType, TransferSteps
  <2> QED
    BY <2>1, <2>2
<1>2. \A s \in Streams : w[s] \in Seq(Transfers)
  BY DEF Lists
<1> QED
  BY <1>1, <1>2 DEF Compressed, Lists, Streams, NORMAL, FILE

-----------------------------------------------------------------------------
(* Subchannels *)

\* subChannel_s::Free gives a subchannel.
LEMMA FreeSubType == FreeSub \in SubRecords
BY DEF FreeSub, SubRecords, SubStates, Streams

\* The smaller of two numbers.
LEMMA Min2Type == ASSUME NEW a \in Int, NEW b \in Int PROVE Min2(a, b) \in Int
BY DEF Min2

\* Fragment numbers for a subchannel are numbers (UpdateSubChannels).
LEMMA LoadType ==
  ASSUME NEW w \in Lists
  PROVE  Load(w) \in [Streams -> Int]
<1>1. ASSUME NEW s \in Streams
      PROVE  w[s] # <<>> => Unsent(Head(w[s])) \in Int
  BY HeadType, UnsentType DEF Lists
<1> DEFINE n == IF w[NORMAL] = <<>> THEN 0
                ELSE Min2(MaxFragments, Unsent(Head(w[NORMAL])))
           room == IF Background THEN Min2(1, MaxFragments - n)
                                 ELSE MaxFragments - n
           f == IF w[FILE] = <<>> THEN 0 ELSE Min2(room, Unsent(Head(w[FILE])))
<1>2. n \in Int
  <2>1. CASE w[NORMAL] = <<>>
    BY <2>1
  <2>2. CASE w[NORMAL] # <<>>
    <3>1. Unsent(Head(w[NORMAL])) \in Int
      BY <1>1, <2>2 DEF Streams
    <3> QED
      BY <3>1, <2>2, Min2Type, Sizes
  <2> QED
    BY <2>1, <2>2
<1>3. room \in Int
  <2> HIDE DEF n
  <2> QED
    BY <1>2, Min2Type, Sizes
<1>4. f \in Int
  <2> HIDE DEF room
  <2>1. CASE w[FILE] = <<>>
    BY <2>1
  <2>2. CASE w[FILE] # <<>>
    <3>1. Unsent(Head(w[FILE])) \in Int
      BY <1>1, <2>2 DEF Streams
    <3> QED
      BY <3>1, <2>2, <1>3, Min2Type
  <2> QED
    BY <2>1, <2>2
<1>5. Load(w) = [s \in Streams |-> IF s = NORMAL THEN n ELSE f]
  BY DEF Load
<1> HIDE DEF n, f
<1> QED
  BY <1>2, <1>4, <1>5

\* A set of natural numbers has a least element.
LEMMA LeastOf ==
  ASSUME NEW K \in SUBSET Nat, K # {}
  PROVE  \E k \in K : \A j \in K : k <= j
<1> DEFINE R == {x \in Nat \X Nat : x[1] < x[2]}
<1>1. IsWellFoundedOn(R, Nat)
  BY NatLessThanWellFounded DEF OpToRel
<1>2. PICK k \in K : \A j \in K : ~(<<j, k>> \in R)
  <2> HIDE DEF R
  <2> QED BY <1>1, WFMin
<1>3. ASSUME NEW j \in K PROVE k <= j
  <2>1. j \in Nat /\ k \in Nat /\ (j < k => <<j, k>> \in R)
    OBVIOUS
  <2> QED BY <1>2, <2>1
<1> QED BY <1>3

\* There is a lowest element in a set of subchannels.
LEMMA LowestType ==
  ASSUME NEW I \in SUBSET SubChans, I # {}
  PROVE  Lowest(I) \in I
<1>1. I \in SUBSET Nat
  BY DEF SubChans
<1> QED
  BY <1>1, LeastOf DEF Lowest

\* UpdateSubChannels returns lists, subchannels and bits.
LEMMA UpdateType ==
  ASSUME NEW ch \in SendHalves
  PROVE  UpdateSubChannels(ch) \in SendHalves
<1> DEFINE free == InState(ch.sub, "FREE")
           n == Load(ch.waiting)
           i == Lowest(free)
           Start(s) == Head(ch.waiting[s]).acked + Head(ch.waiting[s]).pending
           lists == [s \in Streams |->
                       IF n[s] = 0 THEN ch.waiting[s]
                       ELSE [ch.waiting[s] EXCEPT ![1] = Reserve(@, n[s])]]
           record == [state |-> "TOSEND", sendSeq |-> 0, num |-> n,
                      start |-> [s \in Streams |->
                                   IF n[s] = 0 THEN -1 ELSE Start(s)]]
<1>1. /\ ch.waiting \in Lists /\ ch.sub \in [SubChans -> SubRecords]
      /\ ch.rel \in [SubChans -> Bit]
  BY DEF SendHalves
<1>2. n \in [Streams -> Int]
  BY <1>1, LoadType
<1>3. ASSUME NEW s \in Streams, n[s] # 0 PROVE ch.waiting[s] # <<>>
  BY <1>3 DEF Load, Streams, NORMAL, FILE
<1>4. ASSUME NEW s \in Streams
      PROVE  /\ ch.waiting[s] \in Seq(Transfers)
             /\ n[s] # 0 => Start(s) \in Int
             /\ n[s] # 0 => Head(ch.waiting[s]) \in Transfers
  <2>1. ch.waiting[s] \in Seq(Transfers)
    BY <1>1 DEF Lists
  <2>2. ASSUME n[s] # 0 PROVE Head(ch.waiting[s]) \in Transfers
    <3> HIDE DEF n
    <3> QED
      BY <1>3, <2>1, <2>2, HeadType
  <2> QED
    BY <2>1, <2>2 DEF Transfers
<1>5. lists \in Lists
  <2> HIDE DEF n
  <2> SUFFICES ASSUME NEW s \in Streams, n[s] # 0
               PROVE  [ch.waiting[s] EXCEPT ![1] = Reserve(@, n[s])] \in Seq(Transfers)
    BY <1>4 DEF Lists
  <2>1. Reserve(Head(ch.waiting[s]), n[s]) \in Transfers
    BY <1>2, <1>4, TransferSteps
  <2> QED
    BY <1>3, <1>4, <2>1, HeadType
<1>6. record \in SubRecords
  <2> HIDE DEF n
  <2>1. [s \in Streams |-> IF n[s] = 0 THEN -1 ELSE Start(s)] \in [Streams -> Int]
    BY <1>4
  <2> QED
    BY <1>2, <2>1 DEF SubRecords, SubStates
<1> HIDE DEF lists, record, n
<1>7. free # {} => i \in SubChans
  BY LowestType DEF InState
<1>8. ASSUME free # {}
      PROVE  [waiting |-> lists, sub |-> [ch.sub EXCEPT ![i] = record],
              rel |-> [ch.rel EXCEPT ![i] = Flip(@)]] \in SendHalves
  <2>1. Flip(ch.rel[i]) \in Bit
    BY <1>1, <1>7, <1>8 DEF Flip, Bit
  <2> QED
    BY <1>1, <1>5, <1>6, <1>7, <1>8, <2>1 DEF SendHalves
<1> QED
  BY <1>8 DEF UpdateSubChannels, lists, record, n

\* The subchannels are finitely many, and so are the fragments they carry.
LEMMA CarriedType ==
  ASSUME NEW c \in [SubChans -> SubRecords], NEW I \in SUBSET SubChans,
         NEW s \in Streams
  PROVE  Carried(c, I, s) \in Nat
<1>1. IsFiniteSet(SubChans) /\ IsFiniteSet(1 .. MaxFragments)
  BY FS_Interval, NetChanAssumption DEF SubChans, NetChanAssumption
<1>2. IsFiniteSet(I)
  BY <1>1, FS_Subset
<1>3. IsFiniteSet(I \X (1 .. MaxFragments))
  BY <1>1, <1>2, FS_Product
<1> DEFINE F == {x \in I \X (1 .. MaxFragments) : x[2] <= c[x[1]].num[s]}
<1>4. F \subseteq I \X (1 .. MaxFragments)
  OBVIOUS
<1>5. Cardinality(F) \in Nat
  <2> HIDE DEF F
  <2> QED
    BY <1>3, <1>4, FS_Subset, FS_CardinalityType
<1> QED
  BY <1>5 DEF Carried

\* Clear returns subchannels and bits.
LEMMA ClearedType ==
  ASSUME NEW c \in [SubChans -> SubRecords], NEW rel \in [SubChans -> Bit]
  PROVE  /\ ClearedSub(c) \in [SubChans -> SubRecords]
         /\ ClearedRel(c, rel) \in [SubChans -> Bit]
<1>1. ASSUME NEW i \in SubChans
      PROVE  [c[i] EXCEPT !.state = "DIRTY"] \in SubRecords
  BY DEF SubRecords, SubStates
<1>2. ClearedSub(c) \in [SubChans -> SubRecords]
  BY <1>1, FreeSubType DEF ClearedSub
<1>3. ClearedRel(c, rel) \in [SubChans -> Bit]
  BY DEF ClearedRel, Flip, Bit
<1> QED
  BY <1>2, <1>3

\* ProcessPacketHeader returns lists, subchannels and bits.
LEMMA HeaderType ==
  ASSUME TypeOK, NEW p \in Peer, NEW pk, DatagramTyped(pk)
  PROVE  LET h == AfterHeader(p, pk) IN
         /\ h.ok \in BOOLEAN
         /\ h.sub \in [SubChans -> SubRecords]
         /\ h.rel \in [SubChans -> Bit]
         /\ h.waiting \in Lists
<1> DEFINE c == sub[p]
           match == {i \in SubChans : outRel[p][i] = pk.rel[i]}
           due == {i \in SubChans : c[i].sendSeq <= pk.ack}
           invalid == (match \ InState(c, "DIRTY")) \ due
           seen == {i \in SubChans : \A j \in invalid : i < j}
           arrived == seen \cap match \cap InState(c, "WAITING")
           lost == ((seen \ match) \cap due) \cap InState(c, "WAITING")
           flipBack == ((seen \ match) \cap due) \cap InState(c, "DIRTY")
           free == arrived \cup flipBack
                     \cup (seen \cap match \cap InState(c, "DIRTY"))
           n(s) == Carried(c, arrived, s)
           Credit(q, s) == IF q = <<>> THEN q
                           ELSE [q EXCEPT ![1] = Acknowledge(@, n(s))]
           subs == [i \in SubChans |-> IF i \in free THEN FreeSub
                                       ELSE IF i \in lost THEN Resend(c[i])
                                       ELSE c[i]]
           bits == [i \in SubChans |-> IF i \in flipBack THEN Flip(outRel[p][i])
                                       ELSE outRel[p][i]]
           lists == [s \in Streams |-> Credit(waiting[p][s], s)]
<1>1. c \in [SubChans -> SubRecords] /\ outRel[p] \in [SubChans -> Bit]
      /\ waiting[p] \in Lists
  BY DEF TypeOK
<1>2. subs \in [SubChans -> SubRecords]
  <2>1. ASSUME NEW i \in SubChans PROVE Resend(c[i]) \in SubRecords
    BY <1>1 DEF Resend, SubRecords, SubStates
  <2> HIDE DEF free, lost, c
  <2> QED
    BY <1>1, <2>1, FreeSubType
<1>3. bits \in [SubChans -> Bit]
  <2> HIDE DEF flipBack
  <2> QED
    BY <1>1 DEF Flip, Bit
<1>4. lists \in Lists
  <2>1. arrived \in SUBSET SubChans
    OBVIOUS
  <2> HIDE DEF arrived
  <2>2. ASSUME NEW s \in Streams PROVE n(s) \in Nat
    BY <1>1, <2>1, CarriedType
  <2> HIDE DEF n
  <2>3. ASSUME NEW s \in Streams PROVE Credit(waiting[p][s], s) \in Seq(Transfers)
    <3>1. waiting[p][s] \in Seq(Transfers)
      BY <1>1 DEF Lists
    <3> QED
      BY <2>2, <3>1, HeadType, TransferSteps
  <2> HIDE DEF Credit
  <2> QED
    BY <2>3 DEF Lists
<1>5. AfterHeader(p, pk) = [ok |-> invalid = {}, sub |-> subs, rel |-> bits,
                            waiting |-> lists]
  BY DEF AfterHeader
<1> HIDE DEF invalid, subs, bits, lists
<1> QED
  BY <1>2, <1>3, <1>4, <1>5

\* CheckWaitingList returns lists.
LEMMA RemainingType ==
  ASSUME TypeOK, NEW p \in Peer, NEW pk, DatagramTyped(pk), NEW ack
  PROVE  Remaining(AfterHeader(p, pk), ack) \in Lists
<1> DEFINE h == AfterHeader(p, pk)
<1>1. h.waiting \in Lists
  BY HeaderType
<1> HIDE DEF h
<1>2. ASSUME NEW s \in Done(h, ack) PROVE h.waiting[s] # <<>>
  BY DEF Done, Complete
<1>3. ASSUME NEW s \in Streams
      PROVE  (IF s \in Done(h, ack) THEN Tail(h.waiting[s]) ELSE h.waiting[s])
               \in Seq(Transfers)
  BY <1>1, <1>2, HeadType DEF Lists
<1>4. Remaining(h, ack) \in Lists
  BY <1>3 DEF Remaining, Lists
<1> QED
  BY <1>4 DEF h

-----------------------------------------------------------------------------
(* The state *)

\* Setup gives every variable its type.
LEMMA InitTyped == Init => TypeOK
<1> SUFFICES ASSUME Init PROVE TypeOK
  OBVIOUS
<1>1. EmptyReliable \in ReliableRecords
  BY DEF EmptyReliable, ReliableRecords
<1>2. NoLists \in Lists
  BY EmptySeq DEF NoLists, Lists
<1>3. sub \in [Peer -> [SubChans -> SubRecords]]
  BY FreeSubType DEF Init
<1>4. net = [p \in Peer |-> net[p]] /\ \A p \in Peer : net[p] = {}
  BY DEF Init
<1>5. /\ outRel \in [Peer -> [SubChans -> Bit]]
      /\ inRel \in [Peer -> [SubChans -> Bit]]
  BY DEF Init, Bit
<1> QED
  BY <1>1, <1>2, <1>3, <1>4, <1>5 DEF Init, TypeOK

\* Handing data to the channel keeps the types.
LEMMA HandingTyped ==
  ASSUME TypeOK, NEW p \in Peer,
         \/ \E n \in MessageBytes : SendReliable(p, n) \/ OverflowReliable(p, n)
         \/ \E n \in FileBytes, isFile \in BOOLEAN : SendFile(p, n, isFile)
  PROVE  TypeOK'
<1>1. \A s \in Streams : queued[p][s] + 1 \in Nat
  BY DEF TypeOK
<1>2. MessageBytes \subseteq Nat /\ FileBytes \subseteq Nat
  BY NetChanAssumption DEF NetChanAssumption
<1>3. CASE \E n \in MessageBytes : SendReliable(p, n)
  <2>1. PICK n \in MessageBytes : SendReliable(p, n)
    BY <1>3
  <2>2. reliable[p] \in ReliableRecords
    BY DEF TypeOK
  <2> DEFINE m == queued[p][NORMAL] + 1
             r == [reliable[p] EXCEPT !.bytes = @ + n, !.last = m,
                     !.first = IF reliable[p].bytes = 0 THEN m ELSE @]
  <2>3. m \in Nat
    BY <1>1 DEF Streams
  <2>4. r \in ReliableRecords
    <3>1. reliable[p].bytes + n \in Nat
      BY <1>2, <2>2 DEF ReliableRecords
    <3>2. (IF reliable[p].bytes = 0 THEN m ELSE reliable[p].first) \in Nat
      BY <2>2, <2>3 DEF ReliableRecords
    <3> HIDE DEF m
    <3> QED
      BY <2>2, <2>3, <3>1, <3>2 DEF ReliableRecords
  <2>5. queued' \in [Peer -> [Streams -> Nat]]
    BY <2>1, <2>3 DEF SendReliable, TypeOK, Streams
  <2>6. reliable' \in [Peer -> ReliableRecords]
    <3>1. reliable' = [reliable EXCEPT ![p] = r]
      BY <2>1 DEF SendReliable
    <3> HIDE DEF r
    <3> QED
      BY <2>4, <3>1 DEF TypeOK
  <2> QED
    BY <2>1, <2>5, <2>6 DEF TypeOK, SendReliable, control
<1>4. CASE \E n \in MessageBytes : OverflowReliable(p, n)
  <2>1. [reliable[p] EXCEPT !.overflowed = TRUE] \in ReliableRecords
    <3>1. reliable[p] \in ReliableRecords
      BY DEF TypeOK
    <3>2. ASSUME NEW r \in ReliableRecords
          PROVE  [r EXCEPT !.overflowed = TRUE] \in ReliableRecords
      BY DEF ReliableRecords
    <3> QED
      BY <3>1, <3>2
  <2>2. reliable' = [reliable EXCEPT ![p] = [reliable[p] EXCEPT !.overflowed = TRUE]]
    BY <1>4 DEF OverflowReliable
  <2>3. reliable' \in [Peer -> ReliableRecords]
    BY <2>1, <2>2 DEF TypeOK
  <2> QED
    BY <1>4, <2>3 DEF TypeOK, OverflowReliable, control
<1>5. CASE \E n \in FileBytes, isFile \in BOOLEAN : SendFile(p, n, isFile)
  <2>1. PICK n \in FileBytes, isFile \in BOOLEAN : SendFile(p, n, isFile)
    BY <1>5
  <2> DEFINE m == queued[p][FILE] + 1
  <2>2. m \in Nat /\ n \in Nat
    BY <1>1, <1>2 DEF Streams
  <2>3. Transfer(m, m, n, isFile) \in Transfers
    <3> HIDE DEF m
    <3> QED
      BY <2>2, TransferType
  <2>4. waiting[p][FILE] \in Seq(Transfers)
    BY DEF TypeOK, Lists, Streams
  <2>5. Append(waiting[p][FILE], Transfer(m, m, n, isFile)) \in Seq(Transfers)
    <3> HIDE DEF m
    <3> QED
      BY <2>3, <2>4, AppendProperties
  <2>6. waiting' \in [Peer -> Lists]
    BY <2>1, <2>5 DEF SendFile, TypeOK, Lists
  <2>7. queued' \in [Peer -> [Streams -> Nat]]
    BY <2>1, <2>2 DEF SendFile, TypeOK
  <2> QED
    BY <2>1, <2>6, <2>7 DEF TypeOK, SendFile, control
<1> QED
  BY <1>3, <1>4, <1>5

\* SetChoked, Clear and a stale datagram keep the types.
LEMMA OtherStepsTyped ==
  ASSUME TypeOK, NEW p \in Peer,
         SetChoked(p) \/ Clear(p) \/ \E pk \in net[p] : DiscardStale(p, pk)
  PROVE  TypeOK'
<1>1. CASE SetChoked(p)
  BY <1>1 DEF SetChoked, TypeOK
<1>2. CASE Clear(p)
  <2>1. EmptyReliable \in ReliableRecords /\ NoLists \in Lists
    BY EmptySeq DEF EmptyReliable, ReliableRecords, NoLists, Lists
  <2>2. sub[p] \in [SubChans -> SubRecords] /\ outRel[p] \in [SubChans -> Bit]
    BY DEF TypeOK
  <2>3. /\ ClearedSub(sub[p]) \in [SubChans -> SubRecords]
        /\ ClearedRel(sub[p], outRel[p]) \in [SubChans -> Bit]
    BY <2>2, ClearedType
  <2> QED
    BY <1>2, <2>1, <2>3 DEF Clear, TypeOK
<1>3. CASE \E pk \in net[p] : DiscardStale(p, pk)
  BY <1>3 DEF DiscardStale, TypeOK
<1> QED
  BY <1>1, <1>2, <1>3

\* Data given to UpdateSubChannels by SendDatagram has its type.
LEMMA SendHalfType ==
  ASSUME TypeOK, NEW p \in Peer,
         NEW w \in Compressed([waiting[p] EXCEPT ![NORMAL] =
                                 CreateFragments(@, reliable[p])])
  PROVE  [waiting |-> w, sub |-> sub[p], rel |-> outRel[p]] \in SendHalves
<1>1. /\ waiting[p] \in Lists /\ reliable[p] \in ReliableRecords
      /\ sub[p] \in [SubChans -> SubRecords] /\ outRel[p] \in [SubChans -> Bit]
  BY DEF TypeOK
<1>2. CreateFragments(waiting[p][NORMAL], reliable[p]) \in Seq(Transfers)
  BY <1>1, CreateFragmentsType DEF Lists, Streams
<1>3. [waiting[p] EXCEPT ![NORMAL] = CreateFragments(@, reliable[p])] \in Lists
  BY <1>1, <1>2 DEF Lists
<1>4. w \in Lists
  BY <1>3, CompressedType
<1> QED
  BY <1>1, <1>4 DEF SendHalves

\* A subchannel that is sent keeps its type.
LEMMA SentType ==
  ASSUME NEW c \in SubRecords, NEW n \in Nat
  PROVE  Sent(c, n) \in SubRecords
<1>1. ASSUME NEW st \in SubStates, NEW m \in Int
      PROVE  [c EXCEPT !.state = st, !.sendSeq = m] \in SubRecords
  BY DEF SubRecords
<1>2. "WAITING" \in SubStates
  BY DEF SubStates
<1>3. n \in Int
  OBVIOUS
<1>4. [c EXCEPT !.state = "WAITING", !.sendSeq = n] \in SubRecords
  BY <1>1, <1>2, <1>3, Zenon
<1> QED
  BY <1>4 DEF Sent

\* SendDatagram keeps the types.
LEMMA SendTyped ==
  ASSUME TypeOK, NEW p \in Peer, SendDatagram(p)
  PROVE  TypeOK'
<1>1. PICK w \in Compressed([waiting[p] EXCEPT ![NORMAL] =
                                CreateFragments(@, reliable[p])]) :
       LET ch == UpdateSubChannels([waiting |-> w, sub |-> sub[p],
                                    rel |-> outRel[p]])
           toSend == InState(ch.sub, "TOSEND")
           i == IF toSend = {} THEN NULL ELSE Lowest(toSend)
       IN  /\ waiting' = [waiting EXCEPT ![p] = ch.waiting]
           /\ outRel' = [outRel EXCEPT ![p] = ch.rel]
           /\ sub' = [sub EXCEPT ![p] =
                        [j \in SubChans |->
                           IF j = i THEN Sent(ch.sub[j], outSeq[p]) ELSE ch.sub[j]]]
           /\ net' = [net EXCEPT ![Other(p)] = @ \cup {Datagram(p, ch, i)}]
  BY DEF SendDatagram
<1> DEFINE ch == UpdateSubChannels([waiting |-> w, sub |-> sub[p], rel |-> outRel[p]])
           toSend == InState(ch.sub, "TOSEND")
           i == IF toSend = {} THEN NULL ELSE Lowest(toSend)
           subs == [j \in SubChans |->
                      IF j = i THEN Sent(ch.sub[j], outSeq[p]) ELSE ch.sub[j]]
<1>2. ch \in SendHalves
  BY SendHalfType, UpdateType
<1>3. /\ waiting' = [waiting EXCEPT ![p] = ch.waiting]
      /\ outRel' = [outRel EXCEPT ![p] = ch.rel]
      /\ sub' = [sub EXCEPT ![p] = subs]
      /\ net' = [net EXCEPT ![Other(p)] = @ \cup {Datagram(p, ch, i)}]
  BY <1>1
<1> HIDE DEF ch
<1>4. /\ ch.waiting \in Lists /\ ch.rel \in [SubChans -> Bit]
      /\ ch.sub \in [SubChans -> SubRecords]
  BY <1>2 DEF SendHalves
<1>5. i \in SubChans \cup {NULL}
  BY LowestType DEF InState
<1> HIDE DEF i
<1>6. outSeq[p] \in Nat /\ choked[p] \in Nat /\ inSeq[p] \in Nat
      /\ inRel[p] \in [SubChans -> Bit]
  BY DEF TypeOK
<1>7. subs \in [SubChans -> SubRecords]
  BY <1>4, <1>6, SentType
<1>8. DatagramTyped(Datagram(p, ch, i))
  <2>1. choked[p] % CHOKE_WRAP \in Nat
    BY <1>6, Sizes
  <2> QED
    BY <1>5, <1>6, <2>1 DEF DatagramTyped, Datagram
<1> DEFINE dgram == Datagram(p, ch, i)
<1>9. /\ net' = [q \in Peer |-> net'[q]]
      /\ \A q \in Peer : \A pk \in net'[q] : DatagramTyped(pk)
  <2>1. DatagramTyped(dgram) /\ net' = [net EXCEPT ![Other(p)] = @ \cup {dgram}]
    BY <1>3, <1>8
  <2> HIDE DEF dgram
  <2> QED
    BY <2>1, OtherType DEF TypeOK
<1>10. /\ waiting' \in [Peer -> Lists] /\ outRel' \in [Peer -> [SubChans -> Bit]]
       /\ sub' \in [Peer -> [SubChans -> SubRecords]]
  <2> HIDE DEF subs
  <2> QED
    BY <1>3, <1>4, <1>7 DEF TypeOK
<1>11. /\ reliable' = [reliable EXCEPT ![p] = EmptyReliable]
       /\ choked' = [choked EXCEPT ![p] = 0]
       /\ outSeq' = [outSeq EXCEPT ![p] = @ + 1]
       /\ UNCHANGED <<inSeq, outAck, inRel, packetDrop, queued, clears, skipped>>
  BY DEF SendDatagram
<1>12. /\ reliable' \in [Peer -> ReliableRecords] /\ choked' \in [Peer -> Nat]
       /\ outSeq' \in [Peer -> Nat]
  <2>1. EmptyReliable \in ReliableRecords
    BY DEF EmptyReliable, ReliableRecords
  <2> QED
    BY <1>6, <1>11, <2>1 DEF TypeOK
<1> QED
  BY <1>9, <1>10, <1>11, <1>12 DEF TypeOK

\* An accepted header keeps the types of what it updates.
LEMMA AcceptTyped ==
  ASSUME TypeOK, NEW p \in Peer, NEW pk, DatagramTyped(pk), NEW h,
         Arrive(p, pk), AcceptHeader(p, pk, h)
  PROVE  /\ inSeq' \in [Peer -> Nat] /\ outAck' \in [Peer -> Nat]
         /\ packetDrop' \in [Peer -> Int]
         /\ net' = [q \in Peer |-> net'[q]]
         /\ \A q \in Peer : \A d \in net'[q] : DatagramTyped(d)
<1>1. pk.seq \in Nat /\ pk.ack \in Nat /\ pk.choked \in Nat
  BY DEF DatagramTyped
<1>2. inSeq' \in [Peer -> Nat] /\ outAck' \in [Peer -> Nat]
  BY <1>1 DEF AcceptHeader, TypeOK
<1>3. packetDrop' \in [Peer -> Int]
  BY <1>1 DEF AcceptHeader, PacketDrop, TypeOK
<1>4. /\ net' = [q \in Peer |-> net'[q]]
      /\ \A q \in Peer : \A d \in net'[q] : DatagramTyped(d)
  BY DEF Arrive, TypeOK
<1> QED
  BY <1>2, <1>3, <1>4

\* ProcessPacket keeps the types.
LEMMA ProcessTyped ==
  ASSUME TypeOK, NEW p \in Peer, NEW pk \in net[p], Process(p, pk)
  PROVE  TypeOK'
<1> DEFINE h == AfterHeader(p, pk)
           read == ReadAll(p, pk, h)
<1>1. DatagramTyped(pk)
  BY DEF TypeOK
<1>2. /\ h.sub \in [SubChans -> SubRecords] /\ h.rel \in [SubChans -> Bit]
      /\ Remaining(h, pk.ack) \in Lists
  BY <1>1, HeaderType, RemainingType
<1>3. Arrive(p, pk) /\ AcceptHeader(p, pk, h)
  BY DEF Process, ProcessHeaderOnly, ProcessReliable
<1> HIDE DEF h
<1>4. /\ inSeq' \in [Peer -> Nat] /\ outAck' \in [Peer -> Nat]
      /\ packetDrop' \in [Peer -> Int]
      /\ net' = [q \in Peer |-> net'[q]]
      /\ \A q \in Peer : \A d \in net'[q] : DatagramTyped(d)
  BY <1>1, <1>3, AcceptTyped
<1>5. CASE ProcessHeaderOnly(p, pk)
  <2>1. /\ sub' = [sub EXCEPT ![p] = h.sub]
        /\ outRel' = [outRel EXCEPT ![p] = h.rel]
        /\ waiting' = [waiting EXCEPT ![p] = Remaining(h, pk.ack)]
        /\ UNCHANGED <<outSeq, inRel, choked, reliable, queued, clears, skipped>>
    BY <1>5 DEF ProcessHeaderOnly, h
  <2>2. /\ sub' \in [Peer -> [SubChans -> SubRecords]]
        /\ outRel' \in [Peer -> [SubChans -> Bit]]
        /\ waiting' \in [Peer -> Lists]
    BY <1>2, <2>1 DEF TypeOK
  <2> QED
    BY <1>4, <2>1, <2>2 DEF TypeOK
<1>6. CASE ProcessReliable(p, pk)
  <2>1. PICK result \in [Streams -> Outcomes] :
          LET r == CheckReceiving(read.receive, result) IN
          /\ clears' = IF r.cleared THEN [clears EXCEPT ![p] = @ + 1] ELSE clears
          /\ waiting' = [waiting EXCEPT ![p] =
                           IF r.cleared THEN NoLists ELSE Remaining(h, pk.ack)]
          /\ sub' = [sub EXCEPT ![p] =
                       IF r.cleared THEN ClearedSub(h.sub) ELSE h.sub]
          /\ outRel' = [outRel EXCEPT ![p] =
                          IF r.cleared THEN ClearedRel(h.sub, h.rel) ELSE h.rel]
          /\ reliable' = IF r.cleared
                           THEN [reliable EXCEPT ![p] = EmptyReliable]
                           ELSE reliable
          /\ choked' = IF r.cleared THEN [choked EXCEPT ![p] = 0] ELSE choked
    BY <1>6 DEF ProcessReliable, h
  <2> DEFINE cleared == CheckReceiving(read.receive, result).cleared
  <2>2. /\ clears' = IF cleared THEN [clears EXCEPT ![p] = @ + 1] ELSE clears
        /\ waiting' = [waiting EXCEPT ![p] =
                         IF cleared THEN NoLists ELSE Remaining(h, pk.ack)]
        /\ sub' = [sub EXCEPT ![p] = IF cleared THEN ClearedSub(h.sub) ELSE h.sub]
        /\ outRel' = [outRel EXCEPT ![p] =
                        IF cleared THEN ClearedRel(h.sub, h.rel) ELSE h.rel]
        /\ reliable' = IF cleared THEN [reliable EXCEPT ![p] = EmptyReliable]
                                  ELSE reliable
        /\ choked' = IF cleared THEN [choked EXCEPT ![p] = 0] ELSE choked
    BY <2>1
  <2> HIDE DEF cleared
  <2>3. EmptyReliable \in ReliableRecords /\ NoLists \in Lists
    BY EmptySeq DEF EmptyReliable, ReliableRecords, NoLists, Lists
  <2>4. /\ ClearedSub(h.sub) \in [SubChans -> SubRecords]
        /\ ClearedRel(h.sub, h.rel) \in [SubChans -> Bit]
    BY <1>2, ClearedType
  <2>5. /\ clears' \in [Peer -> Nat] /\ choked' \in [Peer -> Nat]
        /\ reliable' \in [Peer -> ReliableRecords]
    BY <2>2, <2>3 DEF TypeOK
  <2>6. /\ waiting' \in [Peer -> Lists]
        /\ sub' \in [Peer -> [SubChans -> SubRecords]]
        /\ outRel' \in [Peer -> [SubChans -> Bit]]
    BY <1>2, <2>2, <2>3, <2>4 DEF TypeOK
  <2>7. inRel' \in [Peer -> [SubChans -> Bit]]
    <3>1. pk.sub \in SubChans
      BY <1>1, <1>6 DEF ProcessReliable, DatagramTyped
    <3>2. Flip(inRel[p][pk.sub]) \in Bit
      <4>1. inRel[p] \in [SubChans -> Bit]
        BY DEF TypeOK
      <4> QED
        BY <3>1, <4>1 DEF Flip, Bit
    <3> QED
      BY <1>6, <3>1, <3>2 DEF ProcessReliable, TypeOK
  <2>8. UNCHANGED <<outSeq, queued, skipped>>
    BY <1>6 DEF ProcessReliable
  <2> QED
    BY <1>4, <2>5, <2>6, <2>7, <2>8 DEF TypeOK
<1> QED
  BY <1>5, <1>6 DEF Process

\* Every step keeps the types.
LEMMA StepTyped == TypeOK /\ [Next]_vars => TypeOK'
<1> SUFFICES ASSUME TypeOK, [Next]_vars PROVE TypeOK'
  OBVIOUS
<1>1. CASE UNCHANGED vars
  BY <1>1 DEF vars, TypeOK
<1>2. CASE Next
  <2>1. PICK p \in Peer : Host(p) \/ Network(p)
    BY <1>2 DEF Next
  <2>2. CASE \/ \E n \in MessageBytes : SendReliable(p, n) \/ OverflowReliable(p, n)
             \/ \E n \in FileBytes, isFile \in BOOLEAN : SendFile(p, n, isFile)
    BY <2>2, HandingTyped
  <2>3. CASE SendDatagram(p)
    BY <2>3, SendTyped
  <2>4. CASE SetChoked(p) \/ Clear(p)
    BY <2>4, OtherStepsTyped
  <2>5. CASE Network(p)
    <3>1. PICK pk \in net[p] : DiscardStale(p, pk) \/ Process(p, pk)
      BY <2>5 DEF Network
    <3> QED
      BY <3>1, OtherStepsTyped, ProcessTyped
  <2> QED
    BY <2>1, <2>2, <2>3, <2>4, <2>5 DEF Host
<1> QED
  BY <1>1, <1>2

\* Every variable of the channels but the receive buffers keeps its type.
THEOREM TypeCorrect == Spec => []TypeOK
BY InitTyped, StepTyped, PTL DEF Spec

-----------------------------------------------------------------------------
(* The bit protocol of one subchannel *)

\* Losing datagrams changes nothing (the network, and ProcessPacketHeader's
\* sequence test).
LEMMA AgreeShrinks ==
  ASSUME NEW i, NEW c, NEW o, NEW r, NEW out, NEW in, NEW toQ, NEW toP,
         NEW toQ2 \in SUBSET toQ, NEW toP2 \in SUBSET toP,
         Agree(i, c, o, r, out, in, toQ, toP)
  PROVE  Agree(i, c, o, r, out, in, toQ2, toP2)
BY DEF Agree

\* UpdateSubChannels loads a free subchannel.
LEMMA AgreeLoad ==
  ASSUME NEW i, NEW c, NEW d, NEW o \in Bit, NEW r \in Bit, NEW out, NEW in,
         NEW toQ, NEW toP, c.state = "FREE", d.state = "TOSEND",
         Agree(i, c, o, r, out, in, toQ, toP)
  PROVE  Agree(i, d, Flip(o), r, out, in, toQ, toP)
BY DEF Agree, Flip, Bit

\* SendSubChannelData sends a loaded subchannel with datagram pk.
LEMMA AgreeSend ==
  ASSUME NEW i, NEW c, NEW d, NEW o, NEW r, NEW out \in Nat, NEW in \in Nat,
         NEW toQ, NEW toP, NEW pk, c.state = "TOSEND", d.state = "WAITING",
         d.sendSeq = out, pk.seq = out, in < out,
         \A x \in toP : x.ack \in Nat /\ x.ack <= in,
         Agree(i, c, o, r, out, in, toQ, toP)
  PROVE  Agree(i, d, o, r, out + 1, in, toQ \cup {pk}, toP)
BY DEF Agree

\* SendDatagram sends a datagram pk without subchannel i.
LEMMA AgreeSendOther ==
  ASSUME NEW i, NEW c, NEW o, NEW r, NEW out \in Nat, NEW in, NEW toQ, NEW toP,
         NEW pk, c.sendSeq \in Int, pk.sub # i,
         Agree(i, c, o, r, out, in, toQ, toP)
  PROVE  Agree(i, c, o, r, out + 1, in, toQ \cup {pk}, toP)
BY DEF Agree

\* The remote sends a datagram that tells the bit it has.
LEMMA AgreeTell ==
  ASSUME NEW i, NEW c, NEW o \in Bit, NEW r \in Bit, NEW out, NEW in \in Nat,
         NEW toQ, NEW toP, NEW pk, c.sendSeq \in Int,
         pk.ack = in, pk.rel[i] = r,
         Agree(i, c, o, r, out, in, toQ, toP)
  PROVE  Agree(i, c, o, r, out, in, toQ, toP \cup {pk})
BY DEF Agree

\* The remote accepts a datagram pk that carries no data of i, or drops it.
LEMMA AgreeAccept ==
  ASSUME NEW i, NEW c, NEW o, NEW r, NEW out, NEW in \in Nat, NEW in2 \in Nat,
         NEW toQ, NEW toP, NEW toQ2 \in SUBSET toQ, c.sendSeq \in Int,
         in < in2,
         Agree(i, c, o, r, out, in, toQ, toP)
  PROVE  Agree(i, c, o, r, out, in2, toQ2, toP)
BY DEF Agree

\* The remote reads the data of i in datagram pk and flips its bit.
LEMMA AgreeRead ==
  ASSUME NEW i, NEW c \in SubRecords, NEW o \in Bit, NEW r \in Bit, NEW out,
         NEW in \in Nat, NEW toQ, NEW toP, NEW pk \in toQ,
         pk.sub = i, pk.seq \in Nat, in < pk.seq,
         NEW toQ2 \in SUBSET toQ, \A x \in toQ2 : x.seq > pk.seq,
         \A x \in toP : x.ack \in Nat /\ x.ack <= in,
         Agree(i, c, o, r, out, in, toQ, toP)
  PROVE  Agree(i, c, o, Flip(r), out, pk.seq, toQ2, toP)
<1>1. c.state \in {"WAITING", "DIRTY"} /\ c.sendSeq = pk.seq
  BY DEF Agree, SubRecords, SubStates
<1>2. o # r
  BY <1>1 DEF Agree
<1>3. o = Flip(r)
  BY <1>2 DEF Bit, Flip
<1> QED
  BY <1>1, <1>2, <1>3 DEF Agree

\* Clear gives up subchannel i.
LEMMA AgreeClear ==
  ASSUME NEW i \in SubChans, NEW c \in [SubChans -> SubRecords],
         NEW rel \in [SubChans -> Bit], NEW r \in Bit,
         NEW out, NEW in, NEW toQ, NEW toP, \A pk \in toP : pk.rel[i] \in Bit,
         Agree(i, c[i], rel[i], r, out, in, toQ, toP)
  PROVE  Agree(i, ClearedSub(c)[i], ClearedRel(c, rel)[i], r, out, in, toQ, toP)
<1>1. CASE c[i].state = "TOSEND"
  <2>1. ClearedSub(c)[i] = FreeSub /\ ClearedRel(c, rel)[i] = Flip(rel[i])
    BY <1>1 DEF ClearedSub, ClearedRel
  <2>2. FreeSub.state = "FREE" /\ FreeSub.sendSeq = -1
    BY DEF FreeSub
  <2> QED
    BY <1>1, <2>1, <2>2 DEF Agree, Flip, Bit
<1>2. CASE c[i].state = "WAITING"
  <2>1. /\ ClearedSub(c)[i].state = "DIRTY"
        /\ ClearedSub(c)[i].sendSeq = c[i].sendSeq
        /\ ClearedRel(c, rel)[i] = rel[i]
    BY <1>2 DEF ClearedSub, ClearedRel, SubRecords
  <2> QED
    BY <1>2, <2>1 DEF Agree
<1>3. CASE c[i].state \notin {"TOSEND", "WAITING"}
  BY <1>3 DEF ClearedSub, ClearedRel
<1> QED
  BY <1>1, <1>2, <1>3

\* What a valid header with match (the bits agree) and due (the datagram must
\* have arrived) makes of a subchannel and of its bit.
HeaderSub(c, match, due) ==
  IF \/ c.state = "WAITING" /\ match
     \/ c.state = "DIRTY" /\ (match \/ due) THEN FreeSub
  ELSE IF c.state = "WAITING" /\ due THEN Resend(c)
  ELSE c
HeaderBit(c, o, match, due) ==
  IF c.state = "DIRTY" /\ ~match /\ due THEN Flip(o) ELSE o

\* The sender accepts header pk: what it concludes about subchannel i is right,
\* because later headers acknowledge no less than pk.
LEMMA AgreeHeader ==
  ASSUME NEW i, NEW c \in SubRecords, NEW o \in Bit, NEW r \in Bit, NEW out,
         NEW in \in Nat, NEW toQ, NEW toP, NEW pk \in toP, NEW toP2 \in SUBSET toP,
         pk.rel[i] \in Bit, pk.ack \in Nat, pk.ack <= in,
         \A x \in toQ : x.seq \in Nat /\ in < x.seq,
         \A x \in toP2 : x.ack \in Nat /\ pk.ack <= x.ack,
         Agree(i, c, o, r, out, in, toQ, toP)
  PROVE  LET match == o = pk.rel[i]
             due == c.sendSeq <= pk.ack
         IN  /\ match /\ c.state # "DIRTY" => due
             /\ Agree(i, HeaderSub(c, match, due), HeaderBit(c, o, match, due),
                      r, out, in, toQ, toP2)
<1> DEFINE match == o = pk.rel[i]
           due == c.sendSeq <= pk.ack
           d == HeaderSub(c, match, due)
           b == HeaderBit(c, o, match, due)
<1>1. c.sendSeq \in Int /\ c.state \in SubStates
  BY DEF SubRecords
<1>2. FreeSub.state = "FREE" /\ FreeSub.sendSeq = -1
  BY DEF FreeSub
<1>3. CASE c.state = "FREE"
  <2>1. d = c /\ b = o
    BY <1>3 DEF HeaderSub, HeaderBit
  <2>2. due
    BY <1>3 DEF Agree
  <2> QED
    BY <1>3, <2>1, <2>2 DEF Agree
<1>4. CASE c.state = "TOSEND"
  <2>1. d = c /\ b = o
    BY <1>4 DEF HeaderSub, HeaderBit
  <2>2. ~match
    BY <1>4 DEF Agree
  <2> QED
    BY <1>4, <2>1, <2>2 DEF Agree
<1>5. CASE c.state \in {"WAITING", "DIRTY"}
  <2>1. match => due
    BY <1>1, <1>5 DEF Agree
  <2>2. CASE due
    <3>1. pk.rel[i] = r
      BY <1>1, <1>5, <2>2 DEF Agree
    <3>2. \A x \in toQ : x.sub # i
      BY <1>1, <1>5, <2>2 DEF Agree
    <3>3. \A x \in toP2 : x.rel[i] = r
      BY <1>1, <1>5, <2>2 DEF Agree
    <3>4. CASE match
      <4>1. d = FreeSub /\ b = o
        BY <1>5, <3>4 DEF HeaderSub, HeaderBit
      <4> QED
        BY <1>2, <2>2, <3>1, <3>2, <3>3, <3>4, <4>1 DEF Agree
    <3>5. CASE ~match /\ c.state = "WAITING"
      <4>1. d.state = "TOSEND" /\ b = o
        BY <2>2, <3>5 DEF HeaderSub, HeaderBit, Resend, SubRecords
      <4> QED
        BY <2>2, <3>1, <3>2, <3>3, <3>5, <4>1 DEF Agree
    <3>6. CASE ~match /\ c.state = "DIRTY"
      <4>1. d = FreeSub /\ b = Flip(o)
        BY <2>2, <3>6 DEF HeaderSub, HeaderBit
      <4>2. Flip(o) = r
        BY <3>1, <3>6 DEF Flip, Bit
      <4> QED
        BY <1>2, <2>2, <3>2, <3>3, <3>6, <4>1, <4>2 DEF Agree
    <3> QED
      BY <1>5, <3>4, <3>5, <3>6
  <2>3. CASE ~due
    <3>1. d = c /\ b = o /\ ~match
      BY <2>1, <2>3 DEF HeaderSub, HeaderBit
    <3> QED
      BY <1>5, <3>1 DEF Agree
  <2> QED
    BY <2>2, <2>3
<1> QED
  BY <1>1, <1>3, <1>4, <1>5 DEF SubStates

\* The sender spends a sequence number without sending (SetChoked).
LEMMA AgreeSkip ==
  ASSUME NEW i, NEW c, NEW o, NEW r, NEW out \in Nat, NEW in, NEW toQ, NEW toP,
         c.sendSeq \in Int, Agree(i, c, o, r, out, in, toQ, toP)
  PROVE  Agree(i, c, o, r, out + 1, in, toQ, toP)
BY DEF Agree

-----------------------------------------------------------------------------
(* Sequence numbers *)

\* Every step keeps the order of sequence numbers and acknowledgements.
LEMMA StepSeqOrder ==
  ASSUME TypeOK, SeqOrder, [Next]_vars
  PROVE  SeqOrder'
<1>1. \A p \in Peer : /\ outSeq[p] \in Nat /\ inSeq[p] \in Nat
                      /\ \A pk \in net[p] : pk.seq \in Nat /\ pk.ack \in Nat
  BY DEF TypeOK, DatagramTyped
<1>2. CASE UNCHANGED <<outSeq, inSeq, net>>
  BY <1>2 DEF SeqOrder
<1>3. ASSUME NEW p \in Peer, SetChoked(p)
      PROVE  SeqOrder'
  <2>1. /\ outSeq' = [outSeq EXCEPT ![p] = @ + 1]
        /\ UNCHANGED <<inSeq, net>>
    BY <1>3 DEF SetChoked
  <2>2. \A q \in Peer : outSeq[q] <= outSeq'[q] /\ outSeq'[q] \in Nat
    BY <1>1, <2>1 DEF TypeOK
  <2> QED
    BY <1>1, <2>1, <2>2, OtherType DEF SeqOrder
<1>4. ASSUME NEW p \in Peer, SendDatagram(p)
      PROVE  SeqOrder'
  <2>1. PICK pk : /\ pk.seq = outSeq[p] /\ pk.ack = inSeq[p]
                  /\ net' = [net EXCEPT ![Other(p)] = @ \cup {pk}]
    BY <1>4 DEF SendDatagram, Datagram
  <2>2. outSeq' = [outSeq EXCEPT ![p] = @ + 1] /\ UNCHANGED inSeq
    BY <1>4 DEF SendDatagram
  <2>3. \A q \in Peer : outSeq[q] <= outSeq'[q] /\ outSeq'[q] \in Nat
    BY <1>1, <2>2 DEF TypeOK
  <2>4. outSeq'[p] = outSeq[p] + 1
    BY <2>2 DEF TypeOK
  <2>5. /\ net'[Other(p)] = net[Other(p)] \cup {pk}
        /\ \A q \in Peer : q # Other(p) => net'[q] = net[q]
    BY <2>1, OtherType DEF TypeOK
  <2>6. \A x \in net[Other(p)] : x.seq < outSeq[p] /\ x.ack <= inSeq[p]
    BY OtherType DEF SeqOrder
  <2> SUFFICES ASSUME NEW q \in Peer
               PROVE  /\ inSeq[q] < outSeq'[Other(q)]
                      /\ \A x \in net'[q] : /\ x.seq < outSeq'[Other(q)]
                                            /\ x.ack <= inSeq[Other(q)]
                      /\ \A x, y \in net'[q] : x.seq < y.seq => x.ack <= y.ack
                      /\ \A x, y \in net'[q] : x.seq = y.seq => x = y
    BY <2>2 DEF SeqOrder
  <2>7. CASE q = Other(p)
    BY <1>1, <2>1, <2>3, <2>4, <2>5, <2>6, <2>7, OtherType DEF SeqOrder
  <2>8. CASE q # Other(p)
    BY <1>1, <2>3, <2>5, <2>8, OtherType DEF SeqOrder
  <2> QED
    BY <2>7, <2>8
<1>5. ASSUME NEW p \in Peer, NEW pk \in net[p], Process(p, pk)
      PROVE  SeqOrder'
  <2>1. /\ net' = [net EXCEPT ![p] = {x \in @ : x.seq >= pk.seq}]
        /\ inSeq' = [inSeq EXCEPT ![p] = IF AfterHeader(p, pk).ok THEN pk.seq ELSE @]
        /\ UNCHANGED outSeq
        /\ ~(pk.seq <= inSeq[p])
    BY <1>5 DEF Process, ProcessHeaderOnly, ProcessReliable, Arrive, AcceptHeader,
                Stale
  <2>2. \A q \in Peer : net'[q] \subseteq net[q]
    BY <2>1 DEF TypeOK
  <2>3. \A q \in Peer : /\ inSeq[q] <= inSeq'[q] /\ inSeq'[q] \in Nat
                        /\ inSeq'[q] < outSeq[Other(q)]
    BY <1>1, <2>1 DEF TypeOK, SeqOrder
  <2> QED
    BY <1>1, <2>1, <2>2, <2>3, OtherType DEF SeqOrder
<1> QED
  <2>1. CASE UNCHANGED vars
    BY <1>2, <2>1 DEF vars
  <2>2. CASE Next
    <3>1. PICK p \in Peer : Host(p) \/ Network(p)
      BY <2>2 DEF Next
    <3>2. CASE Network(p)
      <4>1. PICK pk \in net[p] : DiscardStale(p, pk) \/ Process(p, pk)
        BY <3>2 DEF Network
      <4> QED
        BY <1>2, <1>5, <4>1 DEF DiscardStale
    <3>3. CASE Host(p)
      BY <1>2, <1>3, <1>4, <3>3 DEF Host, SendReliable, OverflowReliable, SendFile,
                                    Clear, control
    <3> QED
      BY <3>1, <3>2, <3>3
  <2> QED
    BY <2>1, <2>2

-----------------------------------------------------------------------------
(* The bits of all subchannels *)

\* What the datagrams on their way are known to be.
LEMMA LiveFacts ==
  ASSUME TypeOK, SeqOrder, NEW p \in Peer
  PROVE  /\ inSeq[p] \in Nat /\ outSeq[p] \in Nat
         /\ inSeq[p] < outSeq[Other(p)] /\ inSeq[Other(p)] < outSeq[p]
         /\ \A x \in Live(p) : /\ x \in net[p] /\ DatagramTyped(x)
                               /\ x.seq \in Nat /\ x.ack \in Nat
                               /\ inSeq[p] < x.seq /\ x.ack <= inSeq[Other(p)]
         /\ sub[p] \in [SubChans -> SubRecords]
         /\ outRel[p] \in [SubChans -> Bit] /\ inRel[p] \in [SubChans -> Bit]
<1>1. inSeq[p] < outSeq[Other(p)] /\ inSeq[Other(p)] < outSeq[p]
  BY OtherType DEF SeqOrder
<1>2. ASSUME NEW x \in Live(p)
      PROVE  /\ x \in net[p] /\ DatagramTyped(x) /\ inSeq[p] < x.seq
             /\ x.ack <= inSeq[Other(p)] /\ x.seq \in Nat /\ x.ack \in Nat
  BY DEF Live, TypeOK, SeqOrder, DatagramTyped
<1> QED
  BY <1>1, <1>2 DEF TypeOK

\* UpdateSubChannels loads at most one free subchannel and flips its bit.
LEMMA LoadEffect ==
  ASSUME NEW ch \in SendHalves
  PROVE  LET u == UpdateSubChannels(ch) IN
         \/ u.sub = ch.sub /\ u.rel = ch.rel
         \/ \E i \in SubChans : \E d :
              /\ ch.sub[i].state = "FREE" /\ d.state = "TOSEND"
              /\ u.sub = [ch.sub EXCEPT ![i] = d]
              /\ u.rel = [ch.rel EXCEPT ![i] = Flip(@)]
<1> DEFINE free == InState(ch.sub, "FREE")
           i == Lowest(free)
           n == Load(ch.waiting)
           Start(s) == Head(ch.waiting[s]).acked + Head(ch.waiting[s]).pending
           d == [state |-> "TOSEND", sendSeq |-> 0, num |-> n,
                 start |-> [s \in Streams |-> IF n[s] = 0 THEN -1 ELSE Start(s)]]
           u == UpdateSubChannels(ch)
<1>1. CASE u = ch
  BY <1>1
<1>2. CASE u # ch
  <2>1. /\ free # {}
        /\ u.sub = [ch.sub EXCEPT ![i] = d]
        /\ u.rel = [ch.rel EXCEPT ![i] = Flip(@)]
    BY <1>2 DEF UpdateSubChannels
  <2>2. i \in SubChans /\ ch.sub[i].state = "FREE"
    <3>1. free # {}
      BY <2>1
    <3>2. i \in free
      BY <3>1, LowestType DEF InState
    <3> QED
      BY <3>2 DEF InState
  <2>3. d.state = "TOSEND"
    OBVIOUS
  <2> HIDE DEF u, d, i
  <2>4. \E j \in SubChans : \E e :
          /\ ch.sub[j].state = "FREE" /\ e.state = "TOSEND"
          /\ u.sub = [ch.sub EXCEPT ![j] = e]
          /\ u.rel = [ch.rel EXCEPT ![j] = Flip(@)]
    BY <2>1, <2>2, <2>3
  <2> QED
    BY <2>4 DEF u
<1> QED
  BY <1>1, <1>2

\* The bits of the subchannels of p after it sent a datagram.
LEMMA SendBits ==
  ASSUME TypeOK, SeqOrder, NEW p \in Peer, NEW i \in SubChans,
         SubBits(p, Other(p), i), SendDatagram(p)
  PROVE  SubBits(p, Other(p), i)'
<1> DEFINE q == Other(p)
<1>1. PICK w \in Compressed([waiting[p] EXCEPT ![NORMAL] =
                                CreateFragments(@, reliable[p])]) :
       LET ch == UpdateSubChannels([waiting |-> w, sub |-> sub[p],
                                    rel |-> outRel[p]])
           toSend == InState(ch.sub, "TOSEND")
           k == IF toSend = {} THEN NULL ELSE Lowest(toSend)
       IN  /\ outRel' = [outRel EXCEPT ![p] = ch.rel]
           /\ sub' = [sub EXCEPT ![p] =
                        [j \in SubChans |->
                           IF j = k THEN Sent(ch.sub[j], outSeq[p]) ELSE ch.sub[j]]]
           /\ net' = [net EXCEPT ![Other(p)] = @ \cup {Datagram(p, ch, k)}]
  BY DEF SendDatagram
<1> DEFINE half == [waiting |-> w, sub |-> sub[p], rel |-> outRel[p]]
           ch == UpdateSubChannels(half)
           toSend == InState(ch.sub, "TOSEND")
           k == IF toSend = {} THEN NULL ELSE Lowest(toSend)
           pk == Datagram(p, ch, k)
<1>2. half \in SendHalves
  BY SendHalfType
<1>3. ch \in SendHalves
  BY <1>2, UpdateType
<1>4. ch.sub \in [SubChans -> SubRecords] /\ ch.rel \in [SubChans -> Bit]
  BY <1>3 DEF SendHalves
<1>5. /\ q \in Peer /\ q # p /\ Other(q) = p
      /\ sub[p] \in [SubChans -> SubRecords] /\ outRel[p] \in [SubChans -> Bit]
      /\ inRel[q] \in [SubChans -> Bit]
      /\ outSeq[p] \in Nat /\ inSeq[q] \in Nat /\ inSeq[q] < outSeq[p]
      /\ \A x \in Live(p) : x.ack \in Nat /\ x.ack <= inSeq[q]
  BY OtherType, LiveFacts
<1>6. Agree(i, ch.sub[i], ch.rel[i], inRel[q][i], outSeq[p], inSeq[q], Live(q),
            Live(p))
  <2>0. Agree(i, sub[p][i], outRel[p][i], inRel[q][i], outSeq[p], inSeq[q],
              Live(q), Live(p))
    BY DEF SubBits
  <2>1. CASE ch.sub = sub[p] /\ ch.rel = outRel[p]
    BY <2>0, <2>1
  <2>2. CASE \E j \in SubChans : \E d :
               /\ sub[p][j].state = "FREE" /\ d.state = "TOSEND"
               /\ ch.sub = [sub[p] EXCEPT ![j] = d]
               /\ ch.rel = [outRel[p] EXCEPT ![j] = Flip(@)]
    <3>0. PICK j \in SubChans : \E d :
               /\ sub[p][j].state = "FREE" /\ d.state = "TOSEND"
               /\ ch.sub = [sub[p] EXCEPT ![j] = d]
               /\ ch.rel = [outRel[p] EXCEPT ![j] = Flip(@)]
      BY <2>2
    <3>1. PICK d : /\ sub[p][j].state = "FREE" /\ d.state = "TOSEND"
                 /\ ch.sub = [sub[p] EXCEPT ![j] = d]
                 /\ ch.rel = [outRel[p] EXCEPT ![j] = Flip(@)]
      BY <3>0
    <3> HIDE DEF ch, q
    <3>2. CASE j = i
      <4>1. ch.sub[i] = d /\ ch.rel[i] = Flip(outRel[p][i])
        BY <1>5, <3>1, <3>2
      <4>2. outRel[p][i] \in Bit /\ inRel[q][i] \in Bit
        BY <1>5
      <4>3. sub[p][i].state = "FREE" /\ d.state = "TOSEND"
        BY <3>1, <3>2
      <4> QED
        BY <2>0, <4>1, <4>2, <4>3, AgreeLoad
    <3>3. CASE j # i
      <4>1. ch.sub[i] = sub[p][i] /\ ch.rel[i] = outRel[p][i]
        BY <1>5, <3>1, <3>3
      <4> QED
        BY <2>0, <4>1
    <3> QED
      BY <3>2, <3>3
  <2> QED
    <3>1. half.sub = sub[p] /\ half.rel = outRel[p]
      OBVIOUS
    <3> HIDE DEF half
    <3>2. \/ ch.sub = half.sub /\ ch.rel = half.rel
          \/ \E j \in SubChans : \E d :
               /\ half.sub[j].state = "FREE" /\ d.state = "TOSEND"
               /\ ch.sub = [half.sub EXCEPT ![j] = d]
               /\ ch.rel = [half.rel EXCEPT ![j] = Flip(@)]
      BY <1>2, LoadEffect
    <3>3. \/ ch.sub = sub[p] /\ ch.rel = outRel[p]
          \/ \E j \in SubChans : \E d :
               /\ sub[p][j].state = "FREE" /\ d.state = "TOSEND"
               /\ ch.sub = [sub[p] EXCEPT ![j] = d]
               /\ ch.rel = [outRel[p] EXCEPT ![j] = Flip(@)]
      <4> DEFINE hs == half.sub  hr == half.rel
      <4>1. hs = sub[p] /\ hr = outRel[p]
        BY <3>1
      <4>2. \/ ch.sub = hs /\ ch.rel = hr
            \/ \E j \in SubChans : \E d :
                 /\ hs[j].state = "FREE" /\ d.state = "TOSEND"
                 /\ ch.sub = [hs EXCEPT ![j] = d]
                 /\ ch.rel = [hr EXCEPT ![j] = Flip(@)]
        BY <3>2
      <4> HIDE DEF hs, hr, ch
      <4> QED BY ONLY <4>1, <4>2
    <3> HIDE DEF ch
    <3> QED BY <3>3, <2>1, <2>2
<1>7. /\ outRel' = [outRel EXCEPT ![p] = ch.rel]
      /\ sub' = [sub EXCEPT ![p] =
                   [j \in SubChans |->
                      IF j = k THEN Sent(ch.sub[j], outSeq[p]) ELSE ch.sub[j]]]
      /\ net' = [net EXCEPT ![q] = @ \cup {pk}]
      /\ outSeq' = [outSeq EXCEPT ![p] = @ + 1]
      /\ UNCHANGED <<inSeq, inRel>>
  BY <1>1 DEF SendDatagram
<1>8. pk.seq = outSeq[p] /\ pk.sub = k
  BY DEF Datagram
<1>9. i = k => ch.sub[i].state = "TOSEND"
  <2>1. toSend # {} => k \in toSend
    BY LowestType DEF InState
  <2>2. toSend = {} => k # i
    BY NetChanAssumption DEF NetChanAssumption
  <2> QED
    BY <2>1, <2>2 DEF InState
<1> HIDE DEF ch, k, pk, q
<1>10. /\ sub'[p][i] = IF i = k THEN Sent(ch.sub[i], outSeq[p]) ELSE ch.sub[i]
       /\ outRel'[p][i] = ch.rel[i] /\ inRel'[q][i] = inRel[q][i]
       /\ outSeq'[p] = outSeq[p] + 1 /\ inSeq'[q] = inSeq[q]
  BY <1>5, <1>7 DEF TypeOK
<1>11. Live(q)' = Live(q) \cup {pk} /\ Live(p)' = Live(p)
  <2>1. net'[q] = net[q] \cup {pk} /\ net'[p] = net[p]
    BY <1>5, <1>7 DEF TypeOK
  <2>2. UNCHANGED inSeq
    BY <1>7
  <2> QED
    BY <1>5, <1>8, <2>1, <2>2 DEF Live
<1>12. Agree(i, sub'[p][i], ch.rel[i], inRel[q][i], outSeq[p] + 1, inSeq[q],
             Live(q) \cup {pk}, Live(p))
  <2>1. CASE i = k
    <3>1. /\ sub'[p][i].state = "WAITING"
          /\ sub'[p][i].sendSeq = outSeq[p]
      BY <1>4, <1>10, <2>1 DEF Sent, SubRecords
    <3> QED
      BY <1>5, <1>6, <1>8, <1>9, <2>1, <3>1, AgreeSend
  <2>2. CASE i # k
    <3>1. sub'[p][i] = ch.sub[i] /\ ch.sub[i].sendSeq \in Int
      BY <1>4, <1>10, <2>2 DEF SubRecords
    <3> QED
      BY <1>5, <1>6, <1>8, <2>2, <3>1, AgreeSendOther
  <2> QED
    BY <2>1, <2>2
<1> QED
  BY <1>10, <1>11, <1>12 DEF SubBits, q

\* The bits of the remote's subchannels after p told it, in a datagram, which
\* of them it has.
LEMMA TellBits ==
  ASSUME TypeOK, SeqOrder, NEW p \in Peer, NEW i \in SubChans,
         SubBits(Other(p), p, i), SendDatagram(p)
  PROVE  SubBits(Other(p), p, i)'
<1> DEFINE q == Other(p)
<1>1. /\ q \in Peer /\ q # p
      /\ sub[q] \in [SubChans -> SubRecords] /\ outRel[q] \in [SubChans -> Bit]
      /\ inRel[p] \in [SubChans -> Bit] /\ inSeq[p] \in Nat
      /\ inSeq[q] < outSeq[p]
  BY OtherType, LiveFacts
<1>2. PICK pk : /\ pk.seq = outSeq[p] /\ pk.ack = inSeq[p] /\ pk.rel = inRel[p]
                /\ net' = [net EXCEPT ![q] = @ \cup {pk}]
  BY DEF SendDatagram, Datagram
<1>3. UNCHANGED <<inSeq, inRel>>
  BY DEF SendDatagram
<1>4. sub'[q] = sub[q] /\ outRel'[q] = outRel[q] /\ outSeq'[q] = outSeq[q]
  <2>1. \E x, y, z : /\ sub' = [sub EXCEPT ![p] = x]
                     /\ outRel' = [outRel EXCEPT ![p] = y]
                     /\ outSeq' = [outSeq EXCEPT ![p] = z]
    BY DEF SendDatagram
  <2> HIDE DEF q
  <2> QED
    BY <1>1, <2>1 DEF TypeOK
<1> HIDE DEF q
<1>5. Live(q)' = Live(q) \cup {pk} /\ Live(p)' = Live(p)
  <2>1. net'[q] = net[q] \cup {pk} /\ net'[p] = net[p]
    BY <1>1, <1>2 DEF TypeOK
  <2> QED
    BY <1>1, <1>2, <1>3, <2>1 DEF Live
<1>6. Agree(i, sub[q][i], outRel[q][i], inRel[p][i], outSeq[q], inSeq[p], Live(p),
            Live(q))
  BY DEF SubBits, q
<1>7. /\ sub[q][i].sendSeq \in Int /\ outRel[q][i] \in Bit /\ inRel[p][i] \in Bit
      /\ pk.rel[i] = inRel[p][i]
  BY <1>1, <1>2 DEF SubRecords
<1>8. Agree(i, sub[q][i], outRel[q][i], inRel[p][i], outSeq[q], inSeq[p], Live(p),
            Live(q) \cup {pk})
  BY <1>1, <1>2, <1>6, <1>7, AgreeTell
<1> QED
  BY <1>3, <1>4, <1>5, <1>8 DEF SubBits, q

\* A peer that spends a sequence number.
LEMMA SkipBits ==
  ASSUME TypeOK, SeqOrder, ReliableBits, NEW p \in Peer, SetChoked(p)
  PROVE  ReliableBits'
<1> SUFFICES ASSUME NEW a \in Peer, NEW i \in SubChans
             PROVE  SubBits(a, Other(a), i)'
  BY DEF ReliableBits
<1>1. /\ outSeq' = [outSeq EXCEPT ![p] = @ + 1]
      /\ UNCHANGED <<inSeq, inRel, outRel, sub, net>>
  BY DEF SetChoked
<1>2. \A b \in Peer : Live(b)' = Live(b)
  BY <1>1 DEF Live
<1>3. Agree(i, sub[a][i], outRel[a][i], inRel[Other(a)][i], outSeq[a],
            inSeq[Other(a)], Live(Other(a)), Live(a))
  BY DEF ReliableBits, SubBits
<1>4. sub[a][i].sendSeq \in Int /\ outSeq[a] \in Nat
  BY LiveFacts DEF SubRecords
<1>5. Agree(i, sub[a][i], outRel[a][i], inRel[Other(a)][i], outSeq[a] + 1,
            inSeq[Other(a)], Live(Other(a)), Live(a))
  BY <1>3, <1>4, AgreeSkip
<1>6. outSeq'[a] = outSeq[a] \/ outSeq'[a] = outSeq[a] + 1
  BY <1>1 DEF TypeOK
<1> QED
  BY <1>1, <1>2, <1>3, <1>5, <1>6, OtherType DEF SubBits

\* A peer that drops its reliable data.
LEMMA ClearBits ==
  ASSUME TypeOK, SeqOrder, ReliableBits, NEW p \in Peer, Clear(p)
  PROVE  ReliableBits'
<1> SUFFICES ASSUME NEW a \in Peer, NEW i \in SubChans
             PROVE  SubBits(a, Other(a), i)'
  BY DEF ReliableBits
<1>1. /\ sub' = [sub EXCEPT ![p] = ClearedSub(@)]
      /\ outRel' = [outRel EXCEPT ![p] = ClearedRel(sub[p], @)]
      /\ UNCHANGED <<inSeq, outSeq, inRel, net>>
  BY DEF Clear
<1>2. \A b \in Peer : Live(b)' = Live(b)
  BY <1>1 DEF Live
<1>3. Agree(i, sub[a][i], outRel[a][i], inRel[Other(a)][i], outSeq[a],
            inSeq[Other(a)], Live(Other(a)), Live(a))
  BY DEF ReliableBits, SubBits
<1>4. CASE a = p
  <2>1. sub'[a] = ClearedSub(sub[a]) /\ outRel'[a] = ClearedRel(sub[a], outRel[a])
    BY <1>1, <1>4 DEF TypeOK
  <2>2. /\ sub[a] \in [SubChans -> SubRecords] /\ outRel[a] \in [SubChans -> Bit]
        /\ inRel[Other(a)][i] \in Bit
        /\ \A x \in Live(a) : x.rel[i] \in Bit
    BY LiveFacts, OtherType DEF DatagramTyped
  <2>3. Agree(i, ClearedSub(sub[a])[i], ClearedRel(sub[a], outRel[a])[i],
              inRel[Other(a)][i], outSeq[a], inSeq[Other(a)], Live(Other(a)), Live(a))
    BY <1>3, <2>2, AgreeClear
  <2> QED
    BY <1>1, <1>2, <2>1, <2>3, OtherType DEF SubBits
<1>5. CASE a # p
  <2>1. sub'[a] = sub[a] /\ outRel'[a] = outRel[a]
    BY <1>1, <1>5 DEF TypeOK
  <2> QED
    BY <1>1, <1>2, <1>3, <2>1, OtherType DEF SubBits
<1> QED
  BY <1>4, <1>5

\* No acceptable header confirms a bit too early: ProcessPacketHeader goes
\* through all subchannels.
LEMMA HeaderValid ==
  ASSUME TypeOK, SeqOrder, ReliableBits, NEW p \in Peer, NEW pk \in Live(p),
         NEW i \in SubChans
  PROVE  LET match == outRel[p][i] = pk.rel[i]
             due == sub[p][i].sendSeq <= pk.ack
             h == AfterHeader(p, pk)
         IN  /\ h.ok
             /\ h.sub[i] = HeaderSub(sub[p][i], match, due)
             /\ h.rel[i] = HeaderBit(sub[p][i], outRel[p][i], match, due)
<1> DEFINE c == sub[p]
           matches == {j \in SubChans : outRel[p][j] = pk.rel[j]}
           dues == {j \in SubChans : c[j].sendSeq <= pk.ack}
           invalid == (matches \ InState(c, "DIRTY")) \ dues
           h == AfterHeader(p, pk)
<1>1. ASSUME NEW j \in SubChans, outRel[p][j] = pk.rel[j], c[j].state # "DIRTY"
      PROVE  c[j].sendSeq <= pk.ack
  <2> DEFINE q == Other(p)
  <2>1. Agree(j, c[j], outRel[p][j], inRel[q][j], outSeq[p], inSeq[q], Live(q),
              Live(p))
    BY DEF ReliableBits, SubBits
  <2>2. /\ c[j] \in SubRecords /\ pk.ack \in Nat
    BY LiveFacts
  <2>3. c[j].state \in SubStates /\ c[j].sendSeq \in Int
    BY <2>2 DEF SubRecords
  <2> QED
    BY <1>1, <2>1, <2>2, <2>3 DEF Agree, SubStates
<1>2. invalid = {}
  BY <1>1 DEF InState
<1>3. /\ h.ok = (invalid = {})
      /\ invalid = {} =>
           /\ h.sub[i] = HeaderSub(c[i], i \in matches, i \in dues)
           /\ h.rel[i] = HeaderBit(c[i], outRel[p][i], i \in matches, i \in dues)
  BY DEF AfterHeader, HeaderSub, HeaderBit, InState
<1> HIDE DEF invalid, h
<1>4. h.ok
  BY <1>2, <1>3
<1>5. (i \in matches) = (outRel[p][i] = pk.rel[i])
  OBVIOUS
<1>6. (i \in dues) = (c[i].sendSeq <= pk.ack)
  OBVIOUS
<1> HIDE DEF matches, dues, c
<1>7. /\ h.sub[i] = HeaderSub(c[i], i \in matches, i \in dues)
      /\ h.rel[i] = HeaderBit(c[i], outRel[p][i], i \in matches, i \in dues)
  BY <1>2, <1>3
<1>8. HeaderSub(c[i], i \in matches, i \in dues)
        = HeaderSub(c[i], outRel[p][i] = pk.rel[i], c[i].sendSeq <= pk.ack)
  BY <1>5, <1>6 DEF HeaderSub
<1>9. HeaderBit(c[i], outRel[p][i], i \in matches, i \in dues)
        = HeaderBit(c[i], outRel[p][i], outRel[p][i] = pk.rel[i],
                    c[i].sendSeq <= pk.ack)
  BY <1>5, <1>6 DEF HeaderBit
<1> QED
  BY <1>4, <1>7, <1>8, <1>9 DEF h, c

\* What p accepted is all that changes on the network.
LEMMA ProcessNet ==
  ASSUME TypeOK, SeqOrder, ReliableBits, NEW p \in Peer, NEW pk \in net[p],
         Process(p, pk)
  PROVE  /\ pk \in Live(p)
         /\ inSeq' = [inSeq EXCEPT ![p] = pk.seq]
         /\ net' = [net EXCEPT ![p] = {x \in @ : x.seq >= pk.seq}]
         /\ UNCHANGED outSeq
         /\ Live(Other(p))' = Live(Other(p))
         /\ Live(p)' = {x \in Live(p) : x.seq > pk.seq}
<1>1. /\ Arrive(p, pk) /\ AcceptHeader(p, pk, AfterHeader(p, pk))
      /\ UNCHANGED outSeq
  BY DEF Process, ProcessHeaderOnly, ProcessReliable
<1>2. pk \in Live(p)
  <2>1. ~(pk.seq <= inSeq[p]) /\ pk.seq \in Nat /\ inSeq[p] \in Nat
    BY <1>1 DEF AcceptHeader, Stale, TypeOK, DatagramTyped
  <2> QED
    BY <2>1 DEF Live
<1>3. \A i \in SubChans : AfterHeader(p, pk).ok
  BY <1>2, HeaderValid
<1>4. SubChans # {}
  <2>1. 0 \in SubChans
    BY NetChanAssumption DEF SubChans, NetChanAssumption
  <2> QED
    BY <2>1
<1>5. /\ inSeq' = [inSeq EXCEPT ![p] = pk.seq]
      /\ net' = [net EXCEPT ![p] = {x \in @ : x.seq >= pk.seq}]
  BY <1>1, <1>3, <1>4 DEF AcceptHeader, Arrive
<1>6. Live(Other(p))' = Live(Other(p))
  BY <1>5, OtherType DEF Live, TypeOK
<1>7. Live(p)' = {x \in Live(p) : x.seq > pk.seq}
  <2>1. inSeq'[p] = pk.seq /\ net'[p] = {x \in net[p] : x.seq >= pk.seq}
    BY <1>5 DEF TypeOK
  <2>2. pk.seq > inSeq[p] /\ pk.seq \in Nat /\ inSeq[p] \in Nat
        /\ \A x \in net[p] : x.seq \in Nat
    BY <1>2 DEF Live, TypeOK, DatagramTyped
  <2>3. Live(p)' = {x \in {y \in net[p] : y.seq >= pk.seq} : x.seq > pk.seq}
    BY <2>1 DEF Live
  <2>4. Live(p) = {x \in net[p] : x.seq > inSeq[p]}
    BY DEF Live
  <2> QED
    BY <2>2, <2>3, <2>4
<1> QED
  BY <1>1, <1>2, <1>5, <1>6, <1>7

\* The bits of the receiver's own subchannels after it accepted a datagram, and
\* perhaps dropped its reliable data in a handler.
LEMMA ProcessSenderBits ==
  ASSUME TypeOK, SeqOrder, ReliableBits, NEW p \in Peer, NEW pk \in net[p],
         Process(p, pk), NEW i \in SubChans
  PROVE  SubBits(p, Other(p), i)'
<1> DEFINE q == Other(p)
           h == AfterHeader(p, pk)
           match == outRel[p][i] = pk.rel[i]
           due == sub[p][i].sendSeq <= pk.ack
<1>1. /\ pk \in Live(p)
      /\ inSeq' = [inSeq EXCEPT ![p] = pk.seq]
      /\ outSeq' = outSeq
      /\ Live(q)' = Live(q) /\ Live(p)' = {x \in Live(p) : x.seq > pk.seq}
  BY ProcessNet
<1>2. /\ q \in Peer /\ q # p
      /\ sub[p] \in [SubChans -> SubRecords] /\ outRel[p] \in [SubChans -> Bit]
      /\ inRel[q] \in [SubChans -> Bit] /\ inSeq[q] \in Nat
      /\ \A x \in Live(q) : x.seq \in Nat /\ inSeq[q] < x.seq
      /\ \A x \in Live(p) : /\ x.ack \in Nat /\ x.seq \in Nat /\ DatagramTyped(x)
                            /\ x.ack <= inSeq[q] /\ x \in net[p]
  BY OtherType, LiveFacts
<1>3. Agree(i, sub[p][i], outRel[p][i], inRel[q][i], outSeq[p], inSeq[q], Live(q),
            Live(p))
  BY DEF ReliableBits, SubBits
<1>4. \A x \in Live(p)' : x \in Live(p) /\ x.ack \in Nat /\ pk.ack <= x.ack
  BY <1>1, <1>2 DEF SeqOrder
<1>5. h.sub[i] = HeaderSub(sub[p][i], match, due)
      /\ h.rel[i] = HeaderBit(sub[p][i], outRel[p][i], match, due)
  BY <1>1, HeaderValid
<1>6. h.sub \in [SubChans -> SubRecords] /\ h.rel \in [SubChans -> Bit]
  BY <1>1, <1>2, HeaderType
<1> HIDE DEF h, q
<1>7. Agree(i, h.sub[i], h.rel[i], inRel[q][i], outSeq[p], inSeq[q], Live(q),
            Live(p)')
  <2>1. /\ sub[p][i] \in SubRecords /\ outRel[p][i] \in Bit /\ inRel[q][i] \in Bit
        /\ pk.rel[i] \in Bit /\ pk.ack \in Nat /\ pk.ack <= inSeq[q]
    BY <1>1, <1>2 DEF DatagramTyped
  <2>2. Agree(i, HeaderSub(sub[p][i], match, due),
              HeaderBit(sub[p][i], outRel[p][i], match, due),
              inRel[q][i], outSeq[p], inSeq[q], Live(q), Live(p)')
    <3>1. Live(p)' \in SUBSET Live(p)
      BY <1>4
    <3> QED
      BY <1>1, <1>2, <1>3, <1>4, <2>1, <3>1, AgreeHeader
  <2> QED
    BY <1>5, <2>2
<1>8. /\ inRel'[q] = inRel[q]
      /\ \/ sub'[p] = h.sub /\ outRel'[p] = h.rel
         \/ sub'[p] = ClearedSub(h.sub) /\ outRel'[p] = ClearedRel(h.sub, h.rel)
  <2>1. CASE ProcessHeaderOnly(p, pk)
    <3>1. /\ sub' = [sub EXCEPT ![p] = h.sub]
          /\ outRel' = [outRel EXCEPT ![p] = h.rel] /\ inRel' = inRel
      BY <2>1 DEF ProcessHeaderOnly, h
    <3> QED
      BY <3>1 DEF TypeOK
  <2>2. CASE ProcessReliable(p, pk)
    <3>1. /\ inRel' = [inRel EXCEPT ![p][pk.sub] = Flip(@)]
          /\ \E cleared :
               /\ sub' = [sub EXCEPT ![p] =
                            IF cleared THEN ClearedSub(h.sub) ELSE h.sub]
               /\ outRel' = [outRel EXCEPT ![p] =
                              IF cleared THEN ClearedRel(h.sub, h.rel) ELSE h.rel]
      BY <2>2 DEF ProcessReliable, h
    <3>2. inRel'[q] = inRel[q]
      BY <1>2, <3>1 DEF TypeOK
    <3> QED
      BY <3>1, <3>2 DEF TypeOK
  <2> QED
    BY <2>1, <2>2 DEF Process
<1>9. Agree(i, sub'[p][i], outRel'[p][i], inRel[q][i], outSeq[p], inSeq[q], Live(q),
            Live(p)')
  <2>1. CASE sub'[p] = h.sub /\ outRel'[p] = h.rel
    BY <1>7, <2>1
  <2>2. CASE sub'[p] = ClearedSub(h.sub) /\ outRel'[p] = ClearedRel(h.sub, h.rel)
    <3>1. /\ inRel[q][i] \in Bit /\ \A x \in Live(p)' : x.rel[i] \in Bit
      BY <1>2, <1>4 DEF DatagramTyped
    <3> QED
      BY <1>6, <1>7, <2>2, <3>1, AgreeClear
  <2> QED
    BY <1>8, <2>1, <2>2
<1>10. outSeq'[p] = outSeq[p] /\ inSeq'[q] = inSeq[q]
  BY <1>1, <1>2 DEF TypeOK
<1> QED
  BY <1>1, <1>8, <1>9, <1>10 DEF SubBits, q

\* The bits of the remote's subchannels after p accepted a datagram of the
\* remote, and perhaps read what it carried.
LEMMA ProcessReceiverBits ==
  ASSUME TypeOK, SeqOrder, ReliableBits, NEW p \in Peer, NEW pk \in net[p],
         Process(p, pk), NEW i \in SubChans
  PROVE  SubBits(Other(p), p, i)'
<1> DEFINE q == Other(p)
<1>1. /\ pk \in Live(p)
      /\ inSeq' = [inSeq EXCEPT ![p] = pk.seq]
      /\ outSeq' = outSeq
      /\ Live(q)' = Live(q) /\ Live(p)' = {x \in Live(p) : x.seq > pk.seq}
  BY ProcessNet
<1>2. /\ q \in Peer /\ q # p /\ Other(q) = p
      /\ sub[q] \in [SubChans -> SubRecords] /\ outRel[q] \in [SubChans -> Bit]
      /\ inRel[p] \in [SubChans -> Bit] /\ inSeq[p] \in Nat
      /\ pk.seq \in Nat /\ inSeq[p] < pk.seq /\ DatagramTyped(pk)
      /\ \A x \in Live(q) : x.ack \in Nat /\ x.ack <= inSeq[p]
  BY <1>1, OtherType, LiveFacts
<1>3. Agree(i, sub[q][i], outRel[q][i], inRel[p][i], outSeq[q], inSeq[p], Live(p),
            Live(q))
  BY <1>2 DEF ReliableBits, SubBits
<1>4. /\ sub'[q] = sub[q] /\ outRel'[q] = outRel[q]
      /\ \/ inRel' = inRel
         \/ pk.sub # NULL /\ inRel' = [inRel EXCEPT ![p][pk.sub] = Flip(@)]
  <2>1. /\ \E x, y : /\ sub' = [sub EXCEPT ![p] = x]
                     /\ outRel' = [outRel EXCEPT ![p] = y]
        /\ \/ inRel' = inRel
           \/ pk.sub # NULL /\ inRel' = [inRel EXCEPT ![p][pk.sub] = Flip(@)]
    <3>1. CASE ProcessHeaderOnly(p, pk)
      BY <3>1 DEF ProcessHeaderOnly
    <3>2. CASE ProcessReliable(p, pk)
      <4> DEFINE h == AfterHeader(p, pk)
      <4>1. \E cleared :
              /\ sub' = [sub EXCEPT ![p] =
                           IF cleared THEN ClearedSub(h.sub) ELSE h.sub]
              /\ outRel' = [outRel EXCEPT ![p] =
                              IF cleared THEN ClearedRel(h.sub, h.rel) ELSE h.rel]
        BY <3>2 DEF ProcessReliable
      <4>2. pk.sub # NULL /\ inRel' = [inRel EXCEPT ![p][pk.sub] = Flip(@)]
        BY <3>2 DEF ProcessReliable
      <4> HIDE DEF h
      <4> QED
        BY <4>1, <4>2
    <3> QED
      BY <3>1, <3>2 DEF Process
  <2> QED
    BY <1>2, <2>1 DEF TypeOK
<1>5. outSeq'[q] = outSeq[q] /\ inSeq'[p] = pk.seq
  BY <1>1 DEF TypeOK
<1>6. Live(p)' \in SUBSET Live(p) /\ \A x \in Live(p)' : x.seq > pk.seq
  BY <1>1
<1>7. /\ sub[q][i] \in SubRecords /\ sub[q][i].sendSeq \in Int
      /\ outRel[q][i] \in Bit /\ inRel[p][i] \in Bit
  BY <1>2 DEF SubRecords
<1> HIDE DEF q
<1>8. CASE inRel'[p][i] = inRel[p][i]
  <2>1. Agree(i, sub[q][i], outRel[q][i], inRel[p][i], outSeq[q], pk.seq, Live(p)',
              Live(q))
    BY <1>2, <1>3, <1>6, <1>7, AgreeAccept
  <2> QED
    BY <1>1, <1>2, <1>4, <1>5, <1>8, <2>1 DEF SubBits, q
<1>9. CASE inRel'[p][i] # inRel[p][i]
  <2>1. pk.sub = i /\ inRel'[p][i] = Flip(inRel[p][i])
    <3>1. pk.sub \in SubChans
      BY <1>2, <1>4, <1>9 DEF DatagramTyped
    <3> QED
      BY <1>2, <1>4, <1>9, <3>1 DEF TypeOK
  <2>2. Agree(i, sub[q][i], outRel[q][i], Flip(inRel[p][i]), outSeq[q], pk.seq,
              Live(p)', Live(q))
    BY <1>1, <1>2, <1>3, <1>6, <1>7, <2>1, AgreeRead
  <2> QED
    BY <1>1, <1>2, <1>4, <1>5, <2>1, <2>2 DEF SubBits, q
<1> QED
  BY <1>8, <1>9

-----------------------------------------------------------------------------
(* The inductive invariant *)

\* What every step of the two channels preserves.  The bits alone are not
\* inductive: that a header tells the truth about a bit rests on the order of
\* acknowledgements (SeqOrder).
IInv == TypeOK /\ SeqOrder /\ ReliableBits

\* Every step keeps the bits in agreement.
LEMMA StepBits ==
  ASSUME TypeOK, SeqOrder, ReliableBits, [Next]_vars
  PROVE  ReliableBits'
<1>1. CASE UNCHANGED control
  BY <1>1 DEF control, ReliableBits, SubBits, Live
<1>2. ASSUME NEW p \in Peer, SendDatagram(p)
      PROVE  ReliableBits'
  <2> SUFFICES ASSUME NEW a \in Peer, NEW i \in SubChans
               PROVE  SubBits(a, Other(a), i)'
    BY DEF ReliableBits
  <2>1. SubBits(a, Other(a), i)
    BY DEF ReliableBits
  <2>2. a = p \/ (a = Other(p) /\ Other(a) = p)
    BY DEF Peer, Other
  <2> QED
    BY <1>2, <2>1, <2>2, SendBits, TellBits
<1>3. ASSUME NEW p \in Peer, NEW pk \in net[p], Process(p, pk)
      PROVE  ReliableBits'
  <2> SUFFICES ASSUME NEW a \in Peer, NEW i \in SubChans
               PROVE  SubBits(a, Other(a), i)'
    BY DEF ReliableBits
  <2>1. a = p \/ (a = Other(p) /\ Other(a) = p)
    BY DEF Peer, Other
  <2> QED
    BY <1>3, <2>1, ProcessSenderBits, ProcessReceiverBits
<1>4. CASE UNCHANGED vars
  BY <1>1, <1>4 DEF vars, control
<1>5. CASE Next
  <2>1. PICK p \in Peer : Host(p) \/ Network(p)
    BY <1>5 DEF Next
  <2>2. CASE \/ \E n \in MessageBytes : SendReliable(p, n) \/ OverflowReliable(p, n)
             \/ \E n \in FileBytes, isFile \in BOOLEAN : SendFile(p, n, isFile)
    BY <1>1, <2>2 DEF SendReliable, OverflowReliable, SendFile
  <2>3. CASE SendDatagram(p)
    BY <1>2, <2>3
  <2>4. CASE SetChoked(p)
    BY <2>4, SkipBits
  <2>5. CASE Clear(p)
    BY <2>5, ClearBits
  <2>6. CASE Network(p)
    <3>1. PICK pk \in net[p] : DiscardStale(p, pk) \/ Process(p, pk)
      BY <2>6 DEF Network
    <3>2. CASE DiscardStale(p, pk)
      BY <1>1, <3>2 DEF DiscardStale, control
    <3>3. CASE Process(p, pk)
      BY <1>3, <3>3
    <3> QED
      BY <3>1, <3>2, <3>3
  <2> QED
    BY <2>1, <2>2, <2>3, <2>4, <2>5, <2>6 DEF Host
<1> QED
  BY <1>4, <1>5

\* Two channels just set up agree.
LEMMA InitInv == Init => IInv
<1> SUFFICES ASSUME Init PROVE SeqOrder /\ ReliableBits
  BY InitTyped DEF IInv
<1>1. SeqOrder
  BY OtherType DEF Init, SeqOrder
<1>2. FreeSub.state = "FREE" /\ FreeSub.sendSeq = -1
  BY DEF FreeSub
<1>3. ReliableBits
  BY <1>2, OtherType DEF Init, ReliableBits, SubBits, Agree, Live
<1> QED
  BY <1>1, <1>3

\* The invariant is inductive.
LEMMA StepInv == IInv /\ [Next]_vars => IInv'
BY StepTyped, StepSeqOrder, StepBits DEF IInv

\* The inductive invariant of the bit protocol holds.
THEOREM Invariant == Spec => []IInv
BY InitInv, StepInv, PTL DEF Spec

\* Datagrams on their way acknowledge only what their sender accepted, and never
\* less than what was sent before them (SendDatagram, ProcessPacketHeader).
THEOREM SequencesOrdered == Spec => []SeqOrder
<1>1. IInv => SeqOrder
  BY DEF IInv
<1> QED
  BY <1>1, Invariant, PTL

\* The subchannel bits of the two ends differ exactly while data of the
\* subchannel is out, whatever is lost, duplicated, overtaken or cleared.
THEOREM BitsReliable == Spec => []ReliableBits
<1>1. IInv => ReliableBits
  BY DEF IInv
<1> QED
  BY <1>1, Invariant, PTL

\* "reliable state invalid" and the Assert on free subchannels of
\* ProcessPacketHeader cannot happen between two hosts that run this code.
THEOREM AssertsNeverFail == Spec => []AssertsHold
<1>1. IInv => AssertsHold
  <2> SUFFICES ASSUME IInv, NEW p \in Peer, NEW pk \in Live(p)
               PROVE  /\ AfterHeader(p, pk).ok
                      /\ \A i \in SubChans :
                           sub[p][i].state = "FREE" => pk.rel[i] = outRel[p][i]
    BY DEF AssertsHold
  <2>1. 0 \in SubChans
    BY NetChanAssumption DEF SubChans, NetChanAssumption
  <2>2. AfterHeader(p, pk).ok
    BY <2>1, HeaderValid DEF IInv
  <2>3. ASSUME NEW i \in SubChans, sub[p][i].state = "FREE"
        PROVE  pk.rel[i] = outRel[p][i]
    BY <2>3 DEF IInv, ReliableBits, SubBits, Agree
  <2> QED
    BY <2>2, <2>3
<1> QED
  BY <1>1, Invariant, PTL

-----------------------------------------------------------------------------
(* Counting fragments *)

Parts(c, I, s) == {x \in I \X (1 .. MaxFragments) : x[2] <= c[x[1]].num[s]}

LEMMA PartsFinite ==
  ASSUME NEW c, NEW I \in SUBSET SubChans, NEW s
  PROVE  /\ IsFiniteSet(Parts(c, I, s)) /\ Carried(c, I, s) = Cardinality(Parts(c, I, s))
         /\ Carried(c, I, s) \in Nat
<1>1. IsFiniteSet(SubChans) /\ IsFiniteSet(1 .. MaxFragments)
  BY FS_Interval, NetChanAssumption DEF SubChans, NetChanAssumption
<1>2. IsFiniteSet(I)
  BY <1>1, FS_Subset
<1>3. IsFiniteSet(I \X (1 .. MaxFragments))
  BY <1>1, <1>2, FS_Product
<1>4. Parts(c, I, s) \in SUBSET (I \X (1 .. MaxFragments))
  BY DEF Parts
<1>5. IsFiniteSet(Parts(c, I, s))
  BY <1>3, <1>4, FS_Subset
<1>6. Carried(c, I, s) = Cardinality(Parts(c, I, s))
  BY DEF Carried, Parts
<1> QED BY <1>5, <1>6, FS_CardinalityType

\* The subchannels that arrived and the others carry what all of them carry.
LEMMA CarriedSplit ==
  ASSUME NEW c, NEW I \in SUBSET SubChans, NEW A \in SUBSET I, NEW s
  PROVE  Carried(c, I, s) = Carried(c, A, s) + Carried(c, I \ A, s)
<1>1. /\ Parts(c, I, s) = Parts(c, A, s) \cup Parts(c, I \ A, s)
      /\ Parts(c, A, s) \cap Parts(c, I \ A, s) = {}
  BY DEF Parts
<1>2. /\ IsFiniteSet(Parts(c, A, s)) /\ Carried(c, A, s) = Cardinality(Parts(c, A, s))
      /\ Carried(c, A, s) \in Nat
  BY PartsFinite
<1>3. /\ IsFiniteSet(Parts(c, I \ A, s))
      /\ Carried(c, I \ A, s) = Cardinality(Parts(c, I \ A, s)) /\ Carried(c, I \ A, s) \in Nat
  BY PartsFinite
<1>4. Cardinality(Parts(c, A, s) \cup Parts(c, I \ A, s))
        = Cardinality(Parts(c, A, s)) + Cardinality(Parts(c, I \ A, s)) - Cardinality({})
  BY ZenonT(30), <1>1, <1>2, <1>3, FS_Union
<1>5. Cardinality({}) = 0
  BY FS_EmptySet
<1>6. Carried(c, I, s) = Cardinality(Parts(c, I, s))
  BY PartsFinite
<1> QED BY <1>1, <1>2, <1>3, <1>4, <1>5, <1>6

\* Only the numbers of fragments matter.
LEMMA CarriedSame ==
  ASSUME NEW c, NEW d, NEW I \in SUBSET SubChans, NEW s,
         \A i \in I : c[i].num[s] = d[i].num[s]
  PROVE  Carried(c, I, s) = Carried(d, I, s)
<1>1. Parts(c, I, s) = Parts(d, I, s)
  BY DEF Parts
<1> QED BY <1>1, PartsFinite

\* Subchannels without fragments of the stream carry none, others do.
LEMMA CarriedNone ==
  ASSUME NEW c, NEW I \in SUBSET SubChans, NEW s, \A i \in I : c[i].num[s] \in Int
  PROVE  /\ (\A i \in I : c[i].num[s] <= 0) => Carried(c, I, s) = 0
         /\ Carried(c, I, s) = 0 => \A i \in I : c[i].num[s] <= 0
<1>1. ASSUME \A i \in I : c[i].num[s] <= 0 PROVE Carried(c, I, s) = 0
  <2>1. Parts(c, I, s) = {}
    <3> SUFFICES ASSUME NEW i \in I, NEW k \in 1 .. MaxFragments, k <= c[i].num[s] PROVE FALSE
      BY DEF Parts
    <3> QED BY <1>1, Sizes
  <2> QED BY <2>1, PartsFinite, FS_EmptySet
<1>2. ASSUME Carried(c, I, s) = 0, NEW i \in I, c[i].num[s] > 0 PROVE FALSE
  <2>1. Parts(c, I, s) = {}
    BY <1>2, PartsFinite, FS_EmptySet
  <2>2. 1 \in 1 .. MaxFragments /\ 1 <= c[i].num[s]
    BY <1>2, NetChanAssumption DEF NetChanAssumption
  <2>3. <<i, 1>> \in Parts(c, I, s)
    BY <2>2 DEF Parts
  <2> QED BY <2>1, <2>3
<1> QED BY <1>1, <1>2

\* One subchannel carries as many as it says.
LEMMA CarriedOne ==
  ASSUME NEW c, NEW i \in SubChans, NEW s, c[i].num[s] \in 0 .. MaxFragments
  PROVE  Carried(c, {i}, s) = c[i].num[s]
<1> DEFINE n == c[i].num[s]
           f == [k \in 1 .. n |-> <<i, k>>]
           P == Parts(c, {i}, s)
<1>1. n \in Nat /\ n <= MaxFragments /\ MaxFragments \in Nat
  BY Sizes
<1>2. /\ \A k \in 1 .. n : <<i, k>> \in P
      /\ \A x \in P : \E k \in 1 .. n : x = <<i, k>>
  BY <1>1 DEF Parts
<1> HIDE DEF n, P
<1>3. f \in Bijection(1 .. n, P)
  <2>1. f \in [1 .. n -> P] /\ \A j, k \in 1 .. n : f[j] = f[k] => j = k
    BY <1>2
  <2>2. \A x \in P : \E k \in 1 .. n : f[k] = x
    BY <1>2
  <2> QED BY <2>1, <2>2 DEF Bijection, Injection, IsInjective, Surjection
<1>4. ExistsBijection(1 .. n, P)
  BY <1>3 DEF ExistsBijection
<1>5. IsFiniteSet(1 .. n) /\ Cardinality(1 .. n) = n
  <2>1. /\ IsFiniteSet(1 .. n)
        /\ Cardinality(1 .. n) = IF 1 > n THEN 0 ELSE n - 1 + 1
    BY <1>1, FS_Interval
  <2> QED BY <1>1, <2>1
<1>6. Cardinality(P) = n
  BY <1>4, <1>5, FS_Bijection
<1> QED BY <1>6, PartsFinite DEF P, n

-----------------------------------------------------------------------------
(* The head of a list and the subchannels that carry it *)

LoadedIn(c, s) == {i \in SubChans : c[i].state \in {"TOSEND", "WAITING"} /\ c[i].num[s] > 0}

\* What FragmentsAccounted says of one list q and the subchannels c, and that
\* nothing of the other transfers of the list is on its way.
HeadFits(d, c, s) ==
  /\ d.pending = Carried(c, LoadedIn(c, s), s)
  /\ d.acked + d.pending <= NumFragments(d)
  /\ \A i \in LoadedIn(c, s) :
       c[i].start[s] >= 0 /\ c[i].start[s] + c[i].num[s] <= d.acked + d.pending
  /\ \A i, j \in LoadedIn(c, s) : i # j =>
       \/ c[i].start[s] + c[i].num[s] <= c[j].start[s]
       \/ c[j].start[s] + c[j].num[s] <= c[i].start[s]
Unstarted(d) == d.acked = 0 /\ d.pending = 0
Accounted(q, c, s) ==
  /\ IF q = <<>> THEN LoadedIn(c, s) = {} ELSE HeadFits(Head(q), c, s)
  /\ \A k \in 2 .. Len(q) : Unstarted(q[k])

\* Nothing is carried of a transfer nothing was sent of.
LEMMA NothingLoaded ==
  ASSUME NEW c \in [SubChans -> SubRecords], NEW s \in Streams, NEW d \in Transfers,
         HeadFits(d, c, s), d.pending = 0
  PROVE  LoadedIn(c, s) = {}
<1>1. LoadedIn(c, s) \in SUBSET SubChans /\ \A i \in LoadedIn(c, s) : c[i].num[s] \in Int
  BY DEF LoadedIn, SubRecords
<1>2. \A i \in LoadedIn(c, s) : c[i].num[s] <= 0
  BY <1>1, CarriedNone DEF HeadFits
<1> QED BY <1>1, <1>2 DEF LoadedIn

\* A transfer nothing was sent of may become the head when nothing is carried.
LEMMA NewHead ==
  ASSUME NEW c \in [SubChans -> SubRecords], NEW s \in Streams, NEW d \in Transfers,
         LoadedIn(c, s) = {}, Unstarted(d)
  PROVE  HeadFits(d, c, s)
<1>1. Carried(c, {}, s) = 0
  BY CarriedNone
<1>2. NumFragments(d) \in Nat
  BY UnsentType
<1> QED BY <1>1, <1>2 DEF HeadFits, Unstarted

\* SendFile, CreateFragmentsFromBuffer: a transfer joins the list.
LEMMA AppendAccounted ==
  ASSUME NEW c \in [SubChans -> SubRecords], NEW s \in Streams, NEW q \in Seq(Transfers),
         NEW d \in Transfers, Accounted(q, c, s), Unstarted(d)
  PROVE  Accounted(Append(q, d), c, s)
<1> DEFINE r == Append(q, d)
<1>1. /\ r # <<>> /\ Len(r) = Len(q) + 1 /\ Len(q) \in Nat /\ r[Len(q) + 1] = d
      /\ \A k \in 1 .. Len(q) : r[k] = q[k]
      /\ Head(r) = r[1] /\ (q # <<>> => Head(q) = q[1] /\ Len(q) > 0)
  BY SMTT(30)
<1> HIDE DEF r
<1>2. HeadFits(Head(r), c, s)
  <2>1. CASE q = <<>>
    <3>1. Head(r) = d
      BY <1>1, <2>1
    <3> QED BY <2>1, <3>1, NewHead DEF Accounted
  <2>2. CASE q # <<>>
    <3>1. Head(r) = Head(q)
      BY <1>1, <2>2
    <3> QED BY <2>2, <3>1 DEF Accounted
  <2> QED BY <2>1, <2>2
<1>3. \A k \in 2 .. Len(r) : Unstarted(r[k])
  <2> SUFFICES ASSUME NEW k \in 2 .. Len(r) PROVE Unstarted(r[k])
    OBVIOUS
  <2>1. k \in 2 .. Len(q) \/ k = Len(q) + 1
    BY <1>1
  <2> QED BY <1>1, <2>1 DEF Accounted
<1>4. Accounted(r, c, s)
  BY <1>1, <1>2, <1>3 DEF Accounted
<1> QED BY <1>4 DEF r

LEMMA TransferUnstarted ==
  ASSUME NEW a, NEW b, NEW n, NEW f PROVE Unstarted(Transfer(a, b, n, f))
BY DEF Transfer, Unstarted

\* CreateFragmentsFromBuffer never touches what is on its way.
LEMMA CreateAccounted ==
  ASSUME NEW c \in [SubChans -> SubRecords], NEW s \in Streams, NEW q \in Seq(Transfers),
         NEW r \in ReliableRecords, Accounted(q, c, s)
  PROVE  Accounted(CreateFragments(q, r), c, s)
<1>1. CASE r.bytes = 0
  BY <1>1 DEF CreateFragments
<1>2. CASE CreateFragments(q, r) = Append(q, Transfer(r.first, r.last, r.bytes, FALSE))
  <2>1. Transfer(r.first, r.last, r.bytes, FALSE) \in Transfers
    BY TransferType DEF ReliableRecords
  <2> QED BY <1>2, <2>1, AppendAccounted, TransferUnstarted
<1>3. CASE Len(q) > 1 /\ CreateFragments(q, r) = [q EXCEPT ![Len(q)] = Merge(@, r)]
  <2> DEFINE t == [q EXCEPT ![Len(q)] = Merge(@, r)]
  <2>1. /\ Len(t) = Len(q) /\ Len(q) \in Nat /\ t[Len(q)] = Merge(q[Len(q)], r)
        /\ \A k \in 1 .. Len(q) : k # Len(q) => t[k] = q[k]
        /\ Head(q) = q[1] /\ Head(t) = t[1] /\ q # <<>> /\ t # <<>>
    BY <1>3
  <2>2. Unstarted(Merge(q[Len(q)], r))
    BY DEF Merge, Transfer, Unstarted
  <2> HIDE DEF t
  <2>3. \A k \in 2 .. Len(t) : Unstarted(t[k])
    BY <2>1, <2>2 DEF Accounted
  <2>4. Head(t) = Head(q)
    BY <1>3, <2>1
  <2>5. Accounted(t, c, s)
    BY <2>1, <2>3, <2>4 DEF Accounted
  <2> QED BY <1>3, <2>5 DEF t
<1> QED BY <1>1, <1>2, <1>3 DEF CreateFragments

\* CompressFragments changes a head only before anything of it was sent.
LEMMA CompressAccounted ==
  ASSUME NEW c \in [SubChans -> SubRecords], NEW s \in Streams, NEW q \in Seq(Transfers),
         NEW r \in CompressHead(q), Accounted(q, c, s)
  PROVE  Accounted(r, c, s) /\ r \in Seq(Transfers)
<1>1. CASE r = q
  BY <1>1
<1>2. CASE r # q
  <2>1. /\ q # <<>> /\ Unstarted(Head(q))
        /\ \E n \in 1 .. Head(q).bytes - 1 : r = [q EXCEPT ![1] = Compress(@, n)]
    BY <1>2 DEF CompressHead, Unstarted
  <2>2. PICK n \in 1 .. Head(q).bytes - 1 : r = [q EXCEPT ![1] = Compress(@, n)]
    BY <2>1
  <2>3. /\ Head(q) \in Transfers /\ Head(q) = q[1] /\ Len(q) > 0 /\ Len(q) \in Nat
        /\ Head(q).bytes \in Nat
    BY SMTT(30), <2>1, HeadType DEF Transfers
  <2>4. /\ Compress(Head(q), n) \in Transfers /\ Unstarted(Compress(Head(q), n))
    <3>1. n \in Nat
      BY <2>3
    <3>2. Unstarted(Compress(Head(q), n))
      BY <2>1, <2>3 DEF Compress, Unstarted, Transfers
    <3> QED BY <2>3, <3>1, <3>2, TransferSteps
  <2>5. /\ r \in Seq(Transfers) /\ Head(r) = Compress(Head(q), n) /\ Len(r) = Len(q)
        /\ \A k \in 2 .. Len(q) : r[k] = q[k]
        /\ r # <<>>
    <3>1. r = [q EXCEPT ![1] = Compress(Head(q), n)]
      BY <2>2, <2>3
    <3> HIDE DEF Compress
    <3>2. r \in Seq(Transfers)
      BY <2>1, <2>4, <3>1, HeadType
    <3>3. Len(r) = Len(q) /\ r[1] = Compress(Head(q), n) /\ \A k \in 2 .. Len(q) : r[k] = q[k]
      BY <2>3, <3>1
    <3> QED BY <2>3, <3>2, <3>3
  <2>6. LoadedIn(c, s) = {}
    BY <2>1, <2>3, NothingLoaded DEF Accounted, Unstarted
  <2>7. HeadFits(Head(r), c, s)
    BY <2>4, <2>5, <2>6, NewHead
  <2> QED BY <2>5, <2>7 DEF Accounted
<1> QED BY <1>1, <1>2

\* How many fragments the next subchannel takes of each head.
LEMMA LoadBounds ==
  ASSUME NEW w \in Lists, NEW c \in [SubChans -> SubRecords],
         \A s \in Streams : Accounted(w[s], c, s), NEW s \in Streams
  PROVE  /\ Load(w)[s] \in 0 .. MaxFragments
         /\ Load(w)[s] # 0 => w[s] # <<>> /\ Load(w)[s] <= Unsent(Head(w[s]))
<1>1. ASSUME NEW t \in Streams, w[t] # <<>>
      PROVE  Unsent(Head(w[t])) \in Nat
  <2>1. Head(w[t]) \in Transfers
    BY <1>1, HeadType DEF Lists
  <2>2. /\ NumFragments(Head(w[t])) \in Nat /\ Unsent(Head(w[t])) \in Int
        /\ Unsent(Head(w[t])) = NumFragments(Head(w[t])) - (Head(w[t]).acked + Head(w[t]).pending)
    BY <2>1, UnsentType DEF Unsent
  <2>3. Head(w[t]).acked + Head(w[t]).pending <= NumFragments(Head(w[t]))
    BY <1>1 DEF Accounted, HeadFits
  <2>4. Head(w[t]).acked \in Int /\ Head(w[t]).pending \in Int
    BY <2>1 DEF Transfers
  <2> QED BY <2>2, <2>3, <2>4
<1> DEFINE n == IF w[NORMAL] = <<>> THEN 0 ELSE Min2(MaxFragments, Unsent(Head(w[NORMAL])))
           f == IF w[FILE] = <<>> THEN 0
                ELSE Min2(IF Background THEN Min2(1, MaxFragments - n) ELSE MaxFragments - n,
                          Unsent(Head(w[FILE])))
<1>2. NORMAL \in Streams /\ FILE \in Streams /\ NORMAL # FILE
  BY DEF Streams, NORMAL, FILE
<1>3. MaxFragments \in Nat
  BY Sizes
<1>4. n \in 0 .. MaxFragments /\ (n # 0 => w[NORMAL] # <<>> /\ n <= Unsent(Head(w[NORMAL])))
  BY <1>1, <1>2, <1>3 DEF Min2
<1>5. f \in 0 .. MaxFragments /\ (f # 0 => w[FILE] # <<>> /\ f <= Unsent(Head(w[FILE])))
  <2> HIDE DEF n
  <2>1. n \in 0 .. MaxFragments
    BY <1>4
  <2> QED BY <1>1, <1>2, <1>3, <2>1 DEF Min2
<1>6. Load(w) = [t \in Streams |-> IF t = NORMAL THEN n ELSE f]
  BY DEF Load
<1> HIDE DEF n, f
<1>7. (s = NORMAL /\ Load(w)[s] = n) \/ (s = FILE /\ Load(w)[s] = f)
  BY <1>2, <1>6 DEF Streams
<1> QED BY <1>4, <1>5, <1>7

\* A free subchannel i takes the next n fragments of the head d.
LEMMA LoadFits ==
  ASSUME NEW c \in [SubChans -> SubRecords], NEW s \in Streams, NEW d \in Transfers,
         HeadFits(d, c, s), NEW i \in SubChans, c[i].state = "FREE",
         NEW n \in 1 .. MaxFragments, n <= Unsent(d),
         NEW b \in [SubChans -> SubRecords], \A j \in SubChans : j # i => b[j] = c[j],
         b[i].state = "TOSEND", b[i].num[s] = n, b[i].start[s] = d.acked + d.pending
  PROVE  HeadFits(Reserve(d, n), b, s)
<1> DEFINE I == LoadedIn(c, s)
           e == Reserve(d, n)
<1>1. LoadedIn(b, s) = I \cup {i} /\ i \notin I /\ I \in SUBSET SubChans
  BY DEF LoadedIn
<1>2. /\ d.acked \in Nat /\ d.pending \in Int /\ NumFragments(d) \in Nat /\ d.bytes \in Nat
      /\ n \in Nat /\ n > 0 /\ n <= MaxFragments /\ MaxFragments \in Nat
      /\ d.acked + d.pending + n <= NumFragments(d)
  BY UnsentType, Sizes DEF Transfers, Unsent
<1>3. /\ e.acked = d.acked /\ e.pending = d.pending + n /\ NumFragments(e) = NumFragments(d)
  BY <1>2 DEF Reserve, NumFragments, Transfers
<1>4. \A j \in I : b[j] = c[j] /\ c[j].num[s] \in Int /\ c[j].start[s] \in Int
  BY <1>1 DEF SubRecords
<1>5. Carried(b, I \cup {i}, s) = Carried(c, I, s) + n
  <2>1. Carried(b, {i}, s) = n
    <3>1. b[i].num[s] \in 0 .. MaxFragments
      BY <1>2
    <3>2. Carried(b, {i}, s) = b[i].num[s]
      BY <3>1, CarriedOne
    <3> QED BY <3>2
  <2>2. Carried(b, I, s) = Carried(c, I, s)
    BY <1>1, <1>4, CarriedSame
  <2>3. Carried(b, I \cup {i}, s) = Carried(b, I, s) + Carried(b, (I \cup {i}) \ I, s)
    BY <1>1, CarriedSplit
  <2>4. (I \cup {i}) \ I = {i}
    BY <1>1
  <2> QED BY <2>1, <2>2, <2>3, <2>4
<1>6. /\ d.pending = Carried(c, I, s)
      /\ \A j \in I : c[j].start[s] >= 0 /\ c[j].start[s] + c[j].num[s] <= d.acked + d.pending
      /\ \A j, k \in I : j # k =>
           \/ c[j].start[s] + c[j].num[s] <= c[k].start[s]
           \/ c[k].start[s] + c[k].num[s] <= c[j].start[s]
  BY DEF HeadFits
<1>7. d.pending >= 0
  BY <1>1, <1>6, PartsFinite
<1> HIDE DEF I, e
<1>8. \A j \in I \cup {i} : b[j].start[s] >= 0 /\ b[j].start[s] + b[j].num[s] <= e.acked + e.pending
  BY <1>2, <1>3, <1>4, <1>6, <1>7
<1>9. \A j, k \in I \cup {i} : j # k =>
           \/ b[j].start[s] + b[j].num[s] <= b[k].start[s]
           \/ b[k].start[s] + b[k].num[s] <= b[j].start[s]
  BY <1>2, <1>4, <1>6
<1>10. e.pending = Carried(b, I \cup {i}, s) /\ e.acked + e.pending <= NumFragments(e)
  BY <1>2, <1>3, <1>5, <1>6
<1> QED BY <1>1, <1>8, <1>9, <1>10 DEF HeadFits, e

\* Subchannels that differ in what carries nothing of the stream.
LEMMA SameLoaded ==
  ASSUME NEW c \in [SubChans -> SubRecords], NEW b \in [SubChans -> SubRecords],
         NEW s \in Streams, LoadedIn(b, s) = LoadedIn(c, s),
         \A i \in LoadedIn(c, s) : b[i].num[s] = c[i].num[s] /\ b[i].start[s] = c[i].start[s],
         NEW q, Accounted(q, c, s)
  PROVE  Accounted(q, b, s)
<1>1. Carried(b, LoadedIn(b, s), s) = Carried(c, LoadedIn(c, s), s)
  <2>1. LoadedIn(c, s) \in SUBSET SubChans
    BY DEF LoadedIn
  <2> QED BY <2>1, CarriedSame
<1>2. ASSUME NEW d, HeadFits(d, c, s) PROVE HeadFits(d, b, s)
  BY <1>1, <1>2 DEF HeadFits
<1> QED BY <1>2 DEF Accounted

\* UpdateSubChannels: the fragments it loads follow those on their way.
LEMMA UpdateAccounted ==
  ASSUME NEW ch \in SendHalves, \A s \in Streams : Accounted(ch.waiting[s], ch.sub, s),
         NEW s \in Streams
  PROVE  Accounted(UpdateSubChannels(ch).waiting[s], UpdateSubChannels(ch).sub, s)
<1> DEFINE free == InState(ch.sub, "FREE")
           i == Lowest(free)
           n == Load(ch.waiting)
           Start(t) == Head(ch.waiting[t]).acked + Head(ch.waiting[t]).pending
           d == [state |-> "TOSEND", sendSeq |-> 0, num |-> n,
                 start |-> [t \in Streams |-> IF n[t] = 0 THEN -1 ELSE Start(t)]]
           lists == [t \in Streams |->
                       IF n[t] = 0 THEN ch.waiting[t]
                       ELSE [ch.waiting[t] EXCEPT ![1] = Reserve(@, n[t])]]
           b == [ch.sub EXCEPT ![i] = d]
           u == UpdateSubChannels(ch)
<1>1. CASE u = ch
  BY <1>1
<1>2. CASE u # ch
  <2>1. free # {} /\ u.sub = b /\ u.waiting = lists
    BY <1>2 DEF UpdateSubChannels
  <2>2. i \in SubChans /\ ch.sub[i].state = "FREE"
    <3>1. i \in free
      BY <2>1, LowestType DEF InState
    <3> QED BY <3>1 DEF InState
  <2>3. /\ ch.waiting \in Lists /\ ch.sub \in [SubChans -> SubRecords]
        /\ ch.waiting[s] \in Seq(Transfers)
    BY DEF SendHalves, Lists
  <2>4. b \in [SubChans -> SubRecords]
    <3>1. u \in SendHalves
      BY UpdateType
    <3> QED BY <2>1, <3>1 DEF SendHalves
  <2>5. /\ \A j \in SubChans : j # i => b[j] = ch.sub[j]
        /\ b[i] = d
    BY <2>2, <2>3
  <2>6. /\ d.state = "TOSEND" /\ d.num[s] = n[s]
        /\ n[s] # 0 => d.start[s] = Start(s)
    OBVIOUS
  <2>7. /\ n[s] \in 0 .. MaxFragments
        /\ n[s] # 0 => ch.waiting[s] # <<>> /\ n[s] <= Unsent(Head(ch.waiting[s]))
    BY <2>3, LoadBounds
  <2>8. lists[s] = IF n[s] = 0 THEN ch.waiting[s]
                   ELSE [ch.waiting[s] EXCEPT ![1] = Reserve(@, n[s])]
    OBVIOUS
  <2> HIDE DEF free, i, n, d, b, lists
  <2>9. CASE n[s] = 0
    <3>1. LoadedIn(b, s) = LoadedIn(ch.sub, s)
      BY <2>2, <2>5, <2>6, <2>9 DEF LoadedIn
    <3>2. \A j \in LoadedIn(ch.sub, s) : b[j] = ch.sub[j]
      BY <2>2, <2>5 DEF LoadedIn
    <3>3. Accounted(ch.waiting[s], b, s)
      BY <2>3, <2>4, <3>1, <3>2, SameLoaded
    <3> QED BY <2>1, <2>8, <2>9, <3>3
  <2>10. CASE n[s] # 0
    <3> DEFINE h == Head(ch.waiting[s])
               q == lists[s]
    <3>1. ch.waiting[s] # <<>> /\ n[s] \in 1 .. MaxFragments /\ n[s] <= Unsent(h)
      BY <2>7, <2>10
    <3>2. /\ h \in Transfers /\ h = ch.waiting[s][1] /\ Len(ch.waiting[s]) > 0
          /\ Len(ch.waiting[s]) \in Nat
      BY <2>3, <3>1, HeadType
    <3>3. q = [ch.waiting[s] EXCEPT ![1] = Reserve(h, n[s])]
      BY <2>8, <2>10, <3>2
    <3>4. HeadFits(h, ch.sub, s)
      BY <3>1 DEF Accounted
    <3>5. b[i].state = "TOSEND" /\ b[i].num[s] = n[s] /\ b[i].start[s] = h.acked + h.pending
      BY <2>5, <2>6, <2>10
    <3> HIDE DEF q, h
    <3>6. HeadFits(Reserve(h, n[s]), b, s)
      BY <2>2, <2>3, <2>4, <2>5, <3>1, <3>2, <3>4, <3>5, LoadFits
    <3>7. /\ q # <<>> /\ Len(q) = Len(ch.waiting[s]) /\ Head(q) = Reserve(h, n[s])
          /\ \A k \in 2 .. Len(q) : q[k] = ch.waiting[s][k]
      <4> HIDE DEF Reserve
      <4>1. Len(q) = Len(ch.waiting[s]) /\ q[1] = Reserve(h, n[s])
            /\ \A k \in 2 .. Len(q) : q[k] = ch.waiting[s][k]
        BY <2>3, <3>2, <3>3
      <4>2. q \in Seq(Transfers)
        <5>1. u \in SendHalves
          BY UpdateType
        <5> QED BY <2>1, <5>1 DEF SendHalves, Lists, q
      <4> QED BY <3>2, <4>1, <4>2
    <3>8. \A k \in 2 .. Len(q) : Unstarted(q[k])
      BY <3>7 DEF Accounted
    <3>9. Accounted(q, b, s)
      BY <3>6, <3>7, <3>8 DEF Accounted
    <3> QED BY <2>1, <3>9 DEF q
  <2> QED BY <2>9, <2>10
<1> QED BY <1>1, <1>2

FragmentsKept == \A p \in Peer, s \in Streams : Accounted(waiting[p][s], sub[p], s)

\* A datagram: data joins the lists, a subchannel is loaded, one is sent.
LEMMA SendAccounted ==
  ASSUME TypeOK, FragmentsKept, NEW p \in Peer, SendDatagram(p), NEW s \in Streams
  PROVE  Accounted(waiting'[p][s], sub'[p], s)
<1> DEFINE w0 == [waiting[p] EXCEPT ![NORMAL] = CreateFragments(@, reliable[p])]
<1>1. PICK w \in Compressed(w0) :
       LET ch == UpdateSubChannels([waiting |-> w, sub |-> sub[p], rel |-> outRel[p]])
           toSend == InState(ch.sub, "TOSEND")
           i == IF toSend = {} THEN NULL ELSE Lowest(toSend)
       IN  /\ waiting' = [waiting EXCEPT ![p] = ch.waiting]
           /\ sub' = [sub EXCEPT ![p] =
                        [j \in SubChans |->
                           IF j = i THEN Sent(ch.sub[j], outSeq[p]) ELSE ch.sub[j]]]
  BY DEF SendDatagram
<1> DEFINE half == [waiting |-> w, sub |-> sub[p], rel |-> outRel[p]]
           ch == UpdateSubChannels(half)
           toSend == InState(ch.sub, "TOSEND")
           i == IF toSend = {} THEN NULL ELSE Lowest(toSend)
           b == [j \in SubChans |-> IF j = i THEN Sent(ch.sub[j], outSeq[p]) ELSE ch.sub[j]]
<1>2. half \in SendHalves
  BY SendHalfType
<1>3. waiting[p] \in Lists /\ sub[p] \in [SubChans -> SubRecords] /\ reliable[p] \in ReliableRecords
      /\ outSeq[p] \in Nat
  BY DEF TypeOK
<1>4. \A t \in Streams : Accounted(w0[t], sub[p], t) /\ w0[t] \in Seq(Transfers)
  <2> SUFFICES ASSUME NEW t \in Streams
               PROVE  Accounted(w0[t], sub[p], t) /\ w0[t] \in Seq(Transfers)
    OBVIOUS
  <2>1. waiting[p][t] \in Seq(Transfers) /\ Accounted(waiting[p][t], sub[p], t)
    BY <1>3 DEF Lists, FragmentsKept
  <2>2. w0[t] = waiting[p][t] \/ w0[t] = CreateFragments(waiting[p][t], reliable[p])
    BY <1>3 DEF Lists
  <2> QED BY <1>3, <2>1, <2>2, CreateAccounted, CreateFragmentsType
<1>5. \A t \in Streams : Accounted(w[t], sub[p], t)
  <2> SUFFICES ASSUME NEW t \in Streams PROVE Accounted(w[t], sub[p], t)
    OBVIOUS
  <2>1. w[t] \in CompressHead(w0[t])
    <3> HIDE DEF w0
    <3>1. NORMAL \in Streams /\ FILE \in Streams /\ (t = NORMAL \/ t = FILE)
      BY DEF Streams
    <3>2. PICK n \in CompressHead(w0[NORMAL]), f \in CompressHead(w0[FILE]) :
            w = [r \in Streams |-> IF r = NORMAL THEN n ELSE f]
      BY DEF Compressed
    <3> QED BY <3>1, <3>2 DEF NORMAL, FILE
  <2> HIDE DEF w0
  <2> QED BY <1>3, <1>4, <2>1, CompressAccounted
<1>6. Accounted(ch.waiting[s], ch.sub, s) /\ ch \in SendHalves
  <2>1. half.waiting = w /\ half.sub = sub[p]
    OBVIOUS
  <2> HIDE DEF half
  <2> QED BY <1>2, <1>5, <2>1, UpdateAccounted, UpdateType
<1>7. waiting'[p] = ch.waiting /\ sub'[p] = b
  BY <1>1, <1>3 DEF TypeOK
<1>8. ch.sub \in [SubChans -> SubRecords]
  BY <1>6 DEF SendHalves
<1> HIDE DEF ch, half, w0
<1>9. i \in SubChans => ch.sub[i].state = "TOSEND"
  <2>1. toSend # {} => i \in toSend
    BY LowestType DEF InState
  <2>2. toSend = {} => i \notin SubChans
    BY NetChanAssumption DEF NetChanAssumption
  <2> QED BY <2>1, <2>2 DEF InState
<1> HIDE DEF i
<1>10. /\ b \in [SubChans -> SubRecords]
       /\ \A j \in SubChans : /\ b[j].num = ch.sub[j].num /\ b[j].start = ch.sub[j].start
                              /\ b[j].state = ch.sub[j].state
                                   \/ (b[j].state = "WAITING" /\ ch.sub[j].state = "TOSEND")
  <2>1. \A j \in SubChans : Sent(ch.sub[j], outSeq[p]) \in SubRecords
    BY <1>3, <1>8, SentType
  <2>2. \A j \in SubChans : /\ Sent(ch.sub[j], outSeq[p]).num = ch.sub[j].num
                           /\ Sent(ch.sub[j], outSeq[p]).start = ch.sub[j].start
                           /\ Sent(ch.sub[j], outSeq[p]).state = "WAITING"
    BY <1>8 DEF Sent, SubRecords
  <2> QED BY <1>8, <1>9, <2>1, <2>2
<1> HIDE DEF b
<1>11. LoadedIn(b, s) = LoadedIn(ch.sub, s)
  BY <1>10 DEF LoadedIn
<1>12. \A j \in LoadedIn(ch.sub, s) : b[j].num[s] = ch.sub[j].num[s] /\ b[j].start[s] = ch.sub[j].start[s]
  BY <1>10 DEF LoadedIn
<1>13. Accounted(ch.waiting[s], b, s)
  BY <1>6, <1>8, <1>10, <1>11, <1>12, SameLoaded
<1> QED BY <1>7, <1>13

\* ProcessPacketHeader on one list: the fragments of the subchannels A arrived.
LEMMA CreditFits ==
  ASSUME NEW c \in [SubChans -> SubRecords], NEW s \in Streams, NEW d \in Transfers,
         HeadFits(d, c, s), NEW A \in SUBSET SubChans, \A i \in A : c[i].state = "WAITING",
         NEW b \in [SubChans -> SubRecords], LoadedIn(b, s) = LoadedIn(c, s) \ A,
         \A i \in LoadedIn(b, s) : b[i].num[s] = c[i].num[s] /\ b[i].start[s] = c[i].start[s]
  PROVE  HeadFits(Acknowledge(d, Carried(c, A, s)), b, s)
<1> DEFINE I == LoadedIn(c, s)
           n == Carried(c, A, s)
           e == Acknowledge(d, n)
<1>1. /\ I \in SUBSET SubChans /\ \A i \in I : c[i].num[s] \in Int /\ c[i].start[s] \in Int
      /\ \A i \in A \ I : c[i].num[s] \in Int /\ c[i].num[s] <= 0
      /\ A \cap I \in SUBSET A /\ A \ (A \cap I) = A \ I /\ I \ (A \cap I) = I \ A
      /\ A \cap I \in SUBSET I /\ A \ I \in SUBSET SubChans /\ I \ A \in SUBSET SubChans
      /\ A \cap I \in SUBSET SubChans
  BY DEF LoadedIn, SubRecords
<1> HIDE DEF I
<1>2. n = Carried(c, A \cap I, s) + Carried(c, A \ I, s)
  BY <1>1, CarriedSplit
<1>3. Carried(c, A \ I, s) = 0
  BY <1>1, CarriedNone
<1>4. Carried(c, I, s) = Carried(c, A \cap I, s) + Carried(c, I \ A, s)
  BY <1>1, CarriedSplit
<1>5. Carried(b, I \ A, s) = Carried(c, I \ A, s)
  BY <1>1, CarriedSame DEF I
<1>6. /\ Carried(c, A \cap I, s) \in Nat /\ Carried(c, I \ A, s) \in Nat
  BY <1>1, PartsFinite
<1> HIDE DEF n
<1>7. d.acked \in Int /\ d.pending \in Int
  BY DEF Transfers
<1>8. n \in Int
  BY <1>2, <1>3, <1>6
<1>9. e.acked = d.acked + n /\ e.pending = d.pending - n /\ NumFragments(e) = NumFragments(d)
  BY <1>7, <1>8 DEF Acknowledge, NumFragments, Transfers
<1> HIDE DEF e
<1>10. e.acked + e.pending = d.acked + d.pending
  BY <1>7, <1>8, <1>9
<1>11. e.pending = Carried(b, I \ A, s)
  <2>1. d.pending = Carried(c, I, s)
    BY DEF HeadFits, I
  <2> QED BY <1>2, <1>3, <1>4, <1>5, <1>6, <1>9, <2>1
<1>12. LoadedIn(b, s) = I \ A
  BY DEF I
<1>13. \A j \in LoadedIn(b, s) : b[j].start[s] >= 0 /\ b[j].start[s] + b[j].num[s] <= e.acked + e.pending
  BY <1>10, <1>12 DEF HeadFits, I
<1>14. \A j, k \in LoadedIn(b, s) : j # k =>
           \/ b[j].start[s] + b[j].num[s] <= b[k].start[s]
           \/ b[k].start[s] + b[k].num[s] <= b[j].start[s]
  BY <1>12 DEF HeadFits, I
<1>15. HeadFits(e, b, s)
  BY <1>9, <1>10, <1>11, <1>12, <1>13, <1>14 DEF HeadFits
<1> QED BY <1>15 DEF e, n

\* ProcessPacketHeader: what arrived is counted off, what was lost is sent again.
LEMMA HeaderAccounted ==
  ASSUME TypeOK, FragmentsKept, NEW p \in Peer, NEW pk, DatagramTyped(pk), NEW s \in Streams
  PROVE  LET h == AfterHeader(p, pk) IN Accounted(h.waiting[s], h.sub, s)
<1> DEFINE c == sub[p]
           match == {i \in SubChans : outRel[p][i] = pk.rel[i]}
           due == {i \in SubChans : c[i].sendSeq <= pk.ack}
           invalid == (match \ InState(c, "DIRTY")) \ due
           seen == {i \in SubChans : \A j \in invalid : i < j}
           arrived == seen \cap match \cap InState(c, "WAITING")
           lost == ((seen \ match) \cap due) \cap InState(c, "WAITING")
           flipBack == ((seen \ match) \cap due) \cap InState(c, "DIRTY")
           free == arrived \cup flipBack
                     \cup (seen \cap match \cap InState(c, "DIRTY"))
           b == [i \in SubChans |-> IF i \in free THEN FreeSub
                                    ELSE IF i \in lost THEN Resend(c[i])
                                    ELSE c[i]]
           q == waiting[p][s]
           h == AfterHeader(p, pk)
<1>1. c \in [SubChans -> SubRecords] /\ q \in Seq(Transfers)
  BY DEF TypeOK, Lists
<1>2. /\ h.sub = b
      /\ h.waiting[s] = IF q = <<>> THEN q
                        ELSE [q EXCEPT ![1] = Acknowledge(@, Carried(c, arrived, s))]
  BY DEF AfterHeader
<1>3. h.sub \in [SubChans -> SubRecords] /\ h.waiting \in Lists
  BY HeaderType
<1>4. /\ arrived \in SUBSET SubChans /\ \A i \in arrived : c[i].state = "WAITING"
      /\ arrived \in SUBSET free
      /\ \A i \in free : c[i].state = "WAITING" => i \in arrived
      /\ \A i \in free : c[i].state \in {"WAITING", "DIRTY"}
      /\ \A i \in lost : c[i].state = "WAITING" /\ i \notin free
  BY DEF InState
<1> HIDE DEF h, arrived, free, lost, c
<1>5. \A i \in SubChans :
        /\ i \in free => b[i].state = "FREE"
        /\ i \notin free =>
             /\ b[i].num = c[i].num /\ b[i].start = c[i].start
             /\ b[i].state = c[i].state \/ (b[i].state = "TOSEND" /\ c[i].state = "WAITING")
  <2>1. FreeSub.state = "FREE"
    BY DEF FreeSub
  <2>2. \A i \in SubChans : /\ Resend(c[i]).num = c[i].num /\ Resend(c[i]).start = c[i].start
                           /\ Resend(c[i]).state = "TOSEND"
    BY <1>1 DEF Resend, SubRecords
  <2> QED BY <1>4, <2>1, <2>2
<1> HIDE DEF b
<1>6. LoadedIn(b, s) = LoadedIn(c, s) \ arrived
  BY <1>4, <1>5 DEF LoadedIn
<1>7. \A i \in LoadedIn(b, s) : b[i].num[s] = c[i].num[s] /\ b[i].start[s] = c[i].start[s]
  BY <1>4, <1>5 DEF LoadedIn
<1>8. Accounted(q, c, s)
  BY DEF FragmentsKept, c
<1> HIDE DEF q
<1>9. CASE q = <<>>
  <2>1. LoadedIn(b, s) = {} /\ h.waiting[s] = q
    BY <1>2, <1>6, <1>8, <1>9 DEF Accounted
  <2> QED BY <1>2, <1>8, <1>9, <2>1 DEF Accounted, h
<1>10. CASE q # <<>>
  <2> DEFINE d == Head(q)
             n == Carried(c, arrived, s)
             r == h.waiting[s]
  <2>1. /\ d \in Transfers /\ d = q[1] /\ Len(q) > 0 /\ Len(q) \in Nat
    BY <1>1, <1>10, HeadType
  <2>2. r = [q EXCEPT ![1] = Acknowledge(d, n)] /\ r \in Seq(Transfers)
    BY <1>2, <1>3, <1>10, <2>1 DEF Lists
  <2>3. HeadFits(d, c, s)
    BY <1>8, <1>10 DEF Accounted
  <2>4. b \in [SubChans -> SubRecords]
    BY <1>2, <1>3
  <2>5. HeadFits(Acknowledge(d, n), b, s)
    <3> HIDE DEF d
    <3> QED BY <1>1, <1>4, <1>6, <1>7, <2>1, <2>3, <2>4, CreditFits
  <2> HIDE DEF r, n, d
  <2>6. /\ r # <<>> /\ Len(r) = Len(q) /\ Head(r) = Acknowledge(d, n)
        /\ \A k \in 2 .. Len(r) : r[k] = q[k]
    <3>1. Len(r) = Len(q) /\ r[1] = Acknowledge(d, n) /\ \A k \in 2 .. Len(r) : r[k] = q[k]
      BY <1>1, <2>1, <2>2
    <3> QED BY <2>1, <2>2, <3>1
  <2>7. Accounted(r, b, s)
    BY <1>8, <2>5, <2>6 DEF Accounted
  <2> QED BY <1>2, <2>7 DEF r, h
<1> QED BY <1>9, <1>10

\* CheckWaitingList: no subchannel carries anything of a complete transfer.
LEMMA RemainingAccounted ==
  ASSUME TypeOK, FragmentsKept, NEW p \in Peer, NEW pk, DatagramTyped(pk), NEW ack,
         NEW s \in Streams
  PROVE  LET h == AfterHeader(p, pk) IN Accounted(Remaining(h, ack)[s], h.sub, s)
<1> DEFINE h == AfterHeader(p, pk)
           q == h.waiting[s]
<1>1. /\ h.waiting \in Lists /\ h.sub \in [SubChans -> SubRecords] /\ q \in Seq(Transfers)
  BY HeaderType DEF Lists
<1>2. Accounted(q, h.sub, s)
  BY HeaderAccounted
<1>3. Remaining(h, ack)[s] = IF s \in Done(h, ack) THEN Tail(q) ELSE q
  BY DEF Remaining
<1>4. s \in Done(h, ack) => Complete(q, ack)
  BY DEF Done
<1> HIDE DEF h, q
<1>5. CASE s \in Done(h, ack)
  <2>1. q # <<>> /\ Head(q).acked = NumFragments(Head(q)) /\ Head(q) \in Transfers
    BY <1>1, <1>4, <1>5, HeadType DEF Complete
  <2>2. HeadFits(Head(q), h.sub, s)
    BY <1>2, <2>1 DEF Accounted
  <2>3. Head(q).pending = 0
    <3>1. LoadedIn(h.sub, s) \in SUBSET SubChans
      BY DEF LoadedIn
    <3>2. Head(q).pending \in Nat
      BY <2>2, <3>1, PartsFinite DEF HeadFits
    <3>3. Head(q).acked \in Nat /\ Head(q).acked + Head(q).pending <= NumFragments(Head(q))
      BY <2>1, <2>2 DEF HeadFits, Transfers
    <3> QED BY <2>1, <3>2, <3>3
  <2>4. LoadedIn(h.sub, s) = {}
    BY <1>1, <2>1, <2>2, <2>3, NothingLoaded
  <2>5. /\ Len(q) \in Nat /\ Len(q) > 0 /\ Len(Tail(q)) = Len(q) - 1
        /\ \A k \in 1 .. Len(q) - 1 : Tail(q)[k] = q[k + 1]
        /\ Tail(q) \in Seq(Transfers)
    BY <1>1, <2>1
  <2>6. \A k \in 1 .. Len(Tail(q)) : Unstarted(Tail(q)[k])
    <3> SUFFICES ASSUME NEW k \in 1 .. Len(q) - 1 PROVE Unstarted(q[k + 1])
      BY <2>5
    <3>1. k + 1 \in 2 .. Len(q)
      BY <2>5
    <3> QED BY <1>2, <3>1 DEF Accounted
  <2>7. Tail(q) # <<>> => Head(Tail(q)) = Tail(q)[1] /\ 1 \in 1 .. Len(Tail(q))
                         /\ Head(Tail(q)) \in Transfers
    BY <2>5, HeadType
  <2>8. Tail(q) # <<>> => HeadFits(Head(Tail(q)), h.sub, s)
    BY <1>1, <2>4, <2>6, <2>7, NewHead
  <2>9. Accounted(Tail(q), h.sub, s)
    BY <2>4, <2>5, <2>6, <2>8 DEF Accounted
  <2> QED BY <1>3, <1>5, <2>9 DEF h
<1>6. CASE s \notin Done(h, ack)
  BY <1>2, <1>3, <1>6 DEF h
<1> QED BY <1>5, <1>6

\* Clear: nothing is carried any more.
LEMMA ClearedAccounted ==
  ASSUME NEW c \in [SubChans -> SubRecords], NEW s \in Streams
  PROVE  Accounted(NoLists[s], ClearedSub(c), s)
<1>1. \A i \in SubChans : ClearedSub(c)[i].state \in {"FREE", "DIRTY"}
  <2> SUFFICES ASSUME NEW i \in SubChans PROVE ClearedSub(c)[i].state \in {"FREE", "DIRTY"}
    OBVIOUS
  <2>1. c[i].state \in {"FREE", "TOSEND", "WAITING", "DIRTY"}
        /\ [c[i] EXCEPT !.state = "DIRTY"].state = "DIRTY" /\ FreeSub.state = "FREE"
    BY DEF SubRecords, SubStates, FreeSub
  <2>2. ClearedSub(c)[i] = IF c[i].state = "TOSEND" THEN FreeSub
                           ELSE IF c[i].state = "WAITING"
                             THEN [c[i] EXCEPT !.state = "DIRTY"] ELSE c[i]
    BY DEF ClearedSub
  <2> QED BY <2>1, <2>2
<1>2. LoadedIn(ClearedSub(c), s) = {}
  BY <1>1 DEF LoadedIn
<1>3. NoLists[s] = <<>> /\ Len(<<>>) = 0
  BY DEF NoLists
<1> QED BY <1>2, <1>3 DEF Accounted

\* A datagram is processed, and a handler may have called Clear.
LEMMA ProcessAccounted ==
  ASSUME TypeOK, FragmentsKept, NEW p \in Peer, NEW pk \in net[p], Process(p, pk),
         NEW s \in Streams
  PROVE  Accounted(waiting'[p][s], sub'[p], s)
<1> DEFINE h == AfterHeader(p, pk)
<1>1. DatagramTyped(pk) /\ p \in DOMAIN waiting /\ p \in DOMAIN sub
  BY DEF TypeOK
<1>2. Accounted(Remaining(h, pk.ack)[s], h.sub, s)
  BY <1>1, RemainingAccounted
<1>3. h.sub \in [SubChans -> SubRecords]
  BY <1>1, HeaderType
<1>4. Accounted(NoLists[s], ClearedSub(h.sub), s)
  BY <1>3, ClearedAccounted
<1>5. \/ waiting'[p] = Remaining(h, pk.ack) /\ sub'[p] = h.sub
      \/ waiting'[p] = NoLists /\ sub'[p] = ClearedSub(h.sub)
  <2> HIDE DEF h
  <2>1. \/ /\ sub' = [sub EXCEPT ![p] = h.sub]
           /\ waiting' = [waiting EXCEPT ![p] = Remaining(h, pk.ack)]
        \/ \E cleared \in BOOLEAN :
             /\ waiting' = [waiting EXCEPT ![p] =
                              IF cleared THEN NoLists ELSE Remaining(h, pk.ack)]
             /\ sub' = [sub EXCEPT ![p] = IF cleared THEN ClearedSub(h.sub) ELSE h.sub]
    <3>1. CASE ProcessHeaderOnly(p, pk)
      BY <3>1 DEF ProcessHeaderOnly, h
    <3>2. CASE ProcessReliable(p, pk)
      <4>1. PICK r : /\ waiting' = [waiting EXCEPT ![p] =
                                      IF r.cleared THEN NoLists ELSE Remaining(h, pk.ack)]
                     /\ sub' = [sub EXCEPT ![p] = IF r.cleared THEN ClearedSub(h.sub) ELSE h.sub]
        BY <3>2 DEF ProcessReliable, h
      <4>2. CASE r.cleared
        BY <4>1, <4>2
      <4>3. CASE ~r.cleared
        BY <4>1, <4>3
      <4> QED BY <4>2, <4>3
    <3> QED BY <3>1, <3>2 DEF Process
  <2> QED BY <1>1, <2>1
<1> QED BY <1>2, <1>4, <1>5

\* Every step keeps the count of fragments.
LEMMA StepAccounted == TypeOK /\ FragmentsKept /\ [Next]_vars => FragmentsKept'
<1> SUFFICES ASSUME TypeOK, FragmentsKept, [Next]_vars, NEW a \in Peer, NEW s \in Streams
             PROVE  Accounted(waiting'[a][s], sub'[a], s)
  BY DEF FragmentsKept
<1>1. Accounted(waiting[a][s], sub[a], s)
  BY DEF FragmentsKept
<1>2. ASSUME waiting'[a] = waiting[a], sub'[a] = sub[a]
      PROVE  Accounted(waiting'[a][s], sub'[a], s)
  BY <1>1, <1>2
<1>3. CASE UNCHANGED vars
  BY <1>2, <1>3 DEF vars
<1>4. CASE Next
  <2>1. PICK p \in Peer : Host(p) \/ Network(p)
    BY <1>4 DEF Next
  <2>2. CASE \E n \in MessageBytes : SendReliable(p, n) \/ OverflowReliable(p, n)
    BY <1>2, <2>2 DEF SendReliable, OverflowReliable, control
  <2>3. CASE \E n \in FileBytes, isFile \in BOOLEAN : SendFile(p, n, isFile)
    <3>1. PICK n \in FileBytes, isFile \in BOOLEAN : SendFile(p, n, isFile)
      BY <2>3
    <3>2. PICK m \in Nat : waiting' = [waiting EXCEPT ![p][FILE] =
                                        Append(@, Transfer(m, m, n, isFile))]
      <4>1. queued[p][FILE] + 1 \in Nat
        BY DEF TypeOK, Streams
      <4> QED BY <3>1, <4>1 DEF SendFile
    <3>3. waiting[a] \in Lists /\ waiting[a][s] \in Seq(Transfers) /\ sub[a] \in [SubChans -> SubRecords]
          /\ waiting[a] = [t \in Streams |-> waiting[a][t]] /\ a \in DOMAIN waiting
      BY DEF TypeOK, Lists
    <3>4. Transfer(m, m, n, isFile) \in Transfers
      BY <3>1, TransferType, NetChanAssumption DEF NetChanAssumption
    <3>5. \/ waiting'[a][s] = waiting[a][s]
          \/ waiting'[a][s] = Append(waiting[a][s], Transfer(m, m, n, isFile))
      BY <3>2, <3>3
    <3>6. sub' = sub
      BY <3>1 DEF SendFile, control
    <3> QED BY <1>1, <3>3, <3>4, <3>5, <3>6, AppendAccounted, TransferUnstarted
  <2>4. CASE SendDatagram(p)
    <3>1. CASE a = p
      BY <2>4, <3>1, SendAccounted
    <3>2. CASE a # p
      <4>1. waiting'[a] = waiting[a] /\ sub'[a] = sub[a]
        <5>1. \E w, b : waiting' = [waiting EXCEPT ![p] = w] /\ sub' = [sub EXCEPT ![p] = b]
          BY <2>4 DEF SendDatagram
        <5> QED BY <3>2, <5>1 DEF TypeOK
      <4> QED BY <1>2, <4>1
    <3> QED BY <3>1, <3>2
  <2>5. CASE SetChoked(p)
    BY <1>2, <2>5 DEF SetChoked
  <2>6. CASE Clear(p)
    <3>1. /\ waiting' = [waiting EXCEPT ![p] = NoLists]
          /\ sub' = [sub EXCEPT ![p] = ClearedSub(sub[p])]
      BY <2>6 DEF Clear
    <3>2. a \in DOMAIN waiting /\ a \in DOMAIN sub /\ sub[a] \in [SubChans -> SubRecords]
      BY DEF TypeOK
    <3>3. Accounted(NoLists[s], ClearedSub(sub[a]), s)
      BY <3>2, ClearedAccounted
    <3> QED BY <1>1, <3>1, <3>2, <3>3
  <2>7. CASE Network(p)
    <3>1. PICK pk \in net[p] : DiscardStale(p, pk) \/ Process(p, pk)
      BY <2>7 DEF Network
    <3>2. CASE DiscardStale(p, pk)
      BY <1>2, <3>2 DEF DiscardStale
    <3>3. CASE Process(p, pk) /\ a = p
      BY <3>3, ProcessAccounted
    <3>4. CASE Process(p, pk) /\ a # p
      <4>1. \E w, b : waiting' = [waiting EXCEPT ![p] = w] /\ sub' = [sub EXCEPT ![p] = b]
        <5>1. CASE ProcessHeaderOnly(p, pk)
          BY <5>1 DEF ProcessHeaderOnly
        <5>2. CASE ProcessReliable(p, pk)
          <6>1. PICK r : /\ waiting' = [waiting EXCEPT ![p] =
                              IF r.cleared THEN NoLists ELSE Remaining(AfterHeader(p, pk), pk.ack)]
                         /\ sub' = [sub EXCEPT ![p] = IF r.cleared
                              THEN ClearedSub(AfterHeader(p, pk).sub) ELSE AfterHeader(p, pk).sub]
            BY <5>2 DEF ProcessReliable
          <6> QED BY <6>1
        <5> QED BY <3>4, <5>1, <5>2 DEF Process
      <4>2. waiting'[a] = waiting[a] /\ sub'[a] = sub[a]
        BY <3>4, <4>1 DEF TypeOK
      <4> QED BY <1>2, <4>2
    <3> QED BY <3>1, <3>2, <3>3, <3>4
  <2> QED BY <2>1, <2>2, <2>3, <2>4, <2>5, <2>6, <2>7 DEF Host
<1> QED BY <1>3, <1>4

\* Nothing is carried at first.
LEMMA InitAccounted == Init => FragmentsKept
<1> SUFFICES ASSUME Init, NEW p \in Peer, NEW s \in Streams
             PROVE  Accounted(waiting[p][s], sub[p], s)
  BY DEF FragmentsKept
<1>1. waiting[p][s] = <<>> /\ Len(<<>>) = 0
  BY DEF Init, NoLists
<1>2. LoadedIn(sub[p], s) = {}
  BY DEF Init, LoadedIn, FreeSub
<1> QED BY <1>1, <1>2 DEF Accounted

\* The counters of the head of a list are the fragments its subchannels carry:
\* none is sent twice under way, none is skipped, and a transfer leaves its list
\* only when nothing carries it (UpdateSubChannels, ProcessPacketHeader, Clear).
THEOREM FragmentsCounted == Spec => []FragmentsAccounted
<1>1. Init => FragmentsKept
  BY InitAccounted
<1>2. TypeOK /\ FragmentsKept => FragmentsAccounted
  <2> SUFFICES ASSUME TypeOK, FragmentsKept, NEW p \in Peer, NEW s \in Streams
               PROVE  LET I == Loaded(p, s) IN
                      IF waiting[p][s] = <<>> THEN I = {}
                      ELSE LET d == Head(waiting[p][s]) IN
                           /\ d.pending = Carried(sub[p], I, s)
                           /\ d.acked + d.pending <= NumFragments(d)
                           /\ \A i \in I : Span(p, s, i) \subseteq 0 .. d.acked + d.pending - 1
                           /\ \A i, j \in I : i # j => Span(p, s, i) \cap Span(p, s, j) = {}
    BY DEF FragmentsAccounted
  <2>1. Loaded(p, s) = LoadedIn(sub[p], s)
    BY DEF Loaded, LoadedIn
  <2>2. Accounted(waiting[p][s], sub[p], s)
    BY DEF FragmentsKept
  <2>3. CASE waiting[p][s] = <<>>
    BY <2>1, <2>2, <2>3 DEF Accounted
  <2>4. CASE waiting[p][s] # <<>>
    <3> DEFINE d == Head(waiting[p][s])
               c == sub[p]
               I == LoadedIn(sub[p], s)
    <3>1. HeadFits(d, c, s)
      BY <2>2, <2>4 DEF Accounted
    <3>2. d \in Transfers /\ d.acked \in Int /\ d.pending \in Int
      <4>1. waiting[p][s] \in Seq(Transfers)
        BY DEF TypeOK, Lists
      <4>2. d \in Transfers
        BY <2>4, <4>1, HeadType
      <4> QED BY <4>2 DEF Transfers
    <3>3. \A i \in I : c[i].start[s] \in Int /\ c[i].num[s] \in Int
      BY DEF LoadedIn, TypeOK, SubRecords
    <3>4. /\ \A i \in I : c[i].start[s] >= 0 /\ c[i].start[s] + c[i].num[s] <= d.acked + d.pending
          /\ \A i, j \in I : i # j =>
               \/ c[i].start[s] + c[i].num[s] <= c[j].start[s]
               \/ c[j].start[s] + c[j].num[s] <= c[i].start[s]
          /\ d.pending = Carried(c, I, s) /\ d.acked + d.pending <= NumFragments(d)
      BY <3>1 DEF HeadFits
    <3>5. \A i \in I : Span(p, s, i) = c[i].start[s] .. c[i].start[s] + c[i].num[s] - 1
      BY DEF Span
    <3> HIDE DEF c, d, I
    <3>6. \A i \in I : Span(p, s, i) \subseteq 0 .. d.acked + d.pending - 1
      <4> SUFFICES ASSUME NEW i \in I, NEW k \in c[i].start[s] .. c[i].start[s] + c[i].num[s] - 1
                   PROVE  k \in 0 .. d.acked + d.pending - 1
        BY <3>5
      <4> QED BY <3>2, <3>3, <3>4
    <3>7. \A i, j \in I : i # j => Span(p, s, i) \cap Span(p, s, j) = {}
      <4> SUFFICES ASSUME NEW i \in I, NEW j \in I, i # j,
                          NEW k \in c[i].start[s] .. c[i].start[s] + c[i].num[s] - 1,
                          k \in c[j].start[s] .. c[j].start[s] + c[j].num[s] - 1
                   PROVE  FALSE
        BY <3>5
      <4> QED BY <3>3, <3>4
    <3> QED BY <2>1, <2>4, <3>4, <3>6, <3>7 DEF c, d, I
  <2> QED BY <2>3, <2>4
<1>3. Spec => [](TypeOK /\ FragmentsKept)
  BY <1>1, InitTyped, StepTyped, StepAccounted, PTL DEF Spec
<1> QED BY <1>2, <1>3, PTL
-----------------------------------------------------------------------------
(* Choked sequence numbers *)

\* The n sequence numbers before seq, and not the one before them, are in S.
ChokedBefore(S, seq, n) ==
  /\ n < seq /\ seq - n - 1 \notin S
  /\ \A k \in Nat : seq - n <= k /\ k < seq => k \in S

ChokesKept ==
  \A p \in Peer :
    /\ IsFiniteSet(skipped[p]) /\ Cardinality(skipped[p]) <= MaxChokes
    /\ \A k \in skipped[p] : 0 < k /\ k < outSeq[p]
    /\ ChokedBefore(skipped[p], outSeq[p], choked[p])
    /\ \A pk \in net[Other(p)] :
         pk.seq \notin skipped[p] /\ ChokedBefore(skipped[p], pk.seq, pk.choked)
    /\ inSeq[Other(p)] \notin skipped[p]

\* A count of choked sequence numbers below the bound fits in the byte it travels in.
LEMMA ChokedFits ==
  ASSUME MaxChokes < CHOKE_WRAP, TypeOK, ChokesKept, NEW p \in Peer
  PROVE  choked[p] % CHOKE_WRAP = choked[p]
<1> DEFINE I == outSeq[p] - choked[p] .. outSeq[p] - 1
<1>1. /\ choked[p] \in Nat /\ outSeq[p] \in Nat /\ MaxChokes \in Nat /\ CHOKE_WRAP \in Nat \ {0}
      /\ IsFiniteSet(skipped[p]) /\ Cardinality(skipped[p]) <= MaxChokes
      /\ ChokedBefore(skipped[p], outSeq[p], choked[p])
  BY NetChanAssumption DEF NetChanAssumption, TypeOK, ChokesKept
<1>2. I \in SUBSET skipped[p]
  BY <1>1 DEF ChokedBefore
<1>3. Cardinality(I) <= Cardinality(skipped[p]) /\ Cardinality(skipped[p]) \in Nat
  BY <1>1, <1>2, FS_Subset, FS_CardinalityType
<1>4. Cardinality(I) = choked[p]
  <2>1. outSeq[p] - choked[p] \in Int /\ outSeq[p] - 1 \in Int
    BY <1>1
  <2>2. Cardinality(I) = IF outSeq[p] - choked[p] > outSeq[p] - 1 THEN 0
                         ELSE (outSeq[p] - 1) - (outSeq[p] - choked[p]) + 1
    BY <2>1, FS_Interval
  <2> QED BY <1>1, <2>2
<1>5. choked[p] < CHOKE_WRAP
  BY <1>1, <1>3, <1>4
<1> QED BY <1>1, <1>5

\* The steps on the sequence numbers p spends.
LEMMA StepChokes ==
  ASSUME MaxClears = 0, MaxChokes < CHOKE_WRAP, TypeOK, SeqOrder, ReliableBits, ChokesKept,
         [Next]_vars
  PROVE  ChokesKept'
<1> DEFINE Kept(a) ==
      /\ IsFiniteSet(skipped[a]) /\ Cardinality(skipped[a]) <= MaxChokes
      /\ \A k \in skipped[a] : 0 < k /\ k < outSeq[a]
      /\ ChokedBefore(skipped[a], outSeq[a], choked[a])
      /\ \A pk \in net[Other(a)] :
           pk.seq \notin skipped[a] /\ ChokedBefore(skipped[a], pk.seq, pk.choked)
      /\ inSeq[Other(a)] \notin skipped[a]
<1> SUFFICES ASSUME NEW a \in Peer PROVE Kept(a)'
  BY DEF ChokesKept
<1>0. Kept(a)
  BY DEF ChokesKept
<1>1. /\ outSeq[a] \in Nat /\ choked[a] \in Nat /\ skipped[a] \in SUBSET Nat
      /\ inSeq[Other(a)] \in Nat /\ inSeq[Other(a)] < outSeq[a]
      /\ \A pk \in net[Other(a)] : pk.seq \in Nat /\ pk.choked \in Nat /\ pk.seq < outSeq[a]
      /\ Other(a) \in Peer /\ Other(Other(a)) = a /\ Other(a) # a
  BY OtherType DEF TypeOK, DatagramTyped, SeqOrder
<1>2. ASSUME UNCHANGED <<skipped, outSeq, choked>>,
             net'[Other(a)] \subseteq net[Other(a)],
             \/ inSeq'[Other(a)] = inSeq[Other(a)]
             \/ \E pk \in net[Other(a)] : inSeq'[Other(a)] = pk.seq
      PROVE  Kept(a)'
  BY <1>0, <1>2
<1>3. CASE UNCHANGED vars
  BY <1>2, <1>3 DEF vars
<1>4. CASE Next
  <2>1. PICK p \in Peer : Host(p) \/ Network(p)
    BY <1>4 DEF Next
  <2>2. CASE \E n \in MessageBytes : SendReliable(p, n) \/ OverflowReliable(p, n)
    BY <1>2, <2>2 DEF SendReliable, OverflowReliable, control
  <2>3. CASE \E n \in FileBytes, isFile \in BOOLEAN : SendFile(p, n, isFile)
    BY <1>2, <2>3 DEF SendFile, control
  <2>4. CASE SendDatagram(p)
    <3>1. /\ UNCHANGED <<skipped, inSeq>>
          /\ choked' = [choked EXCEPT ![p] = 0]
          /\ outSeq' = [outSeq EXCEPT ![p] = @ + 1]
      BY <2>4 DEF SendDatagram
    <3>2. PICK ch, i : net' = [net EXCEPT ![Other(p)] = @ \cup {Datagram(p, ch, i)}]
      BY <2>4 DEF SendDatagram
    <3>3. Datagram(p, ch, i).seq = outSeq[p] /\ Datagram(p, ch, i).choked = choked[p]
      BY ChokedFits DEF Datagram
    <3>4. CASE a = p
      <4>1. /\ choked'[a] = 0 /\ outSeq'[a] = outSeq[a] + 1
            /\ skipped'[a] = skipped[a] /\ inSeq'[Other(a)] = inSeq[Other(a)]
            /\ net'[Other(a)] = net[Other(a)] \cup {Datagram(a, ch, i)}
        BY <1>1, <3>1, <3>2, <3>4 DEF TypeOK
      <4>2. \A pk \in net'[Other(a)] :
              pk.seq \notin skipped[a] /\ ChokedBefore(skipped[a], pk.seq, pk.choked)
        BY <1>0, <1>1, <3>3, <3>4, <4>1
      <4>3. ChokedBefore(skipped[a], outSeq[a] + 1, 0)
        BY <1>0, <1>1 DEF ChokedBefore
      <4> QED BY <1>0, <1>1, <4>1, <4>2, <4>3
    <3>5. CASE a # p
      <4>1. /\ choked'[a] = choked[a] /\ outSeq'[a] = outSeq[a]
            /\ skipped'[a] = skipped[a] /\ inSeq'[Other(a)] = inSeq[Other(a)]
            /\ net'[Other(a)] = net[Other(a)]
        <5>1. Other(a) # Other(p)
          BY <3>5, OtherType
        <5> QED BY <1>1, <3>1, <3>2, <3>5, <5>1 DEF TypeOK
      <4> QED BY <1>0, <4>1
    <3> QED BY <3>4, <3>5
  <2>5. CASE SetChoked(p)
    <3>1. /\ skipped' = [skipped EXCEPT ![p] = @ \cup {outSeq[p]}]
          /\ outSeq' = [outSeq EXCEPT ![p] = @ + 1]
          /\ choked' = [choked EXCEPT ![p] = @ + 1]
          /\ net' = net /\ inSeq' = inSeq /\ Cardinality(skipped[p]) < MaxChokes
      BY <2>5 DEF SetChoked
    <3>2. CASE a = p
      <4>1. /\ skipped'[a] = skipped[a] \cup {outSeq[a]} /\ outSeq'[a] = outSeq[a] + 1
            /\ choked'[a] = choked[a] + 1
        BY <3>1, <3>2 DEF TypeOK
      <4>2. outSeq[a] \notin skipped[a]
        BY <1>0, <1>1
      <4>3. /\ IsFiniteSet(skipped'[a]) /\ Cardinality(skipped'[a]) <= MaxChokes
        <5>1. Cardinality(skipped[a]) \in Nat /\ MaxChokes \in Nat
          BY <1>0, FS_CardinalityType, NetChanAssumption DEF NetChanAssumption
        <5>2. /\ IsFiniteSet(skipped[a] \cup {outSeq[a]})
              /\ Cardinality(skipped[a] \cup {outSeq[a]}) = Cardinality(skipped[a]) + 1
          BY <1>0, <4>2, FS_AddElement
        <5>3. Cardinality(skipped[a]) + 1 <= MaxChokes
          BY <3>1, <3>2, <5>1
        <5> QED BY <4>1, <5>2, <5>3
      <4>4. \A k \in skipped'[a] : 0 < k /\ k < outSeq'[a]
        BY <1>0, <1>1, <4>1 DEF ChokedBefore
      <4>5. ChokedBefore(skipped'[a], outSeq'[a], choked'[a])
        BY <1>0, <1>1, <4>1 DEF ChokedBefore
      <4>6. \A pk \in net[Other(a)] :
              pk.seq \notin skipped'[a] /\ ChokedBefore(skipped'[a], pk.seq, pk.choked)
        BY <1>0, <1>1, <4>1 DEF ChokedBefore
      <4>7. inSeq[Other(a)] \notin skipped'[a]
        BY <1>0, <1>1, <4>1
      <4> QED BY <3>1, <4>3, <4>4, <4>5, <4>6, <4>7
    <3>3. CASE a # p
      <4>1. /\ choked'[a] = choked[a] /\ outSeq'[a] = outSeq[a] /\ skipped'[a] = skipped[a]
        BY <3>1, <3>3 DEF TypeOK
      <4> QED BY <1>0, <3>1, <4>1
    <3> QED BY <3>2, <3>3
  <2>6. ~Clear(p)
    BY DEF Clear, TypeOK
  <2>7. CASE Network(p)
    <3>1. PICK pk \in net[p] : DiscardStale(p, pk) \/ Process(p, pk)
      BY <2>7 DEF Network
    <3>2. CASE DiscardStale(p, pk)
      BY <1>2, <3>2 DEF DiscardStale
    <3>3. CASE Process(p, pk)
      <4>1. /\ inSeq' = [inSeq EXCEPT ![p] = pk.seq] /\ outSeq' = outSeq
            /\ net' = [net EXCEPT ![p] = {x \in @ : x.seq >= pk.seq}]
        BY <3>3, ProcessNet
      <4>2. skipped' = skipped /\ choked' = choked
        <5>1. CASE ProcessHeaderOnly(p, pk)
          BY <5>1 DEF ProcessHeaderOnly
        <5>2. CASE ProcessReliable(p, pk)
          <6>1. PICK r : /\ r.cleared => clears[p] < MaxClears
                         /\ choked' = IF r.cleared THEN [choked EXCEPT ![p] = 0] ELSE choked
            BY <5>2 DEF ProcessReliable
          <6>2. ~r.cleared
            BY <6>1 DEF TypeOK
          <6> QED BY <5>2, <6>1, <6>2 DEF ProcessReliable
        <5> QED BY <3>3, <5>1, <5>2 DEF Process
      <4>3. net'[Other(a)] \subseteq net[Other(a)]
        BY <1>1, <4>1 DEF TypeOK
      <4>4. inSeq'[Other(a)] = inSeq[Other(a)] \/ \E x \in net[Other(a)] : inSeq'[Other(a)] = x.seq
        BY <1>1, <4>1 DEF TypeOK
      <4> QED BY <1>2, <4>1, <4>2, <4>3, <4>4
    <3> QED BY <3>1, <3>2, <3>3
  <2> QED BY <2>1, <2>2, <2>3, <2>4, <2>5, <2>6, <2>7 DEF Host
<1> QED BY <1>3, <1>4

\* Without Clear, and with fewer choked sequence numbers than its byte can count, an
\* accepted datagram tells losses from sequence numbers SetChoked spent.
THEOREM DropsAreCounted ==
  MaxClears = 0 /\ MaxChokes < CHOKE_WRAP => (Spec => DropsCounted)
<1> SUFFICES ASSUME MaxClears = 0, MaxChokes < CHOKE_WRAP PROVE Spec => DropsCounted
  OBVIOUS
<1> DEFINE A == \A p \in Peer : inSeq'[p] # inSeq[p] =>
                  LET between == (inSeq[p] + 1 .. inSeq'[p] - 1) \ skipped[Other(p)]
                  IN  /\ packetDrop'[p] >= Cardinality(between)
                      /\ packetDrop'[p] = 0 <=> between = {}
<1>1. Init => ChokesKept
  BY FS_EmptySet, NetChanAssumption DEF NetChanAssumption, Init, ChokesKept, ChokedBefore, Peer, Other
<1>2. ASSUME IInv, ChokesKept, [Next]_vars PROVE ChokesKept'
  BY <1>2, StepChokes DEF IInv
<1>3. ASSUME IInv, ChokesKept, [Next]_vars PROVE A
  <2> SUFFICES ASSUME NEW a \in Peer, inSeq'[a] # inSeq[a]
               PROVE  LET between == (inSeq[a] + 1 .. inSeq'[a] - 1) \ skipped[Other(a)]
                      IN  /\ packetDrop'[a] >= Cardinality(between)
                          /\ packetDrop'[a] = 0 <=> between = {}
    OBVIOUS
  <2>1. PICK pk \in net[a] : Process(a, pk)
    <3>1. ~UNCHANGED inSeq
      OBVIOUS
    <3>2. PICK p \in Peer : \E pk \in net[p] : Process(p, pk)
      BY <1>3, <3>1 DEF Next, vars, Host, Network, SendReliable, OverflowReliable, SendFile, control,
                        SendDatagram, SetChoked, Clear, DiscardStale
    <3>3. \E pk \in net[p] : inSeq' = [inSeq EXCEPT ![p] = pk.seq]
      BY <1>3, <3>2, ProcessNet DEF IInv
    <3>4. p = a
      BY <1>3, <3>3 DEF IInv, TypeOK
    <3> QED BY <3>2, <3>4
  <2> DEFINE S == skipped[Other(a)]
             k == pk.seq
             n == pk.choked
             m == inSeq[a]
             between == (m + 1 .. k - 1) \ S
  <2>2. inSeq'[a] = k /\ k > m /\ packetDrop'[a] = k - (m + n + 1)
    <3>1. pk \in Live(a) /\ inSeq' = [inSeq EXCEPT ![a] = k]
      BY <1>3, <2>1, ProcessNet DEF IInv
    <3>2. packetDrop' = [packetDrop EXCEPT ![a] = PacketDrop(a, pk)]
      BY <2>1 DEF Process, ProcessHeaderOnly, ProcessReliable, AcceptHeader
    <3> QED BY <1>3, <3>1, <3>2 DEF IInv, TypeOK, Live, PacketDrop
  <2>3. /\ k \in Nat /\ n \in Nat /\ m \in Nat
        /\ m \notin S /\ ChokedBefore(S, k, n)
    BY <1>3, OtherType DEF IInv, TypeOK, DatagramTyped, ChokesKept
  <2> HIDE DEF S, k, n, m
  <2>4. m < k - n
    BY <2>2, <2>3 DEF ChokedBefore
  <2>5. between \in SUBSET (m + 1 .. k - n - 1)
    BY <2>3 DEF ChokedBefore
  <2>6. IsFiniteSet(m + 1 .. k - n - 1) /\ Cardinality(m + 1 .. k - n - 1) = k - n - 1 - m
    <3>1. m + 1 \in Int /\ k - n - 1 \in Int
      BY <2>3
    <3>2. /\ IsFiniteSet(m + 1 .. k - n - 1)
          /\ Cardinality(m + 1 .. k - n - 1) = IF m + 1 > k - n - 1 THEN 0
                                               ELSE (k - n - 1) - (m + 1) + 1
      BY <3>1, FS_Interval
    <3> QED BY <2>3, <2>4, <3>2
  <2>7. Cardinality(between) <= k - n - 1 - m
    BY <2>5, <2>6, FS_Subset
  <2>8. ASSUME k - n - 1 - m > 0 PROVE k - n - 1 \in between
    BY <2>3, <2>8 DEF ChokedBefore
  <2>9. k - (m + n + 1) = k - n - 1 - m
    BY <2>3
  <2>10. packetDrop'[a] = 0 <=> between = {}
    <3>1. CASE k - n - 1 - m = 0
      <4>1. m + 1 .. k - n - 1 = {}
        BY <2>3, <3>1
      <4> QED BY <2>2, <2>5, <2>9, <3>1, <4>1
    <3>2. CASE k - n - 1 - m > 0
      BY <2>2, <2>3, <2>8, <2>9, <3>2
    <3> QED BY <2>3, <2>4, <3>1, <3>2
  <2> QED BY <2>2, <2>3, <2>7, <2>9, <2>10 DEF S, m
<1>4. Spec => [](IInv /\ ChokesKept)
  BY <1>1, <1>2, InitInv, StepInv, PTL DEF Spec
<1>5. IInv /\ ChokesKept /\ [Next]_vars => A
  BY <1>3
<1> HIDE DEF A
<1>6. Spec => [][A]_vars
  BY <1>4, <1>5, PTL DEF Spec
<1> QED BY <1>6 DEF A, DropsCounted

-----------------------------------------------------------------------------
(* One stream from end to end *)

\* Each end uses one stream, nothing is cleared, no handler fails, no file is empty.
OneStream ==
  /\ \A p \in Peer : MaxMessages[p][NORMAL] = 0 \/ MaxMessages[p][FILE] = 0
  /\ MaxClears = 0 /\ Outcomes \subseteq {"ok"} /\ 0 \notin FileBytes
\* NULL is neither a buffer nor a chunk.
NullApart ==
  /\ \A h, n, f : NULL # [header |-> h, acked |-> n, data |-> f]
  /\ \A a, n, h, x : NULL # [start |-> a, num |-> n, of |-> h, single |-> x]

Used(p) == IF MaxMessages[p][FILE] = 0 THEN NORMAL ELSE FILE
Spare(p) == IF MaxMessages[p][FILE] = 0 THEN FILE ELSE NORMAL

\* Transfers of messages n + 1 .. m, in order.
Follows(q, n, m) ==
  /\ \A k \in 1 .. Len(q) :
       /\ q[k].first = (IF k = 1 THEN n ELSE q[k - 1].last) + 1
       /\ q[k].first <= q[k].last /\ q[k].bytes > 0
  /\ m = IF Len(q) = 0 THEN n ELSE q[Len(q)].last

Upto(n) == [k \in 1 .. n |-> k]

\* Fragments of transfer d that the receiver has read: of those handed to subchannels,
\* the ones that no subchannel in U carries.
Got(d, c, U, s) ==
  {k \in 0 .. d.acked + d.pending - 1 :
     \A i \in U : ~(c[i].start[s] <= k /\ k < c[i].start[s] + c[i].num[s])}

\* The buffer b of the receiver, and the messages out it has handed over: nothing of
\* the first transfer in q was read, or some fragments that include the first, or all.
Holds(q, c, U, s, b, n, out) ==
  IF q = <<>> THEN b = NULL /\ out = Upto(n)
  ELSE LET d == Head(q)
           got == Got(d, c, U, s)
           all == 0 .. NumFragments(d) - 1
       IN  \/ b = NULL /\ got = {} /\ out = Upto(n)
           \/ /\ b = [header |-> Header(d), acked |-> Cardinality(got),
                      data |-> [k \in got |-> Header(d)]]
              /\ 0 \in got /\ got # all /\ out = Upto(n)
           \/ b = NULL /\ got = all /\ out = Upto(d.last)

Unread(p) == {i \in SubChans : outRel[p][i] # inRel[Other(p)][i]}
Handed(p) == IF reliable[p].bytes > 0 THEN reliable[p].first - 1 ELSE queued[p][Used(p)]

SpareUnused(p) ==
  LET s == Spare(p) IN
  /\ waiting[p][s] = <<>> /\ queued[p][s] = 0 /\ confirmed[p][s] = {}
  /\ receive[Other(p)][s] = NULL /\ delivered[Other(p)][s] = <<>>
  /\ s = NORMAL => reliable[p].bytes = 0
  /\ \A i \in SubChans : sub[p][i].num[s] = 0
InHand(p) ==
  reliable[p].bytes > 0 => /\ 0 < reliable[p].first /\ reliable[p].first <= reliable[p].last
                           /\ reliable[p].last = queued[p][NORMAL]
LoadsUsed(p) ==
  \A i \in SubChans : /\ sub[p][i].state # "DIRTY"
                      /\ sub[p][i].state # "FREE" => sub[p][i].num[Used(p)] > 0
\* The chunks of pk are those of the subchannel it names, cut from the lists w.
Packed(pk, c, w) ==
  pk.chunk = IF pk.sub = NULL THEN NoChunks
             ELSE [s \in Streams |-> Chunk(c[pk.sub], w, s)]
Carries(p) == \A pk \in Live(Other(p)) : Packed(pk, sub[p], waiting[p])
Flows(p) ==
  LET s == Used(p) IN
  \E n \in Nat :
    /\ Follows(waiting[p][s], n, Handed(p)) /\ confirmed[p][s] = 1 .. n
    /\ Holds(waiting[p][s], sub[p], Unread(p), s, receive[Other(p)][s], n, delivered[Other(p)][s])

Direction(p) == SpareUnused(p) /\ InHand(p) /\ LoadsUsed(p) /\ Carries(p) /\ Flows(p)
Domains == DOMAIN receive = Peer /\ DOMAIN delivered = Peer /\ DOMAIN confirmed = Peer
StreamInv ==
  /\ Domains
  /\ \A p \in Peer : Direction(p)

LEMMA StreamKinds ==
  ASSUME NEW p \in Peer
  PROVE  /\ Used(p) \in Streams /\ Spare(p) \in Streams /\ Used(p) # Spare(p)
         /\ \A s \in Streams : s = Used(p) \/ s = Spare(p)
         /\ NORMAL \in Streams /\ FILE \in Streams
  BY DEF Used, Spare, Streams, NORMAL, FILE

LEMMA FragmentsPositive ==
  ASSUME NEW n \in Nat, n > 0 PROVE BYTES2FRAGMENTS(n) \in Nat /\ BYTES2FRAGMENTS(n) > 0
<1>1. FRAGMENT_SIZE \in Nat /\ FRAGMENT_SIZE > 0 /\ BYTES2FRAGMENTS(n) \in Nat
  BY Sizes, FragmentsType
<1>2. (n + FRAGMENT_SIZE - 1) \div FRAGMENT_SIZE > 0
  BY <1>1
<1> QED BY <1>1, <1>2 DEF BYTES2FRAGMENTS

\* A list of transfers that only differs in their counters, or in sizes.
LEMMA FollowsSame ==
  ASSUME NEW q \in Seq(Transfers), NEW r \in Seq(Transfers), NEW n \in Nat, NEW m \in Nat,
         Follows(q, n, m), Len(r) = Len(q),
         \A k \in 1 .. Len(q) : /\ r[k].first = q[k].first /\ r[k].last = q[k].last
                                /\ r[k].bytes > 0
  PROVE  Follows(r, n, m)
<1>1. Len(q) \in Nat
  OBVIOUS
<1>2. \A k \in 1 .. Len(q) : k # 1 => k - 1 \in 1 .. Len(q)
  BY <1>1
<1>3. Len(q) # 0 => Len(q) \in 1 .. Len(q)
  BY <1>1
<1> QED BY <1>2, <1>3 DEF Follows

LEMMA FollowsAppend ==
  ASSUME NEW q \in Seq(Transfers), NEW n \in Nat, NEW m \in Nat, Follows(q, n, m),
         NEW d \in Transfers, d.first = m + 1, d.first <= d.last, d.bytes > 0
  PROVE  Follows(Append(q, d), n, d.last)
<1> DEFINE r == Append(q, d)
<1>1. /\ Len(q) \in Nat /\ Len(r) = Len(q) + 1 /\ r[Len(q) + 1] = d
      /\ \A k \in 1 .. Len(q) : r[k] = q[k]
  OBVIOUS
<1> HIDE DEF r
<1>2. ASSUME NEW k \in 1 .. Len(r)
      PROVE  /\ r[k].first = (IF k = 1 THEN n ELSE r[k - 1].last) + 1
             /\ r[k].first <= r[k].last /\ r[k].bytes > 0
  <2>1. CASE k \in 1 .. Len(q)
    <3>1. k # 1 => k - 1 \in 1 .. Len(q)
      BY <1>1, <2>1
    <3> QED BY <1>1, <2>1, <3>1 DEF Follows
  <2>2. CASE k = Len(q) + 1
    <3>1. k # 1 => k - 1 \in 1 .. Len(q) /\ k - 1 = Len(q) /\ Len(q) # 0
      BY <1>1, <2>2
    <3>2. k = 1 => Len(q) = 0
      BY <1>1, <2>2
    <3>3. m = IF k = 1 THEN n ELSE r[k - 1].last
      BY <1>1, <3>1, <3>2 DEF Follows
    <3> QED BY <1>1, <2>2, <3>3
  <2> QED BY <1>1, <2>1, <2>2
<1>3. Len(r) # 0 /\ r[Len(r)] = d
  BY <1>1
<1> QED BY <1>2, <1>3 DEF Follows, r

LEMMA FollowsTail ==
  ASSUME NEW q \in Seq(Transfers), q # <<>>, NEW n \in Nat, NEW m \in Nat, Follows(q, n, m)
  PROVE  /\ Head(q).first = n + 1 /\ Head(q).first <= Head(q).last /\ Head(q).bytes > 0
         /\ Follows(Tail(q), Head(q).last, m)
<1> DEFINE r == Tail(q)
<1>1. /\ Len(q) \in Nat \ {0} /\ Len(r) = Len(q) - 1 /\ Head(q) = q[1]
      /\ \A k \in 1 .. Len(r) : r[k] = q[k + 1]
  OBVIOUS
<1> HIDE DEF r
<1>2. 1 \in 1 .. Len(q)
  BY <1>1
<1>3. Head(q).first = n + 1 /\ Head(q).first <= Head(q).last /\ Head(q).bytes > 0
  BY <1>1, <1>2 DEF Follows
<1>4. ASSUME NEW k \in 1 .. Len(r)
      PROVE  /\ r[k].first = (IF k = 1 THEN Head(q).last ELSE r[k - 1].last) + 1
             /\ r[k].first <= r[k].last /\ r[k].bytes > 0
  <2>1. k + 1 \in 1 .. Len(q) /\ k + 1 # 1 /\ (k + 1) - 1 = k
    BY <1>1
  <2>2. /\ r[k] = q[k + 1] /\ q[k + 1].first = q[k].last + 1
        /\ q[k + 1].first <= q[k + 1].last /\ q[k + 1].bytes > 0
    BY <1>1, <2>1 DEF Follows
  <2>3. k # 1 => k - 1 \in 1 .. Len(r) /\ (k - 1) + 1 = k
    BY <1>1
  <2>4. k # 1 => r[k - 1] = q[k]
    BY <1>1, <2>3
  <2> QED BY <1>1, <2>2, <2>4
<1>5. m = IF Len(r) = 0 THEN Head(q).last ELSE r[Len(r)].last
  <2>1. Len(q) # 0 /\ m = q[Len(q)].last
    BY <1>1 DEF Follows
  <2>2. CASE Len(r) = 0
    <3>1. Len(q) = 1
      BY <1>1, <2>2
    <3> QED BY <1>1, <2>1, <2>2, <3>1
  <2>3. CASE Len(r) # 0
    <3>1. Len(r) \in 1 .. Len(r) /\ Len(r) + 1 = Len(q)
      BY <1>1, <2>3
    <3>2. r[Len(r)] = q[Len(q)]
      BY <1>1, <3>1
    <3> QED BY <2>1, <2>3, <3>2
  <2> QED BY <2>2, <2>3
<1> QED BY <1>3, <1>4, <1>5 DEF Follows, r

\* CreateFragmentsFromBuffer: the messages in hand go to the end of the list.
LEMMA CreateFollows ==
  ASSUME NEW q \in Seq(Transfers), NEW n \in Nat, NEW m \in Nat, Follows(q, n, m),
         NEW r \in ReliableRecords, r.bytes > 0, r.first = m + 1, r.first <= r.last
  PROVE  /\ Follows(CreateFragments(q, r), n, r.last)
         /\ q # <<>> => CreateFragments(q, r) # <<>> /\ Head(CreateFragments(q, r)) = Head(q)
         /\ q = <<>> => /\ CreateFragments(q, r) # <<>>
                        /\ Unstarted(Head(CreateFragments(q, r)))
<1> DEFINE d == Transfer(r.first, r.last, r.bytes, FALSE)
           k == Len(q)
<1>0. /\ k \in Nat /\ r.bytes \in Nat /\ r.first \in Nat /\ r.last \in Nat
      /\ q # <<>> => k > 0 /\ Head(q) = q[1]
      /\ q = <<>> => k = 0
  BY DEF ReliableRecords
<1>1. CASE CreateFragments(q, r) = Append(q, d)
  <2>1. d \in Transfers /\ d.first = m + 1 /\ d.last = r.last /\ d.bytes = r.bytes /\ Unstarted(d)
    BY <1>0, TransferType, TransferUnstarted DEF Transfer
  <2> HIDE DEF d
  <2>2. Follows(Append(q, d), n, r.last)
    BY <2>1, FollowsAppend
  <2>3. /\ Append(q, d) # <<>> /\ Head(Append(q, d)) = Append(q, d)[1]
        /\ Append(q, d)[Len(q) + 1] = d /\ \A j \in 1 .. Len(q) : Append(q, d)[j] = q[j]
    BY <2>1
  <2>4. q # <<>> => Append(q, d)[1] = q[1]
    BY <1>0, <2>3
  <2> QED BY <1>0, <1>1, <2>1, <2>2, <2>3, <2>4
<1>2. CASE k > 1 /\ CreateFragments(q, r) = [q EXCEPT ![k] = Merge(@, r)]
  <2> DEFINE e == Merge(q[k], r)
             u == [q EXCEPT ![k] = e]
  <2>1. k \in 1 .. k /\ q[k] \in Transfers
    BY <1>0, <1>2
  <2>2. e \in Transfers /\ e.first = q[k].first /\ e.last = r.last /\ e.bytes = q[k].bytes + r.bytes
    BY <2>1, TransferSteps DEF Merge, Transfer
  <2> HIDE DEF e
  <2>3. u \in Seq(Transfers) /\ Len(u) = k /\ u[k] = e /\ \A j \in 1 .. k : j # k => u[j] = q[j]
    BY <1>0, <2>1, <2>2
  <2>4. u # <<>> /\ Head(u) = Head(q) /\ q # <<>>
    <3>1. 1 \in 1 .. k /\ 1 # k
      BY <1>0, <1>2
    <3>2. u # <<>> /\ Head(u) = u[1] /\ q # <<>>
      BY <1>0, <1>2, <2>3
    <3> QED BY <1>0, <2>3, <3>1, <3>2
  <2>5. m = q[k].last /\ q[k].first <= q[k].last /\ q[k].bytes > 0 /\ q[k].first \in Nat
        /\ q[k].last \in Nat /\ q[k].bytes \in Nat
    <3>1. q[k].first \in Nat /\ q[k].last \in Nat /\ q[k].bytes \in Nat
      BY <2>1 DEF Transfers
    <3>2. k # 0
      BY <1>0, <1>2
    <3> QED BY <2>1, <3>1, <3>2 DEF Follows
  <2> HIDE DEF u
  <2>6. ASSUME NEW j \in 1 .. k
        PROVE  /\ u[j].first = (IF j = 1 THEN n ELSE u[j - 1].last) + 1
               /\ u[j].first <= u[j].last /\ u[j].bytes > 0
    <3>1. /\ q[j].first = (IF j = 1 THEN n ELSE q[j - 1].last) + 1
          /\ q[j].first <= q[j].last /\ q[j].bytes > 0
      BY DEF Follows
    <3>2. j # 1 => j - 1 \in 1 .. k /\ j - 1 # k
      BY <1>0
    <3>3. j # 1 => u[j - 1] = q[j - 1]
      BY <2>3, <3>2
    <3>4. CASE j # k
      BY <2>3, <3>1, <3>3, <3>4
    <3>5. CASE j = k
      <4>1. u[j] = e /\ e.first = q[j].first /\ q[j].first <= e.last /\ e.bytes > 0
        BY <1>0, <2>2, <2>3, <2>5, <3>5
      <4> QED BY <3>1, <3>3, <4>1
    <3> QED BY <3>4, <3>5
  <2>7. k # 0 /\ u[k].last = r.last
    BY <1>0, <1>2, <2>2, <2>3
  <2> QED BY <1>2, <2>3, <2>4, <2>6, <2>7 DEF Follows, u, e
<1>3. \/ CreateFragments(q, r) = Append(q, d)
      \/ k > 1 /\ CreateFragments(q, r) = [q EXCEPT ![k] = Merge(@, r)]
  <2>1. r.bytes # 0
    BY <1>0
  <2> QED BY <2>1 DEF CreateFragments
<1> QED BY <1>1, <1>2, <1>3

\* Nothing of a list was read whose first transfer was not begun.
LEMMA HoldsStart ==
  ASSUME NEW q \in Seq(Transfers), q = <<>> \/ Unstarted(Head(q)), NEW c, NEW U, NEW s, NEW n
  PROVE  Holds(q, c, U, s, NULL, n, Upto(n))
<1>1. CASE q = <<>>
  BY <1>1 DEF Holds
<1>2. CASE q # <<>>
  <2>1. 0 .. Head(q).acked + Head(q).pending - 1 = {}
    BY <1>2 DEF Unstarted
  <2>2. Got(Head(q), c, U, s) = {}
    BY <2>1 DEF Got
  <2> QED BY <1>2, <2>2 DEF Holds
<1> QED BY <1>1, <1>2

LEMMA HoldsNothing ==
  ASSUME NEW q \in Seq(Transfers), NEW c, NEW U, NEW s, NEW b, NEW n, NEW out,
         Holds(q, c, U, s, b, n, out), q # <<>> => Unstarted(Head(q)) /\ Head(q).bytes > 0
  PROVE  b = NULL /\ out = Upto(n)
<1>1. CASE q = <<>>
  BY <1>1 DEF Holds
<1>2. CASE q # <<>>
  <2> DEFINE d == Head(q)
  <2>1. 0 .. d.acked + d.pending - 1 = {}
    BY <1>2 DEF Unstarted
  <2>2. Got(d, c, U, s) = {}
    BY <2>1 DEF Got
  <2>3. NumFragments(d) \in Nat /\ NumFragments(d) > 0
    <3>1. d.bytes \in Nat /\ d.bytes > 0
      BY <1>2, HeadType DEF Transfers
    <3> QED BY <3>1, FragmentsPositive DEF NumFragments
  <2>4. 0 \in 0 .. NumFragments(d) - 1
    BY <2>3
  <2> QED BY <1>2, <2>2, <2>4 DEF Holds
<1> QED BY <1>1, <1>2

\* What the receiver holds depends on the header and on which fragments were read.
LEMMA HoldsSame ==
  ASSUME NEW q, NEW r, q # <<>>, r # <<>>, Header(Head(r)) = Header(Head(q)),
         NEW c, NEW e, NEW U, NEW V, NEW s, Got(Head(r), e, V, s) = Got(Head(q), c, U, s),
         NEW b, NEW n, NEW out, Holds(q, c, U, s, b, n, out)
  PROVE  Holds(r, e, V, s, b, n, out)
<1>1. Head(r).bytes = Head(q).bytes /\ Head(r).last = Head(q).last
  BY DEF Header
<1>2. NumFragments(Head(r)) = NumFragments(Head(q))
  BY <1>1 DEF NumFragments
<1> QED BY <1>1, <1>2 DEF Holds

LEMMA GotWithin ==
  ASSUME NEW d \in Transfers, d.acked + d.pending <= NumFragments(d), NEW c, NEW U, NEW s
  PROVE  LET g == Got(d, c, U, s)
             N == NumFragments(d)
         IN  /\ N \in Nat /\ g \in SUBSET (0 .. N - 1) /\ IsFiniteSet(g)
             /\ Cardinality(g) \in Nat /\ Cardinality(g) <= N
             /\ Cardinality(g) = N <=> g = 0 .. N - 1
<1> DEFINE g == Got(d, c, U, s)
           N == NumFragments(d)
<1>1. N \in Nat /\ d.acked \in Int /\ d.pending \in Int
  BY UnsentType DEF Transfers
<1>2. g \in SUBSET (0 .. N - 1)
  <2> SUFFICES ASSUME NEW k \in g PROVE k \in 0 .. N - 1
    OBVIOUS
  <2>1. k \in 0 .. d.acked + d.pending - 1
    BY DEF Got
  <2> HIDE DEF N, g
  <2> QED BY <1>1, <2>1 DEF N
<1>3. IsFiniteSet(0 .. N - 1) /\ Cardinality(0 .. N - 1) = N
  <2>1. 0 \in Int /\ N - 1 \in Int
    BY <1>1
  <2> HIDE DEF N
  <2>2. IsFiniteSet(0 .. N - 1) /\ Cardinality(0 .. N - 1) = IF 0 > N - 1 THEN 0 ELSE (N - 1) - 0 + 1
    BY <2>1, FS_Interval
  <2> QED BY <1>1, <2>2 DEF N
<1> HIDE DEF g, N
<1>4. IsFiniteSet(g) /\ Cardinality(g) <= N /\ (N = Cardinality(g) => 0 .. N - 1 = g)
  BY <1>2, <1>3, FS_Subset
<1>5. Cardinality(g) \in Nat
  BY <1>4, FS_CardinalityType
<1> QED BY <1>1, <1>2, <1>3, <1>4, <1>5 DEF g, N

LEMMA GotMember ==
  ASSUME NEW d, NEW c, NEW U, NEW s, NEW k
  PROVE  k \in Got(d, c, U, s) <=>
           /\ k \in 0 .. d.acked + d.pending - 1
           /\ \A j \in U : ~(c[j].start[s] <= k /\ k < c[j].start[s] + c[j].num[s])
  BY Zenon DEF Got

\* Reading a subchannel adds its fragments.
LEMMA GotRead ==
  ASSUME NEW c \in [SubChans -> SubRecords], NEW s \in Streams, NEW d \in Transfers,
         HeadFits(d, c, s), NEW U \in SUBSET LoadedIn(c, s), NEW i \in U,
         NEW a, a = c[i].start[s], NEW z, z = c[i].num[s],
         NEW g, g = Got(d, c, U, s), NEW h, h = Got(d, c, U \ {i}, s)
  PROVE  /\ a \in Nat /\ z \in Nat \ {0} /\ a + z <= NumFragments(d)
         /\ g \cap (a .. a + z - 1) = {} /\ h = g \cup (a .. a + z - 1)
         /\ Cardinality(h) = Cardinality(g) + z
<1> DEFINE m == d.acked + d.pending
<1>1. \A j \in U : j \in SubChans /\ c[j].start[s] \in Int /\ c[j].num[s] \in Int /\ c[j].num[s] > 0
  BY DEF LoadedIn, SubRecords
<1>2. m \in Int /\ d.acked \in Int /\ d.pending \in Int /\ NumFragments(d) \in Nat /\ m <= NumFragments(d)
  BY UnsentType DEF Transfers, HeadFits
<1>3. a \in Nat /\ z \in Nat \ {0} /\ a + z <= m
  BY <1>1 DEF HeadFits
<1>4. a + z <= NumFragments(d)
  BY <1>2, <1>3
<1>5. \A j \in U \ {i} : a + z <= c[j].start[s] \/ c[j].start[s] + c[j].num[s] <= a
  BY DEF HeadFits
<1>6. g \cap (a .. a + z - 1) = {}
  <2> SUFFICES ASSUME NEW k \in g, k \in a .. a + z - 1 PROVE FALSE
    OBVIOUS
  <2>1. ~(a <= k /\ k < a + z)
    BY DEF Got
  <2> QED BY <1>3, <2>1
<1> HIDE DEF m
<1>7. ASSUME NEW k \in Int PROVE k \in h <=> k \in g \/ k \in a .. a + z - 1
  <2>1. k \in g <=> /\ k \in 0 .. d.acked + d.pending - 1
                    /\ \A j \in U : ~(c[j].start[s] <= k /\ k < c[j].start[s] + c[j].num[s])
    BY GotMember
  <2>2. k \in h <=> /\ k \in 0 .. d.acked + d.pending - 1
                    /\ \A j \in U \ {i} : ~(c[j].start[s] <= k /\ k < c[j].start[s] + c[j].num[s])
    BY GotMember
  <2>3. k \in a .. a + z - 1 <=> a <= k /\ k < a + z
    BY <1>3
  <2>4. k \in a .. a + z - 1 => k \in 0 .. m - 1
    BY <1>2, <1>3
  <2>5. ASSUME a <= k, k < a + z, NEW j \in U \ {i}
        PROVE  ~(c[j].start[s] <= k /\ k < c[j].start[s] + c[j].num[s])
    BY <1>1, <1>3, <1>5, <2>5
  <2>6. CASE a <= k /\ k < a + z
    <3>1. k \in 0 .. d.acked + d.pending - 1
      BY <1>2, <2>3, <2>4, <2>6 DEF m
    <3> QED BY <2>2, <2>3, <2>5, <2>6, <3>1
  <2>7. CASE ~(a <= k /\ k < a + z)
    <3>1. (\A j \in U : ~(c[j].start[s] <= k /\ k < c[j].start[s] + c[j].num[s]))
          <=> (\A j \in U \ {i} : ~(c[j].start[s] <= k /\ k < c[j].start[s] + c[j].num[s]))
      BY <2>7
    <3>2. k \notin a .. a + z - 1
      BY <2>3, <2>7
    <3> QED BY <2>1, <2>2, <3>1, <3>2
  <2> QED BY <2>6, <2>7
<1>8. h = g \cup (a .. a + z - 1)
  <2>1. h \subseteq Int /\ g \subseteq Int /\ (a .. a + z - 1) \subseteq Int
    BY DEF Got
  <2> QED BY <1>7, <2>1
<1>9. Cardinality(h) = Cardinality(g) + z
  <2> DEFINE new == a .. a + z - 1
  <2>1. IsFiniteSet(g) /\ Cardinality(g) \in Nat
    BY <1>2, GotWithin DEF m
  <2>2. IsFiniteSet(new) /\ Cardinality(new) = z
    <3>1. a \in Int /\ a + z - 1 \in Int
      BY <1>3
    <3>2. /\ IsFiniteSet(a .. a + z - 1)
          /\ Cardinality(a .. a + z - 1) = IF a > a + z - 1 THEN 0 ELSE (a + z - 1) - a + 1
      BY <3>1, FS_Interval
    <3> QED BY <1>3, <3>2
  <2>3. g \cap new = {} /\ h = g \cup new
    BY <1>6, <1>8
  <2> HIDE DEF new
  <2>4. Cardinality(g \cup new) = Cardinality(g) + Cardinality(new) - Cardinality(g \cap new)
    BY <2>1, <2>2, FS_Union
  <2>5. Cardinality({}) = 0
    BY FS_EmptySet
  <2>6. Cardinality(h) = Cardinality(g) + z - 0
    BY <2>2, <2>3, <2>4, <2>5
  <2> QED BY <1>3, <2>1, <2>6
<1> QED BY <1>3, <1>4, <1>6, <1>8, <1>9

\* ReadSubChannelData: z fragments new, cut from x, are added to buffer b.
Extended(b, z, x, new) ==
  [b EXCEPT !.acked = @ + z,
            !.data = [j \in DOMAIN @ \cup new |-> IF j \in new THEN x ELSE @[j]]]

\* ReadSubChannelData: the length and the number of fragments a chunk is read with.
LEMMA ChunkLength ==
  ASSUME NEW k, k # NULL, k.single => k.start = 0 /\ k.num = BYTES2FRAGMENTS(k.of.bytes), NEW b,
         NEW opened, opened = IF k.start = 0 THEN [header |-> k.of, acked |-> 0, data |-> <<>>] ELSE b
  PROVE  ReadSubChannelData(b, k) =
           IF opened = NULL \/ k.start + k.num > BYTES2FRAGMENTS(opened.header.bytes)
             THEN [ok |-> FALSE, buf |-> opened]
           ELSE [ok |-> TRUE, buf |-> Extended(opened, k.num, k.of, k.start .. k.start + k.num - 1)]
<1>1. /\ (IF k.single THEN 0 ELSE k.start) = k.start
      /\ (IF k.single THEN BYTES2FRAGMENTS(k.of.bytes) ELSE k.num) = k.num
  OBVIOUS
<1> QED BY <1>1 DEF ReadSubChannelData, Extended

\* A buffer of the transfer x that counts n fragments and has those in g.
Buffer(x, n, g) == [header |-> x, acked |-> n, data |-> [k \in g |-> x]]

LEMMA BufferRead ==
  ASSUME NEW x, NEW n, NEW z, NEW g, NEW new
  PROVE  Extended(Buffer(x, n, g), z, x, new) = Buffer(x, n + z, g \cup new)
<1> DEFINE b == Buffer(x, n, g)
           d == [k \in g |-> x]
           w == [j \in g \cup new |-> x]
           v == n + z
<1>1. b = [header |-> x, acked |-> n, data |-> d]
  BY DEF Buffer
<1>2. b.acked = n /\ b.data = d /\ DOMAIN d = g
  BY <1>1
<1>3. [j \in g \cup new |-> IF j \in new THEN x ELSE d[j]] = w
  OBVIOUS
<1>4. Extended(b, z, x, new)
      = [b EXCEPT !.acked = b.acked + z,
                  !.data = [j \in DOMAIN b.data \cup new |-> IF j \in new THEN x ELSE b.data[j]]]
  BY DEF Extended
<1>5. Extended(b, z, x, new) = [b EXCEPT !.acked = v, !.data = w]
  BY <1>2, <1>3, <1>4
<1>6. Buffer(x, n + z, g \cup new) = [header |-> x, acked |-> v, data |-> w]
  BY DEF Buffer
<1> HIDE DEF b, d, w, v
<1>7. [b EXCEPT !.acked = v, !.data = w] = [header |-> x, acked |-> v, data |-> w]
  <2> DEFINE F == {"header", "acked", "data"}
             r == [b EXCEPT !.acked = v, !.data = w]
             t == [header |-> x, acked |-> v, data |-> w]
  <2>1. r = [f \in F |-> r[f]] /\ t = [f \in F |-> t[f]]
    BY <1>1
  <2>2. r["header"] = x /\ r["acked"] = v /\ r["data"] = w
    BY <1>1
  <2>3. t["header"] = x /\ t["acked"] = v /\ t["data"] = w
    OBVIOUS
  <2> HIDE DEF r, t
  <2>4. \A f \in F : r[f] = t[f]
    BY <2>2, <2>3
  <2>5. [f \in F |-> r[f]] = [f \in F |-> t[f]]
    BY <2>4
  <2>6. r = t
    BY <2>1, <2>5
  <2> QED BY <2>6 DEF r, t
<1> QED BY <1>5, <1>6, <1>7 DEF b

\* ReadSubChannelData: the first fragments open a buffer.
LEMMA ReadFirst ==
  ASSUME NullApart, NEW k, k # NULL, NEW N \in Nat, N = BYTES2FRAGMENTS(k.of.bytes),
         k.single => k.start = 0 /\ k.num = N, NEW b, k.start = 0, k.num \in Nat, k.num <= N
  PROVE  ReadSubChannelData(b, k) = [ok |-> TRUE, buf |-> Buffer(k.of, k.num, 0 .. k.num - 1)]
<1> DEFINE opened == [header |-> k.of, acked |-> 0, data |-> <<>>]
<1>1. opened # NULL /\ opened.header = k.of
  BY DEF NullApart
<1>2. opened = Buffer(k.of, 0, {})
  BY DEF Buffer
<1>3. opened = IF k.start = 0 THEN [header |-> k.of, acked |-> 0, data |-> <<>>] ELSE b
  OBVIOUS
<1> HIDE DEF opened
<1>4. ReadSubChannelData(b, k) =
        IF opened = NULL \/ k.start + k.num > BYTES2FRAGMENTS(opened.header.bytes)
          THEN [ok |-> FALSE, buf |-> opened]
        ELSE [ok |-> TRUE, buf |-> Extended(opened, k.num, k.of, k.start .. k.start + k.num - 1)]
  BY <1>3, ChunkLength
<1>5. ~(k.start + k.num > BYTES2FRAGMENTS(opened.header.bytes))
  BY <1>1
<1>6. /\ k.start .. k.start + k.num - 1 = 0 .. k.num - 1 /\ 0 + k.num = k.num
      /\ {} \cup (0 .. k.num - 1) = 0 .. k.num - 1
  OBVIOUS
<1>7. Extended(opened, k.num, k.of, k.start .. k.start + k.num - 1) = Buffer(k.of, k.num, 0 .. k.num - 1)
  <2>1. Extended(Buffer(k.of, 0, {}), k.num, k.of, 0 .. k.num - 1)
        = Buffer(k.of, 0 + k.num, {} \cup (0 .. k.num - 1))
    BY BufferRead
  <2> QED BY <1>2, <1>6, <2>1
<1> QED BY <1>1, <1>4, <1>5, <1>7

\* ReadSubChannelData: later fragments are added to the buffer.
\* The fragments in a chunk.
FragmentsOf(k) == k.start .. k.start + k.num - 1

LEMMA ReadNext ==
  ASSUME NullApart, NEW k, k # NULL, BYTES2FRAGMENTS(k.of.bytes) \in Nat,
         k.single => k.start = 0 /\ k.num = BYTES2FRAGMENTS(k.of.bytes), NEW n \in Nat, NEW g,
         k.start \in Nat, k.start # 0, k.num \in Nat,
         k.start + k.num <= BYTES2FRAGMENTS(k.of.bytes)
  PROVE  ReadSubChannelData(Buffer(k.of, n, g), k)
         = [ok |-> TRUE, buf |-> Buffer(k.of, n + k.num, g \cup FragmentsOf(k))]
<1> DEFINE b == Buffer(k.of, n, g)
<1>1. b # NULL /\ b.header = k.of
  BY DEF NullApart, Buffer
<1> HIDE DEF b
<1>2. b = IF k.start = 0 THEN [header |-> k.of, acked |-> 0, data |-> <<>>] ELSE b
  OBVIOUS
<1>3. ReadSubChannelData(b, k) =
        IF b = NULL \/ k.start + k.num > BYTES2FRAGMENTS(b.header.bytes)
          THEN [ok |-> FALSE, buf |-> b]
        ELSE [ok |-> TRUE, buf |-> Extended(b, k.num, k.of, k.start .. k.start + k.num - 1)]
  BY <1>2, ChunkLength
<1>4. ~(k.start + k.num > BYTES2FRAGMENTS(b.header.bytes))
  BY <1>1
<1>5. Extended(b, k.num, k.of, k.start .. k.start + k.num - 1)
      = Buffer(k.of, n + k.num, g \cup FragmentsOf(k))
  BY BufferRead DEF b, FragmentsOf
<1> QED BY <1>1, <1>3, <1>4, <1>5 DEF b

\* ReadSubChannelData: "since we need the header to arrive we'll just wait for a retry".
LEMMA ReadEarly ==
  ASSUME NEW k, k # NULL, k.single => k.start = 0 /\ k.num = BYTES2FRAGMENTS(k.of.bytes), k.start # 0
  PROVE  ReadSubChannelData(NULL, k) = [ok |-> FALSE, buf |-> NULL]
<1>1. NULL = IF k.start = 0 THEN [header |-> k.of, acked |-> 0, data |-> <<>>] ELSE NULL
  OBVIOUS
<1> QED BY <1>1, ChunkLength

\* The result r of reading into b: the fragments g of transfer x, or as before.
AfterRead(r, b, x, g, n, out) ==
  \/ ~r.ok /\ r.buf = b
  \/ r.ok /\ r.buf = Buffer(x, Cardinality(g), g) /\ 0 \in g /\ out = Upto(n)

\* ReadSubChannelData: a chunk is read and adds its fragments, or waits for the header.
LEMMA ReadHolds ==
  ASSUME NullApart, NEW c \in [SubChans -> SubRecords], NEW s \in Streams, NEW w,
         w[s] \in Seq(Transfers), w[s] # <<>>, HeadFits(Head(w[s]), c, s),
         NEW U \in SUBSET LoadedIn(c, s), NEW i \in U,
         NEW b, NEW n, NEW out, Holds(w[s], c, U, s, b, n, out)
  PROVE  AfterRead(ReadSubChannelData(b, Chunk(c[i], w, s)), b, Header(Head(w[s])),
                   Got(Head(w[s]), c, U \ {i}, s), n, out)
<1> DEFINE d == Head(w[s])
           N == NumFragments(d)
           a == c[i].start[s]
           z == c[i].num[s]
           h == Got(d, c, U, s)
           g == Got(d, c, U \ {i}, s)
           k == Chunk(c[i], w, s)
           r == ReadSubChannelData(b, k)
<1>1. d \in Transfers /\ N = BYTES2FRAGMENTS(d.bytes) /\ N \in Nat /\ Header(d).bytes = d.bytes
  BY HeadType, UnsentType DEF NumFragments, Header
<1>2. HeadFits(d, c, s)
  OBVIOUS
<1>3. \/ b = NULL /\ h = {} /\ out = Upto(n)
      \/ b = Buffer(Header(d), Cardinality(h), h) /\ 0 \in h /\ out = Upto(n)
      \/ h = 0 .. N - 1
  BY DEF Holds, Buffer
<1>4. z # 0 => k = [start |-> a, num |-> z, of |-> Header(d), single |-> z = N /\ ~d.isFile]
  BY DEF Chunk
<1> HIDE DEF d
<1>a. /\ a = c[i].start[s] /\ z = c[i].num[s]
      /\ h = Got(d, c, U, s) /\ g = Got(d, c, U \ {i}, s)
  OBVIOUS
<1> HIDE DEF a, z, h, g
<1>5. /\ a \in Nat /\ z \in Nat \ {0} /\ a + z <= N /\ h \cap (a .. a + z - 1) = {}
      /\ g = h \cup (a .. a + z - 1) /\ Cardinality(g) = Cardinality(h) + z
  BY <1>1, <1>2, <1>a, GotRead
<1> HIDE DEF N, k
<1>6. /\ k # NULL /\ k.start = a /\ k.num = z /\ k.of = Header(d)
      /\ k.single => k.start = 0 /\ k.num = N
  <2>1. k = [start |-> a, num |-> z, of |-> Header(d), single |-> z = N /\ ~d.isFile]
    BY <1>4, <1>5
  <2>2. k # NULL
    BY <2>1 DEF NullApart
  <2>3. z = N => a = 0
    BY <1>1, <1>5
  <2> QED BY <2>1, <2>2, <2>3
<1>7. h # 0 .. N - 1
  <2>1. a \in 0 .. N - 1 /\ a \in a .. a + z - 1
    BY <1>1, <1>5
  <2> QED BY <1>5, <2>1
<1>8. N = BYTES2FRAGMENTS(k.of.bytes) /\ k.start + k.num <= N /\ k.start \in Nat /\ k.num \in Nat
  BY <1>1, <1>5, <1>6
<1> HIDE DEF r
<1>9. CASE a = 0
  <2>1. h = {} /\ out = Upto(n)
    <3>1. 0 \in a .. a + z - 1
      BY <1>5, <1>9
    <3> QED BY <1>3, <1>5, <1>7, <3>1
  <2>2. g = 0 .. k.num - 1 /\ Cardinality(g) = k.num /\ 0 \in g
    <3>1. Cardinality({}) = 0
      BY FS_EmptySet
    <3> QED BY <1>5, <1>6, <1>9, <2>1, <3>1
  <2>3. k.num <= N /\ k.start = 0
    BY <1>5, <1>6, <1>9
  <2>4. r = [ok |-> TRUE, buf |-> Buffer(k.of, k.num, 0 .. k.num - 1)]
    BY <1>1, <1>6, <1>8, <2>3, ReadFirst DEF r
  <2> QED BY <1>6, <2>1, <2>2, <2>4 DEF d, g, r, k, AfterRead
<1>10. CASE a # 0 /\ b = NULL
  <2>1. r = [ok |-> FALSE, buf |-> b]
    BY <1>6, <1>8, <1>10, ReadEarly DEF r
  <2> QED BY <2>1 DEF r, k, AfterRead
<1>11. CASE a # 0 /\ b = Buffer(Header(d), Cardinality(h), h) /\ 0 \in h /\ out = Upto(n)
  <2> DEFINE n0 == Cardinality(h)
  <2>0. n0 \in Nat
    BY <1>1, <1>2, GotWithin DEF h, HeadFits
  <2> HIDE DEF n0
  <2>1. r = [ok |-> TRUE, buf |-> Buffer(k.of, n0 + k.num, h \cup FragmentsOf(k))]
    <3>1. b = Buffer(k.of, n0, h) /\ k.start # 0
      BY <1>6, <1>11 DEF n0
    <3>2. /\ k # NULL
          /\ k.single => k.start = 0 /\ k.num = BYTES2FRAGMENTS(k.of.bytes)
          /\ BYTES2FRAGMENTS(k.of.bytes) \in Nat
          /\ k.start + k.num <= BYTES2FRAGMENTS(k.of.bytes)
      BY <1>1, <1>6, <1>8
    <3>3. ReadSubChannelData(Buffer(k.of, n0, h), k)
          = [ok |-> TRUE, buf |-> Buffer(k.of, n0 + k.num, h \cup FragmentsOf(k))]
      BY <1>8, <2>0, <3>1, <3>2, ReadNext
    <3> QED BY <3>1, <3>3 DEF r
  <2>2. r.ok /\ r.buf = Buffer(Header(d), Cardinality(g), g) /\ 0 \in g
    <3>1. n0 + k.num = Cardinality(g) /\ h \cup FragmentsOf(k) = g
      BY <1>5, <1>6 DEF n0, FragmentsOf
    <3> QED BY <1>5, <1>6, <1>11, <2>1, <3>1
  <2> QED BY <1>11, <2>2 DEF d, g, r, k, AfterRead
<1> QED BY <1>3, <1>7, <1>9, <1>10, <1>11

\* The messages of a transfer follow those before it.
LEMMA UptoAppend ==
  ASSUME NEW n \in Nat, NEW m \in Nat, n <= m
  PROVE  Upto(n) \o [k \in 1 .. m - (n + 1) + 1 |-> (n + 1) + k - 1] = Upto(m)
<1> DEFINE more == [k \in 1 .. m - (n + 1) + 1 |-> (n + 1) + k - 1]
           a == Upto(n)
           b == Upto(m)
<1>1. m - (n + 1) + 1 = m - n /\ m - n \in Nat
  OBVIOUS
<1>2. a \in Seq(Nat) /\ Len(a) = n /\ \A k \in 1 .. n : a[k] = k
  BY DEF Upto
<1>3. b \in Seq(Nat) /\ Len(b) = m /\ \A k \in 1 .. m : b[k] = k
  BY DEF Upto
<1>4. more \in Seq(Nat) /\ Len(more) = m - n /\ \A k \in 1 .. m - n : more[k] = n + k
  <2>1. more = [k \in 1 .. m - n |-> n + k]
    BY <1>1
  <2> HIDE DEF more
  <2> QED BY <1>1, <2>1
<1> HIDE DEF more, a, b
<1> DEFINE both == a \o more
<1>5. /\ both \in Seq(Nat) /\ Len(both) = n + (m - n)
      /\ \A k \in 1 .. n + (m - n) : both[k] = IF k <= n THEN a[k] ELSE more[k - n]
  <2>1. /\ a \o more \in Seq(Nat) /\ Len(a \o more) = Len(a) + Len(more)
        /\ \A k \in 1 .. Len(a) + Len(more) :
             (a \o more)[k] = IF k <= Len(a) THEN a[k] ELSE more[k - Len(a)]
    BY <1>2, <1>4, ConcatProperties
  <2> QED BY <1>2, <1>4, <2>1
<1>6. Len(both) = m
  BY <1>1, <1>5
<1>7. ASSUME NEW k \in 1 .. m PROVE both[k] = k
  <2>1. k \in 1 .. n + (m - n)
    BY <1>1
  <2>2. CASE k <= n
    BY <1>2, <1>5, <2>1, <2>2
  <2>3. CASE ~(k <= n)
    <3>1. k - n \in 1 .. m - n /\ n + (k - n) = k
      BY <1>1, <2>3
    <3> QED BY <1>4, <1>5, <2>1, <2>3, <3>1
  <2> QED BY <2>2, <2>3
<1> HIDE DEF both
<1>8. both = b
  BY <1>3, <1>5, <1>6, <1>7, SeqEqual
<1> QED BY <1>8 DEF both, more, a, b

\* A buffer b with the fragments g of transfer d, after messages 1 .. n.
CompletesWith(b, d, g, n) ==
  LET all == 0 .. NumFragments(d) - 1
  IN  /\ ~TooMany(b) /\ b # NULL
      /\ Received(b) <=> g = all
      /\ g = all => Upto(n) \o Contents(b) = Upto(d.last)

\* CheckReceivingList: the buffer is complete when all fragments were read, and its
\* messages are those that come next.
LEMMA CompleteHolds ==
  ASSUME NullApart, NEW d \in Transfers, d.acked + d.pending <= NumFragments(d), NEW c, NEW U, NEW s,
         NEW n \in Nat, d.first = n + 1, d.first <= d.last, NEW g, g = Got(d, c, U, s),
         NEW b, b = Buffer(Header(d), Cardinality(g), g)
  PROVE  CompletesWith(b, d, g, n)
<1> DEFINE N == NumFragments(d)
<1>1. b # NULL /\ b.header = Header(d) /\ b.acked = Cardinality(g) /\ b.data = [k \in g |-> Header(d)]
  BY DEF Buffer, NullApart
<1>2. /\ BYTES2FRAGMENTS(Header(d).bytes) = N /\ Header(d).first = d.first /\ Header(d).last = d.last
  BY DEF Header, NumFragments
<1>3. N \in Nat /\ Cardinality(g) \in Nat /\ Cardinality(g) <= N /\ (Cardinality(g) = N <=> g = 0 .. N - 1)
  BY GotWithin
<1> HIDE DEF N
<1>4. ~TooMany(b)
  BY <1>1, <1>2, <1>3 DEF TooMany
<1>5. Received(b) <=> g = 0 .. N - 1
  BY <1>1, <1>2, <1>3 DEF Received
<1>6. ASSUME g = 0 .. N - 1 PROVE Upto(n) \o Contents(b) = Upto(d.last)
  <2>1. d.last \in Nat /\ n <= d.last
    BY DEF Transfers
  <2>2. b.data = [k \in 0 .. BYTES2FRAGMENTS(b.header.bytes) - 1 |-> b.header]
    BY <1>1, <1>2, <1>6
  <2>3. Contents(b) = [k \in 1 .. b.header.last - b.header.first + 1 |-> b.header.first + k - 1]
    BY <2>2, Zenon DEF Contents
  <2>4. Contents(b) = [k \in 1 .. d.last - (n + 1) + 1 |-> (n + 1) + k - 1]
    BY <1>1, <1>2, <2>3
  <2> QED BY <2>1, <2>4, UptoAppend
<1> QED BY <1>1, <1>4, <1>5, <1>6 DEF N, CompletesWith

\* A transfer with the same header gives the same chunks.
LEMMA ChunkSame ==
  ASSUME NEW c, NEW e, NEW v, NEW w, NEW s, e.num[s] = c.num[s], e.start[s] = c.start[s],
         c.num[s] # 0 => Header(Head(w[s])) = Header(Head(v[s]))
  PROVE  Chunk(e, w, s) = Chunk(c, v, s)
<1>1. CASE c.num[s] = 0
  BY <1>1 DEF Chunk
<1>2. CASE c.num[s] # 0
  <2>1. /\ Head(w[s]).bytes = Head(v[s]).bytes /\ Head(w[s]).isFile = Head(v[s]).isFile
    BY <1>2 DEF Header
  <2>2. NumFragments(Head(w[s])) = NumFragments(Head(v[s]))
    BY <2>1 DEF NumFragments
  <2> QED BY <1>2, <2>1, <2>2 DEF Chunk
<1> QED BY <1>1, <1>2

\* What was not read yet is carried by loaded subchannels.
LEMMA UnreadLoaded ==
  ASSUME TypeOK, ReliableBits, NEW p \in Peer, LoadsUsed(p)
  PROVE  Unread(p) \in SUBSET LoadedIn(sub[p], Used(p))
<1> SUFFICES ASSUME NEW i \in Unread(p) PROVE i \in LoadedIn(sub[p], Used(p))
  OBVIOUS
<1>1. i \in SubChans /\ outRel[p][i] # inRel[Other(p)][i]
  BY DEF Unread
<1>2. sub[p][i] \in SubRecords
  BY <1>1 DEF TypeOK
<1>3. SubBits(p, Other(p), i)
  BY <1>1 DEF ReliableBits
<1>4. sub[p][i].state # "FREE"
  BY <1>1, <1>3 DEF SubBits, Agree
<1>5. sub[p][i].state \in {"TOSEND", "WAITING"} /\ sub[p][i].num[Used(p)] > 0
  BY <1>1, <1>2, <1>4 DEF LoadsUsed, SubRecords, SubStates
<1> QED BY <1>1, <1>5 DEF LoadedIn

\* A subchannel whose datagram is on its way is waiting and was not read.
LEMMA LiveLoaded ==
  ASSUME TypeOK, SeqOrder, ReliableBits, NEW p \in Peer, LoadsUsed(p),
         NEW pk \in Live(Other(p)), pk.sub # NULL
  PROVE  pk.sub \in Unread(p) /\ sub[p][pk.sub].state = "WAITING"
<1> DEFINE i == pk.sub
<1>1. /\ Other(p) \in Peer /\ DatagramTyped(pk) /\ pk.seq \in Nat
      /\ inSeq[Other(p)] \in Nat /\ inSeq[Other(p)] < pk.seq
  BY OtherType, LiveFacts
<1>2. i \in SubChans
  BY <1>1 DEF DatagramTyped
<1>3. /\ sub[p][i] \in SubRecords /\ SubBits(p, Other(p), i)
      /\ sub[p][i].state # "DIRTY"
  BY <1>2 DEF TypeOK, ReliableBits, LoadsUsed
<1>4. sub[p][i].state = "WAITING"
  BY <1>3 DEF SubBits, Agree, SubRecords, SubStates
<1>5. pk.seq = sub[p][i].sendSeq
  BY <1>3, <1>4 DEF SubBits, Agree
<1>6. outRel[p][i] # inRel[Other(p)][i]
  BY <1>1, <1>3, <1>4, <1>5 DEF SubBits, Agree
<1> QED BY <1>2, <1>4, <1>6 DEF Unread

\* What is carried is carried by subchannels that keep their load of a head that stays.
LEMMA CarriesKept ==
  ASSUME TypeOK, SeqOrder, ReliableBits, NEW p \in Peer, Direction(p), NEW c, NEW w,
         \A i \in Unread(p) : c[i].num = sub[p][i].num /\ c[i].start = sub[p][i].start,
         Unread(p) # {} => Header(Head(w[Used(p)])) = Header(Head(waiting[p][Used(p)])),
         NEW pk \in Live(Other(p))
  PROVE  Packed(pk, c, w)
<1>1. pk.chunk = IF pk.sub = NULL THEN NoChunks
                 ELSE [s \in Streams |-> Chunk(sub[p][pk.sub], waiting[p], s)]
  BY DEF Direction, Carries, Packed
<1>2. ASSUME pk.sub # NULL, NEW s \in Streams
      PROVE  Chunk(c[pk.sub], w, s) = Chunk(sub[p][pk.sub], waiting[p], s)
  <2>1. pk.sub \in Unread(p) /\ pk.sub \in SubChans
    BY <1>2, LiveLoaded DEF Direction, Unread
  <2>2. s = Spare(p) => sub[p][pk.sub].num[s] = 0
    BY <2>1 DEF Direction, SpareUnused
  <2>3. s = Spare(p) \/ s = Used(p)
    BY StreamKinds
  <2> QED BY <2>1, <2>2, <2>3, ChunkSame
<1> QED BY <1>1, <1>2 DEF Packed

\* Nothing of a direction changed but that datagrams may be gone.
LEMMA DirectionSame ==
  ASSUME NEW p \in Peer, Direction(p), waiting'[p] = waiting[p], queued'[p] = queued[p],
         confirmed'[p] = confirmed[p], sub'[p] = sub[p], outRel'[p] = outRel[p],
         \A s \in Streams : /\ receive'[Other(p)][s] = receive[Other(p)][s]
                            /\ delivered'[Other(p)][s] = delivered[Other(p)][s],
         inRel'[Other(p)] = inRel[Other(p)], Live(Other(p))' \in SUBSET Live(Other(p)),
         reliable'[p].bytes = reliable[p].bytes, reliable'[p].first = reliable[p].first,
         reliable'[p].last = reliable[p].last
  PROVE  Direction(p)'
<1>0. Used(p) \in Streams /\ Spare(p) \in Streams
  BY StreamKinds
<1>1. SpareUnused(p)'
  BY <1>0 DEF Direction, SpareUnused
<1>2. InHand(p)' /\ Handed(p)' = Handed(p)
  BY DEF Direction, InHand, Handed
<1>3. LoadsUsed(p)'
  BY DEF Direction, LoadsUsed
<1>4. Carries(p)'
  BY DEF Direction, Carries
<1>5. Unread(p)' = Unread(p)
  BY DEF Unread
<1>6. Flows(p)'
  BY <1>0, <1>2, <1>5 DEF Direction, Flows
<1> QED BY <1>1, <1>2, <1>3, <1>4, <1>6 DEF Direction

\* SendReliable: the message joins those in hand.
LEMMA ReliableDirection ==
  ASSUME TypeOK, OneStream, NEW p \in Peer, Direction(p), NEW n \in MessageBytes, SendReliable(p, n)
  PROVE  Direction(p)'
<1> DEFINE m == queued[p][NORMAL] + 1
           q == Other(p)
<1>1. /\ q \in Peer /\ q # p /\ n \in Nat /\ n > 0 /\ NORMAL \in Streams /\ FILE \in Streams
      /\ NORMAL # FILE
  BY OtherType, NetChanAssumption DEF NetChanAssumption, NORMAL, FILE, Streams
<1>2. /\ reliable[p] \in ReliableRecords /\ p \in DOMAIN reliable /\ p \in DOMAIN queued
      /\ queued[p] \in [Streams -> Nat]
      /\ reliable[p].bytes \in Nat /\ reliable[p].first \in Nat /\ reliable[p].last \in Nat
      /\ m \in Nat
  BY <1>1 DEF TypeOK, ReliableRecords
<1>3. MaxMessages[p][NORMAL] # 0
  <2>1. MaxMessages[p][NORMAL] \in Nat /\ queued[p][NORMAL] < MaxMessages[p][NORMAL]
    BY <1>1, NetChanAssumption DEF NetChanAssumption, SendReliable
  <2> QED BY <1>1, <1>2, <2>1
<1>4. Used(p) = NORMAL /\ Spare(p) = FILE
  BY <1>3 DEF OneStream, Used, Spare
<1>5. /\ queued' = [queued EXCEPT ![p][NORMAL] = m]
      /\ reliable' = [reliable EXCEPT ![p].bytes = @ + n, ![p].last = m,
                         ![p].first = IF reliable[p].bytes = 0 THEN m ELSE @]
      /\ waiting' = waiting /\ receive' = receive /\ delivered' = delivered
      /\ confirmed' = confirmed /\ sub' = sub /\ outRel' = outRel /\ inRel' = inRel
      /\ net' = net /\ inSeq' = inSeq
  BY DEF SendReliable, control
<1>6. /\ queued'[p][NORMAL] = m /\ queued'[p][FILE] = queued[p][FILE]
      /\ reliable'[p].bytes = reliable[p].bytes + n /\ reliable'[p].last = m
      /\ reliable'[p].first = IF reliable[p].bytes = 0 THEN m ELSE reliable[p].first
  BY <1>1, <1>2, <1>5 DEF ReliableRecords
<1>7. SpareUnused(p)'
  BY <1>1, <1>4, <1>5, <1>6 DEF Direction, SpareUnused
<1>8. InHand(p) /\ Handed(p) = IF reliable[p].bytes > 0 THEN reliable[p].first - 1 ELSE queued[p][NORMAL]
  BY <1>4 DEF Direction, Handed
<1>9. InHand(p)'
  BY <1>1, <1>2, <1>6, <1>8 DEF InHand
<1>10. Handed(p)' = Handed(p)
  <2>1. Handed(p)' = reliable'[p].first - 1
    BY <1>1, <1>2, <1>6 DEF Handed
  <2>2. CASE reliable[p].bytes = 0
    <3>1. queued[p][NORMAL] \in Nat /\ m - 1 = queued[p][NORMAL]
      BY <1>1, <1>2
    <3>2. Handed(p) = queued[p][NORMAL] /\ Handed(p)' = m - 1
      BY <1>6, <1>8, <2>1, <2>2
    <3> QED BY <3>1, <3>2
  <2>3. CASE reliable[p].bytes # 0
    <3>1. Handed(p) = reliable[p].first - 1 /\ Handed(p)' = reliable[p].first - 1
      BY <1>2, <1>6, <1>8, <2>1, <2>3
    <3> QED BY <3>1
  <2> QED BY <2>2, <2>3
<1>11. LoadsUsed(p)' /\ Carries(p)'
  BY <1>5 DEF Direction, LoadsUsed, Carries, Live
<1>12. Flows(p)'
  <2>1. Unread(p)' = Unread(p)
    BY <1>5 DEF Unread
  <2> QED BY <1>5, <1>10, <2>1 DEF Direction, Flows
<1> QED BY <1>7, <1>9, <1>11, <1>12 DEF Direction

\* SendFile: the file goes to the end of the list.
LEMMA FileDirection ==
  ASSUME TypeOK, SeqOrder, ReliableBits, FragmentsKept, OneStream, NEW p \in Peer, Direction(p),
         NEW x \in FileBytes, NEW isFile \in BOOLEAN, SendFile(p, x, isFile)
  PROVE  Direction(p)'
<1> DEFINE m == queued[p][FILE] + 1
           q == Other(p)
           d == Transfer(m, m, x, isFile)
           v == waiting[p][FILE]
<1>1. /\ q \in Peer /\ q # p /\ x \in Nat /\ x > 0 /\ NORMAL \in Streams /\ FILE \in Streams
      /\ NORMAL # FILE
  BY OtherType, NetChanAssumption DEF NetChanAssumption, NORMAL, FILE, Streams, OneStream
<1>2. /\ p \in DOMAIN waiting /\ p \in DOMAIN queued /\ queued[p] \in [Streams -> Nat]
      /\ queued[p][FILE] \in Nat /\ m \in Nat /\ waiting[p] \in Lists /\ v \in Seq(Transfers)
  <2>1. /\ p \in DOMAIN waiting /\ p \in DOMAIN queued /\ queued[p] \in [Streams -> Nat]
        /\ waiting[p] \in Lists
    BY DEF TypeOK
  <2>2. queued[p][FILE] \in Nat /\ v \in Seq(Transfers)
    BY <1>1, <2>1 DEF Lists
  <2> QED BY <2>1, <2>2
<1>3. MaxMessages[p][FILE] # 0
  <2>1. MaxMessages[p][FILE] \in Nat /\ queued[p][FILE] < MaxMessages[p][FILE]
    BY <1>1, NetChanAssumption DEF NetChanAssumption, SendFile
  <2> QED BY <1>1, <1>2, <2>1
<1>4. Used(p) = FILE /\ Spare(p) = NORMAL
  BY <1>3 DEF Used, Spare
<1>5. /\ queued' = [queued EXCEPT ![p][FILE] = m]
      /\ waiting' = [waiting EXCEPT ![p][FILE] = Append(@, d)]
      /\ reliable' = reliable /\ receive' = receive /\ delivered' = delivered
      /\ confirmed' = confirmed /\ sub' = sub /\ outRel' = outRel /\ inRel' = inRel
      /\ net' = net /\ inSeq' = inSeq
  BY DEF SendFile, control
<1>6. d \in Transfers /\ d.first = m /\ d.last = m /\ d.bytes = x /\ Unstarted(d)
  BY <1>1, <1>2, TransferType, TransferUnstarted DEF Transfer
<1> HIDE DEF d
<1>7. /\ queued'[p][FILE] = m /\ queued'[p][NORMAL] = queued[p][NORMAL]
      /\ waiting'[p][FILE] = Append(v, d) /\ waiting'[p][NORMAL] = waiting[p][NORMAL]
  BY <1>1, <1>2, <1>5 DEF Lists
<1>8. SpareUnused(p) /\ reliable[p].bytes = 0 /\ Handed(p) = queued[p][FILE]
  BY <1>4 DEF Direction, SpareUnused, Handed
<1>9. SpareUnused(p)' /\ InHand(p)' /\ LoadsUsed(p)'
  BY <1>1, <1>4, <1>5, <1>7, <1>8 DEF Direction, SpareUnused, InHand, LoadsUsed
<1>10. Handed(p)' = m /\ Unread(p)' = Unread(p) /\ Live(q)' = Live(q)
  BY <1>4, <1>5, <1>7, <1>8 DEF Handed, Unread, Live
<1>11. v # <<>> => Append(v, d) # <<>> /\ Head(Append(v, d)) = Head(v)
  BY <1>2, <1>6
<1>12. v = <<>> => Unread(p) = {}
  <2>1. Accounted(v, sub[p], FILE)
    BY <1>1 DEF FragmentsKept
  <2>2. Unread(p) \in SUBSET LoadedIn(sub[p], FILE)
    BY <1>4, UnreadLoaded DEF Direction
  <2> QED BY <2>1, <2>2 DEF Accounted
<1>13. Carries(p)'
  <2>1. Unread(p) # {} => Header(Head(waiting'[p][Used(p)])) = Header(Head(waiting[p][Used(p)]))
    BY <1>4, <1>7, <1>11, <1>12
  <2>2. ASSUME NEW pk \in Live(q)
        PROVE  Packed(pk, sub[p], waiting'[p])
    BY <2>1, CarriesKept
  <2> QED BY <1>5, <1>10, <2>2 DEF Carries
<1>14. PICK n \in Nat :
         /\ Follows(v, n, queued[p][FILE]) /\ confirmed[p][FILE] = 1 .. n
         /\ Holds(v, sub[p], Unread(p), FILE, receive[q][FILE], n, delivered[q][FILE])
  BY <1>4, <1>8 DEF Direction, Flows
<1>15. Follows(Append(v, d), n, m)
  BY <1>1, <1>2, <1>6, <1>14, FollowsAppend
<1>16. Holds(Append(v, d), sub[p], Unread(p), FILE, receive[q][FILE], n, delivered[q][FILE])
  <2>1. Append(v, d) \in Seq(Transfers) /\ Append(v, d) # <<>>
    BY <1>2, <1>6
  <2>2. CASE v = <<>>
    <3>1. receive[q][FILE] = NULL /\ delivered[q][FILE] = Upto(n)
      BY <1>2, <1>14, <2>2, HoldsNothing
    <3>2. Head(Append(v, d)) = d
      BY <1>6, <2>2
    <3> QED BY <1>6, <2>1, <3>1, <3>2, HoldsStart
  <2>3. CASE v # <<>>
    BY <1>11, <1>14, <2>1, <2>3 DEF Holds
  <2> QED BY <2>2, <2>3
<1>17. Flows(p)'
  BY <1>4, <1>5, <1>7, <1>10, <1>14, <1>15, <1>16 DEF Flows
<1> QED BY <1>9, <1>13, <1>17 DEF Direction

\* CompressFragments: only a head of which nothing was sent changes.
LEMMA CompressHolds ==
  ASSUME NEW c \in [SubChans -> SubRecords], NEW s \in Streams, NEW q \in Seq(Transfers),
         Accounted(q, c, s), NEW r \in CompressHead(q), NEW n \in Nat, NEW m \in Nat,
         Follows(q, n, m), NEW U \in SUBSET LoadedIn(c, s), NEW b, NEW out,
         Holds(q, c, U, s, b, n, out)
  PROVE  /\ Follows(r, n, m) /\ Holds(r, c, U, s, b, n, out)
         /\ U # {} => Header(Head(r)) = Header(Head(q))
<1>1. CASE r = q
  BY <1>1
<1>2. CASE r # q
  <2>1. q # <<>> /\ Unstarted(Head(q)) /\ \E x \in 1 .. Head(q).bytes - 1 : r = [q EXCEPT ![1] = Compress(@, x)]
    BY <1>2 DEF CompressHead, Unstarted
  <2>2. PICK x \in 1 .. Head(q).bytes - 1 : r = [q EXCEPT ![1] = Compress(@, x)]
    BY <2>1
  <2> DEFINE d == Head(q)
             e == Compress(d, x)
  <2>3. d \in Transfers /\ d = q[1] /\ Len(q) \in Nat \ {0} /\ d.bytes \in Nat
    <3>1. d \in Transfers /\ d = q[1]
      BY <2>1, HeadType
    <3>2. d.bytes \in Nat
      BY <3>1 DEF Transfers
    <3>3. Len(q) \in Nat \ {0}
      BY <2>1
    <3> QED BY <3>1, <3>2, <3>3
  <2>4. x \in Nat /\ x > 0
    BY <2>2, <2>3
  <2>5. /\ e \in Transfers /\ e.first = d.first /\ e.last = d.last /\ e.bytes = x
        /\ e.acked = d.acked /\ e.pending = d.pending
    BY <2>3, <2>4, TransferSteps DEF Compress, Transfers
  <2>6. r = [q EXCEPT ![1] = e]
    BY <2>2, <2>3
  <2> HIDE DEF d, e
  <2>7. r \in Seq(Transfers) /\ Len(r) = Len(q) /\ r[1] = e /\ \A k \in 2 .. Len(q) : r[k] = q[k]
    BY <2>3, <2>5, <2>6
  <2>8. r # <<>> /\ Head(r) = e
    BY <2>3, <2>7
  <2>9. Follows(r, n, m)
    <3>1. \A k \in 1 .. Len(q) : /\ r[k].first = q[k].first /\ r[k].last = q[k].last
                                 /\ r[k].bytes > 0
      <4> SUFFICES ASSUME NEW k \in 1 .. Len(q)
                   PROVE  /\ r[k].first = q[k].first /\ r[k].last = q[k].last /\ r[k].bytes > 0
        OBVIOUS
      <4>1. CASE k = 1
        BY <2>3, <2>4, <2>5, <2>7, <4>1
      <4>2. CASE k # 1
        <5>1. k \in 2 .. Len(q)
          BY <2>3, <4>2
        <5> QED BY <2>7, <5>1 DEF Follows
      <4> QED BY <4>1, <4>2
    <3> QED BY <2>7, <3>1, FollowsSame
  <2>10. b = NULL /\ out = Upto(n)
    <3>1. d.bytes > 0
      <4>1. 1 \in 1 .. Len(q)
        BY <2>3
      <4> QED BY <2>3, <4>1 DEF Follows
    <3> QED BY <2>1, <3>1, HoldsNothing DEF d
  <2>11. Unstarted(e)
    BY <2>1, <2>5 DEF Unstarted, d
  <2>12. Holds(r, c, U, s, b, n, out)
    BY <2>7, <2>8, <2>10, <2>11, HoldsStart
  <2>13. U = {}
    <3>1. HeadFits(d, c, s) /\ d.pending = 0
      BY <2>1 DEF Accounted, Unstarted, d
    <3>2. LoadedIn(c, s) = {}
      BY <2>3, <3>1, NothingLoaded
    <3> QED BY <3>2
  <2> QED BY <2>9, <2>12, <2>13
<1> QED BY <1>1, <1>2

\* CreateFragmentsFromBuffer: the messages in hand come after those in the list.
LEMMA CreateHolds ==
  ASSUME NEW c \in [SubChans -> SubRecords], NEW s \in Streams, NEW q \in Seq(Transfers),
         Accounted(q, c, s), NEW n \in Nat, NEW m \in Nat, Follows(q, n, m),
         NEW U \in SUBSET LoadedIn(c, s), NEW b, NEW out, Holds(q, c, U, s, b, n, out),
         NEW r \in ReliableRecords, r.bytes > 0, r.first = m + 1, r.first <= r.last
  PROVE  /\ Follows(CreateFragments(q, r), n, r.last)
         /\ Holds(CreateFragments(q, r), c, U, s, b, n, out)
         /\ U # {} => Head(CreateFragments(q, r)) = Head(q)
<1> DEFINE v == CreateFragments(q, r)
<1>1. /\ Follows(v, n, r.last)
      /\ q # <<>> => v # <<>> /\ Head(v) = Head(q)
      /\ q = <<>> => v # <<>> /\ Unstarted(Head(v))
  BY CreateFollows
<1>2. v \in Seq(Transfers)
  BY CreateFragmentsType
<1> HIDE DEF v
<1>3. CASE q = <<>>
  <2>1. b = NULL /\ out = Upto(n)
    BY <1>3, HoldsNothing
  <2>2. Holds(v, c, U, s, b, n, out)
    BY <1>1, <1>2, <1>3, <2>1, HoldsStart
  <2>3. U = {}
    BY <1>3 DEF Accounted
  <2> QED BY <1>1, <2>2, <2>3 DEF v
<1>4. CASE q # <<>>
  <2>1. Holds(v, c, U, s, b, n, out)
    BY <1>1, <1>4 DEF Holds
  <2> QED BY <1>1, <1>4, <2>1 DEF v
<1> QED BY <1>3, <1>4

\* The load of one subchannel i, x fragments of the list of s.
Loads(ch, u, s, t, i, x) ==
  LET d == Head(ch.waiting[s])
  IN  /\ ch.sub[i].state = "FREE" /\ ch.waiting[s] # <<>>
      /\ u.waiting[t] = <<>> /\ u.waiting[s] = [ch.waiting[s] EXCEPT ![1] = Reserve(d, x)]
      /\ \A j \in SubChans : j # i => u.sub[j] = ch.sub[j] /\ u.rel[j] = ch.rel[j]
      /\ u.rel[i] = Flip(ch.rel[i]) /\ u.sub[i].state = "TOSEND"
      /\ u.sub[i].num[s] = x /\ u.sub[i].num[t] = 0
      /\ u.sub[i].start[s] = d.acked + d.pending

\* UpdateSubChannels where one of the two lists is empty.
LEMMA LoadOne ==
  ASSUME NEW ch \in SendHalves, NEW s \in Streams, NEW t \in Streams, s # t,
         \A r \in Streams : Accounted(ch.waiting[r], ch.sub, r), ch.waiting[t] = <<>>,
         UpdateSubChannels(ch) # ch
  PROVE  \E i \in SubChans, x \in Nat \ {0} : Loads(ch, UpdateSubChannels(ch), s, t, i, x)
<1> DEFINE free == InState(ch.sub, "FREE")
           i == Lowest(free)
           n == Load(ch.waiting)
           Start(r) == Head(ch.waiting[r]).acked + Head(ch.waiting[r]).pending
           d == [state |-> "TOSEND", sendSeq |-> 0, num |-> n,
                 start |-> [r \in Streams |-> IF n[r] = 0 THEN -1 ELSE Start(r)]]
           lists == [r \in Streams |->
                       IF n[r] = 0 THEN ch.waiting[r]
                       ELSE [ch.waiting[r] EXCEPT ![1] = Reserve(@, n[r])]]
           u == UpdateSubChannels(ch)
<1>1. /\ free # {} /\ ~(\A r \in Streams : n[r] = 0)
      /\ u.sub = [ch.sub EXCEPT ![i] = d] /\ u.waiting = lists
      /\ u.rel = [ch.rel EXCEPT ![i] = Flip(@)]
  BY DEF UpdateSubChannels
<1>2. i \in SubChans /\ ch.sub[i].state = "FREE"
  <2>1. i \in free
    BY <1>1, LowestType DEF InState
  <2> QED BY <2>1 DEF InState
<1>3. /\ ch.waiting \in Lists /\ ch.sub \in [SubChans -> SubRecords] /\ ch.rel \in [SubChans -> Bit]
      /\ ch.waiting[s] \in Seq(Transfers)
  BY DEF SendHalves, Lists
<1>4. \A r \in Streams : n[r] \in 0 .. MaxFragments /\ (n[r] # 0 => ch.waiting[r] # <<>>)
  BY <1>3, LoadBounds
<1>41. n[t] = 0 /\ (n[s] # 0 => ch.waiting[s] # <<>>) /\ n[s] \in 0 .. MaxFragments
  BY <1>4
<1>5. \A r \in Streams : r = s \/ r = t
  BY DEF Streams
<1>6. n[t] = 0 /\ n[s] # 0
  <2>1. n[t] = 0
    BY <1>41
  <2>2. \E r \in Streams : n[r] # 0
    BY <1>1
  <2> QED BY <1>5, <2>1, <2>2
<1>7. /\ lists[t] = ch.waiting[t]
      /\ lists[s] = [ch.waiting[s] EXCEPT ![1] = Reserve(@, n[s])]
      /\ d.state = "TOSEND" /\ d.num = n /\ d.start[s] = Start(s)
  BY <1>6
<1>8. ch.waiting[s] # <<>> /\ Head(ch.waiting[s]) = ch.waiting[s][1] /\ n[s] \in Nat \ {0}
  <2>1. ch.waiting[s] # <<>>
    BY <1>41, <1>6
  <2>2. n[s] \in 0 .. MaxFragments
    BY <1>41
  <2>3. n[s] \in Nat \ {0}
    BY <1>6, <2>2, Sizes
  <2> QED BY <1>3, <2>1, <2>3, HeadType
<1> HIDE DEF free, i, n, d, lists, u
<1>9. /\ u.sub[i] = d /\ u.rel[i] = Flip(ch.rel[i])
      /\ \A j \in SubChans : j # i => u.sub[j] = ch.sub[j] /\ u.rel[j] = ch.rel[j]
  BY <1>1, <1>2, <1>3
<1>10. u.waiting[s] = [ch.waiting[s] EXCEPT ![1] = Reserve(Head(ch.waiting[s]), n[s])]
  BY <1>1, <1>7, <1>8
<1>11. Loads(ch, u, s, t, i, n[s])
  BY <1>1, <1>2, <1>6, <1>7, <1>8, <1>9, <1>10 DEF Loads
<1> QED BY <1>2, <1>8, <1>11 DEF u

\* Loading a subchannel: what it carries was neither handed out nor read before.
LEMMA GotLoad ==
  ASSUME NEW c \in [SubChans -> SubRecords], NEW s \in Streams, NEW d \in Transfers,
         NEW U \in SUBSET LoadedIn(c, s), NEW i \in SubChans, c[i].state = "FREE",
         NEW x \in Nat \ {0}, NEW e, e[i].num[s] = x, e[i].start[s] = d.acked + d.pending,
         \A j \in SubChans : j # i => e[j] = c[j]
  PROVE  Got(Reserve(d, x), e, U \cup {i}, s) = Got(d, c, U, s)
<1> DEFINE a == d.acked + d.pending
           V == U \cup {i}
           r == Reserve(d, x)
<1>1. d.acked \in Int /\ d.pending \in Int /\ a \in Int /\ r.acked \in Int /\ r.pending \in Int /\ r.acked + r.pending = a + x
  <2>1. d.acked \in Int /\ d.pending \in Int
    BY DEF Transfers
  <2>2. r.acked = d.acked /\ r.pending = d.pending + x
    BY DEF Reserve, Transfers
  <2> QED BY <2>1, <2>2
<1>2. U \in SUBSET SubChans /\ i \notin U
  BY DEF LoadedIn
<1>3. ASSUME NEW k
      PROVE  k \in Got(r, e, V, s) <=> k \in Got(d, c, U, s)
  <2> HIDE DEF r
  <2>1. k \in Got(r, e, V, s) <=>
          /\ k \in 0 .. a + x - 1
          /\ \A j \in V : ~(e[j].start[s] <= k /\ k < e[j].start[s] + e[j].num[s])
    <3>1. k \in Got(r, e, V, s) <=>
            /\ k \in 0 .. r.acked + r.pending - 1
            /\ \A j \in V : ~(e[j].start[s] <= k /\ k < e[j].start[s] + e[j].num[s])
      BY GotMember
    <3>2. 0 .. r.acked + r.pending - 1 = 0 .. a + x - 1
      <4> HIDE DEF a
      <4>1. r.acked + r.pending - 1 = a + x - 1
        BY <1>1
      <4> QED BY <4>1
    <3> QED BY <3>1, <3>2
  <2>2. k \in Got(d, c, U, s) <=>
          /\ k \in 0 .. d.acked + d.pending - 1
          /\ \A j \in U : ~(c[j].start[s] <= k /\ k < c[j].start[s] + c[j].num[s])
    BY GotMember
  <2>3. \A j \in U : e[j] = c[j]
    BY <1>2
  <2>4. (\A j \in V : ~(e[j].start[s] <= k /\ k < e[j].start[s] + e[j].num[s])) <=>
          /\ \A j \in U : ~(c[j].start[s] <= k /\ k < c[j].start[s] + c[j].num[s])
          /\ ~(a <= k /\ k < a + x)
    BY <2>3
  <2>5. k \in 0 .. a + x - 1 /\ ~(a <= k /\ k < a + x) <=> k \in 0 .. a - 1
    BY <1>1
  <2> DEFINE A == \A j \in V : ~(e[j].start[s] <= k /\ k < e[j].start[s] + e[j].num[s])
             B == \A j \in U : ~(c[j].start[s] <= k /\ k < c[j].start[s] + c[j].num[s])
  <2>6. k \in Got(r, e, V, s) <=> k \in 0 .. a + x - 1 /\ A
    BY <2>1
  <2>7. k \in Got(d, c, U, s) <=> k \in 0 .. a - 1 /\ B
    <3>1. d.acked + d.pending - 1 = a - 1
      BY <1>1
    <3>2. 0 .. d.acked + d.pending - 1 = 0 .. a - 1
      BY <3>1
    <3> QED BY <2>2, <3>2
  <2>8. A <=> B /\ ~(a <= k /\ k < a + x)
    BY <2>4
  <2> HIDE DEF V, A, B, a
  <2> QED BY <2>5, <2>6, <2>7, <2>8
<1> QED BY <1>3

Reading(rel, o) == {j \in SubChans : rel[j] # o[j]}

\* UpdateSubChannels where one of the two lists is empty keeps what flows on the other.
LEMMA LoadHolds ==
  ASSUME NEW ch \in SendHalves, NEW s \in Streams, NEW t \in Streams, s # t,
         \A r \in Streams : Accounted(ch.waiting[r], ch.sub, r), ch.waiting[t] = <<>>,
         NEW n \in Nat, NEW m \in Nat, Follows(ch.waiting[s], n, m),
         NEW o \in [SubChans -> Bit], Reading(ch.rel, o) \in SUBSET LoadedIn(ch.sub, s),
         NEW b, NEW out, Holds(ch.waiting[s], ch.sub, Reading(ch.rel, o), s, b, n, out)
  PROVE  LET u == UpdateSubChannels(ch)
         IN  /\ Follows(u.waiting[s], n, m) /\ u.waiting[t] = <<>>
             /\ Holds(u.waiting[s], u.sub, Reading(u.rel, o), s, b, n, out)
             /\ \A j \in Reading(ch.rel, o) : u.sub[j] = ch.sub[j]
             /\ Reading(ch.rel, o) # {} =>
                  Header(Head(u.waiting[s])) = Header(Head(ch.waiting[s]))
             /\ \A j \in SubChans :
                  \/ u.sub[j] = ch.sub[j]
                  \/ u.sub[j].state = "TOSEND" /\ u.sub[j].num[s] > 0 /\ u.sub[j].num[t] = 0
<1> DEFINE u == UpdateSubChannels(ch)
           U == Reading(ch.rel, o)
           V == Reading(u.rel, o)
<1>1. CASE u = ch
  BY <1>1
<1>2. CASE u # ch
  <2> DEFINE d == Head(ch.waiting[s])
  <2>0. PICK i \in SubChans, x \in Nat \ {0} : Loads(ch, u, s, t, i, x)
    BY <1>2, LoadOne
  <2>1. /\ ch.sub[i].state = "FREE" /\ ch.waiting[s] # <<>>
        /\ u.waiting[t] = <<>> /\ u.waiting[s] = [ch.waiting[s] EXCEPT ![1] = Reserve(d, x)]
        /\ \A j \in SubChans : j # i => u.sub[j] = ch.sub[j] /\ u.rel[j] = ch.rel[j]
        /\ u.rel[i] = Flip(ch.rel[i]) /\ u.sub[i].state = "TOSEND"
        /\ u.sub[i].num[s] = x /\ u.sub[i].num[t] = 0
        /\ u.sub[i].start[s] = d.acked + d.pending
    BY <2>0 DEF Loads
  <2>2. /\ ch.sub \in [SubChans -> SubRecords] /\ ch.rel \in [SubChans -> Bit]
        /\ ch.waiting[s] \in Seq(Transfers)
    BY DEF SendHalves, Lists
  <2>21. U \in SUBSET LoadedIn(ch.sub, s)
    OBVIOUS
  <2>3. i \notin U /\ U \in SUBSET SubChans
    BY <2>1 DEF LoadedIn
  <2>4. V = U \cup {i}
    <3>1. ch.rel[i] = o[i] /\ ch.rel[i] \in Bit
      BY <2>2, <2>3 DEF Reading
    <3>2. u.rel[i] # o[i]
      BY <2>1, <3>1 DEF Flip, Bit
    <3>3. \A j \in SubChans : j # i => u.rel[j] = ch.rel[j]
      BY <2>1
    <3> HIDE DEF u
    <3> QED BY <3>1, <3>2, <3>3 DEF Reading
  <2> DEFINE e == Reserve(d, x)
             q == ch.waiting[s]
             v == u.waiting[s]
  <2>5. d \in Transfers /\ d = q[1] /\ Len(q) \in Nat \ {0}
    <3>1. d \in Transfers /\ d = q[1]
      BY <2>1, <2>2, HeadType
    <3>2. Len(q) \in Nat \ {0}
      BY <2>1, <2>2
    <3> QED BY <3>1, <3>2
  <2>51. d \in Transfers
    BY <2>5
  <2>22. ch.sub \in [SubChans -> SubRecords]
    BY <2>2
  <2>6. /\ e \in Transfers /\ Header(e) = Header(d)
        /\ e.first = d.first /\ e.last = d.last /\ e.bytes = d.bytes
    BY <2>5, TransferSteps DEF Reserve, Transfers, Header
  <2>7. Got(e, u.sub, V, s) = Got(d, ch.sub, U, s)
    <3>1. /\ ch.sub[i].state = "FREE" /\ u.sub[i].num[s] = x /\ u.sub[i].start[s] = d.acked + d.pending
          /\ \A j \in SubChans : j # i => u.sub[j] = ch.sub[j]
      BY <2>1
    <3> HIDE DEF u, d, U, V
    <3>2. Got(Reserve(d, x), u.sub, U \cup {i}, s) = Got(d, ch.sub, U, s)
      BY <2>22, <2>51, <2>21, <3>1, GotLoad, i \in SubChans, x \in Nat \ {0}
    <3> QED BY <2>4, <3>2
  <2> HIDE DEF u, d, e, V
  <2>8. v \in Seq(Transfers) /\ Len(v) = Len(q) /\ v[1] = e /\ \A k \in 2 .. Len(q) : v[k] = q[k]
    BY <2>1, <2>2, <2>5, <2>6 DEF e
  <2>9. v # <<>> /\ Head(v) = e
    BY <2>5, <2>8
  <2>10. Follows(v, n, m)
    <3>1. \A k \in 1 .. Len(q) : /\ v[k].first = q[k].first /\ v[k].last = q[k].last
                                 /\ v[k].bytes > 0
      <4> SUFFICES ASSUME NEW k \in 1 .. Len(q)
                   PROVE  /\ v[k].first = q[k].first /\ v[k].last = q[k].last /\ v[k].bytes > 0
        OBVIOUS
      <4>1. q[k].bytes > 0
        BY DEF Follows
      <4>2. CASE k = 1
        BY <2>5, <2>6, <2>8, <4>1, <4>2
      <4>3. CASE k # 1
        <5>1. k \in 2 .. Len(q)
          BY <2>5, <4>3
        <5> QED BY <2>8, <4>1, <5>1
      <4> QED BY <4>2, <4>3
    <3> QED BY <2>2, <2>8, <3>1, FollowsSame
  <2>11. Holds(v, u.sub, V, s, b, n, out)
    <3>1. Holds(q, ch.sub, U, s, b, n, out) /\ q # <<>>
      BY <2>1
    <3>2. NumFragments(e) = NumFragments(d)
      BY <2>6 DEF NumFragments
    <3> DEFINE g == Got(d, ch.sub, U, s)
               N == NumFragments(d)
               H == Header(d)
    <3>3. Got(e, u.sub, V, s) = g /\ NumFragments(e) = N /\ Header(e) = H /\ e.last = d.last
      BY <2>6, <2>7, <3>2
    <3>4. \/ b = NULL /\ g = {} /\ out = Upto(n)
          \/ /\ b = [header |-> H, acked |-> Cardinality(g), data |-> [k \in g |-> H]]
             /\ 0 \in g /\ g # 0 .. N - 1 /\ out = Upto(n)
          \/ b = NULL /\ g = 0 .. N - 1 /\ out = Upto(d.last)
      BY <3>1 DEF Holds, d
    <3> HIDE DEF q, v, U, g, N, H
    <3> QED BY <2>9, <3>3, <3>4 DEF Holds
  <2>12. \A j \in U : u.sub[j] = ch.sub[j]
    BY <2>1, <2>3
  <2> QED BY <2>1, <2>6, <2>9, <2>10, <2>11, <2>12 DEF u, d, V
<1> QED BY <1>1, <1>2

\* Of a subchannel, what the receiver holds depends only on its load.
LEMMA HoldsLoads ==
  ASSUME NEW q, NEW c, NEW e, NEW U, NEW s,
         \A i \in U : e[i].num[s] = c[i].num[s] /\ e[i].start[s] = c[i].start[s],
         NEW b, NEW n, NEW out, Holds(q, c, U, s, b, n, out)
  PROVE  Holds(q, e, U, s, b, n, out)
<1>1. Got(Head(q), e, U, s) = Got(Head(q), c, U, s)
  BY DEF Got
<1> QED BY <1>1 DEF Holds

\* SendDatagram, the lists before a subchannel is loaded: the reliable buffer is in them.
LEMMA PrepareHolds ==
  ASSUME TypeOK, ReliableBits, FragmentsKept, OneStream, NEW p \in Peer, Direction(p),
         NEW w \in Compressed([waiting[p] EXCEPT ![NORMAL] = CreateFragments(@, reliable[p])]),
         NEW n \in Nat, Follows(waiting[p][Used(p)], n, Handed(p)),
         NEW b, NEW out, Holds(waiting[p][Used(p)], sub[p], Unread(p), Used(p), b, n, out)
  PROVE  /\ w[Spare(p)] = <<>> /\ Follows(w[Used(p)], n, queued[p][Used(p)])
         /\ Holds(w[Used(p)], sub[p], Unread(p), Used(p), b, n, out)
         /\ Unread(p) # {} => Header(Head(w[Used(p)])) = Header(Head(waiting[p][Used(p)]))
         /\ \A r \in Streams : Accounted(w[r], sub[p], r)
<1> DEFINE w0 == [waiting[p] EXCEPT ![NORMAL] = CreateFragments(@, reliable[p])]
           s == Used(p)
           t == Spare(p)
           v == waiting[p][s]
           r == reliable[p]
           U == Unread(p)
<1>1. /\ waiting[p] \in Lists /\ sub[p] \in [SubChans -> SubRecords] /\ r \in ReliableRecords
      /\ r.bytes \in Nat /\ r.first \in Nat /\ r.last \in Nat /\ queued[p] \in [Streams -> Nat]
  BY DEF TypeOK, ReliableRecords
<1>2. /\ s \in Streams /\ t \in Streams /\ s # t /\ \A x \in Streams : x = s \/ x = t
      /\ NORMAL \in Streams /\ FILE \in Streams
  BY StreamKinds
<1>3. v \in Seq(Transfers) /\ waiting[p][t] \in Seq(Transfers) /\ queued[p][s] \in Nat
  BY <1>1, <1>2 DEF Lists
<1>4. U \in SUBSET LoadedIn(sub[p], s)
  BY UnreadLoaded DEF Direction
<1>5. SpareUnused(p) /\ InHand(p) /\ waiting[p][t] = <<>> /\ (t = NORMAL => r.bytes = 0)
  BY DEF Direction, SpareUnused
<1>6. w0[NORMAL] = CreateFragments(waiting[p][NORMAL], r) /\ w0[FILE] = waiting[p][FILE]
  BY <1>1, <1>2 DEF Lists, NORMAL, FILE
<1>7. \A x \in Streams : Accounted(waiting[p][x], sub[p], x) /\ waiting[p][x] \in Seq(Transfers)
  BY <1>1 DEF FragmentsKept, Lists
<1>8. \A x \in Streams : Accounted(w0[x], sub[p], x) /\ w0[x] \in Seq(Transfers)
  <2> SUFFICES ASSUME NEW x \in Streams
               PROVE  Accounted(w0[x], sub[p], x) /\ w0[x] \in Seq(Transfers)
    OBVIOUS
  <2>1. waiting[p][x] \in Seq(Transfers) /\ Accounted(waiting[p][x], sub[p], x)
    BY <1>7
  <2>2. w0[x] = waiting[p][x] \/ w0[x] = CreateFragments(waiting[p][x], r)
    BY <1>6 DEF Streams
  <2> QED BY <1>1, <2>1, <2>2, CreateAccounted, CreateFragmentsType
<1> HIDE DEF w0
<1>9. /\ w0[t] = <<>> /\ Follows(w0[s], n, queued[p][s]) /\ Holds(w0[s], sub[p], U, s, b, n, out)
      /\ U # {} => Header(Head(w0[s])) = Header(Head(v))
  <2>1. CASE r.bytes > 0
    <3>1. s = NORMAL /\ t = FILE
      BY <1>1, <1>2, <1>5, <2>1 DEF Streams
    <3>2. /\ 0 < r.first /\ r.first <= r.last /\ r.last = queued[p][s] /\ Handed(p) = r.first - 1
      BY <1>5, <2>1, <3>1 DEF InHand, Handed
    <3>3. Handed(p) \in Nat /\ r.first = Handed(p) + 1
      BY <1>1, <3>2
    <3>4. w0[s] = CreateFragments(v, r) /\ w0[t] = <<>>
      BY <1>5, <1>6, <3>1
    <3>5. Accounted(v, sub[p], s)
      BY <1>2, <1>7
    <3> DEFINE m == Handed(p)
               c == sub[p]
               z == reliable[p]
    <3>6. /\ c \in [SubChans -> SubRecords] /\ m \in Nat /\ Follows(v, n, m) /\ Accounted(v, c, s)
          /\ U \in SUBSET LoadedIn(c, s) /\ Holds(v, c, U, s, b, n, out)
          /\ z \in ReliableRecords /\ z.bytes > 0 /\ z.first = m + 1 /\ z.first <= z.last
      BY <1>1, <1>4, <2>1, <3>2, <3>3, <3>5
    <3>7. v \in Seq(Transfers) /\ s \in Streams /\ n \in Nat
      BY <1>2, <1>3
    <3> HIDE DEF m, c, z, v, s, U
    <3>8. /\ Follows(CreateFragments(v, z), n, z.last)
          /\ Holds(CreateFragments(v, z), c, U, s, b, n, out)
          /\ U # {} => Head(CreateFragments(v, z)) = Head(v)
      <4>1. Follows(CreateFragments(v, z), n, z.last)
        BY <3>6, <3>7, CreateHolds
      <4>2. Holds(CreateFragments(v, z), c, U, s, b, n, out)
        BY <3>6, <3>7, CreateHolds
      <4>3. v # <<>> => Head(CreateFragments(v, z)) = Head(v)
        BY <3>6, <3>7, CreateFollows
      <4>4. U # {} => v # <<>>
        BY <3>6 DEF Accounted
      <4> QED BY <4>1, <4>2, <4>3, <4>4
    <3> QED BY <3>2, <3>4, <3>8 DEF c, z
  <2>2. CASE r.bytes = 0
    <3>1. w0[s] = v /\ w0[t] = waiting[p][t]
      BY <1>2, <1>6, <2>2 DEF CreateFragments, Streams
    <3>2. Handed(p) = queued[p][s]
      BY <2>2 DEF Handed
    <3> QED BY <1>5, <3>1, <3>2
  <2> QED BY <1>1, <2>1, <2>2
<1>10. \A x \in Streams : w[x] \in CompressHead(w0[x])
  <2>1. \A x \in Streams : x = NORMAL \/ x = FILE
    BY DEF Streams
  <2>2. PICK y \in CompressHead(w0[NORMAL]), f \in CompressHead(w0[FILE]) :
          w = [x \in Streams |-> IF x = NORMAL THEN y ELSE f]
    BY DEF Compressed, w0
  <2> QED BY <1>2, <2>1, <2>2 DEF NORMAL, FILE
<1>11. \A x \in Streams : Accounted(w[x], sub[p], x)
  BY <1>1, <1>8, <1>10, CompressAccounted
<1>12. w[t] = <<>>
  BY <1>2, <1>9, <1>10 DEF CompressHead
<1>13. /\ Follows(w[s], n, queued[p][s]) /\ Holds(w[s], sub[p], U, s, b, n, out)
       /\ U # {} => Header(Head(w[s])) = Header(Head(w0[s]))
  <2> DEFINE c == sub[p]
             x == w0[s]
             y == w[s]
             m == queued[p][s]
  <2>1. /\ c \in [SubChans -> SubRecords] /\ s \in Streams /\ x \in Seq(Transfers)
        /\ Accounted(x, c, s) /\ y \in CompressHead(x) /\ m \in Nat
        /\ Follows(x, n, m) /\ U \in SUBSET LoadedIn(c, s) /\ Holds(x, c, U, s, b, n, out)
    BY <1>1, <1>2, <1>3, <1>4, <1>8, <1>9, <1>10
  <2> HIDE DEF c, x, y, m, U, s
  <2>2. /\ Follows(y, n, m) /\ Holds(y, c, U, s, b, n, out)
        /\ U # {} => Header(Head(y)) = Header(Head(x))
    BY <2>1, CompressHolds
  <2> QED BY <2>2 DEF c, x, y, m
<1> QED BY <1>9, <1>11, <1>12, <1>13

\* SendDatagram keeps the direction of its sender: the new datagram carries what it says.
LEMMA SendDirection ==
  ASSUME TypeOK, SeqOrder, ReliableBits, FragmentsKept, OneStream, NEW p \in Peer, Direction(p),
         SendDatagram(p)
  PROVE  Direction(p)'
<1> DEFINE q == Other(p)
           s == Used(p)
           t == Spare(p)
           U == Unread(p)
           o == inRel[q]
           b == receive[q][s]
           out == delivered[q][s]
<1>1. PICK w \in Compressed([waiting[p] EXCEPT ![NORMAL] = CreateFragments(@, reliable[p])]) :
       LET ch == UpdateSubChannels([waiting |-> w, sub |-> sub[p], rel |-> outRel[p]])
           toSend == InState(ch.sub, "TOSEND")
           i == IF toSend = {} THEN NULL ELSE Lowest(toSend)
       IN  /\ waiting' = [waiting EXCEPT ![p] = ch.waiting]
           /\ outRel' = [outRel EXCEPT ![p] = ch.rel]
           /\ sub' = [sub EXCEPT ![p] =
                        [j \in SubChans |->
                           IF j = i THEN Sent(ch.sub[j], outSeq[p]) ELSE ch.sub[j]]]
           /\ net' = [net EXCEPT ![Other(p)] = @ \cup {Datagram(p, ch, i)}]
  BY DEF SendDatagram
<1> DEFINE half == [waiting |-> w, sub |-> sub[p], rel |-> outRel[p]]
           ch == UpdateSubChannels(half)
           toSend == InState(ch.sub, "TOSEND")
           i == IF toSend = {} THEN NULL ELSE Lowest(toSend)
           c == [j \in SubChans |-> IF j = i THEN Sent(ch.sub[j], outSeq[p]) ELSE ch.sub[j]]
           pk == Datagram(p, ch, i)
<1>2. half \in SendHalves /\ half.waiting = w /\ half.sub = sub[p] /\ half.rel = outRel[p]
  BY SendHalfType
<1>3. ch \in SendHalves
  BY <1>2, UpdateType
<1>4. /\ q \in Peer /\ q # p /\ s \in Streams /\ t \in Streams /\ s # t
      /\ \A r \in Streams : r = s \/ r = t
  BY OtherType, StreamKinds
<1>5. /\ o \in [SubChans -> Bit] /\ sub[p] \in [SubChans -> SubRecords] /\ outSeq[p] \in Nat
      /\ ch.sub \in [SubChans -> SubRecords] /\ reliable \in [Peer -> ReliableRecords]
  BY <1>3, <1>4 DEF TypeOK, SendHalves
<1>6. PICK n \in Nat :
         /\ Follows(waiting[p][s], n, Handed(p)) /\ confirmed[p][s] = 1 .. n
         /\ Holds(waiting[p][s], sub[p], U, s, b, n, out)
  BY DEF Direction, Flows
<1>7. /\ w[t] = <<>> /\ Follows(w[s], n, queued[p][s]) /\ Holds(w[s], sub[p], U, s, b, n, out)
      /\ U # {} => Header(Head(w[s])) = Header(Head(waiting[p][s]))
      /\ \A r \in Streams : Accounted(w[r], sub[p], r)
  <2>1. /\ Follows(waiting[p][Used(p)], n, Handed(p))
        /\ Holds(waiting[p][Used(p)], sub[p], Unread(p), Used(p), b, n, out)
    BY <1>6
  <2> HIDE DEF b, out
  <2>2. /\ w[Spare(p)] = <<>> /\ Follows(w[Used(p)], n, queued[p][Used(p)])
        /\ Holds(w[Used(p)], sub[p], Unread(p), Used(p), b, n, out)
        /\ Unread(p) # {} => Header(Head(w[Used(p)])) = Header(Head(waiting[p][Used(p)]))
        /\ \A r \in Streams : Accounted(w[r], sub[p], r)
    BY <2>1, PrepareHolds, Zenon
  <2> QED BY <2>2
<1>8. /\ U = Reading(outRel[p], o) /\ U \in SUBSET LoadedIn(sub[p], s) /\ queued[p][s] \in Nat
  BY <1>4, UnreadLoaded DEF Direction, Unread, Reading, TypeOK
<1>9. /\ Follows(ch.waiting[s], n, queued[p][s]) /\ ch.waiting[t] = <<>>
      /\ Holds(ch.waiting[s], ch.sub, Reading(ch.rel, o), s, b, n, out)
      /\ \A j \in U : ch.sub[j] = sub[p][j]
      /\ U # {} => Header(Head(ch.waiting[s])) = Header(Head(w[s]))
      /\ \A j \in SubChans :
           \/ ch.sub[j] = sub[p][j]
           \/ ch.sub[j].state = "TOSEND" /\ ch.sub[j].num[s] > 0 /\ ch.sub[j].num[t] = 0
  <2> DEFINE x == half
             m == queued[p][s]
  <2>1. /\ x \in SendHalves /\ s \in Streams /\ t \in Streams /\ s # t
        /\ \A r \in Streams : Accounted(x.waiting[r], x.sub, r)
        /\ x.waiting[t] = <<>> /\ m \in Nat /\ Follows(x.waiting[s], n, m)
        /\ o \in [SubChans -> Bit] /\ Reading(x.rel, o) \in SUBSET LoadedIn(x.sub, s)
        /\ Holds(x.waiting[s], x.sub, Reading(x.rel, o), s, b, n, out)
    BY <1>2, <1>4, <1>5, <1>7, <1>8
  <2> HIDE DEF half, x, m, s, t, o, b, out, U
  <2>2. LET u == UpdateSubChannels(x)
        IN  /\ Follows(u.waiting[s], n, m) /\ u.waiting[t] = <<>>
            /\ Holds(u.waiting[s], u.sub, Reading(u.rel, o), s, b, n, out)
            /\ \A j \in Reading(x.rel, o) : u.sub[j] = x.sub[j]
            /\ Reading(x.rel, o) # {} =>
                  Header(Head(u.waiting[s])) = Header(Head(x.waiting[s]))
            /\ \A j \in SubChans :
                  \/ u.sub[j] = x.sub[j]
                  \/ u.sub[j].state = "TOSEND" /\ u.sub[j].num[s] > 0 /\ u.sub[j].num[t] = 0
    BY <2>1, LoadHolds
  <2> QED BY <1>2, <1>8, <2>2 DEF x, m
<1>10. /\ waiting'[p] = ch.waiting /\ sub'[p] = c /\ outRel'[p] = ch.rel
       /\ net'[q] = net[q] \cup {pk} /\ reliable'[p] = EmptyReliable
       /\ inRel' = inRel /\ inSeq' = inSeq /\ queued' = queued /\ confirmed' = confirmed
       /\ receive' = receive /\ delivered' = delivered
  BY <1>1, <1>4 DEF SendDatagram, TypeOK
<1> HIDE DEF half, ch
<1>11. i # NULL => i \in SubChans /\ ch.sub[i].state = "TOSEND"
  BY LowestType DEF InState
<1>12. i = NULL => i \notin SubChans
  BY NetChanAssumption DEF NetChanAssumption
<1>13. pk.sub = i /\ pk.chunk = IF i = NULL THEN NoChunks
                              ELSE [r \in Streams |-> Chunk(ch.sub[i], ch.waiting, r)]
  BY DEF Datagram
<1> HIDE DEF i, pk
<1>14. \A j \in SubChans :
         /\ c[j].num = ch.sub[j].num /\ c[j].start = ch.sub[j].start
         /\ \/ c[j].state = ch.sub[j].state
            \/ c[j].state = "WAITING" /\ ch.sub[j].state = "TOSEND"
  BY <1>5, <1>11, <1>12 DEF Sent, SubRecords
<1> HIDE DEF c
<1>15. \A j \in SubChans : c[j].num[t] = 0
  <2>1. \A j \in SubChans : sub[p][j].num[t] = 0
    BY DEF Direction, SpareUnused
  <2> QED BY <1>9, <1>14, <2>1
<1>16. SpareUnused(p)'
  BY <1>4, <1>9, <1>10, <1>15 DEF Direction, SpareUnused, EmptyReliable
<1>17. InHand(p)'
  BY <1>10 DEF InHand, EmptyReliable
<1>18. LoadsUsed(p)'
  <2>1. \A j \in SubChans : /\ sub[p][j].state # "DIRTY"
                            /\ sub[p][j].state # "FREE" => sub[p][j].num[s] > 0
    BY DEF Direction, LoadsUsed
  <2>2. ASSUME NEW j \in SubChans
        PROVE  c[j].state # "DIRTY" /\ (c[j].state # "FREE" => c[j].num[s] > 0)
    <3>1. \/ ch.sub[j] = sub[p][j]
          \/ ch.sub[j].state = "TOSEND" /\ ch.sub[j].num[s] > 0
      BY <1>9
    <3>2. ch.sub[j].state # "DIRTY" /\ (ch.sub[j].state # "FREE" => ch.sub[j].num[s] > 0)
      <4>1. sub[p][j].state # "DIRTY" /\ (sub[p][j].state # "FREE" => sub[p][j].num[s] > 0)
        BY <2>1
      <4>2. CASE ch.sub[j] = sub[p][j]
        BY <4>1, <4>2
      <4>3. CASE ch.sub[j].state = "TOSEND" /\ ch.sub[j].num[s] > 0
        BY <4>3
      <4> QED BY <3>1, <4>2, <4>3
    <3> HIDE DEF s
    <3> QED BY <1>14, <3>2
  <2> QED BY <1>10, <2>2 DEF LoadsUsed
<1>19. Unread(p)' = Reading(ch.rel, o)
  BY <1>10 DEF Unread, Reading
<1>20. Handed(p)' = queued[p][s]
  BY <1>10 DEF Handed, EmptyReliable
<1>21. Flows(p)'
  <2>1. Holds(ch.waiting[s], c, Reading(ch.rel, o), s, b, n, out)
    <3>1. \A j \in Reading(ch.rel, o) : c[j].num[s] = ch.sub[j].num[s] /\ c[j].start[s] = ch.sub[j].start[s]
      BY <1>14 DEF Reading
    <3>2. Holds(ch.waiting[s], ch.sub, Reading(ch.rel, o), s, b, n, out)
      BY <1>9
    <3> HIDE DEF s, b, out, o
    <3> QED BY <3>1, <3>2, HoldsLoads
  <2> QED BY <1>6, <1>9, <1>10, <1>19, <1>20, <2>1 DEF Flows
<1>22. Carries(p)'
  <2>1. ASSUME NEW x \in Live(q) PROVE Packed(x, c, ch.waiting)
    <3>1. \A j \in Unread(p) : c[j].num = sub[p][j].num /\ c[j].start = sub[p][j].start
      BY <1>9, <1>14 DEF Unread
    <3>2. U # {} => Header(Head(ch.waiting[s])) = Header(Head(waiting[p][s]))
      BY <1>7, <1>9
    <3> QED BY <3>1, <3>2, CarriesKept
  <2>2. Packed(pk, c, ch.waiting)
    <3>1. CASE pk.sub = NULL
      BY <1>13, <3>1 DEF Packed
    <3>2. CASE pk.sub # NULL
      <4>1. \A r \in Streams : Chunk(c[i], ch.waiting, r) = Chunk(ch.sub[i], ch.waiting, r)
        BY <1>11, <1>13, <1>14, <3>2 DEF Chunk
      <4>2. [r \in Streams |-> Chunk(c[i], ch.waiting, r)] = [r \in Streams |-> Chunk(ch.sub[i], ch.waiting, r)]
        BY <4>1
      <4> QED BY <1>13, <3>2, <4>2 DEF Packed
    <3> QED BY <3>1, <3>2
  <2>3. Live(q)' \in SUBSET (Live(q) \cup {pk})
    BY <1>10 DEF Live
  <2>4. \A x \in Live(q)' : Packed(x, c, ch.waiting)
    BY <2>1, <2>2, <2>3
  <2> QED BY <1>10, <2>4 DEF Carries
<1> QED BY <1>16, <1>17, <1>18, <1>21, <1>22 DEF Direction

\* ProcessPacketHeader: no bit changes, and what was not read yet stays loaded.
LEMMA HeaderSubs ==
  ASSUME TypeOK, SeqOrder, ReliableBits, NEW p \in Peer, LoadsUsed(p), NEW pk \in Live(p)
  PROVE  LET h == AfterHeader(p, pk)
         IN  /\ h.ok /\ h.rel = outRel[p]
             /\ \A i \in Unread(p) : h.sub[i].num = sub[p][i].num /\ h.sub[i].start = sub[p][i].start
             /\ \A i \in SubChans : /\ h.sub[i].state # "DIRTY"
                                    /\ \/ h.sub[i] = FreeSub
                                       \/ /\ h.sub[i].num = sub[p][i].num
                                          /\ sub[p][i].state # "FREE"
                                       \/ h.sub[i] = sub[p][i]
             /\ \A i \in Unread(p) : h.sub[i].state # "FREE"
<1> DEFINE h == AfterHeader(p, pk)
           q == Other(p)
<1>1. /\ q \in Peer /\ DatagramTyped(pk) /\ pk.ack \in Nat
      /\ sub[p] \in [SubChans -> SubRecords] /\ outRel[p] \in [SubChans -> Bit]
  BY OtherType, LiveFacts
<1>2. h.sub \in [SubChans -> SubRecords] /\ h.rel \in [SubChans -> Bit]
  BY <1>1, HeaderType
<1>3. SubChans # {}
  <2>1. 0 \in SubChans
    BY NetChanAssumption DEF SubChans, NetChanAssumption
  <2> QED BY <2>1
<1>4. ASSUME NEW i \in SubChans
      PROVE  /\ h.ok /\ h.rel[i] = outRel[p][i]
             /\ i \in Unread(p) => /\ h.sub[i].num = sub[p][i].num
                                   /\ h.sub[i].start = sub[p][i].start
                                   /\ h.sub[i].state # "FREE"
             /\ h.sub[i].state # "DIRTY"
             /\ \/ h.sub[i] = FreeSub
                \/ h.sub[i].num = sub[p][i].num /\ sub[p][i].state # "FREE"
                \/ h.sub[i] = sub[p][i]
  <2> DEFINE c == sub[p][i]
             match == outRel[p][i] = pk.rel[i]
             due == c.sendSeq <= pk.ack
  <2>1. h.ok /\ h.sub[i] = HeaderSub(c, match, due) /\ h.rel[i] = HeaderBit(c, outRel[p][i], match, due)
    BY HeaderValid
  <2>2. c \in SubRecords /\ c.state # "DIRTY"
    BY <1>1 DEF LoadsUsed
  <2>3. Agree(i, c, outRel[p][i], inRel[q][i], outSeq[p], inSeq[q], Live(q), Live(p))
    BY DEF ReliableBits, SubBits
  <2>4. c.sendSeq \in Int /\ c.state \in {"FREE", "TOSEND", "WAITING"}
    BY <2>2 DEF SubRecords, SubStates
  <2>5. /\ Resend(c).num = c.num /\ Resend(c).start = c.start /\ Resend(c).state = "TOSEND"
        /\ FreeSub.state = "FREE"
    BY <2>2 DEF Resend, SubRecords, FreeSub
  <2>6. h.rel[i] = outRel[p][i]
    BY <2>1, <2>2 DEF HeaderBit
  <2>7. CASE c.state = "WAITING" /\ match
    <3>1. h.sub[i] = FreeSub
      BY <2>1, <2>7 DEF HeaderSub
    <3>2. i \notin Unread(p)
      BY <1>1, <2>3, <2>4, <2>7 DEF Agree, Unread
    <3> QED BY <2>1, <2>5, <2>6, <3>1, <3>2
  <2>8. CASE c.state = "WAITING" /\ ~match
    <3>1. h.sub[i] = c \/ h.sub[i] = Resend(c)
      BY <2>1, <2>8 DEF HeaderSub
    <3> QED BY <2>1, <2>2, <2>5, <2>6, <2>8, <3>1
  <2>9. CASE c.state # "WAITING"
    <3>1. h.sub[i] = c
      BY <2>1, <2>2, <2>9 DEF HeaderSub
    <3>2. c.state = "FREE" => i \notin Unread(p)
      BY <2>3 DEF Agree, Unread
    <3> QED BY <2>1, <2>2, <2>6, <3>1, <3>2
  <2> QED BY <2>7, <2>8, <2>9
<1> HIDE DEF h
<1>5. h.rel = outRel[p]
  BY <1>1, <1>2, <1>4
<1>6. Unread(p) \in SUBSET SubChans
  BY DEF Unread
<1> QED BY <1>3, <1>4, <1>5, <1>6 DEF h

\* ProcessPacketHeader on one list: only the counters of the head change.
LEMMA HeaderList ==
  ASSUME TypeOK, NEW p \in Peer, NEW pk, DatagramTyped(pk), NEW s \in Streams,
         waiting[p][s] # <<>>
  PROVE  LET v == AfterHeader(p, pk).waiting[s]
             q == waiting[p][s]
         IN  /\ v \in Seq(Transfers) /\ v # <<>> /\ Len(v) = Len(q)
             /\ Header(Head(v)) = Header(Head(q)) /\ Head(v).last = Head(q).last
             /\ Head(v).bytes = Head(q).bytes /\ Head(v).first = Head(q).first
             /\ Head(v).acked + Head(v).pending = Head(q).acked + Head(q).pending
             /\ v[1] = Head(v) /\ \A k \in 2 .. Len(q) : v[k] = q[k]
<1> DEFINE c == sub[p]
           match == {i \in SubChans : outRel[p][i] = pk.rel[i]}
           due == {i \in SubChans : c[i].sendSeq <= pk.ack}
           invalid == (match \ InState(c, "DIRTY")) \ due
           seen == {i \in SubChans : \A j \in invalid : i < j}
           arrived == seen \cap match \cap InState(c, "WAITING")
           q == waiting[p][s]
           h == AfterHeader(p, pk)
           n == Carried(c, arrived, s)
           d == Head(q)
           e == Acknowledge(d, n)
           v == h.waiting[s]
<1>1. c \in [SubChans -> SubRecords] /\ q \in Seq(Transfers)
  BY DEF TypeOK, Lists
<1>2. v = [q EXCEPT ![1] = Acknowledge(@, n)]
  BY DEF AfterHeader
<1>3. arrived \in SUBSET SubChans
  OBVIOUS
<1>4. n \in Nat
  <2> HIDE DEF arrived, c
  <2> QED BY <1>1, <1>3, CarriedType
<1>5. v \in Seq(Transfers)
  BY HeaderType DEF Lists
<1> HIDE DEF h, arrived, n, c, v, q
<1>6. d \in Transfers /\ d = q[1]
  BY <1>1, HeadType DEF q
<1>7. Len(q) \in Nat \ {0}
  BY <1>1 DEF q
<1> HIDE DEF d
<1>8. /\ Header(e) = Header(d) /\ e.last = d.last /\ e.bytes = d.bytes /\ e.first = d.first
      /\ e.acked + e.pending = d.acked + d.pending
  <2>1. /\ e.first = d.first /\ e.last = d.last /\ e.bytes = d.bytes /\ e.isFile = d.isFile
        /\ e.isCompressed = d.isCompressed
        /\ e.acked = d.acked + n /\ e.pending = d.pending - n
    BY <1>6 DEF Acknowledge, Transfers
  <2>2. d.acked \in Int /\ d.pending \in Int
    BY <1>6 DEF Transfers
  <2> HIDE DEF e
  <2>3. e.acked + e.pending = d.acked + d.pending
    BY <1>4, <2>1, <2>2
  <2> QED BY <2>1, <2>3 DEF Header
<1> HIDE DEF e
<1>9. v = [q EXCEPT ![1] = e]
  BY <1>2, <1>6 DEF e
<1>10. Len(v) = Len(q) /\ v[1] = e /\ \A k \in 2 .. Len(q) : v[k] = q[k]
  BY <1>1, <1>5, <1>7, <1>9
<1>11. v # <<>> /\ Head(v) = e
  BY <1>5, <1>7, <1>10
<1> QED BY <1>5, <1>8, <1>10, <1>11 DEF v, q, d, h

\* CheckWaitingList: of a complete transfer everything was read and handed over.
LEMMA DoneHolds ==
  ASSUME NEW c \in [SubChans -> SubRecords], NEW s \in Streams, NEW q \in Seq(Transfers),
         Accounted(q, c, s), NEW ack, Complete(q, ack), NEW n \in Nat, NEW m \in Nat,
         Follows(q, n, m), NEW U \in SUBSET LoadedIn(c, s), NEW b, NEW out,
         Holds(q, c, U, s, b, n, out)
  PROVE  /\ U = {} /\ Head(q).last \in Nat /\ Follows(Tail(q), Head(q).last, m)
         /\ Holds(Tail(q), c, U, s, b, Head(q).last, out)
         /\ (1 .. n) \cup (Head(q).first .. Head(q).last) = 1 .. Head(q).last
<1> DEFINE d == Head(q)
           N == NumFragments(d)
<1>1. q # <<>> /\ d.acked = N
  BY DEF Complete
<1>2. d \in Transfers /\ Tail(q) \in Seq(Transfers)
  BY <1>1, HeadType
<1>3. HeadFits(d, c, s)
  BY <1>1 DEF Accounted
<1> HIDE DEF d
<1>4. /\ d.acked \in Nat /\ d.pending \in Int /\ d.last \in Nat /\ d.first \in Nat
      /\ d.bytes \in Nat
  BY <1>2 DEF Transfers
<1>5. d.pending = 0
  <2>1. d.pending \in Nat
    <3>1. LoadedIn(c, s) \in SUBSET SubChans
      BY DEF LoadedIn
    <3> QED BY <1>3, <3>1, PartsFinite DEF HeadFits
  <2>2. d.acked + d.pending <= N
    BY <1>3 DEF HeadFits
  <2> QED BY <1>1, <1>4, <2>1, <2>2
<1>6. LoadedIn(c, s) = {}
  BY <1>2, <1>3, <1>5, NothingLoaded
<1>7. U = {}
  BY <1>6
<1>8. /\ d.first = n + 1 /\ d.first <= d.last /\ d.bytes > 0
      /\ Follows(Tail(q), d.last, m)
  BY <1>1, FollowsTail DEF d
<1>9. Got(d, c, U, s) = 0 .. N - 1
  <2>1. 0 .. d.acked + d.pending - 1 = 0 .. N - 1
    BY <1>1, <1>4, <1>5
  <2> HIDE DEF N
  <2> QED BY <1>7, <2>1 DEF Got
<1>10. N \in Nat /\ N > 0
  BY <1>4, <1>8, FragmentsPositive DEF NumFragments
<1>11. b = NULL /\ out = Upto(d.last)
  <2>1. 0 .. N - 1 # {}
    <3> HIDE DEF N
    <3>1. 0 \in 0 .. N - 1
      BY <1>10
    <3> QED BY <3>1
  <2> QED BY <1>1, <1>9, <2>1 DEF Holds, d
<1>12. Tail(q) = <<>> \/ Unstarted(Head(Tail(q)))
  <2>1. ASSUME Tail(q) # <<>> PROVE Head(Tail(q)) = q[2] /\ 2 \in 2 .. Len(q)
    BY <1>1, <1>2, <2>1
  <2> QED BY <2>1 DEF Accounted
<1>13. Holds(Tail(q), c, U, s, b, d.last, out)
  BY <1>2, <1>11, <1>12, HoldsStart
<1>14. (1 .. n) \cup (d.first .. d.last) = 1 .. d.last
  BY <1>4, <1>8
<1> QED BY <1>4, <1>7, <1>8, <1>13, <1>14 DEF d

\* What is left to send after a header: the confirmed messages are those handed over.
LEMMA HeaderFlows ==
  ASSUME TypeOK, SeqOrder, ReliableBits, FragmentsKept, NEW p \in Peer, Direction(p),
         NEW pk \in Live(p)
  PROVE  LET h == AfterHeader(p, pk)
             w == Remaining(h, pk.ack)
             s == Used(p)
             out == delivered[Other(p)][s]
         IN  /\ \E n \in Nat :
                  /\ Follows(w[s], n, Handed(p))
                  /\ (IF s \in Done(h, pk.ack)
                        THEN confirmed[p][s] \cup Head(h.waiting[s]).first .. Head(h.waiting[s]).last
                        ELSE confirmed[p][s]) = 1 .. n
                  /\ Holds(w[s], h.sub, Unread(p), s, receive[Other(p)][s], n, out)
             /\ Unread(p) # {} => Header(Head(w[s])) = Header(Head(waiting[p][s]))
             /\ w[Spare(p)] = <<>> /\ Spare(p) \notin Done(h, pk.ack)
<1> DEFINE h == AfterHeader(p, pk)
           w == Remaining(h, pk.ack)
           s == Used(p)
           t == Spare(p)
           out == delivered[Other(p)][s]
           b == receive[Other(p)][s]
           q == waiting[p][s]
           v == h.waiting[s]
           U == Unread(p)
           c == h.sub
           m == Handed(p)
<1>1. /\ s \in Streams /\ t \in Streams /\ DatagramTyped(pk)
      /\ sub[p] \in [SubChans -> SubRecords] /\ waiting[p] \in Lists
      /\ LoadsUsed(p) /\ waiting[p][t] = <<>>
  BY StreamKinds, LiveFacts DEF TypeOK, Direction, SpareUnused
<1>2. h.waiting \in Lists /\ c \in [SubChans -> SubRecords]
  BY <1>1, HeaderType
<1>3. v \in Seq(Transfers) /\ q \in Seq(Transfers)
  BY <1>1, <1>2 DEF Lists
<1>4. PICK n \in Nat : Follows(q, n, m) /\ confirmed[p][s] = 1 .. n /\ Holds(q, sub[p], U, s, b, n, out)
  BY DEF Direction, Flows
<1>5. m \in Nat
  <2>1. InHand(p) /\ reliable[p] \in ReliableRecords /\ queued[p][s] \in Nat
    BY <1>1 DEF Direction, TypeOK
  <2> QED BY <2>1 DEF InHand, ReliableRecords, Handed
<1>6. /\ h.ok /\ \A i \in U : c[i].num = sub[p][i].num /\ c[i].start = sub[p][i].start
      /\ \A i \in SubChans : c[i].state # "DIRTY"
      /\ \A i \in U : c[i].state # "FREE"
  BY <1>1, HeaderSubs
<1>7. h.waiting[t] = <<>> /\ (q = <<>> => v = <<>>)
  BY <1>1 DEF AfterHeader
<1>8. Accounted(v, c, s)
  BY <1>1, HeaderAccounted
<1>9. w[t] = <<>> /\ t \notin Done(h, pk.ack)
  BY <1>1, <1>7 DEF Remaining, Done, Complete
<1>10. w[s] = (IF s \in Done(h, pk.ack) THEN Tail(v) ELSE v) /\ (s \in Done(h, pk.ack) <=> Complete(v, pk.ack))
  BY <1>1, <1>6 DEF Remaining, Done
<1>11. U \in SUBSET LoadedIn(sub[p], s)
  BY <1>1, UnreadLoaded
<1>12. U \in SUBSET LoadedIn(c, s)
  <2> SUFFICES ASSUME NEW i \in U PROVE i \in LoadedIn(c, s)
    OBVIOUS
  <2>1. i \in SubChans /\ sub[p][i].num[s] > 0
    BY <1>11 DEF LoadedIn
  <2>2. c[i].state \in {"TOSEND", "WAITING"}
    BY <1>2, <1>6, <2>1 DEF SubRecords, SubStates
  <2>3. c[i].num[s] > 0
    BY <1>6, <2>1
  <2> QED BY <2>1, <2>2, <2>3 DEF LoadedIn
<1> HIDE DEF h, w, s, t, out, b, q, v, U, c, m
<1>13. CASE q = <<>>
  <2>1. v = <<>> /\ ~Complete(v, pk.ack)
    BY <1>7, <1>13 DEF Complete
  <2>2. Holds(v, c, U, s, b, n, out)
    BY <1>4, <1>13, <2>1 DEF Holds
  <2>3. Follows(v, n, m)
    BY <1>4, <1>13, <2>1
  <2>4. U = {}
    BY <1>8, <1>12, <2>1 DEF Accounted
  <2>5. w[s] = v /\ s \notin Done(h, pk.ack)
    BY <1>10, <2>1
  <2> QED BY <1>4, <1>9, <2>2, <2>3, <2>4, <2>5 DEF h, w, s, t, out, b, U, c, m
<1>14. CASE q # <<>>
  <2>1. /\ v # <<>> /\ Len(v) = Len(q)
        /\ Header(Head(v)) = Header(Head(q)) /\ Head(v).last = Head(q).last
        /\ Head(v).bytes = Head(q).bytes /\ Head(v).first = Head(q).first
        /\ Head(v).acked + Head(v).pending = Head(q).acked + Head(q).pending
        /\ v[1] = Head(v) /\ \A k \in 2 .. Len(q) : v[k] = q[k]
    BY <1>1, <1>14, HeaderList DEF q, v, h
  <2>2. Follows(v, n, m)
    <3>1. \A k \in 1 .. Len(q) : v[k].first = q[k].first /\ v[k].last = q[k].last /\ v[k].bytes > 0
      <4> SUFFICES ASSUME NEW k \in 1 .. Len(q)
                   PROVE  v[k].first = q[k].first /\ v[k].last = q[k].last /\ v[k].bytes > 0
        OBVIOUS
      <4>1. q[k].bytes > 0
        BY <1>4 DEF Follows
      <4>2. CASE k = 1
        BY <1>3, <1>14, <2>1, <4>1, <4>2
      <4>3. CASE k # 1
        <5>1. k \in 2 .. Len(q)
          BY <1>3, <4>3
        <5> QED BY <2>1, <4>1, <5>1
      <4> QED BY <4>2, <4>3
    <3> QED BY <1>3, <1>4, <1>5, <2>1, <3>1, FollowsSame
  <2>3. Holds(v, c, U, s, b, n, out)
    <3> DEFINE d == Head(q)
               e == Head(v)
               g == Got(d, sub[p], U, s)
               N == NumFragments(d)
               H == Header(d)
    <3>1. Got(e, c, U, s) = g
      <4>1. 0 .. e.acked + e.pending - 1 = 0 .. d.acked + d.pending - 1
        <5>1. /\ e.acked \in Int /\ e.pending \in Int /\ d.acked \in Int /\ d.pending \in Int
              /\ e.acked + e.pending = d.acked + d.pending
          <6>1. e \in Transfers /\ d \in Transfers
            BY <1>3, <1>14, <2>1, HeadType
          <6> QED BY <2>1, <6>1 DEF Transfers
        <5> HIDE DEF d, e
        <5>2. e.acked + e.pending - 1 = d.acked + d.pending - 1
          BY <5>1
        <5> QED BY <5>2
      <4> HIDE DEF d, e
      <4> QED BY <1>6, <4>1 DEF Got, g
    <3>2. NumFragments(e) = N /\ Header(e) = H /\ e.last = d.last
      BY <2>1 DEF NumFragments
    <3>3. \/ b = NULL /\ g = {} /\ out = Upto(n)
          \/ /\ b = [header |-> H, acked |-> Cardinality(g), data |-> [k \in g |-> H]]
             /\ 0 \in g /\ g # 0 .. N - 1 /\ out = Upto(n)
          \/ b = NULL /\ g = 0 .. N - 1 /\ out = Upto(d.last)
      BY <1>4, <1>14 DEF Holds
    <3> HIDE DEF g, N, H
    <3> QED BY <2>1, <3>1, <3>2, <3>3 DEF Holds
  <2>4. CASE Complete(v, pk.ack)
    <3>1. /\ U = {} /\ Head(v).last \in Nat /\ Follows(Tail(v), Head(v).last, m)
          /\ Holds(Tail(v), c, U, s, b, Head(v).last, out)
          /\ (1 .. n) \cup (Head(v).first .. Head(v).last) = 1 .. Head(v).last
      BY <1>1, <1>2, <1>3, <1>5, <1>8, <1>12, <2>2, <2>3, <2>4, DoneHolds, Zenon
    <3>2. w[s] = Tail(v) /\ s \in Done(h, pk.ack)
      BY <1>10, <2>4
    <3>3. confirmed[p][s] \cup Head(v).first .. Head(v).last = 1 .. Head(v).last
      BY <1>4, <3>1
    <3> QED BY <1>9, <3>1, <3>2, <3>3 DEF h, w, s, t, out, b, U, c, m, v
  <2>5. CASE ~Complete(v, pk.ack)
    <3>1. w[s] = v /\ s \notin Done(h, pk.ack)
      BY <1>10, <2>5
    <3> QED BY <1>4, <1>9, <2>1, <2>2, <2>3, <3>1 DEF h, w, s, t, out, b, U, c, m, q
  <2> QED BY <2>4, <2>5
<1> QED BY <1>13, <1>14

\* Where every handler is content, no datagram clears a channel.
LEMMA NotCleared ==
  ASSUME OneStream, NEW b, NEW result \in [Streams -> Outcomes]
  PROVE  ~CheckReceiving(b, result).cleared
<1>1. \A s \in Streams : result[s] = "ok"
  BY DEF OneStream
<1> QED BY <1>1 DEF CheckReceiving

\* Process at the end that accepts the datagram, as far as it concerns its own data.
LEMMA ProcessSends ==
  ASSUME TypeOK, SeqOrder, ReliableBits, OneStream, Domains, NEW p \in Peer, NEW pk \in net[p],
         Process(p, pk)
  PROVE  LET h == AfterHeader(p, pk)
         IN  /\ sub'[p] = h.sub /\ outRel'[p] = h.rel /\ waiting'[p] = Remaining(h, pk.ack)
             /\ reliable' = reliable /\ queued' = queued
             /\ confirmed'[p] = [s \in Streams |->
                  IF s \in Done(h, pk.ack)
                    THEN confirmed[p][s] \cup Head(h.waiting[s]).first .. Head(h.waiting[s]).last
                    ELSE confirmed[p][s]]
             /\ receive'[Other(p)] = receive[Other(p)] /\ delivered'[Other(p)] = delivered[Other(p)]
             /\ inRel'[Other(p)] = inRel[Other(p)]
<1> DEFINE h == AfterHeader(p, pk)
           q == Other(p)
           read == ReadAll(p, pk, h)
<1>1. AcceptHeader(p, pk, h)
  BY DEF Process, ProcessHeaderOnly, ProcessReliable
<1>2. /\ q \in Peer /\ q # p /\ p \in DOMAIN sub /\ p \in DOMAIN outRel
      /\ p \in DOMAIN waiting /\ p \in DOMAIN confirmed
  BY OtherType DEF TypeOK, Domains
<1>3. confirmed'[p] = [s \in Streams |->
         IF s \in Done(h, pk.ack)
           THEN confirmed[p][s] \cup Head(h.waiting[s]).first .. Head(h.waiting[s]).last
           ELSE confirmed[p][s]]
  BY <1>1, <1>2 DEF AcceptHeader
<1>4. /\ sub' = [sub EXCEPT ![p] = h.sub] /\ outRel' = [outRel EXCEPT ![p] = h.rel]
      /\ waiting' = [waiting EXCEPT ![p] = Remaining(h, pk.ack)]
      /\ reliable' = reliable /\ queued' = queued
      /\ receive'[q] = receive[q] /\ delivered'[q] = delivered[q] /\ inRel'[q] = inRel[q]
  <2>1. CASE ProcessHeaderOnly(p, pk)
    <3>1. delivered' = delivered /\ inRel' = inRel
      BY <2>1 DEF ProcessHeaderOnly
    <3>2. receive' = [receive EXCEPT ![p] = read.receive]
      BY <2>1 DEF ProcessHeaderOnly
    <3> HIDE DEF read, q
    <3>4. receive'[q] = receive[q]
      BY <1>2, <3>2 DEF Domains
    <3>3. /\ sub' = [sub EXCEPT ![p] = h.sub] /\ outRel' = [outRel EXCEPT ![p] = h.rel]
          /\ waiting' = [waiting EXCEPT ![p] = Remaining(h, pk.ack)]
          /\ reliable' = reliable /\ queued' = queued
      BY <2>1 DEF ProcessHeaderOnly
    <3> QED BY <3>1, <3>3, <3>4
  <2>2. CASE ProcessReliable(p, pk)
    <3>1. PICK result \in [Streams -> Outcomes] :
            LET r == CheckReceiving(read.receive, result) IN
            /\ delivered' = [delivered EXCEPT ![p] = [s \in Streams |-> @[s] \o r.handed[s]]]
            /\ receive' = [receive EXCEPT ![p] = IF r.cleared THEN NoBuffers ELSE r.receive]
            /\ waiting' = [waiting EXCEPT ![p] = IF r.cleared THEN NoLists ELSE Remaining(h, pk.ack)]
            /\ sub' = [sub EXCEPT ![p] = IF r.cleared THEN ClearedSub(h.sub) ELSE h.sub]
            /\ outRel' = [outRel EXCEPT ![p] = IF r.cleared THEN ClearedRel(h.sub, h.rel) ELSE h.rel]
            /\ reliable' = IF r.cleared THEN [reliable EXCEPT ![p] = EmptyReliable] ELSE reliable
      BY <2>2 DEF ProcessReliable
    <3>2. inRel' = [inRel EXCEPT ![p] = [inRel[p] EXCEPT ![pk.sub] = Flip(@)]] /\ queued' = queued
      BY <2>2 DEF ProcessReliable
    <3> DEFINE r == CheckReceiving(read.receive, result)
               out == [s \in Streams |-> delivered[p][s] \o r.handed[s]]
               bits == [inRel[p] EXCEPT ![pk.sub] = Flip(@)]
    <3>3. ~r.cleared
      BY NotCleared
    <3>4. delivered' = [delivered EXCEPT ![p] = out]
      BY <3>1
    <3>5. inRel' = [inRel EXCEPT ![p] = bits]
      BY <3>2
    <3> HIDE DEF r, h, out, bits, q
    <3>6. /\ receive' = [receive EXCEPT ![p] = r.receive]
          /\ waiting' = [waiting EXCEPT ![p] = Remaining(h, pk.ack)]
          /\ sub' = [sub EXCEPT ![p] = h.sub] /\ outRel' = [outRel EXCEPT ![p] = h.rel]
          /\ reliable' = reliable
      BY <3>1, <3>3 DEF r
    <3>7. receive'[q] = receive[q] /\ delivered'[q] = delivered[q] /\ inRel'[q] = inRel[q]
      BY <1>2, <3>4, <3>5, <3>6 DEF Domains, TypeOK
    <3> QED BY <3>2, <3>6, <3>7
  <2> QED BY <2>1, <2>2 DEF Process
<1> QED BY <1>2, <1>3, <1>4

\* Accepting a datagram keeps the direction in which this end sends.
LEMMA AcknowledgedDirection ==
  ASSUME TypeOK, SeqOrder, ReliableBits, FragmentsKept, OneStream, Domains, NEW p \in Peer,
         Direction(p), NEW pk \in net[p], Process(p, pk)
  PROVE  Direction(p)'
<1> DEFINE q == Other(p)
           h == AfterHeader(p, pk)
           w == Remaining(h, pk.ack)
           s == Used(p)
           t == Spare(p)
           U == Unread(p)
<1>1. pk \in Live(p) /\ Live(q)' = Live(q)
  BY ProcessNet
<1>2. /\ sub'[p] = h.sub /\ outRel'[p] = h.rel /\ waiting'[p] = w
      /\ reliable' = reliable /\ queued' = queued
      /\ confirmed'[p] = [r \in Streams |->
           IF r \in Done(h, pk.ack)
             THEN confirmed[p][r] \cup Head(h.waiting[r]).first .. Head(h.waiting[r]).last
             ELSE confirmed[p][r]]
      /\ receive'[q] = receive[q] /\ delivered'[q] = delivered[q] /\ inRel'[q] = inRel[q]
  BY ProcessSends
<1>3. /\ h.ok /\ h.rel = outRel[p]
      /\ \A i \in U : h.sub[i].num = sub[p][i].num /\ h.sub[i].start = sub[p][i].start
      /\ \A i \in SubChans : /\ h.sub[i].state # "DIRTY"
                             /\ \/ h.sub[i] = FreeSub
                                \/ h.sub[i].num = sub[p][i].num /\ sub[p][i].state # "FREE"
                                \/ h.sub[i] = sub[p][i]
  BY <1>1, HeaderSubs DEF Direction
<1>4. /\ \E n \in Nat :
           /\ Follows(w[s], n, Handed(p))
           /\ (IF s \in Done(h, pk.ack)
                 THEN confirmed[p][s] \cup Head(h.waiting[s]).first .. Head(h.waiting[s]).last
                 ELSE confirmed[p][s]) = 1 .. n
           /\ Holds(w[s], h.sub, U, s, receive[q][s], n, delivered[q][s])
      /\ U # {} => Header(Head(w[s])) = Header(Head(waiting[p][s]))
      /\ w[t] = <<>> /\ t \notin Done(h, pk.ack)
  BY <1>1, HeaderFlows
<1>5. s \in Streams /\ t \in Streams
  BY StreamKinds
<1>6. \A i \in SubChans : /\ sub[p][i].num[t] = 0
                          /\ sub[p][i].state # "DIRTY"
                          /\ (sub[p][i].state # "FREE" => sub[p][i].num[s] > 0)
  BY DEF Direction, SpareUnused, LoadsUsed
<1>7. SpareUnused(p) /\ InHand(p)
  BY DEF Direction
<1> HIDE DEF h, w
<1>8. \A i \in SubChans : /\ h.sub[i].num[t] = 0 /\ h.sub[i].state # "DIRTY"
                          /\ (h.sub[i].state # "FREE" => h.sub[i].num[s] > 0)
  <2> SUFFICES ASSUME NEW i \in SubChans
               PROVE  /\ h.sub[i].num[t] = 0 /\ h.sub[i].state # "DIRTY"
                      /\ (h.sub[i].state # "FREE" => h.sub[i].num[s] > 0)
    OBVIOUS
  <2>1. FreeSub.state = "FREE" /\ FreeSub.num[t] = 0
    BY <1>5 DEF FreeSub
  <2> HIDE DEF s, t
  <2>2. CASE h.sub[i] = FreeSub
    BY <2>1, <2>2
  <2>3. CASE h.sub[i].num = sub[p][i].num /\ sub[p][i].state # "FREE"
    BY <1>3, <1>6, <2>3
  <2>4. CASE h.sub[i] = sub[p][i]
    BY <1>6, <2>4
  <2> QED BY <1>3, <2>2, <2>3, <2>4
<1>9. SpareUnused(p)'
  BY <1>2, <1>4, <1>5, <1>7, <1>8 DEF SpareUnused
<1>10. InHand(p)' /\ Handed(p)' = Handed(p)
  BY <1>2, <1>7 DEF InHand, Handed
<1>11. LoadsUsed(p)'
  BY <1>2, <1>8 DEF LoadsUsed
<1>12. Unread(p)' = U
  BY <1>2, <1>3 DEF Unread
<1>13. Flows(p)'
  <2>1. confirmed'[p][s] = IF s \in Done(h, pk.ack)
          THEN confirmed[p][s] \cup Head(h.waiting[s]).first .. Head(h.waiting[s]).last
          ELSE confirmed[p][s]
    BY <1>2, <1>5
  <2> QED BY <1>2, <1>4, <1>10, <1>12, <2>1 DEF Flows
<1>14. Carries(p)'
  <2>1. ASSUME NEW x \in Live(q) PROVE Packed(x, h.sub, w)
    BY <1>3, <1>4, CarriesKept
  <2> QED BY <1>1, <1>2, <2>1 DEF Carries
<1> QED BY <1>9, <1>10, <1>11, <1>13, <1>14 DEF Direction

\* ReadFragments where only one stream has a chunk.
LEMMA ReadOne ==
  ASSUME NEW b, NEW k, NEW s \in Streams, NEW t \in Streams, s # t, k[t] = NULL
  PROVE  LET r == ReadSubChannelData(b[s], k[s])
             x == ReadFragments(b, k)
         IN  /\ x.ok <=> r.ok
             /\ x.receive[s] = r.buf /\ x.receive[t] = b[t]
<1> DEFINE r == ReadSubChannelData(b[s], k[s])
           x == ReadFragments(b, k)
           n == ReadSubChannelData(b[NORMAL], k[NORMAL])
           f == IF n.ok THEN ReadSubChannelData(b[FILE], k[FILE]) ELSE [ok |-> FALSE, buf |-> b[FILE]]
<1>1. ReadSubChannelData(b[t], k[t]) = [ok |-> TRUE, buf |-> b[t]]
  BY DEF ReadSubChannelData
<1>2. x.ok = f.ok /\ x.receive = [y \in Streams |-> IF y = NORMAL THEN n.buf ELSE f.buf]
  BY DEF ReadFragments
<1>3. NORMAL \in Streams /\ FILE \in Streams /\ NORMAL # FILE
  BY DEF Streams, NORMAL, FILE
<1> HIDE DEF x
<1>4. CASE s = NORMAL
  <2>1. t = FILE
    BY <1>4 DEF Streams
  <2>2. n = r /\ f = IF r.ok THEN [ok |-> TRUE, buf |-> b[t]] ELSE [ok |-> FALSE, buf |-> b[t]]
    BY <1>1, <1>4, <2>1
  <2> HIDE DEF r, n, f
  <2>3. f.buf = b[t] /\ (f.ok <=> r.ok)
    BY <2>2
  <2> QED BY <1>2, <1>3, <1>4, <2>1, <2>2, <2>3 DEF x, r
<1>5. CASE s = FILE
  <2>1. t = NORMAL
    BY <1>5 DEF Streams
  <2>2. n = [ok |-> TRUE, buf |-> b[t]] /\ f = r
    BY <1>1, <1>5, <2>1
  <2> HIDE DEF r, n, f
  <2> QED BY <1>2, <1>3, <1>5, <2>1, <2>2 DEF x, r
<1> QED BY <1>4, <1>5 DEF Streams

\* CheckReceivingList where only one stream has a buffer.
LEMMA CheckOne ==
  ASSUME OneStream, NEW b, NEW s \in Streams, NEW t \in Streams, s # t, b[t] = NULL,
         ~TooMany(b[s]), NEW result \in [Streams -> Outcomes]
  PROVE  LET r == CheckReceiving(b, result)
         IN  /\ r.receive[s] = (IF Received(b[s]) THEN NULL ELSE b[s]) /\ r.receive[t] = NULL
             /\ r.handed[s] = (IF Received(b[s]) THEN Contents(b[s]) ELSE <<>>)
             /\ r.handed[t] = <<>>
<1>1. ~TooMany(b[t]) /\ ~Received(b[t])
  BY DEF TooMany, Received
<1>2. \A x \in Streams : x = s \/ x = t
  BY DEF Streams
<1>3. \A x \in Streams : result[x] = "ok"
  BY DEF OneStream
<1>4. \A x \in Streams : ~TooMany(b[x])
  BY <1>1, <1>2
<1>5. NORMAL \in Streams
  BY DEF Streams
<1>6. /\ CheckReceiving(b, result).receive =
           [x \in Streams |-> IF Received(b[x]) THEN NULL ELSE b[x]]
      /\ CheckReceiving(b, result).handed =
           [x \in Streams |-> IF Received(b[x]) THEN Contents(b[x]) ELSE <<>>]
  BY <1>3, <1>4, <1>5 DEF CheckReceiving
<1> HIDE DEF CheckReceiving
<1> QED BY <1>1, <1>6

\* Process at the end that accepts the datagram, as far as it concerns the other's data.
LEMMA ProcessReceives ==
  ASSUME TypeOK, SeqOrder, ReliableBits, OneStream, Domains, NEW p \in Peer, NEW pk \in net[p],
         Process(p, pk)
  PROVE  LET q == Other(p)
             read == ReadFragments(receive[p], pk.chunk)
         IN  /\ sub'[q] = sub[q] /\ outRel'[q] = outRel[q] /\ waiting'[q] = waiting[q]
             /\ reliable' = reliable /\ queued' = queued /\ confirmed'[q] = confirmed[q]
             /\ \/ /\ pk.sub = NULL \/ ~read.ok
                   /\ receive'[p] = read.receive /\ delivered'[p] = delivered[p]
                   /\ inRel'[p] = inRel[p]
                \/ /\ pk.sub # NULL /\ read.ok
                   /\ inRel'[p] = [inRel[p] EXCEPT ![pk.sub] = Flip(@)]
                   /\ \E result \in [Streams -> Outcomes] :
                        LET r == CheckReceiving(read.receive, result) IN
                        /\ receive'[p] = r.receive
                        /\ delivered'[p] = [s \in Streams |-> delivered[p][s] \o r.handed[s]]
<1> DEFINE h == AfterHeader(p, pk)
           q == Other(p)
           read == ReadAll(p, pk, h)
           w == Remaining(h, pk.ack)
<1>1. pk \in Live(p)
  BY ProcessNet
<1>2. h.ok
  <2>1. 0 \in SubChans
    BY NetChanAssumption DEF SubChans, NetChanAssumption
  <2> QED BY <1>1, <2>1, HeaderValid
<1>3. read = ReadFragments(receive[p], pk.chunk)
  BY <1>2 DEF ReadAll
<1>4. AcceptHeader(p, pk, h)
  BY DEF Process, ProcessHeaderOnly, ProcessReliable
<1>5. /\ q \in Peer /\ q # p /\ p \in Peer /\ DOMAIN receive = Peer /\ DOMAIN delivered = Peer
      /\ DOMAIN confirmed = Peer /\ DOMAIN inRel = Peer /\ DOMAIN sub = Peer
      /\ DOMAIN outRel = Peer /\ DOMAIN waiting = Peer
  BY OtherType DEF TypeOK, Domains
<1>6. confirmed'[q] = confirmed[q]
  BY <1>4, <1>5 DEF AcceptHeader
<1> HIDE DEF h, read, q, w
<1>7. CASE ProcessHeaderOnly(p, pk)
  <2>1. /\ ~(pk.sub # NULL /\ read.ok)
        /\ sub' = [sub EXCEPT ![p] = h.sub] /\ outRel' = [outRel EXCEPT ![p] = h.rel]
        /\ waiting' = [waiting EXCEPT ![p] = w]
        /\ receive' = [receive EXCEPT ![p] = read.receive]
        /\ inRel' = inRel /\ reliable' = reliable /\ queued' = queued /\ delivered' = delivered
    BY <1>7 DEF ProcessHeaderOnly, h, read, w
  <2>2. /\ sub'[q] = sub[q] /\ outRel'[q] = outRel[q] /\ waiting'[q] = waiting[q]
        /\ receive'[p] = read.receive
    BY <1>5, <2>1
  <2> QED BY <1>3, <1>6, <2>1, <2>2 DEF q
<1>8. CASE ProcessReliable(p, pk)
  <2>1. /\ pk.sub # NULL /\ read.ok /\ queued' = queued
        /\ inRel' = [inRel EXCEPT ![p] = [inRel[p] EXCEPT ![pk.sub] = Flip(@)]]
    BY <1>8 DEF ProcessReliable, read, h
  <2>2. PICK result \in [Streams -> Outcomes] :
          LET r == CheckReceiving(read.receive, result) IN
          /\ delivered' = [delivered EXCEPT ![p] = [s \in Streams |-> @[s] \o r.handed[s]]]
          /\ receive' = [receive EXCEPT ![p] = IF r.cleared THEN NoBuffers ELSE r.receive]
          /\ waiting' = [waiting EXCEPT ![p] = IF r.cleared THEN NoLists ELSE w]
          /\ sub' = [sub EXCEPT ![p] = IF r.cleared THEN ClearedSub(h.sub) ELSE h.sub]
          /\ outRel' = [outRel EXCEPT ![p] = IF r.cleared THEN ClearedRel(h.sub, h.rel) ELSE h.rel]
          /\ reliable' = IF r.cleared THEN [reliable EXCEPT ![p] = EmptyReliable] ELSE reliable
    BY <1>8 DEF ProcessReliable, read, h, w
  <2> DEFINE r == CheckReceiving(read.receive, result)
             bits == [inRel[p] EXCEPT ![pk.sub] = Flip(@)]
             out == [s \in Streams |-> delivered[p][s] \o r.handed[s]]
  <2>3. ~r.cleared
    BY NotCleared
  <2>4. delivered' = [delivered EXCEPT ![p] = out] /\ inRel' = [inRel EXCEPT ![p] = bits]
    BY <2>1, <2>2
  <2> HIDE DEF r, out, bits
  <2>5. /\ receive' = [receive EXCEPT ![p] = r.receive] /\ waiting' = [waiting EXCEPT ![p] = w]
        /\ sub' = [sub EXCEPT ![p] = h.sub] /\ outRel' = [outRel EXCEPT ![p] = h.rel]
        /\ reliable' = reliable
    BY <2>2, <2>3 DEF r
  <2>6. /\ sub'[q] = sub[q] /\ outRel'[q] = outRel[q] /\ waiting'[q] = waiting[q]
        /\ receive'[p] = r.receive /\ delivered'[p] = out /\ inRel'[p] = bits
    BY <1>5, <2>4, <2>5
  <2> DEFINE z == ReadFragments(receive[p], pk.chunk)
  <2>7. /\ pk.sub # NULL /\ z.ok /\ inRel'[p] = [inRel[p] EXCEPT ![pk.sub] = Flip(@)]
        /\ receive'[p] = CheckReceiving(z.receive, result).receive
        /\ delivered'[p] = [s \in Streams |->
                               delivered[p][s] \o CheckReceiving(z.receive, result).handed[s]]
    BY <1>3, <2>1, <2>6 DEF r, out, bits
  <2> HIDE DEF z
  <2>8. \E y \in [Streams -> Outcomes] :
          /\ receive'[p] = CheckReceiving(z.receive, y).receive
          /\ delivered'[p] = [s \in Streams |-> delivered[p][s] \o CheckReceiving(z.receive, y).handed[s]]
    BY <2>7
  <2> QED BY <1>6, <2>1, <2>5, <2>6, <2>7, <2>8 DEF q, z
<1> QED BY <1>7, <1>8 DEF Process

\* What reading a chunk of stream s comes to: nothing if it is refused, and otherwise the
\* receiver holds what the subchannels outside U carried; stream t stays empty.
ChunkRead(read, q, c, U, s, t, old, n, out) ==
  \/ /\ ~read.ok /\ read.receive[s] = old /\ read.receive[t] = NULL
  \/ /\ read.ok
     /\ \A result \in [Streams -> Outcomes] :
          LET r == CheckReceiving(read.receive, result) IN
          /\ Holds(q, c, U, s, r.receive[s], n, out \o r.handed[s])
          /\ r.receive[t] = NULL /\ r.handed[t] = <<>>

\* The receiver reads the chunk of a subchannel: the next state of what it holds.
LEMMA ReadChunk ==
  ASSUME NullApart, OneStream, NEW c \in [SubChans -> SubRecords], NEW s \in Streams,
         NEW t \in Streams, s # t, NEW w, w[s] \in Seq(Transfers), w[s] # <<>>,
         Accounted(w[s], c, s), NEW U \in SUBSET LoadedIn(c, s), NEW i \in U, c[i].num[t] = 0,
         NEW b, b[t] = NULL, NEW n \in Nat, NEW m \in Nat, Follows(w[s], n, m), NEW out,
         Holds(w[s], c, U, s, b[s], n, out)
  PROVE  ChunkRead(ReadFragments(b, [x \in Streams |-> Chunk(c[i], w, x)]), w[s], c, U \ {i},
                   s, t, b[s], n, out)
<1> DEFINE k == [x \in Streams |-> Chunk(c[i], w, x)]
           read == ReadFragments(b, k)
           o == ReadSubChannelData(b[s], Chunk(c[i], w, s))
           d == Head(w[s])
           g == Got(d, c, U \ {i}, s)
           N == NumFragments(d)
           B == Buffer(Header(d), Cardinality(g), g)
<1>1. k[t] = NULL /\ k[s] = Chunk(c[i], w, s)
  BY DEF Chunk
<1>2. /\ read.ok <=> o.ok
      /\ read.receive[s] = o.buf /\ read.receive[t] = b[t]
  <2> HIDE DEF k, read
  <2>1. LET y == ReadSubChannelData(b[s], k[s])
            x == ReadFragments(b, k)
        IN  /\ x.ok <=> y.ok
            /\ x.receive[s] = y.buf /\ x.receive[t] = b[t]
    BY <1>1, ReadOne
  <2> QED BY <1>1, <2>1 DEF read
<1>3. d \in Transfers /\ HeadFits(d, c, s)
  BY HeadType DEF Accounted
<1>4. /\ d.first = n + 1 /\ d.first <= d.last /\ d.bytes > 0 /\ d.last \in Nat
  BY <1>3, FollowsTail DEF Transfers
<1>5. \/ ~o.ok /\ o.buf = b[s]
      \/ o.ok /\ o.buf = B /\ 0 \in g /\ out = Upto(n)
  <2>1. AfterRead(ReadSubChannelData(b[s], Chunk(c[i], w, s)), b[s], Header(Head(w[s])),
                  Got(Head(w[s]), c, U \ {i}, s), n, out)
    <3>1. HeadFits(Head(w[s]), c, s)
      BY <1>3
    <3> HIDE DEF d, g
    <3> QED BY <3>1, ReadHolds
  <2> QED BY <2>1 DEF AfterRead
<1> HIDE DEF k, read, o
<1>6. CASE ~o.ok /\ o.buf = b[s]
  BY <1>2, <1>6 DEF read, k, ChunkRead
<1>7. CASE o.ok /\ o.buf = B /\ 0 \in g /\ out = Upto(n)
  <2>1. /\ ~TooMany(B) /\ B # NULL
        /\ Received(B) <=> g = 0 .. N - 1
        /\ g = 0 .. N - 1 => Upto(n) \o Contents(B) = Upto(d.last)
    <3>1. d.acked + d.pending <= NumFragments(d)
      BY <1>3 DEF HeadFits
    <3> DEFINE V == U \ {i}
    <3>2. g = Got(d, c, V, s) /\ B = Buffer(Header(d), Cardinality(g), g)
      OBVIOUS
    <3> HIDE DEF d, V, g, B
    <3>3. CompletesWith(B, d, g, n)
      BY <1>3, <1>4, <3>1, <3>2, CompleteHolds
    <3> QED BY <3>3 DEF N, CompletesWith
  <2>2. Upto(n) \o <<>> = Upto(n)
    <3>1. Upto(n) \in Seq(Nat)
      BY DEF Upto
    <3> QED BY <3>1
  <2>3. read.receive[s] = B /\ read.receive[t] = NULL /\ read.ok
    BY <1>2, <1>7
  <2>4. B = [header |-> Header(d), acked |-> Cardinality(g), data |-> [j \in g |-> Header(d)]]
    BY DEF Buffer
  <2> HIDE DEF B, g, N
  <2>5. ASSUME NEW result \in [Streams -> Outcomes]
        PROVE  LET r == CheckReceiving(read.receive, result) IN
               /\ Holds(w[s], c, U \ {i}, s, r.receive[s], n, out \o r.handed[s])
               /\ r.receive[t] = NULL /\ r.handed[t] = <<>>
    <3> DEFINE r == CheckReceiving(read.receive, result)
               x == read.receive
    <3>1. /\ r.receive[s] = (IF Received(B) THEN NULL ELSE B) /\ r.receive[t] = NULL
          /\ r.handed[s] = (IF Received(B) THEN Contents(B) ELSE <<>>)
          /\ r.handed[t] = <<>>
      <4>1. x[t] = NULL /\ x[s] = B /\ ~TooMany(x[s])
        BY <2>1, <2>3
      <4> HIDE DEF x
      <4>2. LET y == CheckReceiving(x, result)
            IN  /\ y.receive[s] = (IF Received(x[s]) THEN NULL ELSE x[s]) /\ y.receive[t] = NULL
                /\ y.handed[s] = (IF Received(x[s]) THEN Contents(x[s]) ELSE <<>>)
                /\ y.handed[t] = <<>>
        BY <4>1, CheckOne
      <4> QED BY <4>1, <4>2 DEF x
    <3> HIDE DEF r
    <3>2. CASE g = 0 .. N - 1
      <4>1. r.receive[s] = NULL /\ out \o r.handed[s] = Upto(d.last)
        BY <1>7, <2>1, <3>1, <3>2
      <4> QED BY <3>1, <3>2, <4>1 DEF Holds, g, N, r
    <3>3. CASE g # 0 .. N - 1
      <4>1. r.receive[s] = B /\ out \o r.handed[s] = Upto(n) /\ 0 \in g
        BY <1>7, <2>1, <2>2, <3>1, <3>3
      <4>2. /\ r.receive[s] = [header |-> Header(d), acked |-> Cardinality(g), data |-> [j \in g |-> Header(d)]]
            /\ 0 \in g /\ g # 0 .. N - 1 /\ out \o r.handed[s] = Upto(n)
        BY <2>4, <3>3, <4>1
      <4>3. Holds(w[s], c, U \ {i}, s, r.receive[s], n, out \o r.handed[s])
        BY <4>2 DEF Holds, g, N
      <4> QED BY <3>1, <4>3 DEF r
    <3> QED BY <3>2, <3>3
  <2> QED BY <2>3, <2>5 DEF read, k, ChunkRead
<1> QED BY <1>5, <1>6, <1>7

\* Accepting a datagram keeps the direction in which the other end sends.
LEMMA ReadDirection ==
  ASSUME TypeOK, SeqOrder, ReliableBits, FragmentsKept, OneStream, NullApart, Domains,
         NEW p \in Peer, Direction(p), NEW pk \in net[Other(p)], Process(Other(p), pk)
  PROVE  Direction(p)'
<1> DEFINE q == Other(p)
           s == Used(p)
           t == Spare(p)
           U == Unread(p)
           i == pk.sub
           b == receive[q]
           out == delivered[q][s]
           read == ReadFragments(b, pk.chunk)
           w == waiting[p]
           c == sub[p]
<1>1. q \in Peer /\ Other(q) = p /\ s \in Streams /\ t \in Streams /\ s # t
  BY OtherType, StreamKinds
<1>2. pk \in Live(q) /\ Live(q)' \in SUBSET Live(q)
  <2>1. pk \in Live(q) /\ Live(q)' = {x \in Live(q) : x.seq > pk.seq}
    BY <1>1, ProcessNet
  <2> QED BY <2>1
<1>3. /\ sub'[p] = sub[p] /\ outRel'[p] = outRel[p] /\ waiting'[p] = waiting[p]
      /\ reliable' = reliable /\ queued' = queued /\ confirmed'[p] = confirmed[p]
      /\ \/ /\ i = NULL \/ ~read.ok
            /\ receive'[q] = read.receive /\ delivered'[q] = delivered[q]
            /\ inRel'[q] = inRel[q]
         \/ /\ i # NULL /\ read.ok
            /\ inRel'[q] = [inRel[q] EXCEPT ![i] = Flip(@)]
            /\ \E result \in [Streams -> Outcomes] :
                 LET r == CheckReceiving(read.receive, result) IN
                 /\ receive'[q] = r.receive
                 /\ delivered'[q] = [x \in Streams |-> delivered[q][x] \o r.handed[x]]
  BY <1>1, ProcessReceives
<1>4. /\ c \in [SubChans -> SubRecords] /\ w \in Lists /\ w[s] \in Seq(Transfers)
      /\ outRel[p] \in [SubChans -> Bit] /\ inRel[q] \in [SubChans -> Bit]
  BY <1>1 DEF TypeOK, Lists
<1>5. /\ b[t] = NULL /\ delivered[q][t] = <<>> /\ \A j \in SubChans : c[j].num[t] = 0
      /\ LoadsUsed(p) /\ Packed(pk, c, w)
  BY <1>2 DEF Direction, SpareUnused, Carries
<1>6. CASE i = NULL
  <2>1. \A x \in Streams : pk.chunk[x] = NULL
    BY <1>5, <1>6 DEF Packed, NoChunks
  <2>2. read.receive[s] = b[s] /\ read.receive[t] = b[t]
    <3>1. ReadSubChannelData(b[s], pk.chunk[s]).buf = b[s]
      BY <1>1, <2>1 DEF ReadSubChannelData
    <3> QED BY <1>1, <2>1, <3>1, ReadOne
  <2> HIDE DEF read
  <2>3. \A x \in Streams : receive'[q][x] = receive[q][x] /\ delivered'[q][x] = delivered[q][x]
    <3>1. receive'[q] = read.receive /\ delivered'[q] = delivered[q]
      BY <1>3, <1>6
    <3>2. \A x \in Streams : x = s \/ x = t
      BY StreamKinds
    <3> QED BY <2>2, <3>1, <3>2
  <2> QED BY <1>2, <1>3, <1>6, <2>3, DirectionSame
<1>7. CASE i # NULL
  <2>1. i \in U /\ i \in SubChans /\ U \in SUBSET LoadedIn(c, s)
    BY <1>2, <1>5, <1>7, LiveLoaded, UnreadLoaded DEF Unread
  <2>2. pk.chunk = [x \in Streams |-> Chunk(c[i], w, x)]
    BY <1>5, <1>7 DEF Packed
  <2>3. Accounted(w[s], c, s) /\ w[s] # <<>>
    BY <1>1, <2>1 DEF FragmentsKept, Accounted
  <2>4. PICK n \in Nat : /\ Follows(w[s], n, Handed(p)) /\ confirmed[p][s] = 1 .. n
                         /\ Holds(w[s], c, U, s, b[s], n, out)
    BY DEF Direction, Flows
  <2>5. Handed(p) \in Nat
    <3>1. InHand(p) /\ reliable[p] \in ReliableRecords /\ queued[p][s] \in Nat
      BY <1>1 DEF Direction, TypeOK
    <3> QED BY <3>1 DEF InHand, ReliableRecords, Handed
  <2>6. \/ /\ ~read.ok /\ read.receive[s] = b[s] /\ read.receive[t] = NULL
        \/ /\ read.ok
           /\ \A result \in [Streams -> Outcomes] :
                LET r == CheckReceiving(read.receive, result) IN
                /\ Holds(w[s], c, U \ {i}, s, r.receive[s], n, out \o r.handed[s])
                /\ r.receive[t] = NULL /\ r.handed[t] = <<>>
    <3> DEFINE m == Handed(p)
               z == ReadFragments(b, [x \in Streams |-> Chunk(c[i], w, x)])
    <3>1. c[i].num[t] = 0 /\ b[t] = NULL
      BY <1>5, <2>1
    <3>2. z = read
      BY <2>2
    <3> HIDE DEF m, c, w, s, t, U, i, b, out, q
    <3>3. ChunkRead(z, w[s], c, U \ {i}, s, t, b[s], n, out)
      BY <1>1, <1>4, <2>1, <2>3, <2>4, <2>5, <3>1, ReadChunk DEF m
    <3> HIDE DEF z, read
    <3> QED BY <3>2, <3>3 DEF ChunkRead
  <2> HIDE DEF read
  <2>7. CASE ~read.ok
    <3>1. read.receive[s] = b[s] /\ read.receive[t] = b[t]
      BY <1>5, <2>6, <2>7
    <3>2. receive'[q] = read.receive /\ delivered'[q] = delivered[q] /\ inRel'[q] = inRel[q]
      BY <1>3, <2>7
    <3>3. \A x \in Streams : x = s \/ x = t
      BY StreamKinds
    <3>4. \A x \in Streams : receive'[q][x] = receive[q][x] /\ delivered'[q][x] = delivered[q][x]
      BY <3>1, <3>2, <3>3
    <3> QED BY <1>2, <1>3, <3>2, <3>4, DirectionSame
  <2>8. CASE read.ok
    <3>1. PICK result \in [Streams -> Outcomes] :
            LET r == CheckReceiving(read.receive, result) IN
            /\ receive'[q] = r.receive
            /\ delivered'[q] = [x \in Streams |-> delivered[q][x] \o r.handed[x]]
      BY <1>3, <1>7, <2>8
    <3> DEFINE r == CheckReceiving(read.receive, result)
    <3>2. /\ Holds(w[s], c, U \ {i}, s, r.receive[s], n, out \o r.handed[s])
          /\ r.receive[t] = NULL /\ r.handed[t] = <<>>
      BY <2>6, <2>8
    <3> HIDE DEF r
    <3>3. /\ receive'[q][s] = r.receive[s] /\ receive'[q][t] = NULL
          /\ delivered'[q][s] = out \o r.handed[s] /\ delivered'[q][t] = <<>>
      <4>1. delivered'[q][t] = delivered[q][t] \o r.handed[t]
        BY <1>1, <3>1 DEF r
      <4>2. delivered[q][t] \o r.handed[t] = <<>>
        BY <1>5, <3>2
      <4> QED BY <1>1, <3>1, <3>2, <4>1, <4>2 DEF r
    <3>4. inRel'[q] = [inRel[q] EXCEPT ![i] = Flip(@)]
      BY <1>3, <1>7, <2>8
    <3>5. Unread(p)' = U \ {i}
      <4>1. outRel[p][i] # inRel[q][i] /\ outRel[p][i] \in Bit /\ inRel[q][i] \in Bit
        BY <1>4, <2>1 DEF Unread
      <4>2. inRel'[q][i] = outRel[p][i]
        BY <1>4, <2>1, <3>4, <4>1 DEF Flip, Bit
      <4>3. \A j \in SubChans : j # i => inRel'[q][j] = inRel[q][j]
        BY <1>4, <3>4
      <4> HIDE DEF q, i
      <4>4. \A j \in SubChans : outRel'[p][j] # inRel'[q][j] <=> outRel[p][j] # inRel[q][j] /\ j # i
        BY <1>3, <2>1, <4>2, <4>3
      <4> QED BY <4>4 DEF Unread, q
    <3>6. Handed(p)' = Handed(p) /\ InHand(p)'
      BY <1>3 DEF Handed, InHand, Direction
    <3>7. SpareUnused(p)'
      BY <1>3, <3>3 DEF Direction, SpareUnused
    <3>8. LoadsUsed(p)'
      BY <1>3, <1>5 DEF LoadsUsed
    <3>9. Carries(p)'
      BY <1>2, <1>3 DEF Direction, Carries
    <3>10. Flows(p)'
      BY <1>3, <2>4, <3>2, <3>3, <3>5, <3>6 DEF Flows
    <3> QED BY <3>6, <3>7, <3>8, <3>9, <3>10 DEF Direction
  <2> QED BY <2>7, <2>8
<1> QED BY <1>6, <1>7

\* A step of the other end that leaves the network towards it alone keeps the direction.
LEMMA OtherHostDirection ==
  ASSUME TypeOK, Domains, NEW p \in Peer, Direction(p), NEW a \in Peer, a # p,
         \/ \E n \in MessageBytes : SendReliable(a, n)
         \/ \E n \in FileBytes, isFile \in BOOLEAN : SendFile(a, n, isFile)
         \/ SendDatagram(a)
  PROVE  Direction(p)'
<1>1. a = Other(p) /\ Other(a) = p
  BY DEF Peer, Other
<1>2. /\ p \in DOMAIN waiting /\ p \in DOMAIN queued /\ p \in DOMAIN sub /\ p \in DOMAIN outRel
      /\ p \in DOMAIN reliable /\ net = [b \in Peer |-> net[b]]
  BY DEF TypeOK
<1>3. /\ receive' = receive /\ delivered' = delivered /\ confirmed' = confirmed
      /\ inRel' = inRel /\ inSeq' = inSeq
  BY DEF SendReliable, SendFile, SendDatagram, control
<1>4. /\ waiting'[p] = waiting[p] /\ queued'[p] = queued[p] /\ sub'[p] = sub[p]
      /\ outRel'[p] = outRel[p] /\ reliable'[p] = reliable[p] /\ net'[a] = net[a]
  <2>1. CASE \E n \in MessageBytes : SendReliable(a, n)
    <3>1. PICK n \in MessageBytes : SendReliable(a, n)
      BY <2>1
    <3>2. waiting' = waiting /\ sub' = sub /\ outRel' = outRel /\ net' = net
      BY <3>1 DEF SendReliable, control
    <3>3. queued'[p] = queued[p] /\ reliable'[p] = reliable[p]
      BY <1>2, <3>1 DEF SendReliable
    <3> QED BY <3>2, <3>3
  <2>2. CASE \E n \in FileBytes, isFile \in BOOLEAN : SendFile(a, n, isFile)
    <3>1. PICK n \in FileBytes, isFile \in BOOLEAN : SendFile(a, n, isFile)
      BY <2>2
    <3>2. reliable' = reliable /\ sub' = sub /\ outRel' = outRel /\ net' = net
      BY <3>1 DEF SendFile, control
    <3>3. queued'[p] = queued[p] /\ waiting'[p] = waiting[p]
      BY <1>2, <3>1 DEF SendFile
    <3> QED BY <3>2, <3>3
  <2>3. CASE SendDatagram(a)
    <3>1. queued' = queued /\ reliable'[p] = reliable[p]
      BY <1>2, <2>3 DEF SendDatagram
    <3>2. waiting'[p] = waiting[p] /\ sub'[p] = sub[p] /\ outRel'[p] = outRel[p]
      BY <1>2, <2>3 DEF SendDatagram
    <3>3. net'[a] = net[a]
      BY <1>1, <1>2, <2>3 DEF SendDatagram
    <3> QED BY <3>1, <3>2, <3>3
  <2> QED BY <2>1, <2>2, <2>3
<1>5. Live(Other(p))' = Live(Other(p))
  BY <1>1, <1>3, <1>4 DEF Live
<1> QED BY <1>3, <1>4, <1>5, DirectionSame

\* The functions stay defined at both ends.
LEMMA StepDomains == Domains /\ [Next]_vars => Domains'
<1> SUFFICES ASSUME Domains, [Next]_vars PROVE Domains'
  OBVIOUS
<1>1. CASE UNCHANGED <<receive, delivered, confirmed>>
  BY <1>1 DEF Domains
<1>2. CASE UNCHANGED vars
  BY <1>1, <1>2 DEF vars
<1>3. CASE Next
  <2>1. PICK p \in Peer : Host(p) \/ Network(p)
    BY <1>3 DEF Next
  <2>2. CASE \/ \E n \in MessageBytes : SendReliable(p, n) \/ OverflowReliable(p, n)
             \/ \E n \in FileBytes, isFile \in BOOLEAN : SendFile(p, n, isFile)
             \/ SendDatagram(p) \/ SetChoked(p)
    BY <1>1, <2>2 DEF SendReliable, OverflowReliable, SendFile, SendDatagram, SetChoked
  <2>3. CASE Clear(p)
    BY <2>3 DEF Clear, Domains
  <2>4. CASE Network(p)
    <3>1. PICK pk \in net[p] : DiscardStale(p, pk) \/ Process(p, pk)
      BY <2>4 DEF Network
    <3>2. CASE DiscardStale(p, pk)
      BY <1>1, <3>2 DEF DiscardStale
    <3>3. CASE Process(p, pk)
      <4>1. DOMAIN confirmed' = Peer
        BY <3>3 DEF Process, ProcessHeaderOnly, ProcessReliable, AcceptHeader, Domains
      <4>2. DOMAIN receive' = Peer /\ DOMAIN delivered' = Peer
        BY <3>3 DEF Process, ProcessHeaderOnly, ProcessReliable, Domains
      <4> QED BY <4>1, <4>2 DEF Domains
    <3> QED BY <3>1, <3>2, <3>3
  <2> QED BY <2>1, <2>2, <2>3, <2>4 DEF Host
<1> QED BY <1>2, <1>3

\* Every step keeps each direction.
LEMMA StepDirection ==
  ASSUME IInv, FragmentsKept, OneStream, NullApart, Domains, [Next]_vars,
         NEW p \in Peer, Direction(p)
  PROVE  Direction(p)'
<1>0. TypeOK /\ SeqOrder /\ ReliableBits
  BY DEF IInv
<1>1. CASE /\ UNCHANGED <<waiting, queued, confirmed, sub, outRel, receive, delivered, inRel, net, inSeq>>
           /\ \A b \in Peer : /\ reliable'[b].bytes = reliable[b].bytes
                              /\ reliable'[b].first = reliable[b].first
                              /\ reliable'[b].last = reliable[b].last
  <2>1. Live(Other(p))' = Live(Other(p))
    BY <1>1 DEF Live
  <2> QED BY <1>1, <2>1, DirectionSame
<1>2. CASE UNCHANGED vars
  BY <1>1, <1>2 DEF vars
<1>3. CASE Next
  <2>1. PICK a \in Peer : Host(a) \/ Network(a)
    BY <1>3 DEF Next
  <2>2. CASE \/ \E n \in MessageBytes : SendReliable(a, n)
             \/ \E n \in FileBytes, isFile \in BOOLEAN : SendFile(a, n, isFile)
             \/ SendDatagram(a)
    <3>1. CASE a = p
      BY <1>0, <2>2, <3>1, ReliableDirection, FileDirection, SendDirection
    <3>2. CASE a # p
      BY <1>0, <2>2, <3>2, OtherHostDirection
    <3> QED BY <3>1, <3>2
  <2>3. CASE \E n \in MessageBytes : OverflowReliable(a, n)
    <3>1. PICK n \in MessageBytes : OverflowReliable(a, n)
      BY <2>3
    <3>2. \A b \in Peer : /\ reliable'[b].bytes = reliable[b].bytes
                          /\ reliable'[b].first = reliable[b].first
                          /\ reliable'[b].last = reliable[b].last
      <4>1. reliable' = [reliable EXCEPT ![a].overflowed = TRUE]
        BY <3>1 DEF OverflowReliable
      <4>2. reliable \in [Peer -> ReliableRecords]
        BY <1>0 DEF TypeOK
      <4> QED BY <4>1, <4>2 DEF ReliableRecords
    <3>3. UNCHANGED <<waiting, queued, confirmed, sub, outRel, receive, delivered, inRel, net, inSeq>>
      BY <3>1 DEF OverflowReliable, control
    <3> QED BY <1>1, <3>2, <3>3
  <2>4. CASE SetChoked(a)
    BY <1>1, <2>4 DEF SetChoked
  <2>5. CASE Clear(a)
    <3>1. clears[a] < 0 /\ clears[a] \in Nat
      BY <1>0, <2>5 DEF Clear, OneStream, TypeOK
    <3> QED BY <3>1
  <2>6. CASE Network(a)
    <3>1. PICK pk \in net[a] : DiscardStale(a, pk) \/ Process(a, pk)
      BY <2>6 DEF Network
    <3>2. CASE DiscardStale(a, pk)
      BY <1>1, <3>2 DEF DiscardStale
    <3>3. CASE Process(a, pk)
      <4>1. CASE a = p
        BY <1>0, <3>3, <4>1, AcknowledgedDirection
      <4>2. CASE a # p
        <5>1. a = Other(p)
          BY <4>2 DEF Peer, Other
        <5> QED BY <1>0, <3>3, <5>1, ReadDirection
      <4> QED BY <4>1, <4>2
    <3> QED BY <3>1, <3>2, <3>3
  <2> QED BY <2>1, <2>2, <2>3, <2>4, <2>5, <2>6 DEF Host
<1> QED BY <1>2, <1>3

\* Two channels just set up have nothing under way.
LEMMA InitDirection ==
  ASSUME Init, NEW p \in Peer
  PROVE  Direction(p)
<1>1. Other(p) \in Peer /\ Used(p) \in Streams /\ Spare(p) \in Streams
  BY OtherType, StreamKinds
<1>2. \A s \in Streams : /\ waiting[p][s] = <<>> /\ queued[p][s] = 0 /\ confirmed[p][s] = {}
                         /\ receive[Other(p)][s] = NULL /\ delivered[Other(p)][s] = <<>>
                         /\ \A i \in SubChans : sub[p][i].num[s] = 0
  BY <1>1 DEF Init, NoLists, NoBuffers, FreeSub
<1>3. reliable[p].bytes = 0 /\ \A i \in SubChans : sub[p][i].state = "FREE"
  BY DEF Init, EmptyReliable, FreeSub
<1>4. Live(Other(p)) = {}
  BY <1>1 DEF Init, Live
<1>5. Flows(p)
  <2>1. Follows(<<>>, 0, 0)
    BY DEF Follows
  <2>2. 1 .. 0 = {} /\ Upto(0) = <<>>
    BY DEF Upto
  <2>3. Handed(p) = 0
    BY <1>1, <1>2, <1>3 DEF Handed
  <2>4. Holds(<<>>, sub[p], Unread(p), Used(p), NULL, 0, <<>>)
    BY <2>2 DEF Holds
  <2>5. /\ waiting[p][Used(p)] = <<>> /\ confirmed[p][Used(p)] = {}
        /\ receive[Other(p)][Used(p)] = NULL /\ delivered[Other(p)][Used(p)] = <<>>
    BY <1>1, <1>2
  <2>6. /\ Follows(waiting[p][Used(p)], 0, Handed(p)) /\ confirmed[p][Used(p)] = 1 .. 0
        /\ Holds(waiting[p][Used(p)], sub[p], Unread(p), Used(p), receive[Other(p)][Used(p)],
                 0, delivered[Other(p)][Used(p)])
    BY <2>1, <2>2, <2>3, <2>4, <2>5
  <2> QED BY <2>6 DEF Flows
<1>6. SpareUnused(p) /\ InHand(p) /\ LoadsUsed(p) /\ Carries(p)
  BY <1>1, <1>2, <1>3, <1>4 DEF SpareUnused, InHand, LoadsUsed, Carries
<1> QED BY <1>5, <1>6 DEF Direction

\* A fragment the receiver is still to read can be read, or the one it waits for is coming.
LEMMA HeaderIsComing ==
  ASSUME IInv, FragmentsKept, NullApart, StreamInv
  PROVE  HeaderComing
<1> SUFFICES ASSUME NEW p \in Peer, NEW s \in Streams,
                    NEW i \in Loaded(p, s), outRel[p][i] # inRel[Other(p)][i]
             PROVE  \/ \E j \in {k \in Loaded(p, s) : outRel[p][k] # inRel[Other(p)][k]} :
                         sub[p][j].start[s] = 0
                    \/ /\ receive[Other(p)][s] # NULL
                       /\ receive[Other(p)][s].header = Header(Head(waiting[p][s]))
  BY DEF HeaderComing
<1> DEFINE c == sub[p]
           d == Head(waiting[p][s])
           U == Unread(p)
           g == Got(d, c, U, s)
           b == receive[Other(p)][s]
<1>1. TypeOK /\ ReliableBits /\ Direction(p)
  BY DEF IInv, StreamInv
<1>2. Loaded(p, s) = LoadedIn(c, s)
  BY DEF Loaded, LoadedIn
<1>3. s = Used(p)
  <2>1. i \in SubChans /\ sub[p][i].num[s] > 0
    BY DEF Loaded
  <2>2. sub[p][i].num[Spare(p)] = 0
    BY <1>1, <2>1 DEF Direction, SpareUnused
  <2> QED BY <2>1, <2>2, StreamKinds
<1>4. U \in SUBSET LoadedIn(c, s) /\ i \in U /\ i \in SubChans
  <2>1. i \in SubChans
    BY DEF Loaded
  <2> QED BY <1>1, <1>3, <2>1, UnreadLoaded DEF Direction, Unread
<1>5. waiting[p][s] # <<>> /\ HeadFits(d, c, s)
  BY <1>2 DEF FragmentsKept, Accounted
<1>6. \A j \in LoadedIn(c, s) : c[j].start[s] \in Int /\ c[j].num[s] \in Int /\ c[j].num[s] > 0
  BY <1>1 DEF LoadedIn, TypeOK, SubRecords
<1>7. d \in Transfers /\ d.acked \in Nat /\ d.pending \in Int /\ NumFragments(d) \in Nat
  <2>1. waiting[p][s] \in Seq(Transfers)
    BY <1>1 DEF TypeOK, Lists
  <2>2. d \in Transfers
    BY <1>5, <2>1, HeadType
  <2> QED BY <2>2, TransferType, FragmentsType DEF Transfers, NumFragments
<1>8. /\ c[i].start[s] >= 0 /\ c[i].start[s] + c[i].num[s] <= d.acked + d.pending
      /\ d.acked + d.pending <= NumFragments(d) /\ c[i].num[s] > 0
      /\ c[i].start[s] \in Int /\ c[i].num[s] \in Int
  BY <1>4, <1>5, <1>6 DEF HeadFits
<1>9. \A k : k \in g <=> /\ k \in 0 .. d.acked + d.pending - 1
                         /\ \A j \in U : ~(c[j].start[s] <= k /\ k < c[j].start[s] + c[j].num[s])
  BY GotMember
<1>10. PICK n \in Nat : Holds(waiting[p][s], c, U, s, b, n, delivered[Other(p)][s])
  BY <1>1, <1>3 DEF Direction, Flows
<1>11. \/ g = {}
       \/ b = [header |-> Header(d), acked |-> Cardinality(g), data |-> [k \in g |-> Header(d)]]
       \/ g = 0 .. NumFragments(d) - 1
  BY <1>5, <1>10 DEF Holds
<1>12. CASE g = {}
  <2>1. 0 \in 0 .. d.acked + d.pending - 1
    BY <1>7, <1>8
  <2>2. PICK j \in U : c[j].start[s] <= 0 /\ 0 < c[j].start[s] + c[j].num[s]
    BY <1>9, <1>12, <2>1
  <2>3. j \in LoadedIn(c, s) /\ c[j].start[s] \in Int /\ c[j].start[s] >= 0
    BY <1>4, <1>5, <1>6 DEF HeadFits
  <2>4. c[j].start[s] = 0
    BY <2>2, <2>3
  <2> QED BY <1>2, <2>3, <2>4 DEF Unread
<1>13. CASE b = [header |-> Header(d), acked |-> Cardinality(g), data |-> [k \in g |-> Header(d)]]
  <2>1. b # NULL
    BY <1>13 DEF NullApart
  <2>2. b.header = Header(d)
    BY <1>13
  <2> QED BY <2>1, <2>2
<1>14. CASE g = 0 .. NumFragments(d) - 1
  <2>1. c[i].start[s] \in 0 .. NumFragments(d) - 1
    BY <1>7, <1>8
  <2>2. c[i].start[s] \in g
    BY <1>14, <2>1
  <2>3. ~(c[i].start[s] <= c[i].start[s] /\ c[i].start[s] < c[i].start[s] + c[i].num[s])
    BY <1>4, <1>9, <2>2
  <2> QED BY <1>8, <2>3
<1> QED BY <1>11, <1>12, <1>13, <1>14

\* A list of transfers of messages n + 1 .. m holds every one of them.
LEMMA ListCovers ==
  ASSUME NEW q \in Seq(Transfers), NEW n \in Nat, NEW m \in Nat, Follows(q, n, m)
  PROVE  /\ n <= m
         /\ \A x \in n + 1 .. m : \E k \in DOMAIN q : q[k].first <= x /\ x <= q[k].last
<1>1. \A k \in 1 .. Len(q) : q[k].first \in Nat /\ q[k].last \in Nat
  <2>1. \A k \in 1 .. Len(q) : q[k] \in Transfers
    OBVIOUS
  <2> QED BY <2>1 DEF Transfers
<1>2. Len(q) \in Nat /\ DOMAIN q = 1 .. Len(q)
  OBVIOUS
<1>3. ASSUME NEW x \in Nat, NEW K, K = {k \in 1 .. Len(q) : x <= q[k].last}, K # {}
      PROVE  \E k \in K : k = 1 \/ (k - 1 \in 1 .. Len(q) /\ q[k - 1].last < x)
  <2>1. K \in SUBSET Nat
    BY <1>3
  <2>2. PICK k \in K : \A j \in K : k <= j
    BY <1>3, <2>1, LeastOf
  <2>3. k \in 1 .. Len(q)
    BY <1>3
  <2>4. CASE k # 1
    <3>1. k - 1 \in 1 .. Len(q) /\ ~(k <= k - 1)
      BY <1>2, <2>3, <2>4
    <3>2. ~(x <= q[k - 1].last) /\ q[k - 1].last \in Nat
      BY <1>1, <1>3, <2>2, <3>1
    <3> QED BY <3>1, <3>2
  <2> QED BY <2>4
<1>4. ASSUME NEW x \in n + 1 .. m
      PROVE  \E k \in DOMAIN q : q[k].first <= x /\ x <= q[k].last
  <2> DEFINE K == {k \in 1 .. Len(q) : x <= q[k].last}
  <2>1. x \in Nat /\ Len(q) # 0 /\ m = q[Len(q)].last
    BY <1>2 DEF Follows
  <2>2. Len(q) \in K
    BY <1>1, <1>2, <2>1
  <2>3. PICK k \in K : k = 1 \/ (k - 1 \in 1 .. Len(q) /\ q[k - 1].last < x)
    <3> HIDE DEF K
    <3>1. K # {}
      BY <2>2
    <3> QED BY <1>3, <2>1, <3>1 DEF K
  <2>4. q[k].first = (IF k = 1 THEN n ELSE q[k - 1].last) + 1
    BY DEF Follows
  <2>5. q[k].first <= x
    BY <1>1, <2>1, <2>3, <2>4
  <2> QED BY <1>2, <2>5
<1>5. n <= m
  <2> SUFFICES ASSUME m < n PROVE FALSE
    OBVIOUS
  <2>1. Len(q) # 0 /\ m = q[Len(q)].last
    BY <1>2 DEF Follows
  <2> DEFINE K == {k \in 1 .. Len(q) : q[k].last < n}
  <2>2. K \in SUBSET Nat /\ Len(q) \in K
    BY <1>2, <2>1
  <2>3. PICK k \in K : \A j \in K : k <= j
    <3> HIDE DEF K
    <3> QED BY <2>2, LeastOf
  <2>4. k \in 1 .. Len(q) /\ q[k].last < n
    OBVIOUS
  <2>5. /\ q[k].first = (IF k = 1 THEN n ELSE q[k - 1].last) + 1
        /\ q[k].first <= q[k].last
    BY <2>4 DEF Follows
  <2>6. k # 1
    BY <1>1, <2>4, <2>5
  <2>7. k - 1 \in 1 .. Len(q) /\ ~(k <= k - 1)
    BY <1>2, <2>4, <2>6
  <2>8. q[k - 1].last < n
    BY <1>1, <2>4, <2>5, <2>6, <2>7
  <2>9. k - 1 \in K
    BY <2>7, <2>8
  <2> QED BY <2>3, <2>7, <2>9
<1> QED BY <1>4, <1>5

\* How far a direction has come: messages 1 .. n are confirmed and 1 .. a handed over.
Reached(p, s, n, a) ==
  /\ n <= a /\ a <= queued[p][s]
  /\ confirmed[p][s] = 1 .. n /\ delivered[Other(p)][s] = Upto(a)
NothingAbandoned == \A p \in Peer, s \in Streams : Abandoned(p, s) = {}
Progress == \A p \in Peer, s \in Streams : \E n, a \in Nat : Reached(p, s, n, a)

\* The messages cut into transfers or still in hand come after those handed over.
LEMMA HandedBound ==
  ASSUME TypeOK, NEW p \in Peer, Direction(p)
  PROVE  /\ Handed(p) \in Nat /\ queued[p][Used(p)] \in Nat /\ Handed(p) <= queued[p][Used(p)]
         /\ \A x \in Handed(p) + 1 .. queued[p][Used(p)] :
              /\ Used(p) = NORMAL /\ reliable[p].bytes > 0
              /\ x \in reliable[p].first .. reliable[p].last
<1>1. /\ reliable[p] \in ReliableRecords /\ queued[p] \in [Streams -> Nat]
      /\ reliable[p].bytes \in Nat /\ reliable[p].first \in Nat /\ reliable[p].last \in Nat
  BY DEF TypeOK, ReliableRecords
<1>2. queued[p][Used(p)] \in Nat
  BY <1>1, StreamKinds
<1>3. CASE reliable[p].bytes > 0
  <2>1. Used(p) = NORMAL
    <3>1. Spare(p) # NORMAL
      BY <1>3 DEF Direction, SpareUnused
    <3> QED BY <3>1, StreamKinds
  <2>2. 0 < reliable[p].first /\ reliable[p].first <= reliable[p].last
        /\ reliable[p].last = queued[p][NORMAL] /\ Handed(p) = reliable[p].first - 1
    BY <1>3 DEF Direction, InHand, Handed
  <2>3. queued[p][Used(p)] = reliable[p].last
    BY <2>1, <2>2
  <2> QED BY <1>1, <1>3, <2>1, <2>2, <2>3
<1>4. CASE ~(reliable[p].bytes > 0)
  <2>1. Handed(p) = queued[p][Used(p)]
    BY <1>4 DEF Handed
  <2> QED BY <1>2, <2>1
<1> QED BY <1>3, <1>4

\* A direction confirms what it handed over and has not forgotten the rest.
LEMMA StreamProgress == TypeOK /\ StreamInv => Progress /\ NothingAbandoned
<1> SUFFICES ASSUME TypeOK, StreamInv, NEW p \in Peer, NEW s \in Streams
             PROVE  (\E n, a \in Nat : Reached(p, s, n, a)) /\ Abandoned(p, s) = {}
  BY DEF Progress, NothingAbandoned
<1>1. Direction(p)
  BY DEF StreamInv
<1>2. CASE s = Spare(p)
  <2>1. confirmed[p][s] = {} /\ delivered[Other(p)][s] = <<>> /\ queued[p][s] = 0
    BY <1>1, <1>2 DEF Direction, SpareUnused
  <2>2. 1 .. 0 = {} /\ Upto(0) = <<>>
    BY DEF Upto
  <2>3. Reached(p, s, 0, 0)
    BY <2>1, <2>2 DEF Reached
  <2> QED BY <2>1, <2>2, <2>3 DEF Abandoned
<1>3. CASE s = Used(p)
  <2> DEFINE q == waiting[p][s]
             m == Handed(p)
             out == delivered[Other(p)][s]
  <2>1. PICK n \in Nat : /\ Follows(q, n, m) /\ confirmed[p][s] = 1 .. n
                         /\ Holds(q, sub[p], Unread(p), s, receive[Other(p)][s], n, out)
    BY <1>1, <1>3 DEF Direction, Flows
  <2>2. /\ m \in Nat /\ queued[p][s] \in Nat /\ m <= queued[p][s]
        /\ \A x \in m + 1 .. queued[p][s] : /\ s = NORMAL /\ reliable[p].bytes > 0
                                            /\ x \in reliable[p].first .. reliable[p].last
    BY <1>1, <1>3, HandedBound
  <2>3. q \in Seq(Transfers)
    BY DEF TypeOK, Lists
  <2> HIDE DEF m, q
  <2>4. n <= m /\ \A x \in n + 1 .. m : \E k \in DOMAIN q : q[k].first <= x /\ x <= q[k].last
    BY <2>1, <2>2, <2>3, ListCovers
  <2>5. \E a \in Nat : n <= a /\ a <= m /\ out = Upto(a)
    <3>1. CASE out = Upto(n)
      BY <2>4, <3>1
    <3>2. CASE q # <<>> /\ out = Upto(Head(q).last)
      <4>1. Head(q) \in Transfers /\ Tail(q) \in Seq(Transfers)
        BY <2>3, <3>2, HeadType
      <4>2. Head(q).first \in Nat /\ Head(q).last \in Nat
        BY <4>1 DEF Transfers
      <4>3. /\ Head(q).first = n + 1 /\ Head(q).first <= Head(q).last
            /\ Follows(Tail(q), Head(q).last, m)
        BY <2>1, <2>2, <2>3, <3>2, FollowsTail
      <4>4. Head(q).last <= m
        BY <2>2, <4>1, <4>2, <4>3, ListCovers
      <4> QED BY <3>2, <4>2, <4>3, <4>4
    <3> QED BY <2>1, <3>1, <3>2 DEF Holds
  <2>6. \E a \in Nat : Reached(p, s, n, a)
    BY <2>1, <2>2, <2>5 DEF Reached
  <2>7. ASSUME NEW x \in 1 .. queued[p][s]
        PROVE  \/ x \in confirmed[p][s]
               \/ \E k \in DOMAIN q : x \in q[k].first .. q[k].last
               \/ s = NORMAL /\ reliable[p].bytes > 0 /\ x \in reliable[p].first .. reliable[p].last
    <3>1. CASE x \in 1 .. n
      BY <2>1, <3>1
    <3>2. CASE x \in n + 1 .. m
      <4>1. PICK k \in DOMAIN q : q[k].first <= x /\ x <= q[k].last
        BY <2>4, <3>2
      <4>2. q[k] \in Transfers
        BY <2>3
      <4>3. x \in q[k].first .. q[k].last
        BY <4>1, <4>2 DEF Transfers
      <4> QED BY <4>3
    <3>3. CASE x \in m + 1 .. queued[p][s]
      BY <2>2, <3>3
    <3> QED BY <2>2, <3>1, <3>2, <3>3
  <2>8. Abandoned(p, s) = {}
    <3> SUFFICES ASSUME NEW x \in Abandoned(p, s) PROVE FALSE
      OBVIOUS
    <3> DEFINE listed == UNION {q[k].first .. q[k].last : k \in DOMAIN q}
               hand == IF s = NORMAL /\ reliable[p].bytes > 0
                         THEN reliable[p].first .. reliable[p].last ELSE {}
    <3>1. x \in (1 .. queued[p][s]) \ (confirmed[p][s] \cup listed \cup hand)
      BY DEF Abandoned, q
    <3> HIDE DEF listed, hand
    <3>2. x \in 1 .. queued[p][s] /\ x \notin confirmed[p][s] /\ x \notin listed /\ x \notin hand
      BY <3>1
    <3>3. \A k \in DOMAIN q : ~(x \in q[k].first .. q[k].last)
      BY <3>2 DEF listed
    <3>4. ~(s = NORMAL /\ reliable[p].bytes > 0 /\ x \in reliable[p].first .. reliable[p].last)
      BY <3>2 DEF hand
    <3> QED BY <2>7, <3>2, <3>3, <3>4
  <2> QED BY <2>6, <2>8
<1> QED BY <1>2, <1>3, StreamKinds

\* What is confirmed was handed over.
LEMMA ConfirmedIsDelivered ==
  ASSUME TypeOK, StreamInv
  PROVE  ConfirmedMeansDelivered
<1> SUFFICES ASSUME NEW p \in Peer, NEW s \in Streams, NEW m \in confirmed[p][s]
             PROVE  \E k \in DOMAIN delivered[Other(p)][s] : delivered[Other(p)][s][k] = m
  BY DEF ConfirmedMeansDelivered
<1>1. PICK n, a \in Nat : Reached(p, s, n, a)
  BY StreamProgress DEF Progress
<1>2. m \in 1 .. a
  BY <1>1 DEF Reached
<1>3. DOMAIN Upto(a) = 1 .. a /\ Upto(a)[m] = m
  BY <1>2 DEF Upto
<1> QED BY <1>1, <1>2, <1>3 DEF Reached

\* The invariant of the directions is kept.
LEMMA StepStream ==
  ASSUME OneStream, NullApart, IInv, FragmentsKept, StreamInv, [Next]_vars
  PROVE  StreamInv'
<1>1. Domains /\ \A p \in Peer : Direction(p)
  BY DEF StreamInv
<1>2. Domains'
  BY <1>1, StepDomains
<1>3. \A p \in Peer : Direction(p)'
  BY <1>1, StepDirection
<1> QED BY <1>2, <1>3 DEF StreamInv

\* Each end uses one stream: every step of what was sent, received and confirmed.
LEMMA StreamKept ==
  OneStream /\ NullApart => (Spec => [](IInv /\ FragmentsKept /\ StreamInv))
<1> SUFFICES ASSUME OneStream, NullApart
             PROVE  Spec => [](IInv /\ FragmentsKept /\ StreamInv)
  OBVIOUS
<1>1. Init => IInv /\ FragmentsKept /\ StreamInv
  <2> SUFFICES ASSUME Init PROVE IInv /\ FragmentsKept /\ StreamInv
    OBVIOUS
  <2>1. Domains
    BY DEF Init, Domains
  <2> QED BY <2>1, InitInv, InitAccounted, InitDirection DEF StreamInv
<1>2. IInv /\ FragmentsKept /\ StreamInv /\ [Next]_vars => (IInv /\ FragmentsKept /\ StreamInv)'
  BY StepInv, StepAccounted, StepStream DEF IInv
<1> QED BY <1>1, <1>2, PTL DEF Spec

\* Where each end uses one stream and nothing is cleared, what the receiver has yet to
\* read can be read: the fragment that opens the buffer was read or is to be read too.
THEOREM HeaderComes == OneStream /\ NullApart => (Spec => []HeaderComing)
<1> SUFFICES ASSUME OneStream, NullApart PROVE Spec => []HeaderComing
  OBVIOUS
<1>1. IInv /\ FragmentsKept /\ StreamInv => HeaderComing
  BY HeaderIsComing
<1>2. Spec => [](IInv /\ FragmentsKept /\ StreamInv)
  BY StreamKept
<1> QED BY <1>1, <1>2, PTL

\* Where each end uses one stream and nothing is cleared, every message the sender drops
\* as sent was given to the handler at the other end.
THEOREM ConfirmedDelivered == OneStream /\ NullApart => (Spec => []ConfirmedMeansDelivered)
<1> SUFFICES ASSUME OneStream, NullApart PROVE Spec => []ConfirmedMeansDelivered
  OBVIOUS
<1>1. IInv /\ FragmentsKept /\ StreamInv => ConfirmedMeansDelivered
  BY ConfirmedIsDelivered DEF IInv
<1>2. Spec => [](IInv /\ FragmentsKept /\ StreamInv)
  BY StreamKept
<1> QED BY <1>1, <1>2, PTL

-----------------------------------------------------------------------------
(* The channel implements reliable streams *)

\* Accepting a datagram, the receiver reads and forgets nothing it has read.
LEMMA UnreadShrinks ==
  ASSUME TypeOK, SeqOrder, ReliableBits, OneStream, Domains, NEW p \in Peer, Direction(p),
         NEW pk \in net[Other(p)], Process(Other(p), pk)
  PROVE  Unread(p)' \in SUBSET Unread(p)
<1> DEFINE q == Other(p)
           i == pk.sub
<1>1. q \in Peer /\ Other(q) = p
  BY OtherType
<1>2. pk \in Live(q)
  BY <1>1, ProcessNet
<1>3. /\ outRel'[p] = outRel[p]
      /\ inRel'[q] = inRel[q] \/ (i # NULL /\ inRel'[q] = [inRel[q] EXCEPT ![i] = Flip(@)])
  BY <1>1, ProcessReceives
<1>4. inRel[q] \in [SubChans -> Bit] /\ outRel[p] \in [SubChans -> Bit]
  BY <1>1 DEF TypeOK
<1>5. CASE inRel'[q] = inRel[q]
  BY <1>3, <1>5 DEF Unread
<1>6. CASE i # NULL /\ inRel'[q] = [inRel[q] EXCEPT ![i] = Flip(@)]
  <2>1. i \in SubChans /\ outRel[p][i] # inRel[q][i]
    BY <1>2, <1>6, LiveLoaded DEF Direction, Unread
  <2>2. outRel[p][i] \in Bit /\ inRel[q][i] \in Bit
    BY <1>4, <2>1
  <2>3. inRel'[q][i] = outRel[p][i]
    BY <1>4, <1>6, <2>1, <2>2 DEF Flip, Bit
  <2>4. \A j \in SubChans : j # i => inRel'[q][j] = inRel[q][j]
    BY <1>4, <1>6
  <2> HIDE DEF q, i
  <2>5. \A j \in SubChans : outRel'[p][j] # inRel'[q][j] => outRel[p][j] # inRel[q][j]
    BY <1>3, <2>3, <2>4
  <2> QED BY <2>5 DEF Unread, q
<1> QED BY <1>3, <1>5, <1>6

\* Accepting a datagram hands over the messages that come next, or none.
LEMMA ReceivesOn ==
  ASSUME TypeOK, SeqOrder, ReliableBits, FragmentsKept, OneStream, NullApart, Domains,
         NEW p \in Peer, Direction(p), NEW pk \in net[Other(p)], Process(Other(p), pk),
         NEW s \in Streams
  PROVE  /\ queued' = queued /\ confirmed'[p][s] = confirmed[p][s]
         /\ \/ delivered'[Other(p)][s] = delivered[Other(p)][s]
            \/ \E a, b \in Nat : /\ a <= b /\ delivered[Other(p)][s] = Upto(a)
                                 /\ delivered'[Other(p)][s] = Upto(b)
<1> DEFINE q == Other(p)
           l == waiting[p][s]
           d == Head(waiting[p][s])
           c == sub[p]
           U == Unread(p)
           g == Got(d, c, U, s)
           h == Got(d, c, U', s)
           all == 0 .. NumFragments(d) - 1
           out == delivered[q][s]
           new == delivered'[q][s]
<1>1. q \in Peer /\ Other(q) = p
  BY OtherType
<1>2. /\ queued' = queued /\ confirmed'[p] = confirmed[p]
      /\ waiting'[p] = waiting[p] /\ sub'[p] = sub[p]
  BY <1>1, ProcessReceives
<1>3. Direction(p)'
  BY ReadDirection
<1>4. CASE s = Spare(p)
  BY <1>2, <1>3, <1>4 DEF Direction, SpareUnused
<1>5. CASE s = Used(p)
  <2>1. PICK n \in Nat :
          /\ Follows(l, n, Handed(p)) /\ confirmed[p][s] = 1 .. n
          /\ Holds(l, c, U, s, receive[q][s], n, out)
    BY <1>3, <1>5 DEF Direction, Flows
  <2>2. PICK m \in Nat :
          confirmed'[p][s] = 1 .. m /\ Holds(l, c, U', s, receive'[q][s], m, new)
    BY <1>2, <1>3, <1>5 DEF Direction, Flows
  <2>3. n = m
    <3>1. 1 .. n = 1 .. m
      BY <1>2, <2>1, <2>2
    <3> QED BY <3>1
  <2>4. CASE l = <<>>
    BY <1>2, <2>1, <2>2, <2>3, <2>4 DEF Holds
  <2>5. CASE l # <<>>
    <3>1. l \in Seq(Transfers) /\ Handed(p) \in Nat
      BY HandedBound DEF TypeOK, Lists
    <3>2. /\ d \in Transfers /\ HeadFits(d, c, s) /\ d.last \in Nat
          /\ n <= d.last /\ d.bytes > 0
      <4>1. d \in Transfers /\ d.first \in Nat /\ d.last \in Nat
        BY <2>5, <3>1, HeadType DEF Transfers
      <4>2. d.first = n + 1 /\ d.first <= d.last /\ d.bytes > 0
        BY <2>1, <2>5, <3>1, FollowsTail
      <4>3. HeadFits(d, c, s)
        BY <2>5 DEF FragmentsKept, Accounted
      <4> QED BY <4>1, <4>2, <4>3
    <3>3. out = Upto(n) \/ (g = all /\ out = Upto(d.last))
      BY <2>1, <2>5 DEF Holds
    <3>4. new = Upto(n) \/ new = Upto(d.last)
      BY <2>2, <2>3, <2>5 DEF Holds
    <3>5. g = all => new = Upto(d.last)
      <4> SUFFICES ASSUME g = all PROVE new = Upto(d.last)
        OBVIOUS
      <4>1. g \subseteq h
        <5>1. U' \in SUBSET U
          BY UnreadShrinks
        <5> QED BY <5>1 DEF Got
      <4>2. h \in SUBSET all /\ all # {}
        <5>1. d.acked + d.pending <= NumFragments(d)
          BY <3>2 DEF HeadFits
        <5> DEFINE V == U'
        <5>2. Got(d, c, V, s) \in SUBSET (0 .. NumFragments(d) - 1) /\ NumFragments(d) \in Nat
          <6> HIDE DEF V, d
          <6> QED BY <3>2, <5>1, GotWithin
        <5>3. NumFragments(d) > 0
          <6>1. d.bytes \in Nat
            BY <3>2 DEF Transfers
          <6> QED BY <3>2, <6>1, FragmentsPositive DEF NumFragments
        <5>4. 0 \in all
          BY <5>2, <5>3
        <5> QED BY <5>2, <5>4
      <4>3. h = all /\ h # {}
        BY <4>1, <4>2
      <4> QED BY <2>2, <2>3, <2>5, <4>3 DEF Holds
    <3>6. \E a, b \in Nat : a <= b /\ out = Upto(a) /\ new = Upto(b)
      <4> HIDE DEF out, new, g, all
      <4>1. n \in Nat /\ d.last \in Nat /\ n <= d.last
        BY <3>2
      <4>2. CASE out = Upto(n)
        BY <3>4, <4>1, <4>2
      <4>3. CASE g = all /\ out = Upto(d.last)
        BY <3>5, <4>1, <4>3
      <4> QED BY <3>3, <4>2, <4>3
    <3> QED BY <1>2, <3>6
  <2> QED BY <2>4, <2>5
<1> QED BY <1>4, <1>5, StreamKinds

\* What a step does to one stream: a message is handed in, some are handed over, or
\* at most some are confirmed.
LEMMA StreamSteps ==
  ASSUME OneStream, NullApart, IInv, FragmentsKept, StreamInv, [Next]_vars,
         NEW p \in Peer, NEW s \in Streams
  PROVE  \/ /\ queued'[p][s] = queued[p][s] + 1 /\ confirmed'[p][s] = confirmed[p][s]
            /\ delivered'[Other(p)][s] = delivered[Other(p)][s]
         \/ /\ queued'[p][s] = queued[p][s] /\ confirmed'[p][s] = confirmed[p][s]
            /\ \E a, b \in Nat : /\ a <= b /\ delivered[Other(p)][s] = Upto(a)
                                 /\ delivered'[Other(p)][s] = Upto(b)
         \/ /\ queued'[p][s] = queued[p][s] /\ confirmed[p][s] \subseteq confirmed'[p][s]
            /\ delivered'[Other(p)][s] = delivered[Other(p)][s]
<1>0. /\ TypeOK /\ SeqOrder /\ ReliableBits /\ Domains /\ Direction(p)
      /\ queued \in [Peer -> [Streams -> Nat]]
  BY DEF IInv, StreamInv, TypeOK
<1>1. CASE UNCHANGED <<queued, confirmed, delivered>>
  BY <1>1
<1>2. CASE UNCHANGED vars
  BY <1>1, <1>2 DEF vars
<1>3. CASE Next
  <2>1. PICK a \in Peer : Host(a) \/ Network(a)
    BY <1>3 DEF Next
  <2>2. CASE \E n \in MessageBytes : SendReliable(a, n)
    <3>1. PICK n \in MessageBytes : SendReliable(a, n)
      BY <2>2
    <3>2. /\ queued' = [queued EXCEPT ![a][NORMAL] = queued[a][NORMAL] + 1]
          /\ confirmed' = confirmed /\ delivered' = delivered
      BY <3>1 DEF SendReliable
    <3>3. queued'[p][s] \in {queued[p][s], queued[p][s] + 1}
      BY <1>0, <3>2
    <3> QED BY <3>2, <3>3
  <2>3. CASE \E n \in FileBytes, isFile \in BOOLEAN : SendFile(a, n, isFile)
    <3>1. PICK n \in FileBytes, isFile \in BOOLEAN : SendFile(a, n, isFile)
      BY <2>3
    <3>2. /\ queued' = [queued EXCEPT ![a][FILE] = queued[a][FILE] + 1]
          /\ confirmed' = confirmed /\ delivered' = delivered
      BY <3>1 DEF SendFile
    <3>3. queued'[p][s] \in {queued[p][s], queued[p][s] + 1}
      BY <1>0, <3>2
    <3> QED BY <3>2, <3>3
  <2>4. CASE \/ \E n \in MessageBytes : OverflowReliable(a, n)
             \/ SendDatagram(a) \/ SetChoked(a) \/ Clear(a)
    BY <1>1, <2>4 DEF OverflowReliable, SendDatagram, SetChoked, Clear
  <2>5. CASE Network(a)
    <3>1. PICK pk \in net[a] : DiscardStale(a, pk) \/ Process(a, pk)
      BY <2>5 DEF Network
    <3>2. CASE DiscardStale(a, pk)
      BY <1>1, <3>2 DEF DiscardStale
    <3>3. CASE Process(a, pk) /\ a = p
      <4>1. /\ queued' = queued /\ delivered'[Other(p)] = delivered[Other(p)]
            /\ confirmed'[p] = [r \in Streams |->
                 IF r \in Done(AfterHeader(p, pk), pk.ack)
                   THEN confirmed[p][r] \cup Head(AfterHeader(p, pk).waiting[r]).first
                                              .. Head(AfterHeader(p, pk).waiting[r]).last
                   ELSE confirmed[p][r]]
        BY <1>0, <3>3, ProcessSends
      <4>2. confirmed[p][s] \subseteq confirmed'[p][s]
        BY <4>1
      <4> QED BY <4>1, <4>2
    <3>4. CASE Process(a, pk) /\ a # p
      <4>1. a = Other(p)
        BY <3>4 DEF Peer, Other
      <4>2. /\ queued' = queued /\ confirmed'[p][s] = confirmed[p][s]
            /\ \/ delivered'[Other(p)][s] = delivered[Other(p)][s]
               \/ \E x, b \in Nat : /\ x <= b /\ delivered[Other(p)][s] = Upto(x)
                                    /\ delivered'[Other(p)][s] = Upto(b)
        BY <1>0, <3>4, <4>1, ReceivesOn
      <4> QED BY <4>2
    <3> QED BY <3>1, <3>2, <3>3, <3>4
  <2> QED BY <2>1, <2>2, <2>3, <2>4, <2>5 DEF Host
<1> QED BY <1>2, <1>3

\* One stream of p towards q.
Stream(p, q, s) == INSTANCE ReliableStream WITH
  sent <- queued[p][s], received <- delivered[q][s],
  confirmed <- confirmed[p][s], abandoned <- Abandoned(p, s)

\* Handing over messages a + 1 .. b is what the specification of a stream calls Receive.
LEMMA ReceiveRun ==
  ASSUME NEW p, NEW q, NEW s, NEW a \in Nat, NEW b \in Nat, a < b, b <= queued[p][s],
         queued[p][s] \in Nat, Stream(p, q, s)!Latest = a, Abandoned(p, s) = {},
         delivered[q][s] = Upto(a), delivered'[q][s] = Upto(b),
         queued'[p][s] = queued[p][s], confirmed'[p][s] = confirmed[p][s], Abandoned(p, s)' = {}
  PROVE  Stream(p, q, s)!Receive
<1> DEFINE S == a + 1 .. b
           Size(T) == Stream(p, q, s)!Cardinality(T)
           Nth(k) == CHOOSE m \in S : Size({n \in S : n <= m}) = k
           nth == [k \in 1 .. Size(S) |-> Nth(k)]
<1>1. \A T : Size(T) = Cardinality(T)
  BY DEF Stream!Cardinality, Cardinality
<1>2. b - a \in Nat /\ Size(S) = b - a
  <2>1. Cardinality(a + 1 .. b) = IF a + 1 > b THEN 0 ELSE b - (a + 1) + 1
    BY FS_Interval
  <2> HIDE DEF Size
  <2> QED BY <1>1, <2>1
<1>3. ASSUME NEW m \in S PROVE Size({n \in S : n <= m}) = m - a
  <2> DEFINE T == {n \in S : n <= m}
  <2>1. T = a + 1 .. m /\ m \in Nat /\ ~(a + 1 > m)
    OBVIOUS
  <2>2. Cardinality(a + 1 .. m) = IF a + 1 > m THEN 0 ELSE m - (a + 1) + 1
    BY <2>1, FS_Interval
  <2>3. m - (a + 1) + 1 = m - a
    BY <2>1
  <2> HIDE DEF T, Size
  <2>4. Size(T) = m - a
    BY <1>1, <2>1, <2>2, <2>3
  <2> QED BY <2>4 DEF T
<1>4. ASSUME NEW k \in 1 .. b - a PROVE Nth(k) = a + k
  <2> DEFINE Rank(m) == Size({n \in S : n <= m})
  <2>1. \A m \in S : Rank(m) = m - a
    BY <1>3
  <2>2. Nth(k) = CHOOSE m \in S : Rank(m) = k
    OBVIOUS
  <2>3. k \in Int /\ a + k \in S /\ \A m \in S : m \in Int
    BY <1>2
  <2> HIDE DEF Nth, S, Rank
  <2>4. \A m \in S : Rank(m) = k <=> m = a + k
    BY <2>1, <2>3
  <2> QED BY <2>2, <2>3, <2>4
<1>5. S # {} /\ \A x \in S : x \in a + 1 .. queued[p][s]
  OBVIOUS
<1>6. nth[Size(S)] = b /\ Upto(b) = Upto(a) \o nth
  <2> DEFINE more == [k \in 1 .. b - (a + 1) + 1 |-> (a + 1) + k - 1]
             count == Size(S)
  <2>1. Upto(a) \o more = Upto(b)
    <3>1. a <= b
      OBVIOUS
    <3> QED BY <3>1, UptoAppend, Zenon
  <2>2. count = b - a /\ b - a \in 1 .. b - a /\ a + (b - a) = b
    BY <1>2
  <2> HIDE DEF Size, Nth, S, count
  <2>3. nth[count] = b
    <3>1. Nth(b - a) = b
      BY <1>4, <2>2
    <3> QED BY <2>2, <3>1 DEF count
  <2>4. nth = more
    <3>1. b - (a + 1) + 1 = b - a /\ \A k \in 1 .. b - a : (a + 1) + k - 1 = a + k
      BY <1>2
    <3> QED BY <1>4, <2>2, <3>1 DEF count
  <2> HIDE DEF nth, more
  <2> QED BY <2>1, <2>3, <2>4 DEF count
<1>7. \E T \in (SUBSET (a + 1 .. queued[p][s])) \ {{}} :
        LET count == Stream(p, q, s)!Cardinality(T)
            list == [k \in 1 .. count |->
                       CHOOSE m \in T : Stream(p, q, s)!Cardinality({n \in T : n <= m}) = k]
        IN  /\ (a + 1 .. list[count]) \ T \subseteq {}
            /\ delivered'[q][s] = delivered[q][s] \o list
  <2>1. S \in (SUBSET (a + 1 .. queued[p][s])) \ {{}}
    <3> HIDE DEF S
    <3> QED BY <1>5
  <2>2. (a + 1 .. nth[Size(S)]) \ S \subseteq {} /\ delivered'[q][s] = delivered[q][s] \o nth
    <3> HIDE DEF nth, Size
    <3> QED BY <1>6
  <2> QED BY <2>1, <2>2, Zenon
<1> QED BY <1>7, Zenon DEF Stream!Receive

\* Two channels just set up are at the beginning of every stream.
LEMMA StreamBegins ==
  ASSUME Init, NEW p \in Peer, NEW s \in Streams
  PROVE  Stream(p, Other(p), s)!Init
<1>1. /\ queued[p][s] = 0 /\ delivered[Other(p)][s] = <<>> /\ confirmed[p][s] = {}
  BY OtherType DEF Init, NoLists
<1>2. Abandoned(p, s) = {}
  <2>1. 1 .. queued[p][s] = {}
    BY <1>1
  <2> QED BY <2>1 DEF Abandoned
<1> QED BY <1>1, <1>2 DEF Stream!Init

\* Every step of the channel is a step of each stream.
LEMMA StreamStep ==
  ASSUME OneStream, NullApart, IInv, FragmentsKept, StreamInv, [Next]_vars,
         Progress, NothingAbandoned, Progress', NothingAbandoned',
         NEW p \in Peer, NEW s \in Streams
  PROVE  Stream(p, Other(p), s)!Next
<1> DEFINE q == Other(p)
           out == delivered[q][s]
<1>1. Abandoned(p, s) = {} /\ Abandoned(p, s)' = {}
  BY DEF NothingAbandoned
<1>2. PICK n, a \in Nat : Reached(p, s, n, a)
  BY DEF Progress
<1>3. PICK m, b \in Nat : /\ m <= b /\ b <= queued'[p][s]
                          /\ confirmed'[p][s] = 1 .. m /\ delivered'[q][s] = Upto(b)
  BY DEF Progress, Reached
<1>4. \A x \in Nat : DOMAIN Upto(x) = 1 .. x /\ Upto(x) \in Seq(Nat) /\ Len(Upto(x)) = x
                     /\ \A k \in 1 .. x : Upto(x)[k] = k
  BY DEF Upto
<1>5. CASE /\ queued'[p][s] = queued[p][s] + 1 /\ confirmed'[p][s] = confirmed[p][s]
           /\ delivered'[q][s] = delivered[q][s]
  BY <1>1, <1>5 DEF Stream!Next, Stream!Send
<1>6. CASE /\ queued'[p][s] = queued[p][s] /\ confirmed[p][s] \subseteq confirmed'[p][s]
           /\ delivered'[q][s] = delivered[q][s]
  <2>1. 1 .. m \subseteq {out[k] : k \in DOMAIN out}
    <3>1. out = Upto(b)
      BY <1>3, <1>6
    <3> HIDE DEF out
    <3>2. ASSUME NEW k \in 1 .. m PROVE k \in DOMAIN out /\ out[k] = k
      BY <1>3, <1>4, <3>1
    <3> QED BY <3>2
  <2>2. Stream(p, q, s)!Settle
    BY <1>1, <1>3, <1>6, <2>1 DEF Stream!Settle, Stream!Range
  <2> QED BY <2>2 DEF Stream!Next
<1>7. CASE /\ queued'[p][s] = queued[p][s] /\ confirmed'[p][s] = confirmed[p][s]
           /\ \E x, y \in Nat : /\ x <= y /\ delivered[q][s] = Upto(x) /\ delivered'[q][s] = Upto(y)
  <2>1. PICK x, y \in Nat : x <= y /\ out = Upto(x) /\ delivered'[q][s] = Upto(y)
    BY <1>7
  <2>2. CASE x = y
    BY <1>6, <1>7, <2>1, <2>2
  <2>3. CASE x # y
    <3>1. x < y /\ y <= queued[p][s]
      <4>1. Upto(y) = Upto(b)
        BY <1>3, <2>1
      <4>2. y = b
        BY <1>4, <4>1
      <4> QED BY <1>3, <1>7, <2>1, <2>3, <4>2
    <3>2. Stream(p, q, s)!Latest = x
      <4>1. out = <<>> <=> x = 0
        <5> HIDE DEF out
        <5> QED BY <1>4, <2>1
      <4>2. x # 0 => out[Len(out)] = x
        <5> HIDE DEF out
        <5> QED BY <1>4, <2>1
      <4> QED BY <4>1, <4>2 DEF Stream!Latest
    <3>3. queued[p][s] \in Nat
      BY DEF IInv, TypeOK
    <3>4. Stream(p, q, s)!Receive
      BY <1>1, <1>7, <2>1, <3>1, <3>2, <3>3, ReceiveRun
    <3> QED BY <3>4 DEF Stream!Next
  <2> QED BY <2>2, <2>3
<1> QED BY <1>5, <1>6, <1>7, StreamSteps

\* The four streams of NetChan are instances of Stream.
LEMMA FourStreams ==
  /\ Stream("client", "server", NORMAL)!Init => ClientNormal!Init
  /\ Stream("client", "server", FILE)!Init => ClientFile!Init
  /\ Stream("server", "client", NORMAL)!Init => ServerNormal!Init
  /\ Stream("server", "client", FILE)!Init => ServerFile!Init
  /\ Stream("client", "server", NORMAL)!Next => ClientNormal!Next
  /\ Stream("client", "server", FILE)!Next => ClientFile!Next
  /\ Stream("server", "client", NORMAL)!Next => ServerNormal!Next
  /\ Stream("server", "client", FILE)!Next => ServerFile!Next
<1>1. Stream("client", "server", NORMAL)!Init => ClientNormal!Init
  BY DEF Stream!Init, ClientNormal!Init
<1>2. Stream("client", "server", FILE)!Init => ClientFile!Init
  BY DEF Stream!Init, ClientFile!Init
<1>3. Stream("server", "client", NORMAL)!Init => ServerNormal!Init
  BY DEF Stream!Init, ServerNormal!Init
<1>4. Stream("server", "client", FILE)!Init => ServerFile!Init
  BY DEF Stream!Init, ServerFile!Init
<1>5. Stream("client", "server", NORMAL)!Next => ClientNormal!Next
  BY Zenon DEF Stream!Next, Stream!Send, Stream!Receive, Stream!Settle, Stream!Latest, Stream!Range, Stream!Cardinality,
    ClientNormal!Next, ClientNormal!Send, ClientNormal!Receive, ClientNormal!Settle, ClientNormal!Latest, ClientNormal!Range, ClientNormal!Cardinality
<1>6. Stream("client", "server", FILE)!Next => ClientFile!Next
  BY Zenon DEF Stream!Next, Stream!Send, Stream!Receive, Stream!Settle, Stream!Latest, Stream!Range, Stream!Cardinality,
    ClientFile!Next, ClientFile!Send, ClientFile!Receive, ClientFile!Settle, ClientFile!Latest, ClientFile!Range, ClientFile!Cardinality
<1>7. Stream("server", "client", NORMAL)!Next => ServerNormal!Next
  BY Zenon DEF Stream!Next, Stream!Send, Stream!Receive, Stream!Settle, Stream!Latest, Stream!Range, Stream!Cardinality,
    ServerNormal!Next, ServerNormal!Send, ServerNormal!Receive, ServerNormal!Settle, ServerNormal!Latest, ServerNormal!Range, ServerNormal!Cardinality
<1>8. Stream("server", "client", FILE)!Next => ServerFile!Next
  BY Zenon DEF Stream!Next, Stream!Send, Stream!Receive, Stream!Settle, Stream!Latest, Stream!Range, Stream!Cardinality,
    ServerFile!Next, ServerFile!Send, ServerFile!Receive, ServerFile!Settle, ServerFile!Latest, ServerFile!Range, ServerFile!Cardinality
<1> QED BY <1>1, <1>2, <1>3, <1>4, <1>5, <1>6, <1>7, <1>8

\* Where each end uses one stream and nothing is cleared, the channel implements a
\* reliable stream in each direction: what is handed in comes out once, in that order,
\* with nothing skipped, and nothing is confirmed that did not come out.
THEOREM StreamsImplemented == OneStream /\ NullApart => (Spec => StreamsReliable)
<1> SUFFICES ASSUME OneStream, NullApart PROVE Spec => StreamsReliable
  OBVIOUS
<1> DEFINE Inv == IInv /\ FragmentsKept /\ StreamInv
           Ends == Progress /\ NothingAbandoned
<1>1. Spec => []Inv
  BY StreamKept
<1>2. Inv => Ends
  BY StreamProgress DEF IInv
<1>3. /\ Other("client") = "server" /\ Other("server") = "client"
      /\ "client" \in Peer /\ "server" \in Peer /\ NORMAL \in Streams /\ FILE \in Streams
  BY DEF Other, Peer, Streams
<1>4. Init => ClientNormal!Init /\ ClientFile!Init /\ ServerNormal!Init /\ ServerFile!Init
  <2> SUFFICES ASSUME Init
               PROVE  ClientNormal!Init /\ ClientFile!Init /\ ServerNormal!Init /\ ServerFile!Init
    OBVIOUS
  <2>1. \A p \in Peer, s \in Streams : Stream(p, Other(p), s)!Init
    BY StreamBegins
  <2>2. /\ Stream("client", Other("client"), NORMAL)!Init /\ Stream("client", Other("client"), FILE)!Init
        /\ Stream("server", Other("server"), NORMAL)!Init /\ Stream("server", Other("server"), FILE)!Init
    BY <1>3, <2>1
  <2> QED BY <1>3, <2>2, FourStreams
<1>5. Inv /\ Ends /\ Ends' /\ [Next]_vars =>
        ClientNormal!Next /\ ClientFile!Next /\ ServerNormal!Next /\ ServerFile!Next
  <2> SUFFICES ASSUME Inv, Ends, Ends', [Next]_vars
               PROVE  ClientNormal!Next /\ ClientFile!Next /\ ServerNormal!Next /\ ServerFile!Next
    OBVIOUS
  <2>1. \A p \in Peer, s \in Streams : Stream(p, Other(p), s)!Next
    BY StreamStep
  <2>2. /\ Stream("client", Other("client"), NORMAL)!Next /\ Stream("client", Other("client"), FILE)!Next
        /\ Stream("server", Other("server"), NORMAL)!Next /\ Stream("server", Other("server"), FILE)!Next
    BY <1>3, <2>1
  <2> QED BY <1>3, <2>2, FourStreams
<1> QED
  BY <1>1, <1>2, <1>4, <1>5, PTL DEF Spec, StreamsReliable, ClientNormal!Spec, ClientFile!Spec,
     ServerNormal!Spec, ServerFile!Spec
=============================================================================
