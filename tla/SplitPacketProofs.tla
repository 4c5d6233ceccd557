------------------------- MODULE SplitPacketProofs -------------------------
(***************************************************************************)
(* What holds of SplitPacket for all values of its constants.  The         *)
(* argument is about the pieces counted since the entry began to collect   *)
(* the datagram it holds: they are in their places in the buffer, they are *)
(* as many as splitCount says, and if nothing came in between they are all *)
(* the pieces of it that arrived.                                          *)
(***************************************************************************)
EXTENDS SplitPacket, FiniteSetTheorems, TLAPS

-----------------------------------------------------------------------------
(* Types *)

\* The assumptions on the constants the steps need.
LEMMA CountsPositive ==
  \A n \in Counts : n \in Nat \ {0} /\ 0 .. n - 1 \subseteq Numbers
BY SplitAssumption DEF SplitAssumption, Numbers

\* A datagram that was sent has a number and at least one piece.
LEMMA DatagramTyped ==
  ASSUME TypeOK, NEW d \in 1 .. Len(datagrams)
  PROVE  /\ datagrams[d].sequence \in Nat \ {0}
         /\ datagrams[d].count \in Nat \ {0}
         /\ datagrams[d].count \in Counts
         /\ datagrams[d].splitSize \in SplitSizes
<1> DEFINE Records == [sequence : Nat \ {0}, count : Counts, splitSize : SplitSizes]
<1>1. datagrams[d] \in Records
  <2>1. datagrams \in Seq(Records)
    BY DEF TypeOK
  <2> HIDE DEF Records
  <2> QED BY <2>1
<1> QED BY <1>1, CountsPositive

\* A piece on its way has a place in the entry.
LEMMA PieceOfDatagram ==
  ASSUME TypeOK, NEW pk \in sendQueue \cup net \cup seen
  PROVE  /\ pk.of \in 1 .. Len(datagrams)
         /\ pk.sequence = datagrams[pk.of].sequence
         /\ pk.count = datagrams[pk.of].count
         /\ pk.splitSize = datagrams[pk.of].splitSize
         /\ pk.sequence \in Nat \ {0} /\ pk.count \in Nat \ {0}
         /\ pk.splitSize \in SplitSizes /\ pk.splitSize \in Nat
         /\ pk.number \in 0 .. pk.count - 1
         /\ pk.number \in Numbers
<1>1. PieceTyped(pk)
  BY DEF TypeOK
<1>2. pk.of \in 1 .. Len(datagrams)
  BY <1>1 DEF PieceTyped
<1>3. 0 .. datagrams[pk.of].count - 1 \subseteq Numbers
  BY <1>2, DatagramTyped, CountsPositive
<1>4. SplitSizes \subseteq Nat
  BY SplitAssumption DEF SplitAssumption
<1> QED BY <1>1, <1>2, <1>3, <1>4, DatagramTyped DEF PieceTyped

\* The entry after piece pk is counted and stored (TakePiece).
Stored(pk) == Store(Count(Begin(entry, pk), pk), pk)
CountedBefore(pk) == entry.splitflags[pk.number] = pk.sequence
Missing(pk) == IF Restarts(entry, pk) THEN pk.count ELSE entry.splitCount

\* Beginning a datagram keeps the places of the entry.
LEMMA BeginFields ==
  ASSUME TypeOK, NEW pk \in net
  PROVE  LET b == Begin(entry, pk) IN
         /\ b \in Entries
         /\ b.currentSequence = pk.sequence
         /\ b.splitCount = Missing(pk)
         /\ b.splitflags = entry.splitflags
         /\ b.buffer = entry.buffer
         /\ b.totalSize = entry.totalSize
<1>1. /\ entry \in Entries
      /\ pk.sequence \in Int /\ pk.count \in Int /\ pk.splitSize \in Int
  BY PieceOfDatagram DEF TypeOK
<1>2. CASE Restarts(entry, pk)
  BY <1>1, <1>2 DEF Begin, Entries, Missing
<1>3. CASE ~Restarts(entry, pk)
  BY <1>1, <1>3 DEF Begin, Restarts, Missing
<1> QED BY <1>2, <1>3

\* Counting and storing a piece changes its place, the count and the size.
LEMMA StoredFields ==
  ASSUME TypeOK, NEW pk \in net
  PROVE  /\ Stored(pk) \in Entries
         /\ Stored(pk).currentSequence = pk.sequence
         /\ Stored(pk).splitCount = IF CountedBefore(pk) THEN Missing(pk)
                                                        ELSE Missing(pk) - 1
         /\ Stored(pk).splitflags =
              [entry.splitflags EXCEPT ![pk.number] = pk.sequence]
         /\ Stored(pk).buffer = [entry.buffer EXCEPT ![pk.number] = pk.of]
         /\ Stored(pk).totalSize =
              IF ~CountedBefore(pk) /\ pk.number = pk.count - 1
                THEN pk.count ELSE entry.totalSize
<1> DEFINE b == Begin(entry, pk)
           c == Count(b, pk)
<1>1. /\ b \in Entries /\ b.currentSequence = pk.sequence
      /\ b.splitCount = Missing(pk) /\ b.splitflags = entry.splitflags
      /\ b.buffer = entry.buffer /\ b.totalSize = entry.totalSize
  BY BeginFields
<1>2. /\ pk.sequence \in Int /\ pk.count \in Int /\ pk.number \in Numbers
      /\ pk.of \in Nat
  BY PieceOfDatagram
<1>3. entry.splitflags \in [Numbers -> Int] /\ entry.buffer \in [Numbers -> Nat]
  BY DEF TypeOK, Entries
<1> HIDE DEF b
<1>4. /\ c \in Entries /\ c.currentSequence = pk.sequence
      /\ c.splitCount = IF CountedBefore(pk) THEN Missing(pk) ELSE Missing(pk) - 1
      /\ c.splitflags = [entry.splitflags EXCEPT ![pk.number] = pk.sequence]
      /\ c.buffer = entry.buffer
      /\ c.totalSize = IF ~CountedBefore(pk) /\ pk.number = pk.count - 1
                         THEN pk.count ELSE entry.totalSize
  <2>1. CASE CountedBefore(pk)
    <3>1. c = b
      BY <1>1, <2>1 DEF Count, CountedBefore
    <3>2. entry.splitflags =
            [entry.splitflags EXCEPT ![pk.number] = pk.sequence]
      BY <1>2, <1>3, <2>1 DEF CountedBefore
    <3> QED BY <1>1, <2>1, <3>1, <3>2
  <2>2. CASE ~CountedBefore(pk)
    <3>1. b.splitflags[pk.number] # pk.sequence
      BY <1>1, <2>2 DEF CountedBefore
    <3>2. c = [b EXCEPT !.splitCount = b.splitCount - 1,
                        !.splitflags = [b.splitflags EXCEPT ![pk.number] = pk.sequence],
                        !.totalSize = IF pk.number = pk.count - 1
                                        THEN pk.count ELSE b.totalSize]
      BY <1>1, <3>1 DEF Count, Entries
    <3>3. [b.splitflags EXCEPT ![pk.number] = pk.sequence] \in [Numbers -> Int]
      BY <1>1, <1>2, <1>3
    <3>4. /\ b.splitCount - 1 \in Int
          /\ (IF pk.number = pk.count - 1 THEN pk.count ELSE b.totalSize) \in Int
      BY <1>1, <1>2 DEF Entries
    <3> QED BY <1>1, <2>2, <3>2, <3>3, <3>4 DEF Entries
  <2> QED BY <2>1, <2>2
<1> HIDE DEF c
<1>5. Stored(pk) = Store(c, pk)
  BY DEF Stored, b, c
<1> QED BY <1>2, <1>3, <1>4, <1>5 DEF Store, Entries

\* Sending adds one datagram and pieces of it, and leaves the receiver alone.
LEMMA SendExtends ==
  ASSUME TypeOK, NEW n \in Counts, NEW size \in SplitSizes, NET_SendLong(n, size)
  PROVE  /\ splitSequence' = splitSequence + 1
         /\ datagrams' \in Seq([sequence : Nat \ {0}, count : Counts,
                                splitSize : SplitSizes])
         /\ Len(datagrams') = Len(datagrams) + 1
         /\ datagrams'[Len(datagrams) + 1].sequence = splitSequence + 1
         /\ \A d \in 1 .. Len(datagrams) : datagrams'[d] = datagrams[d]
         /\ \A pk \in (sendQueue \cup net)' :
              \/ pk \in sendQueue \cup net
              \/ PieceTyped(pk)'
         /\ UNCHANGED <<receiver, resets>>
<1> DEFINE Records == [sequence : Nat \ {0}, count : Counts, splitSize : SplitSizes]
           r == [sequence |-> splitSequence + 1, count |-> n, splitSize |-> size]
           d1 == Len(datagrams) + 1
<1>1. /\ splitSequence' = splitSequence + 1
      /\ datagrams' = Append(datagrams, r)
      /\ UNCHANGED <<receiver, resets>>
  BY DEF NET_SendLong, IncrementSplitPacketSequence
<1>2. datagrams \in Seq(Records) /\ r \in Records
  BY DEF TypeOK
<1>3. /\ datagrams' \in Seq(Records)
      /\ Len(datagrams') = d1 /\ datagrams'[d1] = r
      /\ \A d \in 1 .. Len(datagrams) : datagrams'[d] = datagrams[d]
  <2> HIDE DEF Records, r
  <2> QED BY <1>1, <1>2
<1>4. ASSUME NEW pk, NEW k \in 0 .. n - 1, pk = Piece(d1, k)
      PROVE  PieceTyped(pk)'
  <2>1. d1 \in 1 .. Len(datagrams')
    BY <1>2, <1>3
  <2>2. datagrams'[d1].count = n
    BY <1>3
  <2>3. /\ pk.of = d1 /\ pk.number = k
        /\ pk.sequence = datagrams'[d1].sequence
        /\ pk.count = datagrams'[d1].count
        /\ pk.splitSize = datagrams'[d1].splitSize
    BY <1>4 DEF Piece
  <2> QED BY <2>1, <2>2, <2>3 DEF PieceTyped
<1>5. \A pk \in (sendQueue \cup net)' :
         \/ pk \in sendQueue \cup net
         \/ \E k \in 0 .. n - 1 : pk = Piece(d1, k)
  BY CountsPositive DEF NET_SendLong
<1>6. datagrams'[d1].sequence = splitSequence + 1
  BY <1>3
<1> HIDE DEF Records, r
<1>7. \A pk \in (sendQueue \cup net)' :
         \/ pk \in sendQueue \cup net
         \/ PieceTyped(pk)'
  BY <1>4, <1>5
<1> QED BY <1>1, <1>3, <1>6, <1>7 DEF Records

\* A new entry is empty, and what it returns is a datagram or a mixture.
LEMMA NewEntryTyped == NewEntry \in Entries
BY DEF NewEntry, Entries

LEMMA ContentsTyped ==
  ASSUME TypeOK, NEW e
  PROVE  Contents(e) \in 0 .. Len(datagrams)
<1> DEFINE whole == {d \in 1 .. Len(datagrams) :
                       /\ datagrams[d].count = e.totalSize
                       /\ \A k \in 0 .. e.totalSize - 1 : e.buffer[k] = d}
<1>1. 0 \in 0 .. Len(datagrams) /\ whole \subseteq 0 .. Len(datagrams)
  <2>1. Len(datagrams) \in Nat
    BY DEF TypeOK
  <2> QED BY <2>1
<1>2. /\ whole = {} => Contents(e) = 0
      /\ whole # {} => Contents(e) = CHOOSE d \in whole : TRUE
  BY DEF Contents
<1> HIDE DEF whole
<1>3. whole # {} => (CHOOSE d \in whole : TRUE) \in whole
  BY Zenon
<1>4. Contents(e) = 0 \/ Contents(e) \in whole
  BY <1>2, <1>3, Zenon
<1> QED BY <1>1, <1>4, Zenon

\* Every step keeps the types.
LEMMA TypeStep ==
  ASSUME TypeOK, [Next]_vars
  PROVE  TypeOK'
<1>0. /\ splitSequence \in Nat \ {0} /\ resets \in Nat /\ reused \in BOOLEAN
      /\ datagrams \in Seq([sequence : Nat \ {0}, count : Counts,
                            splitSize : SplitSizes])
      /\ Len(datagrams) \in Nat
      /\ \A pk \in sendQueue \cup net \cup seen : PieceTyped(pk)
      /\ entry \in Entries
      /\ received \in SUBSET (0 .. Len(datagrams))
      /\ interrupted \in SUBSET (1 .. Len(datagrams))
  BY DEF TypeOK
<1>1. ASSUME NEW n \in Counts, NEW size \in SplitSizes, NET_SendLong(n, size)
      PROVE  TypeOK'
  <2>1. /\ Len(datagrams') = Len(datagrams) + 1
        /\ \A d \in 1 .. Len(datagrams) : datagrams'[d] = datagrams[d]
    BY <1>1, SendExtends
  <2>2. \A pk : PieceTyped(pk) => PieceTyped(pk)'
    BY <1>0, <2>1 DEF PieceTyped
  <2>3. \A pk \in (sendQueue \cup net \cup seen)' : PieceTyped(pk)'
    BY <1>0, <1>1, <2>2, SendExtends DEF receiver
  <2>4. /\ splitSequence' \in Nat \ {0}
        /\ datagrams' \in Seq([sequence : Nat \ {0}, count : Counts,
                               splitSize : SplitSizes])
        /\ UNCHANGED <<entry, received, interrupted, reused, resets>>
    <3>1. splitSequence' = splitSequence + 1
      BY <1>1, SendExtends
    <3>2. datagrams' \in Seq([sequence : Nat \ {0}, count : Counts,
                              splitSize : SplitSizes])
      BY <1>1, SendExtends
    <3>3. UNCHANGED <<receiver, resets>>
      BY <1>1, SendExtends
    <3> QED BY <1>0, <3>1, <3>2, <3>3 DEF receiver
  <2>5. /\ received' \in SUBSET (0 .. Len(datagrams'))
        /\ interrupted' \in SUBSET (1 .. Len(datagrams'))
    BY <1>0, <2>1, <2>4
  <2>6. entry' \in Entries /\ reused' \in BOOLEAN /\ resets' \in Nat
    BY <1>0, <2>4
  <2> QED BY <2>3, <2>4, <2>5, <2>6 DEF TypeOK
<1>2. ASSUME SendQueued \/ Clear \/ NewChannel
      PROVE  TypeOK'
  <2>1. /\ (sendQueue \cup net)' \subseteq sendQueue \cup net
        /\ splitSequence' \in Nat \ {0} /\ resets' \in Nat
        /\ UNCHANGED <<datagrams, entry, seen, received, interrupted, reused>>
    BY <1>0, <1>2 DEF SendQueued, Clear, NewChannel, receiver
  <2>2. \A pk : PieceTyped(pk)' <=> PieceTyped(pk)
    BY <2>1 DEF PieceTyped
  <2>3. \A pk \in (sendQueue \cup net \cup seen)' : PieceTyped(pk)'
    BY <1>0, <2>1, <2>2
  <2> QED BY <1>0, <2>1, <2>3 DEF TypeOK
<1>3. ASSUME NEW pk \in net, TakePiece(pk)
      PROVE  TypeOK'
  <2>1. /\ UNCHANGED <<sender, net>> /\ seen' = seen \cup {pk}
        /\ entry' = IF Complete(Stored(pk))
                      THEN [Stored(pk) EXCEPT !.currentSequence = -1]
                      ELSE Stored(pk)
        /\ received' \subseteq received \cup {Contents(Stored(pk))}
        /\ interrupted' \subseteq interrupted \cup Under(entry.currentSequence)
        /\ reused' \in BOOLEAN
    BY <1>0, <1>3 DEF TakePiece, Stored
  <2>2. entry' \in Entries
    <3>1. Stored(pk) \in Entries
      BY StoredFields
    <3> QED BY <2>1, <3>1 DEF Entries
  <2>3. received' \in SUBSET (0 .. Len(datagrams))
    BY <1>0, <2>1, ContentsTyped
  <2>4. Under(entry.currentSequence) \subseteq 1 .. Len(datagrams)
    BY PieceOfDatagram DEF Under
  <2>5. \A x : PieceTyped(x)' <=> PieceTyped(x)
    BY <2>1 DEF PieceTyped, sender
  <2>6. \A x \in (sendQueue \cup net \cup seen)' : PieceTyped(x)'
    BY <1>0, <2>1, <2>5 DEF sender
  <2>7. interrupted' \in SUBSET (1 .. Len(datagrams))
    BY <1>0, <2>1, <2>4
  <2> QED BY <1>0, <2>1, <2>2, <2>3, <2>6, <2>7 DEF TypeOK, sender
<1>4. ASSUME NEW pk \in net, RejectSize(pk)
      PROVE  TypeOK'
  <2>1. entry' \in Entries
    BY <1>4, BeginFields DEF RejectSize
  <2>2. UNCHANGED <<sender, net, received, seen, interrupted, reused>>
    BY <1>4 DEF RejectSize
  <2>3. \A x : PieceTyped(x)' <=> PieceTyped(x)
    BY <2>2 DEF PieceTyped, sender
  <2>4. \A x \in (sendQueue \cup net \cup seen)' : PieceTyped(x)'
    BY <1>0, <2>2, <2>3 DEF sender
  <2> QED BY <1>0, <2>1, <2>2, <2>4 DEF TypeOK, sender
<1>5. ASSUME DiscardStale
      PROVE  TypeOK'
  <2>1. /\ entry' \in Entries /\ seen' = {} /\ interrupted' = {}
        /\ UNCHANGED <<sender, net, received, reused>>
    BY <1>5, NewEntryTyped DEF DiscardStale
  <2>2. \A x : PieceTyped(x)' <=> PieceTyped(x)
    BY <2>1 DEF PieceTyped, sender
  <2>3. \A x \in (sendQueue \cup net \cup seen)' : PieceTyped(x)'
    BY <1>0, <2>1, <2>2 DEF sender
  <2> QED BY <1>0, <2>1, <2>3 DEF TypeOK, sender
<1>6. ASSUME UNCHANGED vars
      PROVE  TypeOK'
  BY <1>6 DEF TypeOK, PieceTyped, vars, sender, receiver
<1> QED BY <1>1, <1>2, <1>3, <1>4, <1>5, <1>6 DEF Next, Sender, Receiver

\* The initial state has its type.
LEMMA SplitInitTyped ==
  ASSUME Init
  PROVE  TypeOK
<1>1. /\ splitSequence = 1 /\ datagrams = <<>> /\ resets = 0 /\ reused = FALSE
      /\ sendQueue = {} /\ net = {} /\ seen = {}
      /\ received = {} /\ interrupted = {} /\ entry \in Entries
  BY NewEntryTyped DEF Init
<1>2. datagrams \in Seq([sequence : Nat \ {0}, count : Counts,
                        splitSize : SplitSizes])
  BY <1>1
<1>3. Len(datagrams) = 0
  BY <1>1
<1>4. \A pk \in sendQueue \cup net \cup seen : PieceTyped(pk)
  BY <1>1
<1>5. /\ received \in SUBSET (0 .. Len(datagrams))
      /\ interrupted \in SUBSET (1 .. Len(datagrams))
  BY <1>1, <1>3
<1>6. splitSequence \in Nat \ {0} /\ resets \in Nat
  BY <1>1
<1>7. reused \in BOOLEAN
  BY <1>1, Zenon
<1> QED BY <1>1, <1>2, <1>4, <1>5, <1>6, <1>7, Zenon DEF TypeOK

\* The state of SplitPacket has its type: a piece of NET_SendLong names a
\* datagram that was sent, and the entry's fields keep their ranges.
THEOREM SplitTypeCorrect == Spec => []TypeOK
<1>1. Init => TypeOK
  BY SplitInitTyped
<1> QED BY <1>1, TypeStep, PTL DEF Spec

-----------------------------------------------------------------------------
(* The inductive invariant *)

\* The entry collects a datagram: 0 is the number of a new entry, -1 that of
\* one that completed its datagram.
Current == entry.currentSequence \notin {-1, 0}

\* Datagram d may still be assembled without a piece arriving twice.
Unreturned(d) == d \notin received \cup interrupted

OneOfNumber ==
  \A x, y \in seen : x.sequence = y.sequence => x.of = y.of

\* A place is marked with a number only by a piece of that number.
FlagsSeen ==
  \A k \in Numbers : entry.splitflags[k] # -1 =>
    \E x \in seen : x.number = k /\ x.sequence = entry.splitflags[k]

\* Entry e has counted the pieces C of datagram d and holds them.
Counted(C, d, e) ==
  /\ C \subseteq 0 .. datagrams[d].count - 1
  /\ e.splitCount = datagrams[d].count - Cardinality(C)
  /\ \A k \in C : e.splitflags[k] = datagrams[d].sequence /\ e.buffer[k] = d
  /\ datagrams[d].count - 1 \in C => e.totalSize = datagrams[d].count

\* What the entry collects has been counted since it began, and if nothing came
\* in between that is all of the datagram that arrived.
Collecting ==
  Current => /\ entry.splitCount > 0
             /\ \E x \in seen, C \in SUBSET Numbers :
                  /\ x.sequence = entry.currentSequence
                  /\ Counted(C, x.of, entry)
                  /\ Unreturned(x.of) => C = Seen(x.of)

NotDisplaced ==
  \A x \in seen : Unreturned(x.of) => entry.currentSequence = x.sequence

WholeInv == ~reused =>
  Intact /\ OneOfNumber /\ FlagsSeen /\ Collecting /\ NotDisplaced

-----------------------------------------------------------------------------
(* Pieces counted in an entry *)

\* Counting is about finite sets of places.
LEMMA CountedFinite ==
  ASSUME NEW n \in Nat, NEW C \in SUBSET (0 .. n - 1)
  PROVE  /\ IsFiniteSet(C) /\ Cardinality(C) \in Nat
         /\ Cardinality(C) <= n
         /\ C = 0 .. n - 1 => Cardinality(C) = n
         /\ Cardinality(C) = n => C = 0 .. n - 1
         /\ \A k \in (0 .. n - 1) \ C :
              Cardinality(C \cup {k}) = Cardinality(C) + 1
<1>1. IsFiniteSet(0 .. n - 1) /\ Cardinality(0 .. n - 1) = n
  BY FS_Interval
<1>2. /\ IsFiniteSet(C) /\ Cardinality(C) <= Cardinality(0 .. n - 1)
      /\ Cardinality(0 .. n - 1) = Cardinality(C) => 0 .. n - 1 = C
  BY <1>1, FS_Subset
<1>3. Cardinality(C) \in Nat
  BY <1>2, FS_CardinalityType
<1>4. ASSUME NEW k \in (0 .. n - 1) \ C
      PROVE  Cardinality(C \cup {k}) = Cardinality(C) + 1
  BY <1>2, FS_AddElement
<1> QED BY <1>1, <1>2, <1>3, <1>4

\* A piece that is taken, while no number was used twice: the entry then holds
\* counted pieces of its datagram, all that arrived unless it was interrupted.
LEMMA TakeCounts ==
  ASSUME TypeOK, WholeInv, NEW pk \in net, TakePiece(pk), ~reused'
  PROVE  /\ \A x \in seen : x.sequence = pk.sequence => x.of = pk.of
         /\ \E C \in SUBSET Numbers :
              /\ Counted(C, pk.of, Stored(pk))
              /\ (~(pk.of \in received) /\ ~(pk.of \in interrupted')
                    => C = Seen(pk.of) \cup {pk.number})
<1> DEFINE d == pk.of
           s == pk.sequence
           n == pk.count
           k == pk.number
<1>1. /\ d \in 1 .. Len(datagrams) /\ s = datagrams[d].sequence
      /\ n = datagrams[d].count /\ s \in Nat \ {0} /\ n \in Nat \ {0}
      /\ k \in 0 .. n - 1 /\ k \in Numbers /\ 0 .. n - 1 \subseteq Numbers
  BY PieceOfDatagram, DatagramTyped, CountsPositive
<1>2. /\ ~reused
      /\ \A x \in seen : x.sequence = s => x.of = d
      /\ interrupted' = IF Restarts(entry, pk)
                          THEN interrupted \cup
                                 (Under(entry.currentSequence) \ received)
                          ELSE interrupted
  BY DEF TakePiece, Under
<1>3. Intact /\ OneOfNumber /\ FlagsSeen /\ Collecting /\ NotDisplaced
  BY <1>2 DEF WholeInv
<1>4. PICK C \in SUBSET (0 .. n - 1) :
        /\ Missing(pk) = n - Cardinality(C)
        /\ \A j \in C : entry.splitflags[j] = s /\ entry.buffer[j] = d
        /\ n - 1 \in C => entry.totalSize = n
        /\ d \notin received /\ d \notin interrupted' => C = Seen(d)
  <2>1. CASE Restarts(entry, pk)
    <3>1. d \notin received /\ d \notin interrupted' => Seen(d) = {}
      <4>1. SUFFICES ASSUME d \notin received, d \notin interrupted',
                            NEW x \in seen, x.of = d
                     PROVE  FALSE
        BY DEF Seen
      <4>2. x.sequence = s
        BY <1>1, <4>1, PieceOfDatagram
      <4>3. entry.currentSequence = x.sequence
        BY <1>2, <1>3, <2>1, <4>1 DEF NotDisplaced, Unreturned
      <4> QED BY <1>1, <2>1, <4>2, <4>3 DEF Restarts
    <3>2. Cardinality({}) = 0
      BY FS_EmptySet
    <3> WITNESS {} \in SUBSET (0 .. n - 1)
    <3> QED BY <1>1, <2>1, <3>1, <3>2 DEF Missing
  <2>2. CASE ~Restarts(entry, pk)
    <3>1. entry.currentSequence = s /\ Current
      BY <1>1, <2>2 DEF Restarts, Current
    <3>2. PICK x \in seen, C \in SUBSET Numbers :
            /\ x.sequence = s
            /\ Counted(C, x.of, entry)
            /\ Unreturned(x.of) => C = Seen(x.of)
      BY <1>3, <3>1 DEF Collecting
    <3>3. x.of = d
      BY <1>2, <3>2
    <3>4. C \in SUBSET (0 .. n - 1)
      BY <1>1, <3>2, <3>3 DEF Counted
    <3> QED BY <1>1, <1>2, <2>2, <3>2, <3>3, <3>4
          DEF Counted, Missing, Unreturned
  <2> QED BY <2>1, <2>2
<1>5. /\ Stored(pk).splitCount = IF CountedBefore(pk) THEN Missing(pk)
                                                     ELSE Missing(pk) - 1
      /\ Stored(pk).splitflags = [entry.splitflags EXCEPT ![k] = s]
      /\ Stored(pk).buffer = [entry.buffer EXCEPT ![k] = d]
      /\ Stored(pk).totalSize = IF ~CountedBefore(pk) /\ k = n - 1
                                  THEN n ELSE entry.totalSize
  BY StoredFields
<1>6. /\ entry.splitflags \in [Numbers -> Int]
      /\ entry.buffer \in [Numbers -> Nat]
  BY DEF TypeOK, Entries
<1> DEFINE D == C \cup {k}
<1>7. /\ D \in SUBSET (0 .. n - 1)
      /\ D \in SUBSET Numbers
      /\ \A j \in D : Stored(pk).splitflags[j] = s /\ Stored(pk).buffer[j] = d
  <2>1. k \in 0 .. n - 1 /\ 0 .. n - 1 \subseteq Numbers
    BY <1>1
  <2>2. /\ Stored(pk).splitflags[k] = s /\ Stored(pk).buffer[k] = d
        /\ \A j \in Numbers \ {k} : /\ Stored(pk).splitflags[j] = entry.splitflags[j]
                                    /\ Stored(pk).buffer[j] = entry.buffer[j]
    BY <1>5, <1>6, <2>1
  <2>3. D \in SUBSET (0 .. n - 1) /\ D \in SUBSET Numbers
    BY <2>1
  <2>4. ASSUME NEW j \in D
        PROVE  Stored(pk).splitflags[j] = s /\ Stored(pk).buffer[j] = d
    <3>1. CASE j = k
      BY <2>2, <3>1
    <3>2. CASE j # k
      <4>1. j \in C /\ j \in Numbers \ {k}
        BY <2>3, <3>2
      <4> QED BY <4>1, <2>2, <1>4
    <3> QED BY <3>1, <3>2
  <2> QED BY <2>3, <2>4
<1>8. CountedBefore(pk) => k \in Seen(d)
  <2>1. SUFFICES ASSUME CountedBefore(pk)
                 PROVE  k \in Seen(d)
    OBVIOUS
  <2>2. entry.splitflags[k] = s /\ s # -1
    BY <1>1, <2>1 DEF CountedBefore
  <2>3. PICK x \in seen : x.number = k /\ x.sequence = s
    BY <1>1, <1>3, <2>2 DEF FlagsSeen
  <2> QED BY <1>2, <2>3 DEF Seen
<1>9. CASE CountedBefore(pk)
  <2>1. Counted(C, d, Stored(pk))
    BY <1>1, <1>4, <1>5, <1>7, <1>9 DEF Counted
  <2>2. d \notin received /\ d \notin interrupted' => C = Seen(d) \cup {k}
    BY <1>4, <1>8, <1>9
  <2> QED BY <1>2, <1>7, <2>1, <2>2
<1>10. CASE ~CountedBefore(pk)
  <2>1. k \notin C
    BY <1>4, <1>10 DEF CountedBefore
  <2>2. /\ Cardinality(D) = Cardinality(C) + 1
        /\ Cardinality(C) \in Nat
    <3>1. k \in (0 .. n - 1) \ C /\ n \in Nat
      BY <1>1, <2>1
    <3> QED BY SMTT(30), <3>1, CountedFinite
  <2>3. Stored(pk).splitCount = n - Cardinality(D)
    <3>1. Stored(pk).splitCount = Missing(pk) - 1
      BY <1>5, <1>10
    <3>2. Missing(pk) = n - Cardinality(C) /\ n \in Nat
      BY <1>1, <1>4
    <3> HIDE DEF n, D
    <3> QED BY <2>2, <3>1, <3>2
  <2>4. n - 1 \in D => Stored(pk).totalSize = n
    BY <1>4, <1>5, <1>10
  <2> HIDE DEF D
  <2>5. Counted(D, d, Stored(pk))
    BY <1>1, <1>7, <2>3, <2>4 DEF Counted
  <2>6. d \notin received /\ d \notin interrupted' => D = Seen(d) \cup {k}
    BY <1>4 DEF D
  <2> QED BY <1>2, <1>7, <2>5, <2>6
<1> QED BY <1>9, <1>10

\* The number of a whole datagram in the buffer is what NET_GetLong returns.
LEMMA CompleteIsWhole ==
  ASSUME TypeOK, NEW d \in 1 .. Len(datagrams), NEW e \in Entries,
         NEW C \in SUBSET Numbers, Counted(C, d, e), Complete(e)
  PROVE  Contents(e) = d
<1> DEFINE n == datagrams[d].count
           whole == {x \in 1 .. Len(datagrams) :
                       /\ datagrams[x].count = e.totalSize
                       /\ \A k \in 0 .. e.totalSize - 1 : e.buffer[k] = x}
<1>1. n \in Nat \ {0} /\ C \in SUBSET (0 .. n - 1) /\ e.splitCount \in Int
  BY DatagramTyped DEF Counted, Entries
<1>2. C = 0 .. n - 1
  <2>1. /\ Cardinality(C) \in Nat /\ Cardinality(C) <= n
        /\ Cardinality(C) = n => C = 0 .. n - 1
    BY <1>1, CountedFinite
  <2>2. n - Cardinality(C) <= 0
    BY DEF Counted, Complete
  <2> QED BY <1>1, <2>1, <2>2
<1>3. e.totalSize = n /\ \A k \in 0 .. n - 1 : e.buffer[k] = d
  BY <1>1, <1>2 DEF Counted
<1>4. whole = {d}
  <2>1. 0 \in 0 .. n - 1
    BY <1>1
  <2> QED BY <1>3, <2>1
<1>5. whole # {} => Contents(e) = CHOOSE x \in whole : TRUE
  BY DEF Contents
<1> HIDE DEF whole
<1> QED BY <1>4, <1>5, Zenon

\* Taking a piece keeps the invariant.
LEMMA TakeKeepsWhole ==
  ASSUME TypeOK, WholeInv, NEW pk \in net, TakePiece(pk), ~reused'
  PROVE  /\ Intact' /\ OneOfNumber' /\ FlagsSeen'
         /\ Collecting' /\ NotDisplaced'
<1> DEFINE d == pk.of
           s == pk.sequence
           k == pk.number
           e == Stored(pk)
<1>1. /\ d \in 1 .. Len(datagrams) /\ s = datagrams[d].sequence
      /\ s \in Nat \ {0} /\ k \in Numbers
  BY PieceOfDatagram
<1>2. /\ ~reused
      /\ UNCHANGED datagrams /\ seen' = seen \cup {pk}
      /\ entry' = IF Complete(e) THEN [e EXCEPT !.currentSequence = -1] ELSE e
      /\ received' = IF Complete(e) THEN received \cup {Contents(e)} ELSE received
      /\ interrupted \subseteq interrupted'
      /\ Restarts(entry, pk) =>
           interrupted' = interrupted \cup (Under(entry.currentSequence) \ received)
  BY DEF TakePiece, Stored, sender
<1>3. Intact /\ OneOfNumber /\ FlagsSeen /\ Collecting /\ NotDisplaced
  BY <1>2 DEF WholeInv
<1>4. /\ e \in Entries /\ e.currentSequence = s
      /\ e.splitflags = [entry.splitflags EXCEPT ![k] = s]
  BY StoredFields
<1>5. \A x \in seen : x.sequence = s => x.of = d
  BY TakeCounts
<1>6. PICK C \in SUBSET Numbers :
        /\ Counted(C, d, e)
        /\ d \notin received /\ d \notin interrupted' => C = Seen(d) \cup {k}
  BY TakeCounts
<1> HIDE DEF e
<1>7. Complete(e) => Contents(e) = d
  BY <1>1, <1>4, <1>6, CompleteIsWhole
<1>8. Intact'
  BY <1>1, <1>2, <1>3, <1>7 DEF Intact
<1>9. OneOfNumber'
  BY <1>2, <1>3, <1>5 DEF OneOfNumber
<1>10. FlagsSeen'
  <2>1. entry'.splitflags = [entry.splitflags EXCEPT ![k] = s]
    BY <1>2, <1>4 DEF Entries
  <2>2. entry.splitflags \in [Numbers -> Int]
    BY DEF TypeOK, Entries
  <2>3. SUFFICES ASSUME NEW j \in Numbers, entry'.splitflags[j] # -1
                 PROVE  \E x \in seen' : x.number = j /\
                                         x.sequence = entry'.splitflags[j]
    BY DEF FlagsSeen
  <2>4. CASE j = k
    BY <1>1, <1>2, <2>1, <2>2, <2>4
  <2>5. CASE j # k
    <3>1. entry'.splitflags[j] = entry.splitflags[j]
      BY <2>1, <2>2, <2>5
    <3> QED BY <1>2, <1>3, <2>3, <3>1 DEF FlagsSeen
  <2> QED BY <2>4, <2>5
<1>11. Collecting'
  <2>1. CASE Complete(e)
    <3>1. entry'.currentSequence = -1
      BY <1>2, <1>4, <2>1 DEF Entries
    <3> QED BY <3>1 DEF Collecting, Current
  <2>2. CASE ~Complete(e)
    <3>1. entry' = e /\ received' = received
      BY <1>2, <2>2
    <3>2. entry'.splitCount > 0
      BY <1>4, <2>2, <3>1 DEF Complete, Entries
    <3>3. Counted(C, d, entry)'
      BY <1>2, <1>6, <3>1 DEF Counted
    <3>4. Seen(d)' = Seen(d) \cup {k}
      BY <1>2 DEF Seen
    <3>5. Unreturned(d)' => C = Seen(d)'
      BY <1>6, <3>1, <3>4 DEF Unreturned
    <3>6. pk \in seen' /\ pk.sequence = entry'.currentSequence
      BY <1>2, <1>4, <3>1
    <3> QED BY <3>2, <3>3, <3>5, <3>6 DEF Collecting
  <2> QED BY <2>1, <2>2
<1>12. NotDisplaced'
  <2>1. SUFFICES ASSUME NEW x \in seen', x.of \notin received',
                        x.of \notin interrupted'
                 PROVE  entry'.currentSequence = x.sequence
    BY DEF NotDisplaced, Unreturned
  <2>2. x.sequence = datagrams[x.of].sequence
    BY <1>1, <1>2, <2>1, PieceOfDatagram
  <2>3. x.of \notin received /\ x.of \notin interrupted
    BY <1>2, <2>1
  <2>4. CASE x.of = d
    BY <1>1, <1>2, <1>4, <1>7, <2>1, <2>2, <2>4
  <2>5. CASE x.of # d
    <3>1. x \in seen
      BY <1>2, <2>1, <2>5
    <3>2. entry.currentSequence = x.sequence
      BY <1>3, <2>3, <3>1 DEF NotDisplaced, Unreturned
    <3>3. x.sequence # s
      BY <1>5, <2>5, <3>1
    <3>4. Restarts(entry, pk)
      BY <3>2, <3>3 DEF Restarts
    <3>5. x.of \in Under(entry.currentSequence)
      BY <3>1, <3>2 DEF Under
    <3> QED BY <1>2, <2>1, <2>3, <3>4, <3>5
  <2> QED BY <2>4, <2>5
<1> QED BY <1>8, <1>9, <1>10, <1>11, <1>12

\* Every step keeps the invariant.
LEMMA WholeStep ==
  ASSUME TypeOK, WholeInv, [Next]_vars
  PROVE  WholeInv'
<1> SUFFICES ASSUME ~reused'
             PROVE  WholeInv'
  BY DEF WholeInv
<1>1. ASSUME UNCHANGED receiver,
             \A x \in seen : datagrams'[x.of] = datagrams[x.of]
      PROVE  WholeInv'
  <2>1. UNCHANGED <<entry, received, seen, interrupted, reused>>
    BY <1>1 DEF receiver
  <2>2. /\ Intact /\ OneOfNumber /\ FlagsSeen /\ Collecting /\ NotDisplaced
    BY <2>1 DEF WholeInv
  <2>3. Intact' /\ OneOfNumber' /\ FlagsSeen' /\ NotDisplaced'
    BY <2>1, <2>2 DEF Intact, OneOfNumber, FlagsSeen, NotDisplaced, Unreturned
  <2>4. Collecting'
    <3>1. SUFFICES ASSUME Current'
                   PROVE  /\ (entry.splitCount > 0)'
                          /\ (\E x \in seen, C \in SUBSET Numbers :
                                /\ x.sequence = entry.currentSequence
                                /\ Counted(C, x.of, entry)
                                /\ Unreturned(x.of) => C = Seen(x.of))'
      BY DEF Collecting
    <3>2. Current
      BY <2>1, <3>1 DEF Current
    <3>3. PICK x \in seen, C \in SUBSET Numbers :
            /\ x.sequence = entry.currentSequence
            /\ Counted(C, x.of, entry)
            /\ Unreturned(x.of) => C = Seen(x.of)
      BY <2>2, <3>2 DEF Collecting
    <3>4. Counted(C, x.of, entry)'
      BY <1>1, <2>1, <3>3 DEF Counted
    <3>5. (Unreturned(x.of) => C = Seen(x.of))'
      BY <2>1, <3>3 DEF Unreturned, Seen
    <3>6. (entry.splitCount > 0)'
      BY <2>1, <2>2, <3>2 DEF Collecting
    <3>7. x \in seen' /\ x.sequence = entry'.currentSequence
      BY <2>1, <3>3
    <3> QED BY <3>4, <3>5, <3>6, <3>7
  <2> QED BY <2>3, <2>4 DEF WholeInv
<1>2. ASSUME NEW n \in Counts, NEW size \in SplitSizes, NET_SendLong(n, size)
      PROVE  WholeInv'
  <2>1. /\ UNCHANGED receiver
        /\ \A d \in 1 .. Len(datagrams) : datagrams'[d] = datagrams[d]
    BY <1>2, SendExtends
  <2>2. \A x \in seen : x.of \in 1 .. Len(datagrams)
    BY PieceOfDatagram
  <2> QED BY <1>1, <2>1, <2>2
<1>3. CASE SendQueued \/ Clear \/ NewChannel
  BY <1>1, <1>3 DEF SendQueued, Clear, NewChannel, WholeInv
<1>4. ASSUME NEW pk \in net, TakePiece(pk)
      PROVE  WholeInv'
  BY <1>4, TakeKeepsWhole DEF WholeInv
<1>5. ASSUME NEW pk \in net, RejectSize(pk)
      PROVE  WholeInv'
  <2>1. ~Restarts(entry, pk)
    <3>1. entry \in Entries
      BY DEF TypeOK
    <3> QED BY <1>5, <3>1 DEF RejectSize, Begin, Entries
  <2>2. entry' = entry
    BY <1>5, <2>1 DEF RejectSize, Begin
  <2> QED BY <1>1, <1>5, <2>2 DEF RejectSize, sender, receiver
<1>6. ASSUME DiscardStale
      PROVE  WholeInv'
  <2>1. entry' = NewEntry /\ seen' = {} /\ UNCHANGED <<received, reused>>
    BY <1>6 DEF DiscardStale
  <2>2. Intact
    BY <2>1 DEF WholeInv
  <2>3. ~Current'
    BY <2>1 DEF Current, NewEntry
  <2>4. FlagsSeen'
    BY <2>1 DEF FlagsSeen, NewEntry
  <2> QED BY <2>1, <2>2, <2>3, <2>4
        DEF WholeInv, Intact, OneOfNumber, Collecting, NotDisplaced
<1>7. CASE UNCHANGED vars
  BY <1>1, <1>7 DEF vars, sender
<1> QED BY <1>2, <1>3, <1>4, <1>5, <1>6, <1>7 DEF Next, Sender, Receiver

\* A datagram all of whose pieces the entry has seen is not one it still
\* collects.
LEMMA WholeIsAssembled ==
  ASSUME TypeOK, Collecting, OneOfNumber, NotDisplaced
  PROVE  Assembled
<1> SUFFICES ASSUME NEW d \in 1 .. Len(datagrams),
                    Seen(d) = 0 .. datagrams[d].count - 1, Unreturned(d)
             PROVE  FALSE
  BY DEF Assembled, Unreturned
<1> DEFINE n == datagrams[d].count
<1>1. n \in Nat \ {0}
  BY DatagramTyped
<1>2. PICK y \in seen : y.of = d
  <2>1. 0 \in Seen(d)
    BY <1>1
  <2> QED BY <2>1 DEF Seen
<1>3. entry.currentSequence = y.sequence /\ y.sequence \in Nat \ {0}
  BY <1>2, PieceOfDatagram DEF NotDisplaced
<1>4. Current
  BY <1>3 DEF Current
<1>5. PICK x \in seen, C \in SUBSET Numbers :
        /\ x.sequence = entry.currentSequence
        /\ Counted(C, x.of, entry)
        /\ Unreturned(x.of) => C = Seen(x.of)
  BY <1>4 DEF Collecting
<1>6. x.of = d
  BY <1>2, <1>3, <1>5 DEF OneOfNumber
<1>7. C = 0 .. n - 1
  BY <1>5, <1>6
<1>8. Cardinality(C) = n
  BY <1>1, <1>7, CountedFinite
<1>9. entry.splitCount = n - Cardinality(C)
  BY <1>5, <1>6 DEF Counted
<1>10. entry.splitCount > 0
  BY <1>4 DEF Collecting
<1> QED BY <1>1, <1>8, <1>9, <1>10

\* NET_GetLong returns only whole datagrams and returns every one whose pieces
\* arrived with nothing in between, whatever the network loses, repeats and
\* reorders and however the sender's queue is drained, until an entry meets two
\* datagrams of one number.
THEOREM SplitWholeUnlessReused == Spec => []WholeUnlessReused
<1>1. Init => TypeOK /\ WholeInv
  <2> SUFFICES ASSUME Init
               PROVE  WholeInv
    BY SplitInitTyped
  <2>1. seen = {} /\ received = {} /\ entry = NewEntry
    BY DEF Init
  <2>2. ~Current /\ FlagsSeen
    BY <2>1 DEF Current, FlagsSeen, NewEntry
  <2> QED BY <2>1, <2>2 DEF WholeInv, Intact, OneOfNumber, Collecting, NotDisplaced
<1>2. TypeOK /\ WholeInv /\ [Next]_vars => (TypeOK /\ WholeInv)'
  BY TypeStep, WholeStep
<1>3. TypeOK /\ WholeInv => WholeUnlessReused
  BY WholeIsAssembled DEF WholeInv, WholeUnlessReused
<1> QED BY <1>1, <1>2, <1>3, PTL DEF Spec

-----------------------------------------------------------------------------
(* Numbers are used twice only after a reset *)

\* As long as the channel counts on, the numbers of the datagrams follow.
NumberInv ==
  resets = 0 => /\ ~reused
                /\ splitSequence = Len(datagrams) + 1
                /\ \A d \in 1 .. Len(datagrams) : datagrams[d].sequence = d + 1

LEMMA NumberStep ==
  ASSUME TypeOK, NumberInv, [Next]_vars
  PROVE  NumberInv'
<1> SUFFICES ASSUME resets' = 0
             PROVE  NumberInv'
  BY DEF NumberInv
<1>1. ASSUME UNCHANGED <<sender, reused>>
      PROVE  NumberInv'
  BY <1>1 DEF sender, NumberInv
<1>2. ASSUME NEW n \in Counts, NEW size \in SplitSizes, NET_SendLong(n, size)
      PROVE  NumberInv'
  <2>1. /\ splitSequence' = splitSequence + 1
        /\ Len(datagrams') = Len(datagrams) + 1
        /\ datagrams'[Len(datagrams) + 1].sequence = splitSequence + 1
        /\ \A d \in 1 .. Len(datagrams) : datagrams'[d] = datagrams[d]
    BY <1>2, SendExtends
  <2>2. UNCHANGED <<receiver, resets>>
    BY <1>2, SendExtends
  <2>3. ~reused /\ splitSequence = Len(datagrams) + 1
        /\ \A d \in 1 .. Len(datagrams) : datagrams[d].sequence = d + 1
    BY <2>2 DEF NumberInv
  <2>4. Len(datagrams) \in Nat
    BY DEF TypeOK
  <2>5. ASSUME NEW d \in 1 .. Len(datagrams')
        PROVE  datagrams'[d].sequence = d + 1
    <3>1. CASE d \in 1 .. Len(datagrams)
      BY <2>1, <2>3, <3>1
    <3>2. CASE d = Len(datagrams) + 1
      BY <2>1, <2>3, <3>2
    <3> QED BY <2>1, <2>4, <3>1, <3>2
  <2>6. ~reused'
    BY <2>2, <2>3 DEF receiver
  <2>7. splitSequence' = Len(datagrams') + 1
    BY <2>1, <2>3
  <2> QED BY <2>5, <2>6, <2>7 DEF NumberInv
<1>3. CASE Clear \/ NewChannel
  <2>1. resets' = resets + 1 /\ resets \in Nat
    BY <1>3 DEF Clear, NewChannel, TypeOK
  <2> QED BY <2>1
<1>4. CASE SendQueued
  BY <1>4 DEF SendQueued, receiver, NumberInv
<1>5. ASSUME NEW pk \in net, TakePiece(pk)
      PROVE  NumberInv'
  <2>1. /\ UNCHANGED sender
        /\ reused' = (reused \/ \E d \in Under(pk.sequence) : d # pk.of)
    BY <1>5 DEF TakePiece
  <2>2. /\ ~reused /\ resets = 0
        /\ \A d \in 1 .. Len(datagrams) : datagrams[d].sequence = d + 1
    BY <2>1 DEF sender, NumberInv
  <2>3. \A x \in seen : x.sequence = pk.sequence => x.of = pk.of
    <3>1. /\ pk.of \in 1 .. Len(datagrams)
          /\ pk.sequence = datagrams[pk.of].sequence
      BY PieceOfDatagram
    <3>2. \A x \in seen : /\ x.of \in 1 .. Len(datagrams)
                          /\ x.sequence = datagrams[x.of].sequence
      BY PieceOfDatagram
    <3> QED BY <2>2, <3>1, <3>2
  <2>4. \A d \in Under(pk.sequence) : d = pk.of
    BY <2>3 DEF Under
  <2>5. ~reused'
    BY <2>1, <2>2, <2>4
  <2> QED BY <2>1, <2>5 DEF NumberInv, sender
<1>6. ASSUME NEW pk \in net, RejectSize(pk)
      PROVE  NumberInv'
  BY <1>1, <1>6 DEF RejectSize
<1>7. CASE DiscardStale
  BY <1>1, <1>7 DEF DiscardStale
<1>8. CASE UNCHANGED vars
  BY <1>1, <1>8 DEF vars, receiver
<1> QED BY <1>2, <1>3, <1>4, <1>5, <1>6, <1>7, <1>8 DEF Next, Sender, Receiver

\* Two datagrams of one number meet only after CNetChan::Clear or a new channel
\* started the numbers again.
THEOREM SplitReuseNeedsReset == Spec => []ReuseNeedsReset
<1>1. Init => TypeOK /\ NumberInv
  <2> SUFFICES ASSUME Init
               PROVE  NumberInv
    BY SplitInitTyped
  <2>1. ~reused /\ splitSequence = 1 /\ datagrams = <<>>
    BY DEF Init
  <2>2. Len(datagrams) = 0
    BY <2>1
  <2> QED BY <2>1, <2>2 DEF NumberInv
<1>2. TypeOK /\ NumberInv /\ [Next]_vars => (TypeOK /\ NumberInv)'
  BY TypeStep, NumberStep
<1>3. TypeOK /\ NumberInv => ReuseNeedsReset
  BY DEF TypeOK, NumberInv, ReuseNeedsReset
<1> QED BY <1>1, <1>2, <1>3, PTL DEF Spec

\* Until the first reset NET_GetLong returns no mixture and loses nothing whose
\* pieces arrived together.
THEOREM SplitWholeUntilReset == Spec => [](resets = 0 => Intact /\ Assembled)
<1>1. WholeUnlessReused /\ ReuseNeedsReset => (resets = 0 => Intact /\ Assembled)
  BY DEF WholeUnlessReused, ReuseNeedsReset
<1> QED BY <1>1, SplitWholeUnlessReused, SplitReuseNeedsReset, PTL

=============================================================================
