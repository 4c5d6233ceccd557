---------------------------- MODULE RWLockProofs ---------------------------
(***************************************************************************)
(* Readers and writers exclude each other in CThreadRWLock, for any number *)
(* of threads and calls.                                                   *)
(***************************************************************************)
EXTENDS RWLock, FiniteSetTheorems, TLAPS

Writers == At("waitWrite") \cup At("writing")
Pending == At("waitRead") \cup At("woken")
-----------------------------------------------------------------------------
(* Counting threads *)

LEMMA Counted ==
  ASSUME NEW S \in SUBSET Threads
  PROVE  /\ Cardinality(S) \in Nat
         /\ Cardinality(S) = 0 <=> S = {}
         /\ \A t \in Threads \ S : Cardinality(S \cup {t}) = Cardinality(S) + 1
         /\ \A t \in S : Cardinality(S \ {t}) = Cardinality(S) - 1
<1>1. IsFiniteSet(S)
  BY FS_Subset, RWLockAssumption DEF RWLockAssumption
<1> QED BY <1>1, FS_CardinalityType, FS_EmptySet, FS_AddElement, FS_RemoveElement

\* A counter is zero when nobody is counted.
LEMMA Zeroes ==
  ASSUME TypeOK
  PROVE  /\ m_nWriters \in Nat /\ (m_nWriters = 0 <=> Writers = {})
         /\ m_nActiveReaders \in Nat
         /\ (m_nActiveReaders = 0 <=> At("reading") = {})
         /\ m_nPendingReaders \in Nat
<1>1. /\ Writers \in SUBSET Threads
      /\ At("reading") \in SUBSET Threads
      /\ Pending \in SUBSET Threads
  BY DEF Writers, Pending, At
<1> QED BY <1>1, Counted DEF TypeOK, Writers, Pending

\* A thread that moves leaves one set and joins another.
LEMMA Moved ==
  ASSUME pc \in [Threads -> Places], NEW t \in Threads, NEW place \in Places,
         Move(t, place)
  PROVE  /\ pc' \in [Threads -> Places]
         /\ pc'[t] = place /\ \A u \in Threads : u # t => pc'[u] = pc[u]
         /\ \A q \in Places : At(q)' = IF q = place THEN At(q) \cup {t}
                                                   ELSE At(q) \ {t}
BY DEF Move, At

\* What a move does to the sets that are counted.
LEMMA MovedSets ==
  ASSUME pc \in [Threads -> Places], NEW t \in Threads, NEW place \in Places,
         Move(t, place)
  PROVE  /\ Writers' = IF place \in {"waitWrite", "writing"} THEN Writers \cup {t}
                                                            ELSE Writers \ {t}
         /\ At("reading")' = IF place = "reading" THEN At("reading") \cup {t}
                                                  ELSE At("reading") \ {t}
         /\ Pending' = IF place \in {"waitRead", "woken"} THEN Pending \cup {t}
                                                         ELSE Pending \ {t}
         /\ At("writing")' = IF place = "writing" THEN At("writing") \cup {t}
                                                  ELSE At("writing") \ {t}
         /\ t \in Writers <=> pc[t] \in {"waitWrite", "writing"}
         /\ t \in At("reading") <=> pc[t] = "reading"
         /\ t \in Pending <=> pc[t] \in {"waitRead", "woken"}
         /\ t \in At("writing") <=> pc[t] = "writing"
<1> USE DEF Places
<1>1. \A q \in Places : At(q)' = IF q = place THEN At(q) \cup {t}
                                              ELSE At(q) \ {t}
  BY Moved
<1>2. /\ At("waitWrite")' = IF "waitWrite" = place THEN At("waitWrite") \cup {t} ELSE At("waitWrite") \ {t}
      /\ At("writing")' = IF "writing" = place THEN At("writing") \cup {t} ELSE At("writing") \ {t}
      /\ At("reading")' = IF "reading" = place THEN At("reading") \cup {t} ELSE At("reading") \ {t}
      /\ At("waitRead")' = IF "waitRead" = place THEN At("waitRead") \cup {t} ELSE At("waitRead") \ {t}
      /\ At("woken")' = IF "woken" = place THEN At("woken") \cup {t} ELSE At("woken") \ {t}
  BY <1>1
<1>3. /\ Writers' = IF place \in {"waitWrite", "writing"} THEN Writers \cup {t} ELSE Writers \ {t}
      /\ Pending' = IF place \in {"waitRead", "woken"} THEN Pending \cup {t} ELSE Pending \ {t}
  BY <1>2 DEF Writers, Pending
<1>4. \A q \in Places : t \in At(q) <=> pc[t] = q
  BY DEF At
<1> QED BY <1>2, <1>3, <1>4 DEF Writers, Pending
-----------------------------------------------------------------------------
(* The events *)

CountersOK ==
  /\ pc \in [Threads -> Places]
  /\ calls \in [Threads -> Nat]
  /\ m_nWriters = Cardinality(Writers)
  /\ m_nActiveReaders = Cardinality(At("reading"))
  /\ m_nPendingReaders = Cardinality(Pending)

\* Threads are in the condition variables of the events they wait for.
WaitsOK ==
  \A t \in Threads : /\ readCond[t] # "out" => pc[t] = "waitRead"
                     /\ writeCond[t] # "out" => pc[t] = "waitWrite"

EventsOK == CanRead!EventTypeOK /\ CanWrite!EventTypeOK

LEMMA TypeParts == TypeOK <=> CountersOK /\ EventsOK /\ WaitsOK
BY DEF TypeOK, CountersOK, EventsOK, WaitsOK, Writers, Pending

\* What an operation on an event does to its condition variable.
LEMMA ReadEventSteps ==
  ASSUME CanRead!EventTypeOK
  PROVE  /\ CanRead!Set \/ CanRead!Reset \/ UNCHANGED canRead
              => /\ CanRead!EventTypeOK'
                 /\ \A u \in Threads : readCond'[u] # "out" => readCond[u] # "out"
         /\ \A t \in Threads :
              CanRead!Block(t) \/ CanRead!Inside(t) \/ CanRead!TakeSet(t)
                \/ CanRead!Succeed(t) \/ CanRead!TimedOut(t)
              => /\ CanRead!EventTypeOK'
                 /\ \A u \in Threads \ {t} : readCond'[u] = readCond[u]
         /\ \A t \in Threads :
              CanRead!TakeSet(t) \/ CanRead!Succeed(t) \/ CanRead!TimedOut(t)
              => readCond'[t] = "out"
<1> USE DEF CanRead!EventTypeOK, CanRead!Places
<1>1. ASSUME CanRead!Set \/ CanRead!Reset \/ UNCHANGED canRead
      PROVE  /\ CanRead!EventTypeOK'
             /\ \A u \in Threads : readCond'[u] # "out" => readCond[u] # "out"
  BY <1>1 DEF CanRead!Set, CanRead!Reset, CanRead!Signal, canRead
<1>2. ASSUME NEW t \in Threads, CanRead!Block(t) \/ CanRead!Inside(t)
      PROVE  /\ CanRead!EventTypeOK'
             /\ \A u \in Threads \ {t} : readCond'[u] = readCond[u]
  BY <1>2 DEF CanRead!Block, CanRead!Inside, CanRead!Expire, CanRead!Again
<1>3. ASSUME NEW t \in Threads,
             CanRead!TakeSet(t) \/ CanRead!Succeed(t) \/ CanRead!TimedOut(t)
      PROVE  /\ CanRead!EventTypeOK'
             /\ \A u \in Threads \ {t} : readCond'[u] = readCond[u]
             /\ readCond'[t] = "out"
  BY <1>3 DEF CanRead!TakeSet, CanRead!Succeed, CanRead!TimedOut, CanRead!Consume
<1> QED BY <1>1, <1>2, <1>3

\* The same of m_CanWrite; besides, the permission to leave its wait comes from
\* the event being set, and a wait that ends resets it.
WakeOK == writeWake => writeSet = 1

LEMMA WriteEventSteps ==
  ASSUME CanWrite!EventTypeOK, WakeOK
  PROVE  /\ CanWrite!Set \/ UNCHANGED canWrite
              => /\ CanWrite!EventTypeOK' /\ WakeOK'
                 /\ \A u \in Threads : writeCond'[u] # "out" => writeCond[u] # "out"
         /\ CanWrite!Set => writeSet' = 1
         /\ \A t \in Threads :
              CanWrite!Block(t) \/ CanWrite!Again(t)
              => /\ CanWrite!EventTypeOK' /\ WakeOK'
                 /\ writeSet' = writeSet
                 /\ \A u \in Threads \ {t} : writeCond'[u] = writeCond[u]
         /\ \A t \in Threads :
              CanWrite!TakeSet(t) \/ CanWrite!Succeed(t)
              => /\ CanWrite!EventTypeOK' /\ WakeOK'
                 /\ writeSet = 1 /\ writeSet' = 0
                 /\ writeCond'[t] = "out"
                 /\ \A u \in Threads \ {t} : writeCond'[u] = writeCond[u]
<1> USE DEF CanWrite!EventTypeOK, CanWrite!Places, WakeOK
<1>1. ASSUME CanWrite!Set \/ UNCHANGED canWrite
      PROVE  /\ CanWrite!EventTypeOK' /\ WakeOK'
             /\ \A u \in Threads : writeCond'[u] # "out" => writeCond[u] # "out"
  <2>1. CASE CanWrite!Set
    <3>1. writeSet' = 1 /\ writeWake' = TRUE /\ CanWrite!Signal
      BY <2>1 DEF CanWrite!Set
    <3>2. /\ writeCond' \in [Threads -> CanWrite!Places]
          /\ \A u \in Threads : writeCond'[u] # "out" => writeCond[u] # "out"
      BY <3>1 DEF CanWrite!Signal
    <3> QED BY <3>1, <3>2
  <2>2. CASE UNCHANGED canWrite
    BY <2>2 DEF canWrite
  <2> QED BY <1>1, <2>1, <2>2
<1>2. CanWrite!Set => writeSet' = 1
  BY DEF CanWrite!Set
<1>3. ASSUME NEW t \in Threads, CanWrite!Block(t) \/ CanWrite!Again(t)
      PROVE  /\ CanWrite!EventTypeOK' /\ WakeOK'
             /\ writeSet' = writeSet
             /\ \A u \in Threads \ {t} : writeCond'[u] = writeCond[u]
  BY <1>3 DEF CanWrite!Block, CanWrite!Again
<1>4. ASSUME NEW t \in Threads, CanWrite!TakeSet(t) \/ CanWrite!Succeed(t)
      PROVE  /\ CanWrite!EventTypeOK' /\ WakeOK'
             /\ writeSet = 1 /\ writeSet' = 0
             /\ writeCond'[t] = "out"
             /\ \A u \in Threads \ {t} : writeCond'[u] = writeCond[u]
  <2>1. CanWrite!Consume /\ writeSet = 1
    BY <1>4 DEF CanWrite!TakeSet, CanWrite!Succeed, CanWrite!Leaves
  <2>2. writeSet' = 0 /\ writeWake' = FALSE
    BY <2>1 DEF CanWrite!Consume
  <2>3. /\ writeCond' \in [Threads -> CanWrite!Places]
        /\ writeCond'[t] = "out"
        /\ \A u \in Threads \ {t} : writeCond'[u] = writeCond[u]
    BY <1>4 DEF CanWrite!TakeSet, CanWrite!Succeed
  <2> QED BY <2>1, <2>2, <2>3
<1> QED BY <1>1, <1>2, <1>3, <1>4
-----------------------------------------------------------------------------
(* The inductive invariant *)

\* One permission to write, or readers, as long as there are writers; none without.
Permission ==
  /\ \A t, u \in At("writing") : t = u
  /\ At("writing") # {} => At("reading") = {} /\ writeSet = 0
  /\ At("reading") # {} => writeSet = 0
  /\ Writers = {} => writeSet = 0
  /\ Writers # {} => At("writing") # {} \/ At("reading") # {} \/ writeSet = 1

IInv == CountersOK /\ EventsOK /\ WaitsOK /\ WakeOK /\ Permission

One(b) == IF b THEN 1 ELSE 0

\* A counter follows the set it counts.
LEMMA Recounted ==
  ASSUME NEW S \in SUBSET Threads, NEW t \in Threads, NEW joins \in BOOLEAN
  PROVE  Cardinality(IF joins THEN S \cup {t} ELSE S \ {t})
           = Cardinality(S) + One(joins) - One(t \in S)
<1>1. Cardinality(S) \in Nat
  BY Counted
<1>2. CASE joins /\ t \in S
  <2>1. S \cup {t} = S
    BY <1>2
  <2> QED BY <1>1, <1>2, <2>1 DEF One
<1>3. CASE joins /\ t \notin S
  <2>1. Cardinality(S \cup {t}) = Cardinality(S) + 1
    BY <1>3, Counted
  <2> QED BY <1>1, <1>3, <2>1 DEF One
<1>4. CASE ~joins /\ t \in S
  <2>1. Cardinality(S \ {t}) = Cardinality(S) - 1
    BY <1>4, Counted
  <2> QED BY <1>1, <1>4, <2>1 DEF One
<1>5. CASE ~joins /\ t \notin S
  <2>1. S \ {t} = S
    BY <1>5
  <2> QED BY <1>1, <1>5, <2>1 DEF One
<1> QED BY <1>2, <1>3, <1>4, <1>5

LEMMA CountersStep ==
  ASSUME CountersOK, NEW t \in Threads, NEW place \in Places, Move(t, place),
         calls' \in [Threads -> Nat],
         m_nWriters' = m_nWriters + One(place \in {"waitWrite", "writing"})
                                  - One(pc[t] \in {"waitWrite", "writing"}),
         m_nActiveReaders' = m_nActiveReaders + One(place = "reading")
                                              - One(pc[t] = "reading"),
         m_nPendingReaders' = m_nPendingReaders
                                + One(place \in {"waitRead", "woken"})
                                - One(pc[t] \in {"waitRead", "woken"})
  PROVE  CountersOK'
<1> DEFINE w == place \in {"waitWrite", "writing"}
           p == place \in {"waitRead", "woken"}
           r == place = "reading"
<1>1. pc \in [Threads -> Places]
  BY DEF CountersOK
<1>2. /\ Writers \in SUBSET Threads
      /\ At("reading") \in SUBSET Threads
      /\ Pending \in SUBSET Threads
  BY DEF Writers, Pending, At
<1>3. m_nWriters' = Cardinality(Writers')
  <2>1. Writers' = IF w THEN Writers \cup {t} ELSE Writers \ {t}
    BY <1>1, MovedSets
  <2>2. One(pc[t] \in {"waitWrite", "writing"}) = One(t \in Writers)
    BY <1>1, MovedSets DEF One
  <2>3. w \in BOOLEAN
    OBVIOUS
  <2> HIDE DEF w
  <2>4. Cardinality(IF w THEN Writers \cup {t} ELSE Writers \ {t})
          = Cardinality(Writers) + One(w) - One(t \in Writers)
    BY <1>2, <2>3, Recounted
  <2>5. m_nWriters' = Cardinality(Writers) + One(w) - One(t \in Writers)
    BY <2>2 DEF CountersOK, w
  <2> QED BY <2>1, <2>4, <2>5
<1>4. m_nActiveReaders' = Cardinality(At("reading")')
  <2>1. At("reading")' = IF r THEN At("reading") \cup {t} ELSE At("reading") \ {t}
    BY <1>1, MovedSets
  <2>2. One(pc[t] = "reading") = One(t \in At("reading"))
    BY <1>1, MovedSets DEF One
  <2>3. r \in BOOLEAN
    OBVIOUS
  <2> HIDE DEF r
  <2>4. Cardinality(IF r THEN At("reading") \cup {t} ELSE At("reading") \ {t})
          = Cardinality(At("reading")) + One(r) - One(t \in At("reading"))
    BY <1>2, <2>3, Recounted
  <2>5. m_nActiveReaders' = Cardinality(At("reading")) + One(r) - One(t \in At("reading"))
    BY <2>2 DEF CountersOK, r
  <2> QED BY <2>1, <2>4, <2>5
<1>5. m_nPendingReaders' = Cardinality(Pending')
  <2>1. Pending' = IF p THEN Pending \cup {t} ELSE Pending \ {t}
    BY <1>1, MovedSets
  <2>2. One(pc[t] \in {"waitRead", "woken"}) = One(t \in Pending)
    BY <1>1, MovedSets DEF One
  <2>3. p \in BOOLEAN
    OBVIOUS
  <2> HIDE DEF p
  <2>4. Cardinality(IF p THEN Pending \cup {t} ELSE Pending \ {t})
          = Cardinality(Pending) + One(p) - One(t \in Pending)
    BY <1>2, <2>3, Recounted
  <2>5. m_nPendingReaders' = Cardinality(Pending) + One(p) - One(t \in Pending)
    BY <2>2 DEF CountersOK, p
  <2> QED BY <2>1, <2>4, <2>5
<1> QED BY <1>1, <1>3, <1>4, <1>5, Moved DEF CountersOK

LEMMA InvIsTyped == IInv => TypeOK
BY TypeParts DEF IInv

\* A thread that is outside or has the lock is in neither condition variable.
LEMMA NotWaiting ==
  ASSUME WaitsOK, NEW t \in Threads
  PROVE  /\ pc[t] \notin {"waitRead", "waitWrite"} =>
              readCond[t] = "out" /\ writeCond[t] = "out"
         /\ pc[t] = "waitRead" => writeCond[t] = "out"
         /\ pc[t] = "waitWrite" => readCond[t] = "out"
BY DEF WaitsOK
-----------------------------------------------------------------------------
(* Every step keeps the invariant *)

LEMMA LockForReadStep ==
  ASSUME IInv, NEW t \in Threads, LockForRead(t)
  PROVE  IInv'
<1> USE DEF IInv
<1>1. /\ pc[t] = "outside" /\ calls' \in [Threads -> Nat]
      /\ UNCHANGED <<m_nWriters, canRead, canWrite>>
  BY DEF LockForRead, Call, CountersOK
<1>2. /\ m_nWriters \in Nat /\ (m_nWriters = 0 <=> Writers = {})
      /\ m_nActiveReaders \in Nat /\ m_nPendingReaders \in Nat
      /\ pc \in [Threads -> Places]
  BY InvIsTyped, Zeroes DEF CountersOK
<1>3. /\ EventsOK' /\ WakeOK'
      /\ readCond' = readCond /\ writeCond' = writeCond /\ writeSet' = writeSet
  BY <1>1 DEF canRead, canWrite, EventsOK, WakeOK, CanRead!EventTypeOK,
              CanWrite!EventTypeOK
<1>4. CASE m_nWriters # 0
  <2>1. /\ Move(t, "waitRead") /\ m_nPendingReaders' = m_nPendingReaders + 1
        /\ m_nActiveReaders' = m_nActiveReaders
    BY <1>4 DEF LockForRead
  <2>2. CountersOK'
    BY <1>1, <1>2, <2>1, CountersStep DEF One, Places
  <2>3. WaitsOK'
    BY <1>1, <1>2, <1>3, <2>1, Moved, NotWaiting DEF WaitsOK, Places
  <2>4. Permission'
    BY <1>1, <1>2, <1>3, <2>1, MovedSets DEF Permission, Places
  <2> QED BY <1>3, <2>2, <2>3, <2>4
<1>5. CASE m_nWriters = 0
  <2>1. /\ Move(t, "reading") /\ m_nPendingReaders' = m_nPendingReaders
        /\ m_nActiveReaders' = m_nActiveReaders + 1
    BY <1>5 DEF LockForRead
  <2>2. CountersOK'
    BY <1>1, <1>2, <2>1, CountersStep DEF One, Places
  <2>3. WaitsOK'
    BY <1>1, <1>2, <1>3, <2>1, Moved, NotWaiting DEF WaitsOK, Places
  <2>4. At("writing") \subseteq Writers
    BY DEF Writers
  <2>5. Permission'
    BY <1>1, <1>2, <1>3, <1>5, <2>1, <2>4, MovedSets DEF Permission, Places
  <2> QED BY <1>3, <2>2, <2>3, <2>5
<1> QED BY <1>4, <1>5

LEMMA WaitForReadStep ==
  ASSUME IInv, NEW t \in Threads, WaitForRead(t)
  PROVE  IInv'
<1> USE DEF IInv
<1>1. /\ pc[t] = "waitRead"
      /\ UNCHANGED <<calls, counters, canWrite>>
      /\ pc \in [Threads -> Places]
  BY DEF WaitForRead, CountersOK
<1>2. /\ CanRead!EventTypeOK'
      /\ \A u \in Threads \ {t} : readCond'[u] = readCond[u]
  BY ReadEventSteps DEF WaitForRead, EventsOK
<1>3. /\ EventsOK' /\ WakeOK'
      /\ writeCond' = writeCond /\ writeSet' = writeSet
      /\ writeCond[t] = "out"
  BY <1>1, <1>2, NotWaiting DEF canWrite, EventsOK, WakeOK, CanWrite!EventTypeOK
<1>4. CASE UNCHANGED pc
  <2>1. CountersOK' /\ Permission'
    BY <1>1, <1>3, <1>4 DEF counters, CountersOK, Permission, Writers, Pending, At
  <2>2. WaitsOK'
    BY <1>1, <1>2, <1>3, <1>4 DEF WaitsOK
  <2> QED BY <1>3, <2>1, <2>2
<1>5. CASE /\ Move(t, "woken")
           /\ CanRead!TakeSet(t) \/ CanRead!Succeed(t) \/ CanRead!TimedOut(t)
  <2>1. CountersOK'
    <3>1. /\ m_nWriters \in Nat /\ m_nActiveReaders \in Nat
          /\ m_nPendingReaders \in Nat
      BY InvIsTyped, Zeroes
    <3>2. calls' \in [Threads -> Nat]
      BY <1>1 DEF CountersOK
    <3> QED BY <1>1, <1>5, <3>1, <3>2, CountersStep DEF counters, One, Places
  <2>2. readCond'[t] = "out"
    BY <1>5, ReadEventSteps DEF EventsOK
  <2>3. WaitsOK'
    BY <1>1, <1>2, <1>3, <1>5, <2>2, Moved DEF WaitsOK, Places
  <2>4. Permission'
    BY <1>1, <1>3, <1>5, MovedSets DEF Permission, Places
  <2> QED BY <1>3, <2>1, <2>3, <2>4
<1> QED BY <1>4, <1>5 DEF WaitForRead

LEMMA EndWaitForReadStep ==
  ASSUME IInv, NEW t \in Threads, EndWaitForRead(t)
  PROVE  IInv'
<1> USE DEF IInv
<1>1. /\ pc[t] = "woken" /\ calls' \in [Threads -> Nat]
      /\ UNCHANGED <<m_nWriters, canRead, canWrite>>
  BY DEF EndWaitForRead, CountersOK
<1>2. /\ m_nWriters \in Nat /\ (m_nWriters = 0 <=> Writers = {})
      /\ m_nActiveReaders \in Nat /\ m_nPendingReaders \in Nat
      /\ pc \in [Threads -> Places]
  BY InvIsTyped, Zeroes DEF CountersOK
<1>3. /\ EventsOK' /\ WakeOK'
      /\ readCond' = readCond /\ writeCond' = writeCond /\ writeSet' = writeSet
  BY <1>1 DEF canRead, canWrite, EventsOK, WakeOK, CanRead!EventTypeOK,
              CanWrite!EventTypeOK
<1>4. CASE m_nWriters # 0
  <2>1. /\ Move(t, "waitRead") /\ m_nPendingReaders' = m_nPendingReaders
        /\ m_nActiveReaders' = m_nActiveReaders
    BY <1>4 DEF EndWaitForRead
  <2>2. CountersOK'
    BY <1>1, <1>2, <2>1, CountersStep DEF One, Places
  <2>3. WaitsOK'
    BY <1>1, <1>2, <1>3, <2>1, Moved, NotWaiting DEF WaitsOK, Places
  <2>4. Permission'
    BY <1>1, <1>2, <1>3, <2>1, MovedSets DEF Permission, Places
  <2> QED BY <1>3, <2>2, <2>3, <2>4
<1>5. CASE m_nWriters = 0
  <2>1. /\ Move(t, "reading") /\ m_nPendingReaders' = m_nPendingReaders - 1
        /\ m_nActiveReaders' = m_nActiveReaders + 1
    BY <1>5 DEF EndWaitForRead
  <2>2. CountersOK'
    BY <1>1, <1>2, <2>1, CountersStep DEF One, Places
  <2>3. WaitsOK'
    BY <1>1, <1>2, <1>3, <2>1, Moved, NotWaiting DEF WaitsOK, Places
  <2>4. At("writing") \subseteq Writers
    BY DEF Writers
  <2>5. Permission'
    BY <1>1, <1>2, <1>3, <1>5, <2>1, <2>4, MovedSets DEF Permission, Places
  <2> QED BY <1>3, <2>2, <2>3, <2>5
<1> QED BY <1>4, <1>5

LEMMA UnlockReadStep ==
  ASSUME IInv, NEW t \in Threads, UnlockRead(t)
  PROVE  IInv'
<1> USE DEF IInv
<1>1. /\ pc[t] = "reading" /\ calls' \in [Threads -> Nat]
      /\ Move(t, "outside")
      /\ m_nActiveReaders' = m_nActiveReaders - 1
      /\ UNCHANGED <<m_nWriters, m_nPendingReaders, canRead>>
      /\ CanWrite!Set \/ UNCHANGED canWrite
  BY DEF UnlockRead, LastReaderLeft, CountersOK
<1>2. /\ m_nWriters \in Nat /\ (m_nWriters = 0 <=> Writers = {})
      /\ m_nActiveReaders \in Nat /\ m_nPendingReaders \in Nat
      /\ pc \in [Threads -> Places]
  BY InvIsTyped, Zeroes DEF CountersOK
<1>3. CountersOK'
  BY <1>1, <1>2, CountersStep DEF One, Places
<1>4. /\ EventsOK' /\ WakeOK' /\ readCond' = readCond
      /\ \A u \in Threads : writeCond'[u] # "out" => writeCond[u] # "out"
  BY <1>1, WriteEventSteps DEF EventsOK, canRead, CanRead!EventTypeOK
<1>5. WaitsOK'
  BY <1>1, <1>2, <1>4, Moved, NotWaiting DEF WaitsOK, Places
<1>6. m_nActiveReaders' = 0 <=> At("reading")' = {}
  <2>1. At("reading")' \in SUBSET Threads
    BY DEF At
  <2> QED BY <2>1, <1>3, Counted DEF CountersOK
<1>7. /\ Writers' = Writers /\ At("writing")' = At("writing")
      /\ At("writing") = {} /\ At("reading")' \subseteq At("reading")
      /\ writeSet = 0
  <2>1. /\ t \in At("reading") /\ t \notin Writers /\ t \notin At("writing")
        /\ Writers' = Writers \ {t} /\ At("writing")' = At("writing") \ {t}
        /\ At("reading")' = At("reading") \ {t}
    BY <1>1, <1>2, MovedSets DEF Places
  <2> QED BY <2>1 DEF Permission
<1>8. CASE m_nActiveReaders' = 0 /\ m_nWriters # 0
  <2>1. CanWrite!Set
    BY <1>8 DEF UnlockRead, LastReaderLeft
  <2>2. writeSet' = 1
    BY <2>1, WriteEventSteps DEF EventsOK
  <2>3. Permission'
    BY <1>2, <1>6, <1>7, <1>8, <2>2 DEF Permission
  <2> QED BY <1>3, <1>4, <1>5, <2>3
<1>9. CASE ~(m_nActiveReaders' = 0 /\ m_nWriters # 0)
  <2>1. writeSet' = writeSet
    BY <1>9 DEF UnlockRead, LastReaderLeft, canWrite
  <2>2. Permission'
    BY <1>2, <1>6, <1>7, <1>9, <2>1 DEF Permission
  <2> QED BY <1>3, <1>4, <1>5, <2>2
<1> QED BY <1>8, <1>9

LEMMA LockForWriteStep ==
  ASSUME IInv, NEW t \in Threads, LockForWrite(t)
  PROVE  IInv'
<1> USE DEF IInv
<1> DEFINE place == IF MustWait THEN "waitWrite" ELSE "writing"
<1>1. /\ pc[t] = "outside" /\ calls' \in [Threads -> Nat]
      /\ Move(t, place)
      /\ m_nWriters' = m_nWriters + 1
      /\ UNCHANGED <<m_nActiveReaders, m_nPendingReaders, canWrite>>
      /\ CanRead!Reset
  BY DEF LockForWrite, Call, CountersOK
<1>2. /\ m_nWriters \in Nat /\ (m_nWriters = 0 <=> Writers = {})
      /\ m_nActiveReaders \in Nat /\ (m_nActiveReaders = 0 <=> At("reading") = {})
      /\ m_nPendingReaders \in Nat
      /\ pc \in [Threads -> Places]
  BY InvIsTyped, Zeroes DEF CountersOK
<1>3. CountersOK'
  BY <1>1, <1>2, CountersStep DEF One, Places
<1>4. /\ EventsOK' /\ WakeOK'
      /\ writeCond' = writeCond /\ writeSet' = writeSet
      /\ \A u \in Threads : readCond'[u] # "out" => readCond[u] # "out"
  <2>1. /\ CanRead!EventTypeOK'
        /\ \A u \in Threads : readCond'[u] # "out" => readCond[u] # "out"
    BY <1>1, ReadEventSteps DEF EventsOK
  <2> QED BY <1>1, <2>1 DEF EventsOK, WakeOK, canWrite, CanWrite!EventTypeOK
<1>5. WaitsOK'
  BY <1>1, <1>2, <1>4, Moved, NotWaiting DEF WaitsOK, Places
<1>6. CASE MustWait
  <2>1. /\ Writers' = Writers \cup {t} /\ At("writing")' = At("writing")
        /\ At("reading")' = At("reading")
    BY <1>1, <1>2, <1>6, MovedSets DEF Places
  <2>2. Permission'
    BY <1>2, <1>4, <1>6, <2>1 DEF Permission, MustWait
  <2> QED BY <1>3, <1>4, <1>5, <2>2
<1>7. CASE ~MustWait
  <2>1. /\ At("writing")' = At("writing") \cup {t}
        /\ At("reading")' = At("reading") \ {t}
        /\ t \in Writers'
    BY <1>1, <1>2, <1>7, MovedSets DEF Places
  <2>2. At("writing") = {}
    BY <1>2, <1>7 DEF Writers, MustWait
  <2>3. Permission'
    BY <1>2, <1>4, <1>7, <2>1, <2>2 DEF Permission, MustWait
  <2> QED BY <1>3, <1>4, <1>5, <2>3
<1> QED BY <1>6, <1>7

LEMMA WaitForWriteStep ==
  ASSUME IInv, NEW t \in Threads, WaitForWrite(t)
  PROVE  IInv'
<1> USE DEF IInv
<1>1. /\ pc[t] = "waitWrite"
      /\ UNCHANGED <<calls, counters, canRead>>
      /\ pc \in [Threads -> Places]
      /\ calls' \in [Threads -> Nat]
  BY DEF WaitForWrite, CountersOK
<1>2. /\ CanWrite!EventTypeOK' /\ WakeOK'
      /\ \A u \in Threads \ {t} : writeCond'[u] = writeCond[u]
  BY WriteEventSteps DEF WaitForWrite, EventsOK
<1>3. EventsOK' /\ readCond' = readCond
  BY <1>1, <1>2 DEF EventsOK, canRead, CanRead!EventTypeOK
<1>4. CASE UNCHANGED pc /\ (CanWrite!Block(t) \/ CanWrite!Again(t))
  <2>1. writeSet' = writeSet
    BY <1>4, WriteEventSteps DEF EventsOK
  <2>2. CountersOK' /\ Permission'
    BY <1>1, <1>4, <2>1 DEF counters, CountersOK, Permission, Writers, Pending, At
  <2>3. WaitsOK'
    BY <1>1, <1>2, <1>3, <1>4 DEF WaitsOK
  <2> QED BY <1>2, <1>3, <2>2, <2>3
<1>5. CASE Move(t, "writing") /\ (CanWrite!TakeSet(t) \/ CanWrite!Succeed(t))
  <2>1. writeSet = 1 /\ writeSet' = 0 /\ writeCond'[t] = "out"
    BY <1>5, WriteEventSteps DEF EventsOK
  <2>2. CountersOK'
    <3>1. /\ m_nWriters \in Nat /\ m_nActiveReaders \in Nat
          /\ m_nPendingReaders \in Nat
      BY InvIsTyped, Zeroes
    <3> QED BY <1>1, <1>5, <3>1, CountersStep DEF counters, One, Places
  <2>3. WaitsOK'
    BY <1>1, <1>2, <1>3, <1>5, <2>1, Moved, NotWaiting DEF WaitsOK, Places
  <2>4. /\ At("writing")' = At("writing") \cup {t}
        /\ At("reading")' = At("reading") \ {t}
        /\ t \in Writers'
    BY <1>1, <1>5, MovedSets DEF Places
  <2>5. Permission'
    BY <2>1, <2>4 DEF Permission
  <2> QED BY <1>2, <1>3, <2>2, <2>3, <2>5
<1> QED BY <1>4, <1>5 DEF WaitForWrite

LEMMA UnlockWriteStep ==
  ASSUME IInv, NEW t \in Threads, UnlockWrite(t)
  PROVE  IInv'
<1> USE DEF IInv
<1>1. /\ pc[t] = "writing" /\ calls' \in [Threads -> Nat]
      /\ Move(t, "outside")
      /\ m_nWriters' = m_nWriters - 1
      /\ UNCHANGED <<m_nActiveReaders, m_nPendingReaders>>
      /\ CanRead!Set \/ UNCHANGED canRead
      /\ CanWrite!Set \/ UNCHANGED canWrite
  BY DEF UnlockWrite, CountersOK
<1>2. /\ m_nWriters \in Nat /\ m_nActiveReaders \in Nat /\ m_nPendingReaders \in Nat
      /\ pc \in [Threads -> Places]
  BY InvIsTyped, Zeroes DEF CountersOK
<1>3. CountersOK'
  BY <1>1, <1>2, CountersStep DEF One, Places
<1>4. /\ EventsOK' /\ WakeOK'
      /\ \A u \in Threads : writeCond'[u] # "out" => writeCond[u] # "out"
      /\ \A u \in Threads : readCond'[u] # "out" => readCond[u] # "out"
  <2>1. /\ CanRead!EventTypeOK'
        /\ \A u \in Threads : readCond'[u] # "out" => readCond[u] # "out"
    BY <1>1, ReadEventSteps DEF EventsOK
  <2>2. /\ CanWrite!EventTypeOK' /\ WakeOK'
        /\ \A u \in Threads : writeCond'[u] # "out" => writeCond[u] # "out"
    BY <1>1, WriteEventSteps DEF EventsOK
  <2> QED BY <2>1, <2>2 DEF EventsOK
<1>5. WaitsOK'
  BY <1>1, <1>2, <1>4, Moved, NotWaiting DEF WaitsOK, Places
<1>6. m_nWriters' = 0 <=> Writers' = {}
  <2>1. Writers' \in SUBSET Threads
    BY DEF Writers, At
  <2> QED BY <2>1, <1>3, Counted DEF CountersOK
<1>7. /\ At("writing")' = {} /\ At("reading")' = {} /\ writeSet = 0
  <2>1. /\ t \in At("writing")
        /\ At("writing")' = At("writing") \ {t}
        /\ At("reading")' = At("reading") \ {t}
    BY <1>1, <1>2, MovedSets DEF Places
  <2>2. At("writing") = {t}
    BY <2>1 DEF Permission
  <2> QED BY <2>1, <2>2 DEF Permission
<1>8. CASE m_nWriters' = 0
  <2>1. writeSet' = writeSet
    BY <1>8 DEF UnlockWrite, canWrite
  <2>2. Permission'
    BY <1>6, <1>7, <1>8, <2>1 DEF Permission
  <2> QED BY <1>3, <1>4, <1>5, <2>2
<1>9. CASE m_nWriters' # 0
  <2>1. CanWrite!Set
    BY <1>9 DEF UnlockWrite
  <2>2. writeSet' = 1
    BY <2>1, WriteEventSteps DEF EventsOK
  <2>3. Permission'
    BY <1>6, <1>7, <1>9, <2>2 DEF Permission
  <2> QED BY <1>3, <1>4, <1>5, <2>3
<1> QED BY <1>8, <1>9
-----------------------------------------------------------------------------
(* The theorems *)

LEMMA InitInv == Init => IInv
<1> SUFFICES ASSUME Init
             PROVE  IInv
  OBVIOUS
<1>1. /\ pc \in [Threads -> Places] /\ calls \in [Threads -> Nat]
      /\ \A t \in Threads : pc[t] = "outside"
  BY DEF Init, Places
<1>2. Writers = {} /\ Pending = {} /\ At("reading") = {} /\ At("writing") = {}
  BY <1>1 DEF Writers, Pending, At
<1>3. CountersOK
  BY <1>1, <1>2, FS_EmptySet DEF Init, CountersOK
<1>4. EventsOK /\ WakeOK /\ WaitsOK /\ writeSet = 0
  BY DEF Init, EventsOK, WakeOK, WaitsOK, CanRead!EventInit, CanWrite!EventInit,
         CanRead!EventTypeOK, CanWrite!EventTypeOK, CanRead!Places, CanWrite!Places
<1>5. Permission
  BY <1>2, <1>4 DEF Permission
<1> QED BY <1>3, <1>4, <1>5 DEF IInv

LEMMA InvStep == IInv /\ [Next]_vars => IInv'
<1> SUFFICES ASSUME IInv, [Next]_vars
             PROVE  IInv'
  OBVIOUS
<1>1. CASE UNCHANGED vars
  BY <1>1 DEF vars, counters, canRead, canWrite, IInv, CountersOK, EventsOK, WaitsOK,
              WakeOK, Permission, Writers, Pending, At,
              CanRead!EventTypeOK, CanWrite!EventTypeOK
<1>2. ASSUME NEW t \in Threads, Waits(t) \/ Unlocks(t)
      PROVE  IInv'
  BY <1>2, WaitForReadStep, EndWaitForReadStep, WaitForWriteStep, UnlockReadStep,
     UnlockWriteStep DEF Waits, Unlocks
<1> QED BY <1>1, <1>2, LockForReadStep, LockForWriteStep DEF Next

\* The counters count the threads they stand for, and a thread is in a condition
\* variable only while it waits for that event.
THEOREM RWLockTypeCorrect == Spec => []TypeOK
<1> QED BY InitInv, InvStep, InvIsTyped, PTL DEF Spec

\* A writer has the lock alone, whatever threads do between the sections of code
\* under the mutex and however the condition variables wake them.
THEOREM RWLockExclusion == Spec => []Exclusion
<1>1. IInv => Exclusion
  <2> SUFFICES ASSUME IInv, NEW t \in Threads, NEW u \in Threads,
                      pc[t] = "writing", t # u
               PROVE  pc[u] \notin {"writing", "reading"}
    BY DEF Exclusion
  <2>1. t \in At("writing")
    BY DEF At
  <2> QED BY <2>1 DEF IInv, Permission, At
<1> QED BY <1>1, InitInv, InvStep, PTL DEF Spec

\* While there are writers there is exactly one permission to write on its way,
\* in use, or withheld by readers.
THEOREM RWLockOnePermission == Spec => []OnePermission
<1>1. IInv => OnePermission
  <2> SUFFICES ASSUME IInv
               PROVE  OnePermission
    OBVIOUS
  <2> DEFINE P == {x \in {"readers", "writer", "event"} :
                     \/ x = "readers" /\ m_nActiveReaders > 0
                     \/ x = "writer" /\ At("writing") # {}
                     \/ x = "event" /\ writeSet > 0}
  <2>1. /\ m_nWriters \in Nat /\ (m_nWriters = 0 <=> Writers = {})
        /\ m_nActiveReaders \in Nat /\ (m_nActiveReaders = 0 <=> At("reading") = {})
        /\ writeSet \in {0, 1}
    BY InvIsTyped, Zeroes DEF IInv, EventsOK, CanWrite!EventTypeOK
  <2>2. At("writing") # {} => Writers # {}
    BY DEF Writers
  <2>3. CASE m_nWriters > 0
    <3>1. P = {"readers"} \/ P = {"writer"} \/ P = {"event"}
      BY <2>1, <2>3 DEF IInv, Permission
    <3>2. Cardinality(P) = 1
      BY <3>1, FS_Singleton
    <3> QED BY <2>3, <3>2 DEF OnePermission
  <2>4. CASE m_nWriters = 0 /\ m_nActiveReaders > 0
    <3>1. P = {"readers"}
      BY <2>1, <2>2, <2>4 DEF IInv, Permission
    <3>2. Cardinality(P) = 1
      BY <3>1, FS_Singleton
    <3> QED BY <2>4, <3>2 DEF OnePermission
  <2>5. CASE m_nWriters = 0 /\ m_nActiveReaders = 0
    <3>1. P = {}
      BY <2>1, <2>2, <2>5 DEF IInv, Permission
    <3>2. Cardinality(P) = 0
      BY <3>1, FS_EmptySet
    <3> QED BY <2>5, <3>2 DEF OnePermission
  <2> QED BY <2>1, <2>3, <2>4, <2>5
<1> QED BY <1>1, InitInv, InvStep, PTL DEF Spec
=============================================================================
