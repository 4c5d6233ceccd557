-------------------------- MODULE ThreadPoolProofs --------------------------
(***************************************************************************)
(* JobQueue keeps every promise of Pop; the threads of ThreadPool use the  *)
(* queues as JobQueue says, so the promise holds of the pool; every job is *)
(* executed at most once; a suspended pool is quiet; the references of a   *)
(* job are those of its users; AbortAll leaves nothing behind; serial jobs *)
(* are executed in the order in which they were added; and the number of   *)
(* jobs is right between two calls.                                        *)
(***************************************************************************)
EXTENDS ThreadPool, FiniteSetTheorems, TLAPS

-----------------------------------------------------------------------------
\* The queue: enough items below every priority for the threads that look there

N == JP_NUM_PRIORITIES

Items(q, i) == {x \in Priorities \X Nat : x[1] < i /\ x[2] \in 1..Len(m_queues[q][x[1]])}
Past(q, i) == {t \in Threads : qStep[t] = "scan" /\ qUsed[t] = q /\ level[t] < i}
Counting(q) == {t \in Threads : qStep[t] = "count" /\ qUsed[t] = q}

QueueType ==
  /\ m_queues \in [Queues -> [Priorities -> Seq(Jobs)]]
  /\ m_nItems \in [Queues -> Nat]
  /\ m_JobAvailableEvent \in [Queues -> BOOLEAN]
  /\ qStep \in [Threads -> {"none", "count", "scan"}]
  /\ qUsed \in [Threads -> Queues]
  /\ level \in [Threads -> -1..(N - 1)]
  /\ \A t \in Threads : qStep[t] # "scan" => level[t] >= 0

EnoughBelow ==
  \A q \in Queues, i \in 0..N : Cardinality(Past(q, i)) <= Cardinality(Items(q, i))

AllPromised ==
  \A q \in Queues :
    m_nItems[q] + Cardinality(Past(q, N)) + Cardinality(Counting(q)) = Cardinality(Items(q, N))

ItemsFinite == \A q \in Queues : IsFiniteSet(Items(q, N))

QInv == QueueType /\ ItemsFinite /\ EnoughBelow /\ AllPromised

LEMMA Basics ==
  /\ N \in Nat \ {0} /\ Priorities = 0..(N - 1) /\ IsFiniteSet(Threads)
  /\ NoQueue \in Queues
BY JobQueueAssumption DEF N, Priorities, NoQueue

LEMMA Finite ==
  ASSUME QueueType, ItemsFinite, NEW q \in Queues, NEW i \in 0..N
  PROVE /\ IsFiniteSet(Items(q, i)) /\ Cardinality(Items(q, i)) \in Nat
        /\ IsFiniteSet(Past(q, i)) /\ Cardinality(Past(q, i)) \in Nat
        /\ IsFiniteSet(Counting(q)) /\ Cardinality(Counting(q)) \in Nat
<1>1. Items(q, i) \subseteq Items(q, N) /\ IsFiniteSet(Items(q, N))
  BY Basics DEF Items, ItemsFinite
<1>2. Past(q, i) \subseteq Threads /\ Counting(q) \subseteq Threads /\ IsFiniteSet(Threads)
  BY Basics DEF Past, Counting
<1>3. /\ IsFiniteSet(Items(q, i)) /\ IsFiniteSet(Past(q, i)) /\ IsFiniteSet(Counting(q))
  BY <1>1, <1>2, FS_Subset
<1> QED BY <1>3, FS_CardinalityType

(* One more or one less, of a set that is finite. *)
LEMMA OneMore ==
  ASSUME NEW S, NEW x, x \notin S, IsFiniteSet(S)
  PROVE IsFiniteSet(S \cup {x}) /\ Cardinality(S \cup {x}) = Cardinality(S) + 1
BY FS_AddElement

LEMMA OneLess ==
  ASSUME NEW S, NEW x, x \in S, IsFiniteSet(S)
  PROVE IsFiniteSet(S \ {x}) /\ Cardinality(S \ {x}) = Cardinality(S) - 1
BY FS_RemoveElement

LEMMA QInitially == QueueInit => QInv
<1> SUFFICES ASSUME QueueInit PROVE QInv
  OBVIOUS
<1>1. QueueType
  BY Basics DEF QueueInit, QueueType, N, Priorities
<1>2. \A q \in Queues, i \in 0..N : Items(q, i) = {} /\ Past(q, i) = {} /\ Counting(q) = {}
  BY Basics DEF QueueInit, Items, Past, Counting
<1>3. IsFiniteSet({}) /\ Cardinality({}) = 0
  BY FS_EmptySet
<1>4. N \in 0..N
  BY Basics
<1>5. \A q \in Queues : m_nItems[q] = 0
  BY DEF QueueInit
<1>6. ItemsFinite
  BY <1>2, <1>3, <1>4 DEF ItemsFinite
<1>7. EnoughBelow
  BY <1>2, <1>3 DEF EnoughBelow
<1>8. AllPromised
  BY <1>2, <1>3, <1>4, <1>5 DEF AllPromised
<1> QED BY <1>1, <1>6, <1>7, <1>8 DEF QInv

LEMMA QType == QueueType /\ [QueueNext]_queueVars => QueueType'
<1> SUFFICES ASSUME QueueType, [QueueNext]_queueVars PROVE QueueType'
  OBVIOUS
<1> USE Basics
<1>1. ASSUME NEW t \in Threads, NEW q \in Queues, NEW j \in Jobs, NEW p \in Priorities,
             PushItem(t, q, j, p)
      PROVE QueueType'
  <2>1. Append(m_queues[q][p], j) \in Seq(Jobs)
    BY DEF QueueType
  <2>2. m_queues' \in [Queues -> [Priorities -> Seq(Jobs)]]
    BY <1>1, <2>1 DEF PushItem, QueueType
  <2> QED BY <1>1, <2>2 DEF PushItem, QueueType
<1>2. ASSUME NEW t \in Threads, NEW q \in Queues, Reserve(t, q) PROVE QueueType'
  BY SMTT(30), <1>2 DEF Reserve, QueueType, N
<1>3. ASSUME NEW t \in Threads, CountItem(t) PROVE QueueType'
  <2>1. qUsed[t] \in Queues /\ m_nItems[qUsed[t]] \in Nat
    BY DEF QueueType
  <2> QED BY <1>3, <2>1 DEF CountItem, QueueType
<1>4. ASSUME NEW t \in Threads, ScanLower(t) PROVE QueueType'
  <2>1. level[t] - 1 \in -1..(N - 1)
    BY <1>4 DEF ScanLower, QueueType
  <2> QED BY <1>4, <2>1 DEF ScanLower, QueueType
<1>5. ASSUME NEW t \in Threads, TakeItem(t) PROVE QueueType'
  <2>1. level[t] \in Priorities /\ qUsed[t] \in Queues
    BY <1>5 DEF TakeItem, QueueType
  <2>2. Place(t) \in Seq(Jobs) /\ Place(t) # <<>>
    BY <1>5, <2>1 DEF TakeItem, QueueType, Place
  <2>3. Tail(Place(t)) \in Seq(Jobs)
    BY <2>2
  <2>4. m_queues' \in [Queues -> [Priorities -> Seq(Jobs)]]
    BY <1>5, <2>1, <2>3 DEF TakeItem, QueueType, Place
  <2> QED BY <1>5, <2>4 DEF TakeItem, QueueType, N
<1>6. CASE UNCHANGED queueVars
  BY <1>6 DEF queueVars, QueueType
<1> QED BY <1>1, <1>2, <1>3, <1>4, <1>5, <1>6 DEF QueueNext

(* What each operation does to the three sets. *)
LEMMA PushSets ==
  ASSUME QueueType, NEW t \in Threads, NEW q \in Queues, NEW j \in Jobs, NEW p \in Priorities,
         PushItem(t, q, j, p), NEW r \in Queues, NEW i \in 0..N
  PROVE /\ Past(r, i)' = Past(r, i)
        /\ Counting(r)' = IF r = q THEN Counting(r) \cup {t} ELSE Counting(r)
        /\ t \notin Counting(r)
        /\ Items(r, i)' = IF r = q /\ p < i
                          THEN Items(r, i) \cup {<<p, Len(m_queues[q][p]) + 1>>} ELSE Items(r, i)
        /\ <<p, Len(m_queues[q][p]) + 1>> \notin Items(q, i)
        /\ m_nItems' = m_nItems
<1> USE Basics
<1>1. Past(r, i)' = Past(r, i)
  BY DEF PushItem, Past, QueueType
<1>2. Counting(r)' = (IF r = q THEN Counting(r) \cup {t} ELSE Counting(r)) /\ t \notin Counting(r)
  BY DEF PushItem, Counting, QueueType
<1> DEFINE s == m_queues[q][p]
<1>0. m_queues[q][p] \in Seq(Jobs)
  BY DEF QueueType
<1>3. s \in Seq(Jobs) /\ Len(s) \in Nat /\ Len(Append(s, j)) = Len(s) + 1
  BY <1>0
<1>4. /\ m_queues'[q][p] = Append(s, j)
      /\ \A qq \in Queues, pp \in Priorities :
           ~(qq = q /\ pp = p) => m_queues'[qq][pp] = m_queues[qq][pp]
  BY DEF PushItem, QueueType
<1>5. 1..Len(Append(s, j)) = 1..Len(s) \cup {Len(s) + 1} /\ Len(s) + 1 \notin 1..Len(s)
  BY <1>3
<1>6. ASSUME NEW x \in Priorities \X Nat
      PROVE x \in Items(r, i)' <=>
              x \in Items(r, i) \/ (r = q /\ p < i /\ x = <<p, Len(s) + 1>>)
  <2>1. CASE r = q /\ x[1] = p
    <3>1. x[2] \in 1..Len(Append(s, j)) <=> x[2] \in 1..Len(s) \/ x[2] = Len(s) + 1
      BY <1>5
    <3>2. x = <<p, Len(s) + 1>> <=> x[2] = Len(s) + 1
      BY <2>1, <1>3
    <3>3. x \in Items(r, i)' <=> p < i /\ x[2] \in 1..Len(Append(s, j))
      BY <2>1, <1>4 DEF Items
    <3>4. x \in Items(r, i) <=> p < i /\ x[2] \in 1..Len(s)
      BY <2>1 DEF Items
    <3> QED BY <2>1, <3>1, <3>2, <3>3, <3>4
  <2>2. CASE ~(r = q /\ x[1] = p)
    <3>1. m_queues'[r][x[1]] = m_queues[r][x[1]]
      BY <2>2, <1>4
    <3>2. x # <<p, Len(s) + 1>> \/ r # q
      BY <2>2
    <3> QED BY <3>1, <3>2 DEF Items
  <2> QED BY <2>1, <2>2
<1>7. <<p, Len(s) + 1>> \in Priorities \X Nat /\ <<p, Len(s) + 1>> \notin Items(q, i)
  BY SMTT(30), <1>3, <1>5 DEF Items
<1>8. Items(r, i) \subseteq Priorities \X Nat /\ Items(r, i)' \subseteq Priorities \X Nat
  BY DEF Items
<1>9. Items(r, i)' = IF r = q /\ p < i
                     THEN Items(r, i) \cup {<<p, Len(s) + 1>>} ELSE Items(r, i)
  BY <1>6, <1>7, <1>8
<1> QED BY <1>1, <1>2, <1>7, <1>9 DEF PushItem

LEMMA CountSets ==
  ASSUME QueueType, NEW t \in Threads, CountItem(t), NEW r \in Queues, NEW i \in 0..N
  PROVE /\ Past(r, i)' = Past(r, i) /\ Items(r, i)' = Items(r, i)
        /\ Counting(r)' = IF r = qUsed[t] THEN Counting(r) \ {t} ELSE Counting(r)
        /\ t \in Counting(qUsed[t])
        /\ m_nItems'[r] = IF r = qUsed[t] THEN m_nItems[r] + 1 ELSE m_nItems[r]
<1> USE Basics
<1>1. Past(r, i)' = Past(r, i)
  BY DEF CountItem, Past, QueueType
<1>2. Items(r, i)' = Items(r, i)
  BY DEF CountItem, Items
<1>3. /\ Counting(r)' = IF r = qUsed[t] THEN Counting(r) \ {t} ELSE Counting(r)
      /\ t \in Counting(qUsed[t])
  BY DEF CountItem, Counting, QueueType
<1> QED BY <1>1, <1>2, <1>3 DEF CountItem, QueueType

LEMMA ReserveSets ==
  ASSUME QueueType, NEW t \in Threads, NEW q \in Queues, Reserve(t, q),
         NEW r \in Queues, NEW i \in 0..N
  PROVE /\ Items(r, i)' = Items(r, i) /\ Counting(r)' = Counting(r)
        /\ Past(r, i)' = IF r = q /\ i = N THEN Past(r, i) \cup {t} ELSE Past(r, i)
        /\ t \notin Past(r, i)
        /\ m_nItems[q] > 0
        /\ m_nItems'[r] = IF r = q THEN m_nItems[r] - 1 ELSE m_nItems[r]
<1> USE Basics
<1>1. Items(r, i)' = Items(r, i) /\ Counting(r)' = Counting(r)
  BY DEF Reserve, Items, Counting, QueueType
<1>2. /\ Past(r, i)' = IF r = q /\ i = N THEN Past(r, i) \cup {t} ELSE Past(r, i)
      /\ t \notin Past(r, i)
  <2>1. \A u \in Threads \ {t} :
          qStep'[u] = qStep[u] /\ qUsed'[u] = qUsed[u] /\ level'[u] = level[u]
    BY DEF Reserve, QueueType
  <2>2. qStep[t] = "none" /\ qStep'[t] = "scan" /\ qUsed'[t] = q /\ level'[t] = N - 1
    BY DEF Reserve, QueueType, N
  <2>3. level'[t] < i <=> i = N
    BY <2>2
  <2> QED BY <2>1, <2>2, <2>3 DEF Past
<1> QED BY <1>1, <1>2 DEF Reserve, QueueType

LEMMA ScanSets ==
  ASSUME QueueType, NEW t \in Threads, ScanLower(t), NEW r \in Queues, NEW i \in 0..N
  PROVE /\ Items(r, i)' = Items(r, i) /\ Counting(r)' = Counting(r) /\ m_nItems' = m_nItems
        /\ level[t] \in 0..(N - 1)
        /\ Past(r, i)' = IF r = qUsed[t] /\ i = level[t] THEN Past(r, i) \cup {t} ELSE Past(r, i)
        /\ r = qUsed[t] /\ i = level[t] =>
             /\ t \notin Past(r, i)
             /\ Past(r, i) \cup {t} \subseteq Past(r, i + 1)
             /\ Items(r, i + 1) = Items(r, i)
<1> USE Basics
<1>1. Items(r, i)' = Items(r, i) /\ Counting(r)' = Counting(r) /\ level[t] \in 0..(N - 1)
  BY DEF ScanLower, Items, Counting, QueueType
<1>2. Past(r, i)' = IF r = qUsed[t] /\ i = level[t] THEN Past(r, i) \cup {t} ELSE Past(r, i)
  <2>1. \A u \in Threads \ {t} : level'[u] = level[u]
    BY DEF ScanLower, QueueType
  <2>2. /\ qStep' = qStep /\ qUsed' = qUsed /\ qStep[t] = "scan"
        /\ level'[t] = level[t] - 1 /\ level[t] \in Int
    BY DEF ScanLower, QueueType
  <2>3. level'[t] < i <=> level[t] < i \/ i = level[t]
    BY <2>2
  <2> QED BY <2>1, <2>2, <2>3 DEF Past
<1>3. ASSUME r = qUsed[t] /\ i = level[t]
      PROVE t \notin Past(r, i) /\ Past(r, i) \cup {t} \subseteq Past(r, i + 1)
  BY SMTT(30), <1>3 DEF ScanLower, Past, QueueType
<1>4. ASSUME r = qUsed[t] /\ i = level[t]
      PROVE Items(r, i + 1) = Items(r, i)
  <2>1. Len(m_queues[r][i]) = 0
    BY <1>4 DEF ScanLower, Place
  <2>2. \A x \in Priorities : x < i + 1 => x < i \/ x = i
    OBVIOUS
  <2> QED BY <2>1, <2>2 DEF Items
<1> QED BY <1>1, <1>2, <1>3, <1>4 DEF ScanLower

LEMMA TakeSets ==
  ASSUME QueueType, NEW t \in Threads, TakeItem(t), NEW r \in Queues, NEW i \in 0..N
  PROVE /\ Counting(r)' = Counting(r) /\ m_nItems' = m_nItems
        /\ level[t] \in 0..(N - 1)
        /\ Past(r, i)' = IF r = qUsed[t] /\ level[t] < i THEN Past(r, i) \ {t} ELSE Past(r, i)
        /\ r = qUsed[t] /\ level[t] < i => t \in Past(r, i)
        /\ Items(r, i)' = IF r = qUsed[t] /\ level[t] < i
                          THEN Items(r, i) \ {<<level[t], Len(Place(t))>>} ELSE Items(r, i)
        /\ r = qUsed[t] /\ level[t] < i => <<level[t], Len(Place(t))>> \in Items(r, i)
<1> USE Basics
<1>1. Counting(r)' = Counting(r) /\ level[t] \in 0..(N - 1)
  BY SMTT(30) DEF TakeItem, Counting, QueueType
<1>2. /\ Past(r, i)' = IF r = qUsed[t] /\ level[t] < i THEN Past(r, i) \ {t} ELSE Past(r, i)
      /\ r = qUsed[t] /\ level[t] < i => t \in Past(r, i)
  BY DEF TakeItem, Past, QueueType
<1> DEFINE q == qUsed[t]  p == level[t]  s == Place(t)
<1>3. q \in Queues /\ p \in Priorities /\ s = m_queues[q][p] /\ s \in Seq(Jobs) /\ s # <<>>
  BY <1>1 DEF TakeItem, QueueType, Place
<1>4. Len(s) \in Nat \ {0} /\ Len(Tail(s)) = Len(s) - 1
  BY <1>3
<1>5. /\ m_queues'[q][p] = Tail(s)
      /\ \A qq \in Queues, pp \in Priorities :
           ~(qq = q /\ pp = p) => m_queues'[qq][pp] = m_queues[qq][pp]
  BY <1>3 DEF TakeItem, QueueType, Place
<1>6. 1..Len(Tail(s)) = (1..Len(s)) \ {Len(s)} /\ Len(s) \in 1..Len(s)
  BY <1>4
<1>7. ASSUME NEW x \in Priorities \X Nat
      PROVE x \in Items(r, i)' <=>
              x \in Items(r, i) /\ ~(r = q /\ p < i /\ x = <<p, Len(s)>>)
  <2>1. CASE r = q /\ x[1] = p
    <3>1. x[2] \in 1..Len(Tail(s)) <=> x[2] \in 1..Len(s) /\ x[2] # Len(s)
      BY <1>6
    <3>2. x = <<p, Len(s)>> <=> x[2] = Len(s)
      BY <2>1, <1>4
    <3>3. x \in Items(r, i)' <=> p < i /\ x[2] \in 1..Len(Tail(s))
      BY <2>1, <1>3, <1>5 DEF Items
    <3>4. x \in Items(r, i) <=> p < i /\ x[2] \in 1..Len(s)
      BY <2>1, <1>3 DEF Items
    <3> QED BY <2>1, <3>1, <3>2, <3>3, <3>4
  <2>2. CASE ~(r = q /\ x[1] = p)
    BY <2>2, <1>3, <1>5 DEF Items
  <2> QED BY <2>1, <2>2
<1>8. Items(r, i) \subseteq Priorities \X Nat /\ Items(r, i)' \subseteq Priorities \X Nat
  BY DEF Items
<1>9. r = q /\ p < i => <<p, Len(s)>> \in Items(r, i)
  BY <1>3, <1>4, <1>6 DEF Items
<1>10. Items(r, i)' = IF r = q /\ p < i THEN Items(r, i) \ {<<p, Len(s)>>} ELSE Items(r, i)
  BY <1>7, <1>8
<1> QED BY <1>1, <1>2, <1>9, <1>10 DEF TakeItem

-----------------------------------------------------------------------------
\* The queue keeps its promise

LEMMA Sums ==
  ASSUME NEW p \in Nat, NEW i \in Nat, NEW c \in Nat, NEW n \in Nat,
         NEW dp \in Int, NEW di \in Int, NEW dc \in Int, NEW dn \in Int
  PROVE /\ p <= i /\ dp <= di => p + dp <= i + di
        /\ n + p + c = i /\ dn + dp + dc = di => (n + dn) + (p + dp) + (c + dc) = i + di
OBVIOUS

LEMMA QStep == QInv /\ [QueueNext]_queueVars => QInv'
<1> SUFFICES ASSUME QInv, [QueueNext]_queueVars PROVE QInv'
  OBVIOUS
<1> USE Basics
<1>0. QueueType /\ QueueType' /\ ItemsFinite /\ EnoughBelow /\ AllPromised
  BY QType DEF QInv
<1> DEFINE I(r, i) == Cardinality(Items(r, i))
           P(r, i) == Cardinality(Past(r, i))
           C(r) == Cardinality(Counting(r))
<1>1. ASSUME NEW r \in Queues, NEW i \in 0..N
      PROVE /\ IsFiniteSet(Items(r, i)) /\ I(r, i) \in Nat
            /\ IsFiniteSet(Past(r, i)) /\ P(r, i) \in Nat
            /\ IsFiniteSet(Counting(r)) /\ C(r) \in Nat
            /\ P(r, i) <= I(r, i)
            /\ m_nItems[r] + P(r, N) + C(r) = I(r, N)
            /\ m_nItems[r] \in Nat
  BY <1>0, Finite DEF EnoughBelow, AllPromised, QueueType
(* What has to be shown of a queue and a priority. *)
<1> DEFINE Kept(r, i) ==
      /\ IsFiniteSet(Items(r, i)')
      /\ Cardinality(Past(r, i)') <= Cardinality(Items(r, i)')
      /\ i = N => m_nItems'[r] + Cardinality(Past(r, i)') + Cardinality(Counting(r)')
                  = Cardinality(Items(r, i)')
(* A step that changes the numbers by so much. *)
<1>13. ASSUME NEW r \in Queues, NEW i \in 0..N,
              NEW dp \in Int, NEW di \in Int, NEW dc \in Int, NEW dn \in Int,
              IsFiniteSet(Items(r, i)'), Cardinality(Past(r, i)') = P(r, i) + dp,
              Cardinality(Items(r, i)') = I(r, i) + di, Cardinality(Counting(r)') = C(r) + dc,
              m_nItems'[r] = m_nItems[r] + dn, dp <= di, i = N => dn + dp + dc = di
       PROVE Kept(r, i)
  <2>1. /\ P(r, i) \in Nat /\ I(r, i) \in Nat /\ P(r, i) <= I(r, i)
        /\ C(r) \in Nat /\ m_nItems[r] \in Nat
        /\ i = N => m_nItems[r] + P(r, i) + C(r) = I(r, i)
    BY <1>1
  <2>2. P(r, i) + dp <= I(r, i) + di
    BY ONLY <2>1, <1>13, Sums, dp \in Int, di \in Int, dc \in Int, dn \in Int
  <2>3. i = N => (m_nItems[r] + dn) + (P(r, i) + dp) + (C(r) + dc) = I(r, i) + di
    BY ONLY <2>1, <1>13, Sums, dp \in Int, di \in Int, dc \in Int, dn \in Int
  <2> QED BY <1>13, <2>2, <2>3
<1>2. ASSUME NEW t \in Threads, NEW q \in Queues, NEW j \in Jobs, NEW p \in Priorities,
             PushItem(t, q, j, p), NEW r \in Queues, NEW i \in 0..N
      PROVE Kept(r, i)
  <2> DEFINE x == <<p, Len(m_queues[q][p]) + 1>>
  <2>1. /\ Past(r, i)' = Past(r, i) /\ m_nItems' = m_nItems
        /\ Counting(r)' = IF r = q THEN Counting(r) \cup {t} ELSE Counting(r)
        /\ t \notin Counting(r)
        /\ Items(r, i)' = IF r = q /\ p < i THEN Items(r, i) \cup {x} ELSE Items(r, i)
        /\ x \notin Items(q, i)
    BY <1>0, <1>2, PushSets
  <2> HIDE DEF x
  <2>2. r = q => /\ Cardinality(Counting(r) \cup {t}) = C(r) + 1
                 /\ IsFiniteSet(Items(r, i) \cup {x})
                 /\ Cardinality(Items(r, i) \cup {x}) = I(r, i) + 1
    BY <1>1, <2>1, OneMore
  <2>3. p < N
    OBVIOUS
  <2>4. CASE r # q
    <3>1. Past(r, i)' = Past(r, i) /\ Counting(r)' = Counting(r) /\ Items(r, i)' = Items(r, i)
      BY <2>1, <2>4
    <3> QED BY <1>1, <2>1, <3>1
  <2>5. CASE r = q /\ p < i
    <3>1. /\ Past(r, i)' = Past(r, i) /\ Counting(r)' = Counting(r) \cup {t}
          /\ Items(r, i)' = Items(r, i) \cup {x}
      BY <2>1, <2>5
    <3>0. /\ P(r, i) \in Nat /\ I(r, i) \in Nat /\ C(r) \in Nat /\ m_nItems[r] \in Nat
          /\ IsFiniteSet(Items(r, i))
      BY <1>1
    <3>2. /\ IsFiniteSet(Items(r, i)') /\ Cardinality(Past(r, i)') = P(r, i) + 0
          /\ Cardinality(Items(r, i)') = I(r, i) + 1 /\ Cardinality(Counting(r)') = C(r) + 1
          /\ m_nItems'[r] = m_nItems[r] + 0
      BY <3>0, <2>1, <2>2, <2>5, <3>1
    <3> HIDE DEF P, I, C, Kept
    <3> QED BY <1>13, <3>2
  <2>6. CASE r = q /\ ~(p < i)
    <3>1. Past(r, i)' = Past(r, i) /\ Items(r, i)' = Items(r, i) /\ i # N
      BY <2>1, <2>3, <2>6
    <3> QED BY <1>1, <3>1
  <2> QED BY <2>4, <2>5, <2>6
<1>3. ASSUME NEW t \in Threads, CountItem(t), NEW r \in Queues, NEW i \in 0..N
      PROVE Kept(r, i)
  <2>1. /\ Past(r, i)' = Past(r, i) /\ Items(r, i)' = Items(r, i)
        /\ Counting(r)' = IF r = qUsed[t] THEN Counting(r) \ {t} ELSE Counting(r)
        /\ t \in Counting(qUsed[t])
        /\ m_nItems'[r] = IF r = qUsed[t] THEN m_nItems[r] + 1 ELSE m_nItems[r]
    BY <1>0, <1>3, CountSets
  <2>2. r = qUsed[t] => Cardinality(Counting(r) \ {t}) = C(r) - 1
    BY <1>1, <2>1, OneLess
  <2>3. CASE r = qUsed[t]
    <3>1. /\ Counting(r)' = Counting(r) \ {t} /\ m_nItems'[r] = m_nItems[r] + 1
          /\ Cardinality(Counting(r)') = C(r) - 1
      BY <2>1, <2>2, <2>3
    <3>0. /\ P(r, i) \in Nat /\ I(r, i) \in Nat /\ C(r) \in Nat /\ m_nItems[r] \in Nat
          /\ IsFiniteSet(Items(r, i))
      BY <1>1
    <3>2. /\ IsFiniteSet(Items(r, i)') /\ Cardinality(Past(r, i)') = P(r, i) + 0
          /\ Cardinality(Items(r, i)') = I(r, i) + 0 /\ Cardinality(Counting(r)') = C(r) + (-1)
          /\ m_nItems'[r] = m_nItems[r] + 1
      BY <3>0, <2>1, <3>1
    <3> HIDE DEF P, I, C, Kept
    <3> QED BY <1>13, <3>2
  <2>4. CASE r # qUsed[t]
    <3>1. Counting(r)' = Counting(r) /\ m_nItems'[r] = m_nItems[r]
      BY <2>1, <2>4
    <3> QED BY <1>1, <2>1, <3>1
  <2> QED BY <2>3, <2>4
<1>4. ASSUME NEW t \in Threads, NEW q \in Queues, Reserve(t, q), NEW r \in Queues, NEW i \in 0..N
      PROVE Kept(r, i)
  <2>1. /\ Items(r, i)' = Items(r, i) /\ Counting(r)' = Counting(r)
        /\ Past(r, i)' = IF r = q /\ i = N THEN Past(r, i) \cup {t} ELSE Past(r, i)
        /\ t \notin Past(r, i)
        /\ m_nItems[q] > 0
        /\ m_nItems'[r] = IF r = q THEN m_nItems[r] - 1 ELSE m_nItems[r]
    BY <1>0, <1>4, ReserveSets
  <2>2. Cardinality(Past(r, i) \cup {t}) = P(r, i) + 1
    BY <1>1, <2>1, OneMore
  <2>3. CASE r = q /\ i = N
    <3>1. /\ Cardinality(Past(r, i)') = P(r, i) + 1 /\ m_nItems'[r] = m_nItems[r] - 1
          /\ m_nItems[r] > 0
      BY <2>1, <2>2, <2>3
    <3>2. /\ Cardinality(Items(r, i)') = I(r, i) /\ Cardinality(Counting(r)') = C(r)
          /\ IsFiniteSet(Items(r, i)')
      BY <1>1, <2>1
    <3>3. /\ P(r, i) \in Nat /\ I(r, i) \in Nat /\ C(r) \in Nat /\ m_nItems[r] \in Nat
          /\ m_nItems[r] + P(r, i) + C(r) = I(r, i)
      BY <1>1, <2>3
    <3>4. P(r, i) + 1 <= I(r, i) /\ (m_nItems[r] - 1) + (P(r, i) + 1) + C(r) = I(r, i)
      <4> HIDE DEF P, I, C
      <4> QED BY ONLY <3>1, <3>3
    <3> QED BY <3>1, <3>2, <3>4
  <2>4. CASE ~(r = q /\ i = N)
    <3>1. Past(r, i)' = Past(r, i) /\ (i = N => m_nItems'[r] = m_nItems[r])
      BY <2>1, <2>4
    <3> QED BY <1>1, <2>1, <3>1
  <2> QED BY <2>3, <2>4
<1>5. ASSUME NEW t \in Threads, ScanLower(t), NEW r \in Queues, NEW i \in 0..N
      PROVE Kept(r, i)
  <2>1. /\ Items(r, i)' = Items(r, i) /\ Counting(r)' = Counting(r) /\ m_nItems' = m_nItems
        /\ level[t] \in 0..(N - 1)
        /\ Past(r, i)' = IF r = qUsed[t] /\ i = level[t] THEN Past(r, i) \cup {t} ELSE Past(r, i)
        /\ r = qUsed[t] /\ i = level[t] =>
             /\ t \notin Past(r, i)
             /\ Past(r, i) \cup {t} \subseteq Past(r, i + 1)
             /\ Items(r, i + 1) = Items(r, i)
    BY <1>0, <1>5, ScanSets
  <2>2. ASSUME r = qUsed[t] /\ i = level[t]
        PROVE Cardinality(Past(r, i) \cup {t}) <= I(r, i)
    <3>1. i + 1 \in 0..N
      BY <2>1, <2>2
    <3>2. IsFiniteSet(Past(r, i + 1)) /\ P(r, i + 1) \in Nat /\ P(r, i + 1) <= I(r, i + 1)
      BY <3>1, <1>1
    <3>3. /\ Past(r, i) \cup {t} \subseteq Past(r, i + 1)
          /\ I(r, i + 1) = I(r, i)
      BY <2>1, <2>2
    <3>4. Cardinality(Past(r, i) \cup {t}) <= P(r, i + 1)
      BY <3>2, <3>3, FS_Subset
    <3>5. Cardinality(Past(r, i) \cup {t}) \in Nat
      BY <3>2, <3>3, FS_Subset, FS_CardinalityType
    <3> QED BY SMTT(30), <3>2, <3>3, <3>4, <3>5, <1>1
  <2>3. i = N => Past(r, i)' = Past(r, i)
    BY <2>1
  <2>4. CASE r = qUsed[t] /\ i = level[t]
    BY <1>1, <2>1, <2>2, <2>3, <2>4
  <2>5. CASE ~(r = qUsed[t] /\ i = level[t])
    BY <1>1, <2>1, <2>5
  <2> QED BY <2>4, <2>5
<1>6. ASSUME NEW t \in Threads, TakeItem(t), NEW r \in Queues, NEW i \in 0..N
      PROVE Kept(r, i)
  <2> DEFINE x == <<level[t], Len(Place(t))>>
  <2>1. /\ Counting(r)' = Counting(r) /\ m_nItems' = m_nItems
        /\ level[t] \in 0..(N - 1)
        /\ Past(r, i)' = IF r = qUsed[t] /\ level[t] < i THEN Past(r, i) \ {t} ELSE Past(r, i)
        /\ r = qUsed[t] /\ level[t] < i => t \in Past(r, i)
        /\ Items(r, i)' = IF r = qUsed[t] /\ level[t] < i THEN Items(r, i) \ {x} ELSE Items(r, i)
        /\ r = qUsed[t] /\ level[t] < i => x \in Items(r, i)
    BY <1>0, <1>6, TakeSets
  <2> HIDE DEF x
  <2>2. r = qUsed[t] /\ level[t] < i =>
          /\ Cardinality(Past(r, i) \ {t}) = P(r, i) - 1
          /\ IsFiniteSet(Items(r, i) \ {x})
          /\ Cardinality(Items(r, i) \ {x}) = I(r, i) - 1
    BY <1>1, <2>1, OneLess
  <2>3. CASE r = qUsed[t] /\ level[t] < i
    <3>1. Past(r, i)' = Past(r, i) \ {t} /\ Items(r, i)' = Items(r, i) \ {x}
      BY <2>1, <2>3
    <3>0. /\ P(r, i) \in Nat /\ I(r, i) \in Nat /\ C(r) \in Nat /\ m_nItems[r] \in Nat
          /\ IsFiniteSet(Items(r, i))
      BY <1>1
    <3>2. /\ IsFiniteSet(Items(r, i)') /\ Cardinality(Past(r, i)') = P(r, i) + (-1)
          /\ Cardinality(Items(r, i)') = I(r, i) + (-1) /\ Cardinality(Counting(r)') = C(r) + 0
          /\ m_nItems'[r] = m_nItems[r] + 0
      BY <3>0, <2>1, <2>2, <2>3, <3>1
    <3> HIDE DEF P, I, C, Kept
    <3> QED BY <1>13, <3>2
  <2>4. CASE ~(r = qUsed[t] /\ level[t] < i)
    <3>1. Past(r, i)' = Past(r, i) /\ Items(r, i)' = Items(r, i)
      BY <2>1, <2>4
    <3> QED BY <1>1, <2>1, <3>1
  <2> QED BY <2>3, <2>4
<1>7. ASSUME UNCHANGED queueVars, NEW r \in Queues, NEW i \in 0..N
      PROVE Kept(r, i)
  <2>1. /\ Past(r, i)' = Past(r, i) /\ Items(r, i)' = Items(r, i) /\ Counting(r)' = Counting(r)
        /\ m_nItems' = m_nItems
    BY <1>7 DEF queueVars, Past, Items, Counting
  <2> QED BY <1>1, <2>1
<1>8. ASSUME NEW r \in Queues, NEW i \in 0..N
      PROVE Kept(r, i)
  BY <1>2, <1>3, <1>4, <1>5, <1>6, <1>7 DEF QueueNext
<1>9. N \in 0..N
  OBVIOUS
<1>10. ItemsFinite'
  BY <1>8, <1>9 DEF ItemsFinite
<1>11. EnoughBelow'
  BY <1>8 DEF EnoughBelow
<1>12. AllPromised'
  BY <1>8, <1>9 DEF AllPromised
<1> QED BY <1>0, <1>10, <1>11, <1>12 DEF QInv

LEMMA QInvImplies == QInv => ExpectedItem
<1> SUFFICES ASSUME QInv, NEW t \in Threads, level[t] < 0 PROVE FALSE
  BY Basics DEF ExpectedItem, QInv, QueueType
<1>1. level[t] = -1 /\ qUsed[t] \in Queues
  BY Basics DEF QInv, QueueType
<1>2. 0 \in 0..N /\ Items(qUsed[t], 0) = {}
  BY Basics DEF Items
<1>3. Cardinality(Items(qUsed[t], 0)) = 0
  BY <1>2, FS_EmptySet
<1>4. t \in Past(qUsed[t], 0)
  BY <1>1 DEF QInv, QueueType, Past
<1>5. /\ IsFiniteSet(Past(qUsed[t], 0)) /\ Cardinality(Past(qUsed[t], 0)) \in Nat
      /\ Cardinality(Past(qUsed[t], 0)) <= 0
  BY <1>1, <1>2, <1>3, Finite DEF QInv, EnoughBelow
<1>6. Past(qUsed[t], 0) = {}
  BY <1>5, FS_EmptySet
<1> QED BY <1>4, <1>6

(* However one thread pushes to the queues and any number of threads pop from them:
   Pop never comes to the assertion that it expected an item. *)
THEOREM QueueKeepsPromise == QueueSpec => []ExpectedItem
<1>1. QueueInit => QInv
  BY QInitially
<1>2. QInv /\ [QueueNext]_queueVars => QInv'
  BY QStep
<1>3. QInv => ExpectedItem
  BY QInvImplies
<1> QED BY <1>1, <1>2, <1>3, PTL DEF QueueSpec

-----------------------------------------------------------------------------
\* The pool uses its queues so

LEMMA PoolBasics ==
  /\ Main \in Threads /\ Workers \subseteq Threads /\ Main \notin Workers
  /\ Shared \in Queues /\ Workers \subseteq Queues
  /\ None \notin Jobs /\ None \notin Threads
  /\ NumWorkers \in Nat \ {0} /\ 0 \in Workers
  /\ Top \in Priorities
BY ThreadPoolAssumption, JobQueueAssumption DEF Workers, Top, Priorities

PType ==
  /\ m_status \in [Jobs -> {"unserviced", "pending", "inprogress", "ok", "aborted"}]
  /\ m_mutex \in [Jobs -> Threads \cup {None}]
  /\ m_priority \in [Jobs -> Priorities]
  /\ m_nSuspend \in Int
  /\ m_NotSuspendedEvent \in [Workers -> BOOLEAN]
  /\ DOMAIN pc = Threads
  /\ job \in [Threads -> Jobs \cup {None}]
  /\ index \in 0..NumWorkers
  /\ runs \in [Jobs -> Nat]

WithJob == {"popped", "tryLock", "lock", "running", "finished", "completed", "release",
            "execute", "abort", "abortPopped"}

(* Who has a job in hand, and who is inside a Pop. *)
InHand ==
  \A t \in Threads :
    /\ pc[t] \in WithJob <=> job[t] \in Jobs
    /\ pc[t] = "scan" <=> qStep[t] = "scan"
    /\ qStep[t] = "count" => t = Main

(* A job's executions are told by its status. *)
RunsTold ==
  \A j \in Jobs : runs[j] = IF m_status[j] \in {"inprogress", "ok"} THEN 1 ELSE 0

(* Inside Execute a thread has the job's lock, and nobody else changes its status. *)
LockHeld ==
  \A t \in Threads :
    /\ pc[t] \in InExecute => m_mutex[job[t]] = t
    /\ pc[t] = "running" => m_status[job[t]] = "inprogress"

Asleep ==
  /\ \A w \in Workers : ~m_NotSuspendedEvent[w] => pc[w] = "suspended"
  /\ m_nSuspend > 0 => \A w \in Workers : ~m_NotSuspendedEvent[w]

PInv == PType /\ InHand /\ RunsTold /\ LockHeld /\ Asleep

LEMMA ScanKeeps ==
  ASSUME PInv, QueueType, NEW t \in Threads, Scan(t)
  PROVE PInv' /\ [QueueNext]_queueVars
<1> USE PoolBasics
    DEF Scan, PInv, PType, Go, queueVars, jobVars, poolVars, threadVars, mainVars, history
<1>1. PType'
  BY DEF ScanLower
<1>2. InHand'
  BY DEF InHand, WithJob, ScanLower
<1>3. RunsTold'
  BY DEF RunsTold, InHand, WithJob, ScanLower
<1>4. LockHeld'
  BY DEF LockHeld, InHand, InExecute, WithJob, ScanLower
<1>5. Asleep'
  BY DEF Asleep, ScanLower
<1>6. [QueueNext]_queueVars
  BY DEF QueueNext, ScanLower
<1> QED BY <1>1, <1>2, <1>3, <1>4, <1>5, <1>6

LEMMA PoppedKeeps ==
  ASSUME PInv, QueueType, NEW t \in Threads, Popped(t)
  PROVE PInv' /\ [QueueNext]_queueVars
<1> USE PoolBasics
    DEF Popped, PInv, PType, Go, queueVars, jobVars, poolVars, threadVars, mainVars, history
<1>1. PType'
  <2>1. qUsed[t] \in Queues /\ level[t] \in Priorities /\ Place(t) # <<>>
    BY DEF TakeItem, QueueType, Priorities, N
  <2>2. Place(t) \in Seq(Jobs)
    BY <2>1 DEF Place, QueueType
  <2>3. Head(Place(t)) \in Jobs
    BY <2>1, <2>2
  <2> QED BY <2>3
<1>2. InHand'
  <2>1. qUsed[t] \in Queues /\ level[t] \in Priorities /\ Place(t) # <<>>
    BY DEF TakeItem, QueueType, Priorities, N
  <2>2. Place(t) \in Seq(Jobs)
    BY <2>1 DEF Place, QueueType
  <2>3. Head(Place(t)) \in Jobs
    BY <2>1, <2>2
  <2>4. job'[t] \in Jobs /\ qStep'[t] = "none" /\ pc'[t] \in WithJob /\ pc'[t] # "scan"
    BY <2>3 DEF TakeItem, WithJob, QueueType
  <2>5. \A u \in Threads \ {t} : job'[u] = job[u] /\ qStep'[u] = qStep[u] /\ pc'[u] = pc[u]
    BY DEF TakeItem, QueueType
  <2> QED BY <2>4, <2>5 DEF InHand
<1>3. RunsTold'
  BY DEF RunsTold, InHand, WithJob, TakeItem, Place, QueueType
<1>4. LockHeld'
  BY DEF LockHeld, InHand, InExecute, WithJob, TakeItem, Place, QueueType
<1>5. Asleep'
  BY DEF Asleep, TakeItem, Place, QueueType
<1>6. [QueueNext]_queueVars
  BY DEF QueueNext, TakeItem, Place, QueueType
<1> QED BY <1>1, <1>2, <1>3, <1>4, <1>5, <1>6

LEMMA CheckFinishedKeeps ==
  ASSUME PInv, QueueType, NEW t \in Threads, CheckFinished(t)
  PROVE PInv' /\ [QueueNext]_queueVars
<1> USE PoolBasics
    DEF CheckFinished, PInv, PType, Go, queueVars, jobVars, poolVars, threadVars, mainVars,
        history
<1>1. PType'
  OBVIOUS
<1>2. InHand'
  BY DEF InHand, WithJob
<1>3. RunsTold'
  BY DEF RunsTold, InHand, WithJob
<1>4. LockHeld'
  BY DEF LockHeld, InHand, InExecute, WithJob
<1>5. Asleep'
  BY DEF Asleep
<1>6. [QueueNext]_queueVars
  BY DEF QueueNext
<1> QED BY <1>1, <1>2, <1>3, <1>4, <1>5, <1>6

LEMMA TryLockFailsKeeps ==
  ASSUME PInv, QueueType, NEW t \in Threads, TryLockFails(t)
  PROVE PInv' /\ [QueueNext]_queueVars
<1> USE PoolBasics
    DEF TryLockFails, PInv, PType, Go, queueVars, jobVars, poolVars, threadVars, mainVars, history
<1>1. PType'
  OBVIOUS
<1>2. InHand'
  BY DEF InHand, WithJob
<1>3. RunsTold'
  BY DEF RunsTold, InHand, WithJob
<1>4. LockHeld'
  BY DEF LockHeld, InHand, InExecute, WithJob
<1>5. Asleep'
  BY DEF Asleep
<1>6. [QueueNext]_queueVars
  BY DEF QueueNext
<1> QED BY <1>1, <1>2, <1>3, <1>4, <1>5, <1>6

LEMMA BeginKeeps ==
  ASSUME PInv, QueueType, NEW t \in Threads, Begin(t)
  PROVE PInv' /\ [QueueNext]_queueVars
<1> USE PoolBasics
    DEF Begin, PInv, PType, Go, queueVars, jobVars, poolVars, threadVars, mainVars, history
<1>1. PType'
  BY DEF InHand, WithJob
<1>2. InHand'
  BY DEF InHand, WithJob, CanExecute
<1>3. RunsTold'
  BY DEF RunsTold, InHand, WithJob, CanExecute
<1>4. LockHeld'
  BY DEF LockHeld, InHand, InExecute, WithJob, CanExecute
<1>5. Asleep'
  BY DEF Asleep, CanExecute
<1>6. [QueueNext]_queueVars
  BY DEF QueueNext, CanExecute
<1> QED BY <1>1, <1>2, <1>3, <1>4, <1>5, <1>6

LEMMA TooLateKeeps ==
  ASSUME PInv, QueueType, NEW t \in Threads, TooLate(t)
  PROVE PInv' /\ [QueueNext]_queueVars
<1> USE PoolBasics
    DEF TooLate, PInv, PType, Go, queueVars, jobVars, poolVars, threadVars, mainVars, history
<1>1. PType'
  BY DEF AfterExecute
<1>2. InHand'
  BY DEF InHand, WithJob, AfterExecute
<1>3. RunsTold'
  BY DEF RunsTold, InHand, WithJob, AfterExecute
<1>4. LockHeld'
  BY DEF LockHeld, InHand, InExecute, WithJob, AfterExecute
<1>5. Asleep'
  BY DEF Asleep, AfterExecute
<1>6. [QueueNext]_queueVars
  BY DEF QueueNext, AfterExecute
<1> QED BY <1>1, <1>2, <1>3, <1>4, <1>5, <1>6

LEMMA FinishKeeps ==
  ASSUME PInv, QueueType, NEW t \in Threads, Finish(t)
  PROVE PInv' /\ [QueueNext]_queueVars
<1> USE PoolBasics
    DEF Finish, PInv, PType, Go, queueVars, jobVars, poolVars, threadVars, mainVars, history
<1>1. PType'
  OBVIOUS
<1>2. InHand'
  BY DEF InHand, WithJob
<1>3. RunsTold'
  BY DEF RunsTold, LockHeld, InHand, WithJob
<1>4. LockHeld'
  BY DEF LockHeld, InHand, InExecute, WithJob
<1>5. Asleep'
  BY DEF Asleep
<1>6. [QueueNext]_queueVars
  BY DEF QueueNext
<1> QED BY <1>1, <1>2, <1>3, <1>4, <1>5, <1>6

LEMMA CompleteKeeps ==
  ASSUME PInv, QueueType, NEW t \in Threads, Complete(t)
  PROVE PInv' /\ [QueueNext]_queueVars
<1> USE PoolBasics
    DEF Complete, PInv, PType, Go, queueVars, jobVars, poolVars, threadVars, mainVars, history
<1>1. PType'
  OBVIOUS
<1>2. InHand'
  BY DEF InHand, WithJob
<1>3. RunsTold'
  BY DEF RunsTold, InHand, WithJob
<1>4. LockHeld'
  BY DEF LockHeld, InHand, InExecute, WithJob
<1>5. Asleep'
  BY DEF Asleep
<1>6. [QueueNext]_queueVars
  BY DEF QueueNext
<1> QED BY <1>1, <1>2, <1>3, <1>4, <1>5, <1>6

LEMMA LeaveExecuteKeeps ==
  ASSUME PInv, QueueType, NEW t \in Threads, LeaveExecute(t)
  PROVE PInv' /\ [QueueNext]_queueVars
<1> USE PoolBasics
    DEF LeaveExecute, PInv, PType, Go, queueVars, jobVars, poolVars, threadVars, mainVars, history
<1>1. PType'
  BY DEF AfterExecute
<1>2. InHand'
  BY DEF InHand, WithJob, AfterExecute
<1>3. RunsTold'
  BY DEF RunsTold, InHand, WithJob, AfterExecute
<1>4. LockHeld'
  BY DEF LockHeld, InHand, InExecute, WithJob, AfterExecute
<1>5. Asleep'
  BY DEF Asleep, AfterExecute
<1>6. [QueueNext]_queueVars
  BY DEF QueueNext, AfterExecute
<1> QED BY <1>1, <1>2, <1>3, <1>4, <1>5, <1>6

LEMMA ReleaseKeeps ==
  ASSUME PInv, QueueType, NEW t \in Threads, Release(t)
  PROVE PInv' /\ [QueueNext]_queueVars
<1> USE PoolBasics
    DEF Release, PInv, PType, Go, queueVars, jobVars, poolVars, threadVars, mainVars, history
<1>1. PType'
  BY DEF BackToWait
<1>2. InHand'
  BY DEF InHand, WithJob, BackToWait
<1>3. RunsTold'
  BY DEF RunsTold, InHand, WithJob, BackToWait
<1>4. LockHeld'
  BY DEF LockHeld, InHand, InExecute, WithJob, BackToWait
<1>5. Asleep'
  BY DEF Asleep, BackToWait
<1>6. [QueueNext]_queueVars
  BY DEF QueueNext, BackToWait
<1> QED BY <1>1, <1>2, <1>3, <1>4, <1>5, <1>6

LEMMA AnswerCallKeeps ==
  ASSUME PInv, QueueType, NEW w \in Workers, AnswerCall(w)
  PROVE PInv' /\ [QueueNext]_queueVars
<1> USE PoolBasics
    DEF AnswerCall, PInv, PType, Go, queueVars, jobVars, poolVars, threadVars, mainVars, history
<1>1. PType'
  OBVIOUS
<1>2. InHand'
  BY DEF InHand, WithJob
<1>3. RunsTold'
  BY DEF RunsTold, InHand, WithJob
<1>4. LockHeld'
  BY DEF LockHeld, InHand, InExecute, WithJob
<1>5. Asleep'
  BY DEF Asleep
<1>6. [QueueNext]_queueVars
  BY DEF QueueNext
<1> QED BY <1>1, <1>2, <1>3, <1>4, <1>5, <1>6

LEMMA SuspendKeeps ==
  ASSUME PInv, QueueType, NEW w \in Workers, Suspend(w)
  PROVE PInv' /\ [QueueNext]_queueVars
<1> USE PoolBasics
    DEF Suspend, PInv, PType, Go, queueVars, jobVars, poolVars, threadVars, mainVars, history
<1>1. PType'
  OBVIOUS
<1>2. InHand'
  BY DEF InHand, WithJob
<1>3. RunsTold'
  BY DEF RunsTold, InHand, WithJob
<1>4. LockHeld'
  BY DEF LockHeld, InHand, InExecute, WithJob
<1>5. Asleep'
  BY DEF Asleep
<1>6. [QueueNext]_queueVars
  BY DEF QueueNext
<1> QED BY <1>1, <1>2, <1>3, <1>4, <1>5, <1>6

LEMMA ResumedKeeps ==
  ASSUME PInv, QueueType, NEW w \in Workers, Resumed(w)
  PROVE PInv' /\ [QueueNext]_queueVars
<1> USE PoolBasics
    DEF Resumed, PInv, PType, Go, queueVars, jobVars, poolVars, threadVars, mainVars, history
<1>1. PType'
  OBVIOUS
<1>2. InHand'
  BY DEF InHand, WithJob
<1>3. RunsTold'
  BY DEF RunsTold, InHand, WithJob
<1>4. LockHeld'
  BY DEF LockHeld, InHand, InExecute, WithJob
<1>5. Asleep'
  BY DEF Asleep
<1>6. [QueueNext]_queueVars
  BY DEF QueueNext
<1> QED BY <1>1, <1>2, <1>3, <1>4, <1>5, <1>6

LEMMA WakeForItemKeeps ==
  ASSUME PInv, QueueType, NEW w \in Workers, WakeForItem(w)
  PROVE PInv' /\ [QueueNext]_queueVars
<1> USE PoolBasics
    DEF WakeForItem, PInv, PType, Go, queueVars, jobVars, poolVars, threadVars, mainVars, history
<1>1. PType'
  OBVIOUS
<1>2. InHand'
  BY DEF InHand, WithJob
<1>3. RunsTold'
  BY DEF RunsTold, InHand, WithJob
<1>4. LockHeld'
  BY DEF LockHeld, InHand, InExecute, WithJob
<1>5. Asleep'
  BY DEF Asleep
<1>6. [QueueNext]_queueVars
  BY DEF QueueNext
<1> QED BY <1>1, <1>2, <1>3, <1>4, <1>5, <1>6

LEMMA PopDirectKeeps ==
  ASSUME PInv, QueueType, NEW w \in Workers, PopDirect(w)
  PROVE PInv' /\ [QueueNext]_queueVars
<1> USE PoolBasics
    DEF PopDirect, PInv, PType, Go, queueVars, jobVars, poolVars, threadVars, mainVars, history
<1>1. PType'
  BY DEF Reserve
<1>2. InHand'
  <2>1. CASE Reserve(w, w)
    <3>1. qStep'[w] = "scan" /\ pc'[w] = "scan" /\ job' = job /\ job[w] \notin Jobs
      BY <2>1 DEF Reserve, InHand, WithJob, QueueType
    <3>2. \A u \in Threads \ {w} : qStep'[u] = qStep[u] /\ pc'[u] = pc[u]
      BY <2>1 DEF Reserve, QueueType
    <3> QED BY <3>1, <3>2 DEF InHand, WithJob
  <2>2. CASE Go(w, "popShared") /\ UNCHANGED queueVars
    BY <2>2 DEF InHand, WithJob, QueueType
  <2> QED BY <2>1, <2>2
<1>3. RunsTold'
  BY DEF RunsTold, InHand, WithJob, Reserve
<1>4. LockHeld'
  BY DEF LockHeld, InHand, InExecute, WithJob, Reserve
<1>5. Asleep'
  BY DEF Asleep, Reserve
<1>6. [QueueNext]_queueVars
  BY DEF QueueNext, Reserve
<1> QED BY <1>1, <1>2, <1>3, <1>4, <1>5, <1>6

LEMMA PopSharedKeeps ==
  ASSUME PInv, QueueType, NEW w \in Workers, PopShared(w)
  PROVE PInv' /\ [QueueNext]_queueVars
<1> USE PoolBasics
    DEF PopShared, PInv, PType, Go, queueVars, jobVars, poolVars, threadVars, mainVars, history
<1>1. PType'
  BY DEF Reserve, BackToWait
<1>2. InHand'
  <2>1. CASE Reserve(w, Shared)
    <3>1. qStep'[w] = "scan" /\ pc'[w] = "scan" /\ job' = job /\ job[w] \notin Jobs
      BY <2>1 DEF Reserve, InHand, WithJob, QueueType, BackToWait
    <3>2. \A u \in Threads \ {w} : qStep'[u] = qStep[u] /\ pc'[u] = pc[u]
      BY <2>1 DEF Reserve, QueueType, BackToWait
    <3> QED BY <3>1, <3>2 DEF InHand, WithJob
  <2>2. CASE BackToWait(w) /\ UNCHANGED queueVars
    BY <2>2 DEF InHand, WithJob, QueueType, BackToWait
  <2> QED BY <2>1, <2>2
<1>3. RunsTold'
  BY DEF RunsTold, InHand, WithJob, Reserve, BackToWait
<1>4. LockHeld'
  BY DEF LockHeld, InHand, InExecute, WithJob, Reserve, BackToWait
<1>5. Asleep'
  BY DEF Asleep, Reserve, BackToWait
<1>6. [QueueNext]_queueVars
  BY DEF QueueNext, Reserve, BackToWait
<1> QED BY <1>1, <1>2, <1>3, <1>4, <1>5, <1>6

LEMMA ExecuteKeeps ==
  ASSUME PInv, QueueType, Execute
  PROVE PInv' /\ [QueueNext]_queueVars
<1> USE PoolBasics
    DEF Execute, PInv, PType, Go, queueVars, jobVars, poolVars, threadVars, mainVars, history
<1>1. PType'
  OBVIOUS
<1>2. InHand'
  BY DEF InHand, WithJob
<1>3. RunsTold'
  BY DEF RunsTold, InHand, WithJob
<1>4. LockHeld'
  BY DEF LockHeld, InHand, InExecute, WithJob
<1>5. Asleep'
  BY DEF Asleep
<1>6. [QueueNext]_queueVars
  BY DEF QueueNext
<1> QED BY <1>1, <1>2, <1>3, <1>4, <1>5, <1>6

LEMMA AbortKeeps ==
  ASSUME PInv, QueueType, Abort
  PROVE PInv' /\ [QueueNext]_queueVars
<1> USE PoolBasics
    DEF Abort, PInv, PType, Go, queueVars, jobVars, poolVars, threadVars, mainVars, history
<1>1. PType'
  BY DEF AbortedIfWaiting, CanExecute
<1>2. InHand'
  BY DEF InHand, WithJob, AbortedIfWaiting, CanExecute
<1>3. RunsTold'
  BY DEF RunsTold, InHand, WithJob, AbortedIfWaiting, CanExecute
<1>4. LockHeld'
  BY DEF LockHeld, InHand, InExecute, WithJob, AbortedIfWaiting, CanExecute
<1>5. Asleep'
  BY DEF Asleep, AbortedIfWaiting, CanExecute
<1>6. [QueueNext]_queueVars
  BY DEF QueueNext, AbortedIfWaiting, CanExecute
<1> QED BY <1>1, <1>2, <1>3, <1>4, <1>5, <1>6

LEMMA CountAddedKeeps ==
  ASSUME PInv, QueueType, CountAdded
  PROVE PInv' /\ [QueueNext]_queueVars
<1> USE PoolBasics
    DEF CountAdded, PInv, PType, Go, queueVars, jobVars, poolVars, threadVars, mainVars, history
<1>1. PType'
  BY DEF CountItem, QueueType
<1>2. InHand'
  BY DEF InHand, WithJob, CountItem, QueueType
<1>3. RunsTold'
  BY DEF RunsTold, InHand, WithJob, CountItem, QueueType
<1>4. LockHeld'
  BY DEF LockHeld, InHand, InExecute, WithJob, CountItem, QueueType
<1>5. Asleep'
  BY DEF Asleep, CountItem, QueueType
<1>6. [QueueNext]_queueVars
  BY DEF QueueNext, CountItem, QueueType
<1> QED BY <1>1, <1>2, <1>3, <1>4, <1>5, <1>6

LEMMA CountJobKeeps ==
  ASSUME PInv, QueueType, CountJob
  PROVE PInv' /\ [QueueNext]_queueVars
<1> USE PoolBasics
    DEF CountJob, PInv, PType, Go, queueVars, jobVars, poolVars, threadVars, mainVars, history
<1>1. PType'
  OBVIOUS
<1>2. InHand'
  BY DEF InHand, WithJob
<1>3. RunsTold'
  BY DEF RunsTold, InHand, WithJob
<1>4. LockHeld'
  BY DEF LockHeld, InHand, InExecute, WithJob
<1>5. Asleep'
  BY DEF Asleep
<1>6. [QueueNext]_queueVars
  BY DEF QueueNext
<1> QED BY <1>1, <1>2, <1>3, <1>4, <1>5, <1>6

LEMMA YieldHelpKeeps ==
  ASSUME PInv, QueueType, YieldHelp
  PROVE PInv' /\ [QueueNext]_queueVars
<1> USE PoolBasics
    DEF YieldHelp, PInv, PType, Go, queueVars, jobVars, poolVars, threadVars, mainVars, history
<1>1. PType'
  BY DEF Reserve
<1>2. InHand'
  <2>1. CASE Reserve(Main, Shared)
    <3>1. qStep'[Main] = "scan" /\ pc'[Main] = "scan" /\ job' = job /\ job[Main] \notin Jobs
      BY <2>1 DEF Reserve, InHand, WithJob, QueueType
    <3>2. \A u \in Threads \ {Main} : qStep'[u] = qStep[u] /\ pc'[u] = pc[u]
      BY <2>1 DEF Reserve, QueueType
    <3> QED BY <3>1, <3>2 DEF InHand, WithJob
  <2>2. CASE Go(Main, "waitForEver") /\ UNCHANGED queueVars
    BY <2>2 DEF InHand, WithJob, QueueType
  <2> QED BY <2>1, <2>2
<1>3. RunsTold'
  BY DEF RunsTold, InHand, WithJob, Reserve
<1>4. LockHeld'
  BY DEF LockHeld, InHand, InExecute, WithJob, Reserve
<1>5. Asleep'
  BY DEF Asleep, Reserve
<1>6. [QueueNext]_queueVars
  BY DEF QueueNext, Reserve
<1> QED BY <1>1, <1>2, <1>3, <1>4, <1>5, <1>6

LEMMA YieldDoneKeeps ==
  ASSUME PInv, QueueType, YieldDone
  PROVE PInv' /\ [QueueNext]_queueVars
<1> USE PoolBasics
    DEF YieldDone, PInv, PType, Go, queueVars, jobVars, poolVars, threadVars, mainVars, history
<1>1. PType'
  OBVIOUS
<1>2. InHand'
  BY DEF InHand, WithJob
<1>3. RunsTold'
  BY DEF RunsTold, InHand, WithJob
<1>4. LockHeld'
  BY DEF LockHeld, InHand, InExecute, WithJob
<1>5. Asleep'
  BY DEF Asleep
<1>6. [QueueNext]_queueVars
  BY DEF QueueNext
<1> QED BY <1>1, <1>2, <1>3, <1>4, <1>5, <1>6

LEMMA CallWorkerKeeps ==
  ASSUME PInv, QueueType, CallWorker
  PROVE PInv' /\ [QueueNext]_queueVars
<1> USE PoolBasics
    DEF CallWorker, PInv, PType, Go, queueVars, jobVars, poolVars, threadVars, mainVars, history
<1>1. PType'
  OBVIOUS
<1>2. InHand'
  BY DEF InHand, WithJob
<1>3. RunsTold'
  BY DEF RunsTold, InHand, WithJob
<1>4. LockHeld'
  BY DEF LockHeld, InHand, InExecute, WithJob
<1>5. Asleep'
  BY DEF Asleep
<1>6. [QueueNext]_queueVars
  BY DEF QueueNext
<1> QED BY <1>1, <1>2, <1>3, <1>4, <1>5, <1>6

LEMMA WaitForSuspensionKeeps ==
  ASSUME PInv, QueueType, WaitForSuspension
  PROVE PInv' /\ [QueueNext]_queueVars
<1> USE PoolBasics
    DEF WaitForSuspension, PInv, PType, Go, queueVars, jobVars, poolVars, threadVars, mainVars,
        history
<1>1. PType'
  OBVIOUS
<1>2. InHand'
  BY DEF InHand, WithJob
<1>3. RunsTold'
  BY DEF RunsTold, InHand, WithJob
<1>4. LockHeld'
  BY DEF LockHeld, InHand, InExecute, WithJob
<1>5. Asleep'
  BY DEF Asleep
<1>6. [QueueNext]_queueVars
  BY DEF QueueNext
<1> QED BY <1>1, <1>2, <1>3, <1>4, <1>5, <1>6

LEMMA DrainPopKeeps ==
  ASSUME PInv, QueueType, DrainPop
  PROVE PInv' /\ [QueueNext]_queueVars
<1> USE PoolBasics
    DEF DrainPop, PInv, PType, Go, queueVars, jobVars, poolVars, threadVars, mainVars, history
<1>1. PType'
  BY DEF Reserve, Drained
<1>2. InHand'
  BY DEF InHand, WithJob, QueueType, Reserve, Drained
<1>3. RunsTold'
  BY DEF RunsTold, InHand, WithJob, Reserve, Drained
<1>4. LockHeld'
  BY DEF LockHeld, InHand, InExecute, WithJob, Reserve, Drained
<1>5. Asleep'
  BY DEF Asleep, Reserve, Drained
<1>6. [QueueNext]_queueVars
  <2>1. Drained \in Queues
    <3>1. index # 0 => index - 1 \in Workers
      BY DEF Workers
    <3> QED BY <3>1 DEF Drained
  <2> QED BY <2>1 DEF QueueNext
<1> QED BY <1>1, <1>2, <1>3, <1>4, <1>5, <1>6

LEMMA AbortPoppedKeeps ==
  ASSUME PInv, QueueType, AbortPopped
  PROVE PInv' /\ [QueueNext]_queueVars
<1> USE PoolBasics
    DEF AbortPopped, PInv, PType, Go, queueVars, jobVars, poolVars, threadVars, mainVars, history
<1>1. PType'
  BY DEF AbortedIfWaiting, CanExecute
<1>2. InHand'
  BY DEF InHand, WithJob, AbortedIfWaiting, CanExecute
<1>3. RunsTold'
  BY DEF RunsTold, InHand, WithJob, AbortedIfWaiting, CanExecute
<1>4. LockHeld'
  BY DEF LockHeld, InHand, InExecute, WithJob, AbortedIfWaiting, CanExecute
<1>5. Asleep'
  BY DEF Asleep, AbortedIfWaiting, CanExecute
<1>6. [QueueNext]_queueVars
  BY DEF QueueNext, AbortedIfWaiting, CanExecute
<1> QED BY <1>1, <1>2, <1>3, <1>4, <1>5, <1>6

LEMMA DrainNextKeeps ==
  ASSUME PInv, QueueType, DrainNext
  PROVE PInv' /\ [QueueNext]_queueVars
<1> USE PoolBasics
    DEF DrainNext, PInv, PType, Go, queueVars, jobVars, poolVars, threadVars, mainVars, history
<1>1. PType'
  OBVIOUS
<1>2. InHand'
  BY DEF InHand, WithJob
<1>3. RunsTold'
  BY DEF RunsTold, InHand, WithJob
<1>4. LockHeld'
  BY DEF LockHeld, InHand, InExecute, WithJob
<1>5. Asleep'
  BY DEF Asleep
<1>6. [QueueNext]_queueVars
  BY DEF QueueNext
<1> QED BY <1>1, <1>2, <1>3, <1>4, <1>5, <1>6

LEMMA DrainDoneKeeps ==
  ASSUME PInv, QueueType, DrainDone
  PROVE PInv' /\ [QueueNext]_queueVars
<1> USE PoolBasics
    DEF DrainDone, PInv, PType, Go, queueVars, jobVars, poolVars, threadVars, mainVars, history
<1>1. PType'
  OBVIOUS
<1>2. InHand'
  BY DEF InHand, WithJob
<1>3. RunsTold'
  BY DEF RunsTold, InHand, WithJob
<1>4. LockHeld'
  BY DEF LockHeld, InHand, InExecute, WithJob
<1>5. Asleep'
  BY DEF Asleep
<1>6. [QueueNext]_queueVars
  BY DEF QueueNext
<1> QED BY <1>1, <1>2, <1>3, <1>4, <1>5, <1>6

LEMMA ResumeExecutionKeeps ==
  ASSUME PInv, QueueType, ResumeExecution
  PROVE PInv' /\ [QueueNext]_queueVars
<1> USE PoolBasics
    DEF ResumeExecution, PInv, PType, Go, queueVars, jobVars, poolVars, threadVars, mainVars,
        history
<1>1. PType'
  OBVIOUS
<1>2. InHand'
  BY DEF InHand, WithJob
<1>3. RunsTold'
  BY DEF RunsTold, InHand, WithJob
<1>4. LockHeld'
  BY DEF LockHeld, InHand, InExecute, WithJob
<1>5. Asleep'
  BY DEF Asleep
<1>6. [QueueNext]_queueVars
  BY DEF QueueNext
<1> QED BY <1>1, <1>2, <1>3, <1>4, <1>5, <1>6

LEMMA AddInPlaceKeeps ==
  ASSUME PInv, QueueType, NEW j \in Jobs, AddInPlace(j)
  PROVE PInv' /\ [QueueNext]_queueVars
<1> USE PoolBasics
    DEF AddInPlace, PInv, PType, Go, queueVars, jobVars, poolVars, threadVars, mainVars, history
<1>1. PType'
  BY DEF Call
<1>2. InHand'
  BY DEF InHand, WithJob, Call
<1>3. RunsTold'
  BY DEF RunsTold, InHand, WithJob, Call
<1>4. LockHeld'
  BY DEF LockHeld, InHand, InExecute, WithJob, Call
<1>5. Asleep'
  BY DEF Asleep, Call
<1>6. [QueueNext]_queueVars
  BY DEF QueueNext, Call
<1> QED BY <1>1, <1>2, <1>3, <1>4, <1>5, <1>6

LEMMA AddHandledKeeps ==
  ASSUME PInv, QueueType, NEW j \in Jobs, AddHandled(j)
  PROVE PInv' /\ [QueueNext]_queueVars
<1> USE PoolBasics
    DEF AddHandled, PInv, PType, Go, queueVars, jobVars, poolVars, threadVars, mainVars, history
<1>1. PType'
  BY DEF Call, PriorityOf
<1>2. InHand'
  BY DEF InHand, WithJob, Call, PriorityOf
<1>3. RunsTold'
  BY DEF RunsTold, InHand, WithJob, Call, PriorityOf
<1>4. LockHeld'
  BY DEF LockHeld, InHand, InExecute, WithJob, Call, PriorityOf
<1>5. Asleep'
  BY DEF Asleep, Call, PriorityOf
<1>6. [QueueNext]_queueVars
  BY DEF QueueNext, Call, PriorityOf
<1> QED BY <1>1, <1>2, <1>3, <1>4, <1>5, <1>6

LEMMA AddToQueueKeeps ==
  ASSUME PInv, QueueType, NEW j \in Jobs, AddToQueue(j)
  PROVE PInv' /\ [QueueNext]_queueVars
<1> USE PoolBasics
    DEF AddToQueue, PInv, PType, Go, queueVars, jobVars, poolVars, threadVars, mainVars, history
<1>1. PType'
  BY DEF Call, PriorityOf, QueueOf, PushItem, CanExecute
<1>2. InHand'
  BY DEF InHand, WithJob, Call, PriorityOf, QueueOf, PushItem, CanExecute
<1>3. RunsTold'
  BY DEF RunsTold, InHand, WithJob, Call, PriorityOf, QueueOf, PushItem, CanExecute
<1>4. LockHeld'
  BY DEF LockHeld, InHand, InExecute, WithJob, Call, PriorityOf, QueueOf, PushItem, CanExecute
<1>5. Asleep'
  BY DEF Asleep, Call, PriorityOf, QueueOf, PushItem, CanExecute
<1>6. [QueueNext]_queueVars
  <2>1. QueueOf(j) \in Queues /\ PriorityOf(j) \in Priorities
    BY DEF QueueOf, PriorityOf
  <2> QED BY <2>1 DEF QueueNext
<1> QED BY <1>1, <1>2, <1>3, <1>4, <1>5, <1>6

LEMMA CallExecuteKeeps ==
  ASSUME PInv, QueueType, NEW j \in Jobs, CallExecute(j)
  PROVE PInv' /\ [QueueNext]_queueVars
<1> USE PoolBasics
    DEF CallExecute, PInv, PType, Go, queueVars, jobVars, poolVars, threadVars, mainVars, history
<1>1. PType'
  BY DEF Call
<1>2. InHand'
  BY DEF InHand, WithJob, Call
<1>3. RunsTold'
  BY DEF RunsTold, InHand, WithJob, Call
<1>4. LockHeld'
  BY DEF LockHeld, InHand, InExecute, WithJob, Call
<1>5. Asleep'
  BY DEF Asleep, Call
<1>6. [QueueNext]_queueVars
  BY DEF QueueNext, Call
<1> QED BY <1>1, <1>2, <1>3, <1>4, <1>5, <1>6

LEMMA CallAbortKeeps ==
  ASSUME PInv, QueueType, NEW j \in Jobs, CallAbort(j)
  PROVE PInv' /\ [QueueNext]_queueVars
<1> USE PoolBasics
    DEF CallAbort, PInv, PType, Go, queueVars, jobVars, poolVars, threadVars, mainVars, history
<1>1. PType'
  BY DEF Call
<1>2. InHand'
  BY DEF InHand, WithJob, Call
<1>3. RunsTold'
  BY DEF RunsTold, InHand, WithJob, Call
<1>4. LockHeld'
  BY DEF LockHeld, InHand, InExecute, WithJob, Call
<1>5. Asleep'
  BY DEF Asleep, Call
<1>6. [QueueNext]_queueVars
  BY DEF QueueNext, Call
<1> QED BY <1>1, <1>2, <1>3, <1>4, <1>5, <1>6

LEMMA ReleaseOwnedKeeps ==
  ASSUME PInv, QueueType, NEW j \in Jobs, ReleaseOwned(j)
  PROVE PInv' /\ [QueueNext]_queueVars
<1> USE PoolBasics
    DEF ReleaseOwned, PInv, PType, Go, queueVars, jobVars, poolVars, threadVars, mainVars, history
<1>1. PType'
  BY DEF Call
<1>2. InHand'
  BY DEF InHand, WithJob, Call
<1>3. RunsTold'
  BY DEF RunsTold, InHand, WithJob, Call
<1>4. LockHeld'
  BY DEF LockHeld, InHand, InExecute, WithJob, Call
<1>5. Asleep'
  BY DEF Asleep, Call
<1>6. [QueueNext]_queueVars
  BY DEF QueueNext, Call
<1> QED BY <1>1, <1>2, <1>3, <1>4, <1>5, <1>6

LEMMA CallYieldWaitKeeps ==
  ASSUME PInv, QueueType, NEW j \in Jobs, CallYieldWait(j)
  PROVE PInv' /\ [QueueNext]_queueVars
<1> USE PoolBasics
    DEF CallYieldWait, PInv, PType, Go, queueVars, jobVars, poolVars, threadVars, mainVars,
        history
<1>1. PType'
  BY DEF Call
<1>2. InHand'
  BY DEF InHand, WithJob, Call
<1>3. RunsTold'
  BY DEF RunsTold, InHand, WithJob, Call
<1>4. LockHeld'
  BY DEF LockHeld, InHand, InExecute, WithJob, Call
<1>5. Asleep'
  BY DEF Asleep, Call
<1>6. [QueueNext]_queueVars
  BY DEF QueueNext, Call
<1> QED BY <1>1, <1>2, <1>3, <1>4, <1>5, <1>6

LEMMA ChangePriorityKeeps ==
  ASSUME PInv, QueueType, NEW j \in Jobs, NEW p \in Priorities, ChangePriority(j, p)
  PROVE PInv' /\ [QueueNext]_queueVars
<1> USE PoolBasics
    DEF ChangePriority, PInv, PType, Go, queueVars, jobVars, poolVars, threadVars, mainVars,
        history
<1>1. PType'
  BY DEF Call, PushItem
<1>2. InHand'
  BY DEF InHand, WithJob, Call, PushItem
<1>3. RunsTold'
  BY DEF RunsTold, InHand, WithJob, Call, PushItem
<1>4. LockHeld'
  BY DEF LockHeld, InHand, InExecute, WithJob, Call, PushItem
<1>5. Asleep'
  BY DEF Asleep, Call, PushItem
<1>6. [QueueNext]_queueVars
  BY DEF QueueNext, Call, PushItem
<1> QED BY <1>1, <1>2, <1>3, <1>4, <1>5, <1>6

LEMMA CallSuspendKeeps ==
  ASSUME PInv, QueueType, NEW by \in {"user", "abortAll"}, CallSuspend(by)
  PROVE PInv' /\ [QueueNext]_queueVars
<1> USE PoolBasics
    DEF CallSuspend, PInv, PType, Go, queueVars, jobVars, poolVars, threadVars, mainVars, history
<1>1. PType'
  OBVIOUS
<1>2. InHand'
  BY DEF InHand, WithJob
<1>3. RunsTold'
  BY DEF RunsTold, InHand, WithJob
<1>4. LockHeld'
  BY DEF LockHeld, InHand, InExecute, WithJob
<1>5. Asleep'
  BY DEF Asleep
<1>6. [QueueNext]_queueVars
  BY DEF QueueNext
<1> QED BY <1>1, <1>2, <1>3, <1>4, <1>5, <1>6

LEMMA PoolInitially == Init => PInv
<1> SUFFICES ASSUME Init PROVE PInv
  OBVIOUS
<1> USE PoolBasics DEF Init, PInv
<1>1. PType
  BY DEF PType
<1>2. InHand
  BY DEF InHand, WithJob, QueueInit
<1>3. RunsTold
  BY DEF RunsTold
<1>4. LockHeld
  BY DEF LockHeld, InExecute
<1>5. Asleep
  BY DEF Asleep
<1> QED BY <1>1, <1>2, <1>3, <1>4, <1>5

LEMMA ServiceKeeps ==
  ASSUME PInv, QueueType, NEW t \in Threads, Service(t)
  PROVE PInv' /\ [QueueNext]_queueVars
BY ScanKeeps, PoppedKeeps, CheckFinishedKeeps, TryLockFailsKeeps, BeginKeeps,
   TooLateKeeps, FinishKeeps, CompleteKeeps, LeaveExecuteKeeps, ReleaseKeeps DEF Service

LEMMA WorkerKeeps ==
  ASSUME PInv, QueueType, NEW w \in Workers, Worker(w)
  PROVE PInv' /\ [QueueNext]_queueVars
<1>1. w \in Threads
  BY PoolBasics
<1> QED BY <1>1, ServiceKeeps, AnswerCallKeeps, SuspendKeeps, ResumedKeeps,
   WakeForItemKeeps, PopDirectKeeps, PopSharedKeeps
   DEF Worker

LEMMA InsideKeeps ==
  ASSUME PInv, QueueType, MainInside
  PROVE PInv' /\ [QueueNext]_queueVars
<1>1. Main \in Threads
  BY PoolBasics
<1> QED BY <1>1, ServiceKeeps, ExecuteKeeps, AbortKeeps, CountAddedKeeps, CountJobKeeps,
   YieldHelpKeeps, YieldDoneKeeps, CallWorkerKeeps, WaitForSuspensionKeeps, DrainPopKeeps,
   AbortPoppedKeeps, DrainNextKeeps, DrainDoneKeeps, ResumeExecutionKeeps
   DEF MainInside

LEMMA CallsKeep ==
  ASSUME PInv, QueueType, MainCalls
  PROVE PInv' /\ [QueueNext]_queueVars
BY AddInPlaceKeeps, AddHandledKeeps, AddToQueueKeeps, CallExecuteKeeps,
   CallAbortKeeps, ReleaseOwnedKeeps, CallYieldWaitKeeps,
   ChangePriorityKeeps, CallSuspendKeeps DEF MainCalls

LEMMA StutterKeeps ==
  ASSUME PInv, UNCHANGED vars
  PROVE PInv' /\ [QueueNext]_queueVars
BY DEF vars, queueVars, jobVars, poolVars, threadVars, mainVars, history, PInv, PType, InHand,
       RunsTold, LockHeld, Asleep

LEMMA PoolStep ==
  ASSUME PInv, QueueType, [Next]_vars
  PROVE PInv' /\ [QueueNext]_queueVars
BY WorkerKeeps, InsideKeeps, CallsKeep, StutterKeeps DEF Next

LEMMA PoolInvariant == Spec => [](PInv /\ QInv)
<1>1. Init => PInv /\ QInv
  BY PoolInitially, QInitially DEF Init
<1>2. PInv /\ QInv /\ [Next]_vars => PInv' /\ QInv'
  BY PoolStep, QStep DEF QInv
<1> QED BY <1>1, <1>2, PTL DEF Spec

-----------------------------------------------------------------------------
\* The theorems

(* Workers, the helping main thread and AbortAll use the queues in no other way
   than CJobQueue allows: each step of the pool is one of the queues', or none. *)
THEOREM PoolUsesQueues == Spec => QueueSpec
<1>1. Init => QueueInit
  BY DEF Init
<1>2. PInv /\ QInv /\ [Next]_vars => [QueueNext]_queueVars
  BY PoolStep DEF QInv
<1> QED BY <1>1, <1>2, PoolInvariant, PTL DEF Spec, QueueSpec

(* So a Pop of any thread finds the item it was promised. *)
THEOREM PopFindsItem == Spec => []ExpectedItem
BY PoolUsesQueues, QueueKeepsPromise

(* A job is executed once at most, and an aborted one not at all. *)
THEOREM ExecutedOnce == Spec => []RunsOnce
<1>1. PInv => RunsOnce
  BY DEF PInv, RunsTold, RunsOnce
<1> QED BY <1>1, PoolInvariant, PTL

(* While the pool is suspended no worker has a job or was promised one. *)
THEOREM QuietWhenSuspended == Spec => []SuspendedMeansQuiet
<1> SUFFICES PInv /\ QInv => SuspendedMeansQuiet
  BY PoolInvariant, PTL
<1> SUFFICES ASSUME PInv, QInv, m_nSuspend > 0, NEW w \in Workers
             PROVE pc[w] = "suspended" /\ job[w] = None /\ qStep[w] = "none"
  BY DEF SuspendedMeansQuiet
<1> USE PoolBasics
<1>1. pc[w] = "suspended"
  BY DEF PInv, Asleep
<1>2. job[w] = None
  BY <1>1 DEF PInv, PType, InHand, WithJob
<1>3. qStep[w] = "none"
  BY <1>1 DEF PInv, InHand, QInv, QueueType
<1> QED BY <1>1, <1>2, <1>3

-----------------------------------------------------------------------------
\* Where the threads are, who holds a lock, and who uses which queue

MainPlaced ==
  /\ caller = "user" => pc[Main] \in {"user", "execute", "lock", "abort", "running", "finished",
                                     "completed", "added", "raised", "countJob", "call"}
  /\ caller = "yield" => pc[Main] \in {"yield", "waitForEver", "scan", "popped", "tryLock",
                                      "running", "finished", "completed", "release"}
  /\ caller = "abortAll" => pc[Main] \in {"call", "drain", "scan", "abortPopped", "resume"}

Placed ==
  /\ \A w \in Workers :
       pc[w] \in {"wait", "suspend", "suspended", "popDirect", "popShared", "scan", "popped",
                 "tryLock", "running", "finished", "completed", "release"}
  /\ caller \in {"user", "yield", "abortAll"} /\ MainPlaced
  /\ m_nSuspend >= 0 /\ (caller = "abortAll" /\ pc[Main] # "call" => m_nSuspend > 0)
  /\ qStep[Main] = "count" <=> pc[Main] \in {"added", "raised"}

LEMMA NextPlaced ==
  ASSUME PInv, QueueType, Placed, [Next]_vars
  PROVE  Placed'
<1> USE PoolBasics
    DEF PInv, PType, QueueType, Placed, MainPlaced, Go, queueVars, jobVars, poolVars,
        threadVars, mainVars, history
<1>1. ASSUME NEW t \in Threads, Scan(t) PROVE Placed'
  BY <1>1 DEF Scan, ScanLower
<1>2. ASSUME NEW t \in Threads, Popped(t) PROVE Placed'
  BY SMTT(30), <1>2 DEF Popped, TakeItem
<1>3. ASSUME NEW t \in Threads, CheckFinished(t) PROVE Placed'
  BY <1>3 DEF CheckFinished
<1>4. ASSUME NEW t \in Threads, TryLockFails(t) PROVE Placed'
  BY <1>4 DEF TryLockFails
<1>5. ASSUME NEW t \in Threads, Begin(t) PROVE Placed'
  BY <1>5 DEF Begin
<1>6. ASSUME NEW t \in Threads, TooLate(t) PROVE Placed'
  BY <1>6 DEF TooLate, AfterExecute
<1>7. ASSUME NEW t \in Threads, Finish(t) PROVE Placed'
  BY <1>7 DEF Finish
<1>8. ASSUME NEW t \in Threads, Complete(t) PROVE Placed'
  BY <1>8 DEF Complete
<1>9. ASSUME NEW t \in Threads, LeaveExecute(t) PROVE Placed'
  BY SMTT(30), <1>9 DEF LeaveExecute, AfterExecute
<1>10. ASSUME NEW t \in Threads, Release(t) PROVE Placed'
  <2>1. CASE t = Main
    BY <1>10, <2>1 DEF Release
  <2>2. CASE t # Main
    BY <1>10, <2>2 DEF Release, BackToWait
  <2> QED BY <2>1, <2>2
<1>11. ASSUME NEW w \in Workers, AnswerCall(w) PROVE Placed'
  BY <1>11 DEF AnswerCall
<1>12. ASSUME NEW w \in Workers, Suspend(w) PROVE Placed'
  BY <1>12 DEF Suspend
<1>13. ASSUME NEW w \in Workers, Resumed(w) PROVE Placed'
  BY <1>13 DEF Resumed
<1>14. ASSUME NEW w \in Workers, WakeForItem(w) PROVE Placed'
  BY <1>14 DEF WakeForItem
<1>15. ASSUME NEW w \in Workers, PopDirect(w) PROVE Placed'
  BY ZenonT(40), <1>15 DEF PopDirect, Reserve
<1>16. ASSUME NEW w \in Workers, PopShared(w) PROVE Placed'
  <2>1. /\ w # Main /\ \E place \in {"scan", "wait"} : pc' = [pc EXCEPT ![w] = place]
        /\ UNCHANGED <<caller, m_nSuspend>>
        /\ qStep' = qStep \/ qStep' = [qStep EXCEPT ![w] = "scan"]
    BY <1>16 DEF PopShared, Reserve, BackToWait
  <2>2. PICK place \in {"scan", "wait"} : pc' = [pc EXCEPT ![w] = place]
    BY <2>1
  <2>3. pc'[Main] = pc[Main] /\ qStep'[Main] = qStep[Main]
    BY <2>1, <2>2
  <2>4. \A v \in Workers : pc'[v] = pc[v] \/ pc'[v] = place
    BY <2>2
  <2> QED BY <2>1, <2>2, <2>3, <2>4
<1>17. ASSUME Execute PROVE Placed'
  BY <1>17 DEF Execute
<1>18. ASSUME Abort PROVE Placed'
  BY <1>18 DEF Abort
<1>19. ASSUME CountAdded PROVE Placed'
  BY <1>19 DEF CountAdded, CountItem
<1>20. ASSUME CountJob PROVE Placed'
  BY <1>20 DEF CountJob
<1>21. ASSUME YieldHelp PROVE Placed'
  BY <1>21 DEF YieldHelp, Reserve
<1>22. ASSUME YieldDone PROVE Placed'
  BY <1>22 DEF YieldDone
<1>23. ASSUME CallWorker PROVE Placed'
  BY <1>23 DEF CallWorker
<1>24. ASSUME WaitForSuspension PROVE Placed'
  BY SMTT(30), <1>24 DEF WaitForSuspension
<1>25. ASSUME DrainPop PROVE Placed'
  BY <1>25 DEF DrainPop, Reserve
<1>26. ASSUME AbortPopped PROVE Placed'
  BY <1>26 DEF AbortPopped
<1>27. ASSUME DrainNext PROVE Placed'
  BY <1>27 DEF DrainNext
<1>28. ASSUME DrainDone PROVE Placed'
  BY <1>28 DEF DrainDone
<1>29. ASSUME ResumeExecution PROVE Placed'
  BY SMTT(30), <1>29 DEF ResumeExecution
<1>30. ASSUME NEW j \in Jobs, AddInPlace(j) PROVE Placed'
  BY <1>30 DEF AddInPlace, Call
<1>31. ASSUME NEW j \in Jobs, AddHandled(j) PROVE Placed'
  BY <1>31 DEF AddHandled, Call
<1>32. ASSUME NEW j \in Jobs, AddToQueue(j) PROVE Placed'
  BY <1>32 DEF AddToQueue, Call, PushItem
<1>33. ASSUME NEW j \in Jobs, CallExecute(j) PROVE Placed'
  BY <1>33 DEF CallExecute, Call
<1>34. ASSUME NEW j \in Jobs, CallAbort(j) PROVE Placed'
  BY <1>34 DEF CallAbort, Call
<1>35. ASSUME NEW j \in Jobs, ReleaseOwned(j) PROVE Placed'
  BY <1>35 DEF ReleaseOwned, Call
<1>36. ASSUME NEW j \in Jobs, CallYieldWait(j) PROVE Placed'
  BY <1>36 DEF CallYieldWait, Call
<1>37. ASSUME NEW j \in Jobs, NEW p \in Priorities, ChangePriority(j, p) PROVE Placed'
  BY <1>37 DEF ChangePriority, Call, PushItem
<1>38. ASSUME NEW by \in {"user", "abortAll"}, CallSuspend(by) PROVE Placed'
  <2>1. CASE m_nSuspend = 0
    BY <1>38, <2>1 DEF CallSuspend
  <2>2. CASE m_nSuspend # 0
    <3>1. /\ caller' = "abortAll" /\ pc' = [pc EXCEPT ![Main] = "drain"]
          /\ m_nSuspend' = m_nSuspend + 1 /\ pc[Main] = "user" /\ UNCHANGED qStep
      BY <1>38, <2>2 DEF CallSuspend
    <3>2. /\ pc'[Main] = "drain" /\ \A w \in Workers : pc'[w] = pc[w]
          /\ m_nSuspend' \in Int /\ m_nSuspend' > 0
      BY <2>2, <3>1
    <3> QED BY <3>1, <3>2
  <2> QED BY <2>1, <2>2
<1>39. ASSUME UNCHANGED vars PROVE Placed'
  BY <1>39 DEF vars
<1> HIDE DEF PInv, PType, QueueType, Placed, MainPlaced, Go, queueVars, jobVars, poolVars,
        threadVars, mainVars, history
<1>40. ASSUME NEW t \in Threads, Service(t) PROVE Placed'
  BY <1>40, <1>1, <1>2, <1>3, <1>4, <1>5, <1>6, <1>7, <1>8, <1>9, <1>10 DEF Service
<1>41. ASSUME NEW w \in Workers, Worker(w) PROVE Placed'
  BY <1>41, <1>11, <1>12, <1>13, <1>14, <1>15, <1>16, <1>40, PoolBasics DEF Worker
<1>42. ASSUME MainInside PROVE Placed'
  BY <1>42, <1>17, <1>18, <1>19, <1>20, <1>21, <1>22, <1>23, <1>24, <1>25, <1>26, <1>27,
     <1>28, <1>29, <1>40, PoolBasics DEF MainInside
<1>43. ASSUME MainCalls PROVE Placed'
  BY <1>43, <1>30, <1>31, <1>32, <1>33, <1>34, <1>35, <1>36, <1>37, <1>38 DEF MainCalls
<1> QED BY <1>39, <1>41, <1>42, <1>43 DEF Next

\* The lock of a job is held by the thread that executes it.
Owner ==
  /\ \A j \in Jobs : m_mutex[j] # None => job[m_mutex[j]] = j /\ pc[m_mutex[j]] \in InExecute
  /\ \A t \in Threads : pc[t] \in {"finished", "completed"} => m_status[job[t]] = "ok"
  /\ \A j \in Jobs : m_status[j] = "inprogress" => m_mutex[j] # None

LEMMA NextOwner ==
  ASSUME PInv, QueueType, Placed, Owner, [Next]_vars
  PROVE  Owner'
<1> USE PoolBasics
    DEF PInv, PType, Owner, InExecute, InHand, WithJob, LockHeld, Go, queueVars, jobVars,
        poolVars, threadVars, mainVars, history
<1>1. ASSUME NEW t \in Threads, Scan(t) PROVE Owner'
  BY <1>1 DEF Scan, ScanLower
<1>2. ASSUME NEW t \in Threads, Popped(t) PROVE Owner'
  BY <1>2 DEF Popped, TakeItem
<1>3. ASSUME NEW t \in Threads, CheckFinished(t) PROVE Owner'
  BY <1>3 DEF CheckFinished
<1>4. ASSUME NEW t \in Threads, TryLockFails(t) PROVE Owner'
  BY <1>4 DEF TryLockFails
<1>5. ASSUME NEW t \in Threads, Begin(t) PROVE Owner'
  BY <1>5 DEF Begin, CanExecute
<1>6. ASSUME NEW t \in Threads, TooLate(t) PROVE Owner'
  BY <1>6 DEF TooLate, AfterExecute
<1>7. ASSUME NEW t \in Threads, Finish(t) PROVE Owner'
  BY <1>7 DEF Finish
<1>8. ASSUME NEW t \in Threads, Complete(t) PROVE Owner'
  BY <1>8 DEF Complete
<1>9. ASSUME NEW t \in Threads, LeaveExecute(t) PROVE Owner'
  BY <1>9 DEF LeaveExecute, AfterExecute
<1>10. ASSUME NEW t \in Threads, Release(t) PROVE Owner'
  BY <1>10 DEF Release, BackToWait
<1>11. ASSUME NEW w \in Workers, AnswerCall(w) PROVE Owner'
  BY <1>11 DEF AnswerCall
<1>12. ASSUME NEW w \in Workers, Suspend(w) PROVE Owner'
  BY <1>12 DEF Suspend
<1>13. ASSUME NEW w \in Workers, Resumed(w) PROVE Owner'
  BY <1>13 DEF Resumed
<1>14. ASSUME NEW w \in Workers, WakeForItem(w) PROVE Owner'
  BY <1>14 DEF WakeForItem
<1>15. ASSUME NEW w \in Workers, PopDirect(w) PROVE Owner'
  BY <1>15 DEF PopDirect, Reserve
<1>16. ASSUME NEW w \in Workers, PopShared(w) PROVE Owner'
  BY <1>16 DEF PopShared, Reserve, BackToWait
<1>17. ASSUME Execute PROVE Owner'
  BY <1>17 DEF Execute
<1>18. ASSUME Abort PROVE Owner'
  BY <1>18 DEF Abort, AbortedIfWaiting, CanExecute
<1>19. ASSUME CountAdded PROVE Owner'
  BY <1>19 DEF CountAdded, CountItem
<1>20. ASSUME CountJob PROVE Owner'
  BY <1>20 DEF CountJob
<1>21. ASSUME YieldHelp PROVE Owner'
  BY <1>21 DEF YieldHelp, Reserve
<1>22. ASSUME YieldDone PROVE Owner'
  BY <1>22 DEF YieldDone
<1>23. ASSUME CallWorker PROVE Owner'
  BY <1>23 DEF CallWorker
<1>24. ASSUME WaitForSuspension PROVE Owner'
  BY <1>24 DEF WaitForSuspension
<1>25. ASSUME DrainPop PROVE Owner'
  BY <1>25 DEF DrainPop, Reserve
<1>26. ASSUME AbortPopped PROVE Owner'
  BY <1>26 DEF AbortPopped, AbortedIfWaiting, CanExecute
<1>27. ASSUME DrainNext PROVE Owner'
  BY <1>27 DEF DrainNext
<1>28. ASSUME DrainDone PROVE Owner'
  BY <1>28 DEF DrainDone
<1>29. ASSUME ResumeExecution PROVE Owner'
  BY <1>29 DEF ResumeExecution
<1>30. ASSUME NEW j \in Jobs, AddInPlace(j) PROVE Owner'
  BY <1>30 DEF AddInPlace, Call, Placed, MainPlaced
<1>31. ASSUME NEW j \in Jobs, AddHandled(j) PROVE Owner'
  BY <1>31 DEF AddHandled, Call, Placed
<1>32. ASSUME NEW j \in Jobs, AddToQueue(j) PROVE Owner'
  BY <1>32 DEF AddToQueue, Call, PushItem, CanExecute
<1>33. ASSUME NEW j \in Jobs, CallExecute(j) PROVE Owner'
  BY <1>33 DEF CallExecute, Call
<1>34. ASSUME NEW j \in Jobs, CallAbort(j) PROVE Owner'
  BY <1>34 DEF CallAbort, Call
<1>35. ASSUME NEW j \in Jobs, ReleaseOwned(j) PROVE Owner'
  BY <1>35 DEF ReleaseOwned, Call
<1>36. ASSUME NEW j \in Jobs, CallYieldWait(j) PROVE Owner'
  BY <1>36 DEF CallYieldWait, Call
<1>37. ASSUME NEW j \in Jobs, NEW p \in Priorities, ChangePriority(j, p) PROVE Owner'
  BY <1>37 DEF ChangePriority, Call, PushItem
<1>38. ASSUME NEW by \in {"user", "abortAll"}, CallSuspend(by) PROVE Owner'
  BY <1>38 DEF CallSuspend
<1>39. ASSUME UNCHANGED vars PROVE Owner'
  BY <1>39 DEF vars
<1> HIDE DEF PInv, PType, Owner, InExecute, InHand, WithJob, LockHeld, Go, queueVars,
        jobVars, poolVars, threadVars, mainVars, history
<1>40. ASSUME NEW t \in Threads, Service(t) PROVE Owner'
  BY <1>40, <1>1, <1>2, <1>3, <1>4, <1>5, <1>6, <1>7, <1>8, <1>9, <1>10 DEF Service
<1>41. ASSUME NEW w \in Workers, Worker(w) PROVE Owner'
  BY <1>41, <1>11, <1>12, <1>13, <1>14, <1>15, <1>16, <1>40, PoolBasics DEF Worker
<1>42. ASSUME MainInside PROVE Owner'
  BY <1>42, <1>17, <1>18, <1>19, <1>20, <1>21, <1>22, <1>23, <1>24, <1>25, <1>26, <1>27,
     <1>28, <1>29, <1>40, PoolBasics DEF MainInside
<1>43. ASSUME MainCalls PROVE Owner'
  BY <1>43, <1>30, <1>31, <1>32, <1>33, <1>34, <1>35, <1>36, <1>37, <1>38 DEF MainCalls
<1> QED BY <1>39, <1>41, <1>42, <1>43 DEF Next

\* Which queue a thread takes from.
Uses ==
  \A t \in Threads : qStep[t] = "scan" =>
    /\ t \in Workers => qUsed[t] \in {t, Shared}
    /\ t = Main /\ caller = "yield" => qUsed[t] = Shared

LEMMA NextUses ==
  ASSUME PInv, QueueType, Placed, Uses, [Next]_vars
  PROVE  Uses'
<1> USE PoolBasics
    DEF PInv, PType, InHand, QueueType, Uses, Placed, MainPlaced, Go, queueVars, jobVars,
        poolVars, threadVars, mainVars, history
<1>1. ASSUME NEW t \in Threads, Scan(t) PROVE Uses'
  BY <1>1 DEF Scan, ScanLower
<1>2. ASSUME NEW t \in Threads, Popped(t) PROVE Uses'
  BY <1>2 DEF Popped, TakeItem
<1>3. ASSUME NEW t \in Threads, CheckFinished(t) PROVE Uses'
  BY <1>3 DEF CheckFinished
<1>4. ASSUME NEW t \in Threads, TryLockFails(t) PROVE Uses'
  BY <1>4 DEF TryLockFails
<1>5. ASSUME NEW t \in Threads, Begin(t) PROVE Uses'
  BY <1>5 DEF Begin
<1>6. ASSUME NEW t \in Threads, TooLate(t) PROVE Uses'
  BY <1>6 DEF TooLate, AfterExecute
<1>7. ASSUME NEW t \in Threads, Finish(t) PROVE Uses'
  BY <1>7 DEF Finish
<1>8. ASSUME NEW t \in Threads, Complete(t) PROVE Uses'
  BY <1>8 DEF Complete
<1>9. ASSUME NEW t \in Threads, LeaveExecute(t) PROVE Uses'
  BY <1>9 DEF LeaveExecute, AfterExecute
<1>10. ASSUME NEW t \in Threads, Release(t) PROVE Uses'
  BY <1>10 DEF Release, BackToWait
<1>11. ASSUME NEW w \in Workers, AnswerCall(w) PROVE Uses'
  BY <1>11 DEF AnswerCall
<1>12. ASSUME NEW w \in Workers, Suspend(w) PROVE Uses'
  BY <1>12 DEF Suspend
<1>13. ASSUME NEW w \in Workers, Resumed(w) PROVE Uses'
  BY <1>13 DEF Resumed
<1>14. ASSUME NEW w \in Workers, WakeForItem(w) PROVE Uses'
  BY <1>14 DEF WakeForItem
<1>15. ASSUME NEW w \in Workers, PopDirect(w) PROVE Uses'
  <2>1. w \in Threads /\ w # Main
    BY <1>15
  <2>2. CASE Reserve(w, w)
    BY <1>15, <2>1, <2>2 DEF PopDirect, Reserve
  <2>3. CASE UNCHANGED queueVars
    BY <1>15, <2>1, <2>3 DEF PopDirect
  <2> QED BY <1>15, <2>2, <2>3 DEF PopDirect
<1>16. ASSUME NEW w \in Workers, PopShared(w) PROVE Uses'
  <2>1. w \in Threads /\ w # Main
    BY <1>16
  <2>2. CASE Reserve(w, Shared)
    BY <1>16, <2>1, <2>2 DEF PopShared, Reserve
  <2>3. CASE UNCHANGED queueVars
    BY <1>16, <2>1, <2>3 DEF PopShared
  <2> QED BY <1>16, <2>2, <2>3 DEF PopShared
<1>17. ASSUME Execute PROVE Uses'
  BY <1>17 DEF Execute
<1>18. ASSUME Abort PROVE Uses'
  BY <1>18 DEF Abort
<1>19. ASSUME CountAdded PROVE Uses'
  BY <1>19 DEF CountAdded, CountItem
<1>20. ASSUME CountJob PROVE Uses'
  BY <1>20 DEF CountJob
<1>21. ASSUME YieldHelp PROVE Uses'
  BY SMTT(30), <1>21 DEF YieldHelp, Reserve
<1>22. ASSUME YieldDone PROVE Uses'
  BY <1>22 DEF YieldDone
<1>23. ASSUME CallWorker PROVE Uses'
  BY <1>23 DEF CallWorker
<1>24. ASSUME WaitForSuspension PROVE Uses'
  BY <1>24 DEF WaitForSuspension
<1>25. ASSUME DrainPop PROVE Uses'
  BY <1>25 DEF DrainPop, Reserve
<1>26. ASSUME AbortPopped PROVE Uses'
  BY <1>26 DEF AbortPopped
<1>27. ASSUME DrainNext PROVE Uses'
  BY <1>27 DEF DrainNext
<1>28. ASSUME DrainDone PROVE Uses'
  BY <1>28 DEF DrainDone
<1>29. ASSUME ResumeExecution PROVE Uses'
  BY <1>29 DEF ResumeExecution
<1>30. ASSUME NEW j \in Jobs, AddInPlace(j) PROVE Uses'
  BY <1>30 DEF AddInPlace, Call
<1>31. ASSUME NEW j \in Jobs, AddHandled(j) PROVE Uses'
  BY <1>31 DEF AddHandled, Call
<1>32. ASSUME NEW j \in Jobs, AddToQueue(j) PROVE Uses'
  BY <1>32 DEF AddToQueue, Call, PushItem
<1>33. ASSUME NEW j \in Jobs, CallExecute(j) PROVE Uses'
  BY <1>33 DEF CallExecute, Call
<1>34. ASSUME NEW j \in Jobs, CallAbort(j) PROVE Uses'
  BY <1>34 DEF CallAbort, Call
<1>35. ASSUME NEW j \in Jobs, ReleaseOwned(j) PROVE Uses'
  BY <1>35 DEF ReleaseOwned, Call
<1>36. ASSUME NEW j \in Jobs, CallYieldWait(j) PROVE Uses'
  BY <1>36 DEF CallYieldWait, Call
<1>37. ASSUME NEW j \in Jobs, NEW p \in Priorities, ChangePriority(j, p) PROVE Uses'
  BY <1>37 DEF ChangePriority, Call, PushItem
<1>38. ASSUME NEW by \in {"user", "abortAll"}, CallSuspend(by) PROVE Uses'
  BY <1>38 DEF CallSuspend
<1>39. ASSUME UNCHANGED vars PROVE Uses'
  BY <1>39 DEF vars
<1> HIDE DEF PInv, PType, InHand, QueueType, Uses, Placed, MainPlaced, Go, queueVars,
        jobVars, poolVars, threadVars, mainVars, history
<1>40. ASSUME NEW t \in Threads, Service(t) PROVE Uses'
  BY <1>40, <1>1, <1>2, <1>3, <1>4, <1>5, <1>6, <1>7, <1>8, <1>9, <1>10 DEF Service
<1>41. ASSUME NEW w \in Workers, Worker(w) PROVE Uses'
  BY <1>41, <1>11, <1>12, <1>13, <1>14, <1>15, <1>16, <1>40, PoolBasics DEF Worker
<1>42. ASSUME MainInside PROVE Uses'
  BY <1>42, <1>17, <1>18, <1>19, <1>20, <1>21, <1>22, <1>23, <1>24, <1>25, <1>26, <1>27,
     <1>28, <1>29, <1>40, PoolBasics DEF MainInside
<1>43. ASSUME MainCalls PROVE Uses'
  BY <1>43, <1>30, <1>31, <1>32, <1>33, <1>34, <1>35, <1>36, <1>37, <1>38 DEF MainCalls
<1> QED BY <1>39, <1>41, <1>42, <1>43 DEF Next

-----------------------------------------------------------------------------
\* The entries of a job: what a push and a pop do to their number

\* The places of a job in queues Q.
QueueContents == [Queues -> [Priorities -> Seq(Jobs)]]
PlacesIn(Q, j) ==
  {x \in UNION {UNION {{<<q, p, i>> : i \in DOMAIN Q[q][p]} : p \in Priorities} : q \in Queues} :
     Q[x[1]][x[2]][x[3]] = j}

LEMMA PlaceIs ==
  ASSUME NEW Q \in QueueContents, NEW j \in Jobs, NEW x \in PlacesIn(Q, j)
  PROVE  /\ x = <<x[1], x[2], x[3]>> /\ x[1] \in Queues /\ x[2] \in Priorities
         /\ x[3] \in 1 .. Len(Q[x[1]][x[2]]) /\ Q[x[1]][x[2]][x[3]] = j
<1>1. \A q \in Queues, p \in Priorities : DOMAIN Q[q][p] = 1 .. Len(Q[q][p])
  BY DEF QueueContents
<1>2. PICK q \in Queues, p \in Priorities : x \in {<<q, p, i>> : i \in DOMAIN Q[q][p]}
  BY DEF PlacesIn
<1>3. PICK i \in 1 .. Len(Q[q][p]) : x = <<q, p, i>>
  BY <1>1, <1>2
<1>4. Q[x[1]][x[2]][x[3]] = j
  BY DEF PlacesIn
<1> QED BY <1>3, <1>4

LEMMA IsPlace ==
  ASSUME NEW Q \in QueueContents, NEW j \in Jobs, NEW q \in Queues, NEW p \in Priorities,
         NEW i \in 1 .. Len(Q[q][p]), Q[q][p][i] = j
  PROVE  <<q, p, i>> \in PlacesIn(Q, j)
<1>1. i \in DOMAIN Q[q][p]
  BY DEF QueueContents
<1>2. PICK x : x = <<q, p, i>>
  OBVIOUS
<1>3. x \in {<<q, p, k>> : k \in DOMAIN Q[q][p]}
  BY <1>1, <1>2
<1>4. x \in UNION {UNION {{<<r, s, k>> : k \in DOMAIN Q[r][s]} : s \in Priorities} : r \in Queues}
  BY ONLY <1>3, q \in Queues, p \in Priorities
<1>5. Q[x[1]][x[2]][x[3]] = j
  BY <1>2
<1> QED BY <1>2, <1>4, <1>5 DEF PlacesIn

\* An entry for job j is pushed: it gets a place that no job had before.
PushedAt(Q, R, q, p, n, j) ==
  /\ q \in Queues /\ p \in Priorities /\ n \in Nat /\ j \in Jobs
  /\ n = Len(Q[q][p]) /\ Len(R[q][p]) = n + 1 /\ R[q][p][n + 1] = j
  /\ \A i \in 1 .. n : R[q][p][i] = Q[q][p][i]
  /\ \A a \in Queues, b \in Priorities : ~(a = q /\ b = p) => R[a][b] = Q[a][b]

LEMMA PushPlaces ==
  ASSUME NEW Q \in QueueContents, NEW R \in QueueContents, NEW q, NEW p, NEW n, NEW j,
         NEW k \in Jobs, NEW y, y = <<q, p, n + 1>>, PushedAt(Q, R, q, p, n, j)
  PROVE  /\ k = j => PlacesIn(R, k) = PlacesIn(Q, k) \cup {y}
         /\ k # j => PlacesIn(R, k) = PlacesIn(Q, k)
         /\ y \notin PlacesIn(Q, k)
<1>0. /\ q \in Queues /\ p \in Priorities /\ n \in Nat /\ j \in Jobs
      /\ n = Len(Q[q][p]) /\ Len(R[q][p]) = n + 1 /\ R[q][p][n + 1] = j
      /\ \A i \in 1 .. n : R[q][p][i] = Q[q][p][i]
      /\ \A a \in Queues, b \in Priorities : ~(a = q /\ b = p) => R[a][b] = Q[a][b]
      /\ y[1] = q /\ y[2] = p /\ y[3] = n + 1
  BY DEF PushedAt
<1>1. ASSUME NEW x \in PlacesIn(R, k)
      PROVE  x \in PlacesIn(Q, k) \/ (k = j /\ x = y)
  <2>1. /\ x = <<x[1], x[2], x[3]>> /\ x[1] \in Queues /\ x[2] \in Priorities
        /\ x[3] \in 1 .. Len(R[x[1]][x[2]]) /\ R[x[1]][x[2]][x[3]] = k
    BY SMTT(30), PlaceIs
  <2>2. CASE x[1] = q /\ x[2] = p /\ x[3] = n + 1
    BY <1>0, <2>1, <2>2
  <2>3. CASE x[1] = q /\ x[2] = p /\ x[3] # n + 1
    <3>1. x[3] \in 1 .. n /\ Q[q][p][x[3]] = k
      BY SMTT(30), <1>0, <2>1, <2>3
    <3>2. <<q, p, x[3]>> \in PlacesIn(Q, k)
      BY <1>0, <3>1, IsPlace
    <3> QED BY <1>0, <2>1, <2>3, <3>2
  <2>4. CASE ~(x[1] = q /\ x[2] = p)
    <3>1. x[3] \in 1 .. Len(Q[x[1]][x[2]]) /\ Q[x[1]][x[2]][x[3]] = k
      BY <1>0, <2>1, <2>4
    <3>2. <<x[1], x[2], x[3]>> \in PlacesIn(Q, k)
      BY <1>0, <2>1, <3>1, IsPlace
    <3> QED BY <1>0, <2>1, <3>2
  <2> QED BY <1>0, <2>2, <2>3, <2>4
<1>2. ASSUME NEW x \in PlacesIn(Q, k) PROVE x \in PlacesIn(R, k) /\ x # y
  <2>1. /\ x = <<x[1], x[2], x[3]>> /\ x[1] \in Queues /\ x[2] \in Priorities
        /\ x[3] \in 1 .. Len(Q[x[1]][x[2]]) /\ Q[x[1]][x[2]][x[3]] = k
    BY <1>0, PlaceIs
  <2>2. CASE x[1] = q /\ x[2] = p
    <3>1. x[3] \in 1 .. n /\ R[q][p][x[3]] = k
      BY <1>0, <2>1, <2>2
    <3>2. x[3] \in 1 .. Len(R[q][p]) /\ x[3] # n + 1
      BY <1>0, <3>1
    <3>3. <<q, p, x[3]>> \in PlacesIn(R, k)
      BY <1>0, <3>1, <3>2, IsPlace
    <3> QED BY <1>0, <2>1, <2>2, <3>2, <3>3
  <2>3. CASE ~(x[1] = q /\ x[2] = p)
    <3>1. x[3] \in 1 .. Len(R[x[1]][x[2]]) /\ R[x[1]][x[2]][x[3]] = k
      BY <1>0, <2>1, <2>3
    <3>2. <<x[1], x[2], x[3]>> \in PlacesIn(R, k)
      BY <1>0, <2>1, <3>1, IsPlace
    <3> QED BY <1>0, <2>1, <2>3, <3>2
  <2> QED BY <1>0, <2>2, <2>3
<1>3. k = j => y \in PlacesIn(R, k)
  <2> SUFFICES ASSUME k = j PROVE <<q, p, n + 1>> \in PlacesIn(R, k)
    OBVIOUS
  <2>1. n + 1 \in 1 .. Len(R[q][p]) /\ R[q][p][n + 1] = k
    BY <1>0
  <2> QED BY <1>0, <2>1, IsPlace
<1> QED BY <1>1, <1>2, <1>3

\* The first of a queue is taken, and the others move up.
LEMMA TakePlaces ==
  ASSUME NEW Q \in QueueContents, NEW R \in QueueContents, NEW q \in Queues,
         NEW p \in Priorities, Q[q][p] # <<>>, R[q][p] = Tail(Q[q][p]), NEW k \in Jobs,
         \A a \in Queues, b \in Priorities : ~(a = q /\ b = p) => R[a][b] = Q[a][b],
         IsFiniteSet(PlacesIn(Q, k))
  PROVE  /\ IsFiniteSet(PlacesIn(R, k))
         /\ Cardinality(PlacesIn(R, k))
              = Cardinality(PlacesIn(Q, k)) - (IF k = Head(Q[q][p]) THEN 1 ELSE 0)
<1>2. PICK s \in Seq(Jobs) : s = Q[q][p]
  BY DEF QueueContents
<1>3. /\ s # <<>> /\ R[q][p] = Tail(s)
      /\ \A qq \in Queues, pp \in Priorities :
           ~(qq = q /\ pp = p) => R[qq][pp] = Q[qq][pp]
  BY <1>2 DEF QueueContents
<1>4. /\ Head(s) = s[1] /\ Len(s) \in Nat /\ Len(s) >= 1 /\ Len(R[q][p]) = Len(s) - 1
      /\ \A i \in 1 .. Len(s) - 1 : R[q][p][i] = s[i + 1]
  <2>1. s \in Seq(Jobs) /\ s # <<>>
    BY <1>2, <1>3
  <2>2. /\ Head(s) = s[1] /\ Len(s) \in Nat /\ Len(s) >= 1 /\ Len(Tail(s)) = Len(s) - 1
        /\ \A i \in 1 .. Len(s) - 1 : Tail(s)[i] = s[i + 1]
    BY ONLY <2>1
  <2> QED BY <1>3, <2>2
<1>5. PICK F : F = [x \in PlacesIn(Q, k) \ {<<q, p, 1>>} |->
                      IF x[1] = q /\ x[2] = p THEN <<q, p, x[3] - 1>> ELSE x]
  OBVIOUS
<1>6. PICK D : D = PlacesIn(Q, k) \ {<<q, p, 1>>}
  OBVIOUS
<1>7. DOMAIN F = D /\ \A x \in D : F[x] = IF x[1] = q /\ x[2] = p THEN <<q, p, x[3] - 1>> ELSE x
  BY <1>5, <1>6
<1>8. ASSUME NEW x \in D
      PROVE  /\ x = <<x[1], x[2], x[3]>> /\ x[1] \in Queues /\ x[2] \in Priorities
             /\ x[3] \in 1 .. Len(Q[x[1]][x[2]]) /\ Q[x[1]][x[2]][x[3]] = k
             /\ x[1] = q /\ x[2] = p => x[3] # 1
  <2>1. x \in PlacesIn(Q, k) /\ x # <<q, p, 1>>
    BY <1>6
  <2>2. /\ x = <<x[1], x[2], x[3]>> /\ x[1] \in Queues /\ x[2] \in Priorities
        /\ x[3] \in 1 .. Len(Q[x[1]][x[2]]) /\ Q[x[1]][x[2]][x[3]] = k
    BY <2>1, PlaceIs
  <2> QED BY <2>1, <2>2
<1>9. ASSUME NEW x \in D PROVE F[x] \in PlacesIn(R, k)
  <2>1. CASE x[1] = q /\ x[2] = p
    <3>1. x[3] \in 2 .. Len(s) /\ s[x[3]] = k
      BY <1>2, <1>4, <1>8, <2>1
    <3>2. PICK i : i = x[3] - 1
      OBVIOUS
    <3>3. i \in 1 .. Len(s) - 1 /\ i + 1 = x[3]
      BY <1>4, <3>1, <3>2
    <3>4. i \in 1 .. Len(R[q][p]) /\ R[q][p][i] = k
      BY <1>4, <3>1, <3>3
    <3>5. <<q, p, i>> \in PlacesIn(R, k)
      BY <3>4, IsPlace
    <3> QED BY <1>7, <2>1, <3>2, <3>5
  <2>2. CASE ~(x[1] = q /\ x[2] = p)
    <3>1. x[3] \in 1 .. Len(R[x[1]][x[2]]) /\ R[x[1]][x[2]][x[3]] = k
      BY <1>3, <1>8, <2>2
    <3>2. <<x[1], x[2], x[3]>> \in PlacesIn(R, k)
      BY <1>8, <3>1, IsPlace
    <3> QED BY <1>7, <1>8, <2>2, <3>2
  <2> QED BY <2>1, <2>2
<1>10. ASSUME NEW x \in D, NEW y \in D, F[x] = F[y] PROVE x = y
  <2>1. /\ x[3] \in Int /\ y[3] \in Int
        /\ x = <<x[1], x[2], x[3]>> /\ y = <<y[1], y[2], y[3]>>
    BY <1>8
  <2>2. \A z \in D : /\ F[z][1] = z[1] /\ F[z][2] = z[2]
                     /\ F[z][3] = IF z[1] = q /\ z[2] = p THEN z[3] - 1 ELSE z[3]
    BY <1>7
  <2>3. x[1] = y[1] /\ x[2] = y[2]
    BY <1>10, <2>2
  <2>4. x[3] = y[3]
    <3>1. F[x][3] = F[y][3]
      BY <1>10
    <3> QED BY <2>1, <2>2, <2>3, <3>1
  <2> QED BY <2>1, <2>3, <2>4
<1>11. ASSUME NEW y \in PlacesIn(R, k) PROVE \E x \in D : F[x] = y
  <2>1. /\ y = <<y[1], y[2], y[3]>> /\ y[1] \in Queues /\ y[2] \in Priorities
        /\ y[3] \in 1 .. Len(R[y[1]][y[2]]) /\ R[y[1]][y[2]][y[3]] = k
    BY ONLY y \in PlacesIn(R, k), k \in Jobs, R \in QueueContents, PlaceIs
  <2>2. CASE y[1] = q /\ y[2] = p
    <3>1. y[3] \in 1 .. Len(s) - 1 /\ s[y[3] + 1] = k
      BY <1>4, <2>1, <2>2
    <3>2. PICK i : i = y[3] + 1
      OBVIOUS
    <3>3. i \in 1 .. Len(s) /\ i # 1 /\ i - 1 = y[3] /\ s[i] = k
      BY <1>4, <3>1, <3>2
    <3>4. <<q, p, i>> \in PlacesIn(Q, k)
      BY <1>2, <3>3, IsPlace
    <3>5. <<q, p, i>> \in D
      BY <1>6, <3>3, <3>4
    <3>6. F[<<q, p, i>>] = <<q, p, i - 1>>
      BY <1>7, <3>5
    <3> QED BY <2>1, <2>2, <3>3, <3>5, <3>6
  <2>3. CASE ~(y[1] = q /\ y[2] = p)
    <3>1. y[3] \in 1 .. Len(Q[y[1]][y[2]]) /\ Q[y[1]][y[2]][y[3]] = k
      BY <1>3, <2>1, <2>3
    <3>2. y \in PlacesIn(Q, k)
      <4>1. <<y[1], y[2], y[3]>> \in PlacesIn(Q, k)
        BY <2>1, <3>1, IsPlace
      <4> QED BY <2>1, <4>1
    <3>3. y \in D
      BY <1>6, <2>3, <3>2
    <3> QED BY <1>7, <2>3, <3>3
  <2> QED BY <2>2, <2>3
<1>12. F \in Bijection(D, PlacesIn(R, k))
  <2>1. F \in [D -> PlacesIn(R, k)]
    BY <1>5, <1>6, <1>7, <1>9
  <2>2. F \in Injection(D, PlacesIn(R, k))
    BY <1>10, <2>1 DEF Injection, IsInjective
  <2>3. F \in Surjection(D, PlacesIn(R, k))
    BY <1>11, <2>1 DEF Surjection
  <2> QED BY <2>2, <2>3 DEF Bijection
<1>13. IsFiniteSet(D)
  BY <1>6, FS_Subset
<1>14. IsFiniteSet(PlacesIn(R, k)) /\ Cardinality(PlacesIn(R, k)) = Cardinality(D)
  BY <1>12, <1>13, FS_Bijection DEF ExistsBijection
<1>15. CASE k = Head(Q[q][p])
  <2>1. <<q, p, 1>> \in PlacesIn(Q, k)
    <3>1. 1 \in 1 .. Len(Q[q][p]) /\ Q[q][p][1] = k
      BY <1>2, <1>3, <1>4, <1>15
    <3> QED BY <3>1, IsPlace
  <2>2. Cardinality(D) = Cardinality(PlacesIn(Q, k)) - 1
    BY <1>6, <2>1, FS_RemoveElement
  <2> QED BY <1>14, <1>15, <2>2
<1>16. CASE k # Head(Q[q][p])
  <2>1. <<q, p, 1>> \notin PlacesIn(Q, k)
    <3> SUFFICES ASSUME <<q, p, 1>> \in PlacesIn(Q, k) PROVE FALSE
      OBVIOUS
    <3>1. PICK x : x = <<q, p, 1>>
      OBVIOUS
    <3>2. Q[x[1]][x[2]][x[3]] = k
      BY <3>1, PlaceIs
    <3> QED BY <1>2, <1>3, <1>4, <1>16, <3>1, <3>2
  <2>2. D = PlacesIn(Q, k)
    BY <1>6, <2>1
  <2>3. Cardinality(PlacesIn(Q, k)) \in Nat
    BY FS_CardinalityType
  <2> QED BY <1>14, <1>16, <2>2, <2>3
<1> QED BY <1>14, <1>15, <1>16

-----------------------------------------------------------------------------
\* References

\* A job's references.
Holds(t, j) == job[t] = j /\ pc[t] \in Popping /\ ~(t = Main /\ caller = "user")
Executes(t, j) == job[t] = j /\ pc[t] \in InExecute
Holders(j) == {t \in Threads : Holds(t, j)}
Executors(j) == {t \in Threads : Executes(t, j)}
Ones(P) == IF P THEN 1 ELSE 0
Owned(j) == Ones(j \in owned)

RefInv ==
  /\ refs \in [Jobs -> Int]
  /\ \A j \in Jobs :
       /\ IsFiniteSet(PlacesIn(m_queues, j))
       /\ refs[j] = Owned(j) + Cardinality(PlacesIn(m_queues, j)) + Cardinality(Holders(j))
                    + Cardinality(Executors(j))

\* Two sets of threads that differ at most in one.
LEMMA OneApart ==
  ASSUME NEW A \in SUBSET Threads, NEW B \in SUBSET Threads, NEW t \in Threads,
         \A u \in Threads : u # t => (u \in A <=> u \in B)
  PROVE  /\ Cardinality(A) \in Int /\ Cardinality(B) \in Int
         /\ Cardinality(B) - Ones(t \in B) = Cardinality(A) - Ones(t \in A)
<1>1. IsFiniteSet(A) /\ IsFiniteSet(B)
  BY Basics, FS_Subset
<1>2. /\ Cardinality(A) \in Nat /\ Cardinality(B) \in Nat
  BY <1>1, FS_CardinalityType
<1>3. PICK C : C = A \ {t}
  OBVIOUS
<1>4. C = B \ {t}
  BY <1>3
<1>5. IsFiniteSet(C) /\ Cardinality(C) \in Nat
  BY <1>1, <1>3, FS_Subset, FS_CardinalityType
<1>6. Cardinality(A) - Ones(t \in A) = Cardinality(C)
  <2>1. t \in A => Cardinality(C) = Cardinality(A) - 1
    BY <1>1, <1>3, FS_RemoveElement
  <2>2. t \notin A => C = A
    BY <1>3
  <2> QED BY <1>2, <2>1, <2>2 DEF Ones
<1>7. Cardinality(B) - Ones(t \in B) = Cardinality(C)
  <2>1. t \in B => Cardinality(C) = Cardinality(B) - 1
    BY <1>1, <1>4, FS_RemoveElement
  <2>2. t \notin B => C = B
    BY <1>4
  <2> QED BY <1>2, <2>1, <2>2 DEF Ones
<1> QED BY <1>2, <1>6, <1>7

\* A step of thread t.
StepOf(t) ==
  /\ \A u \in Threads : u # t => job'[u] = job[u] /\ pc'[u] = pc[u]
  /\ t = Main \/ caller' = caller

\* What a step of one thread adds to a job's references is in the same hands.
LEMMA Accounts ==
  ASSUME RefInv, NEW t \in Threads, StepOf(t), refs' \in [Jobs -> Int], NEW k \in Jobs,
         NEW e \in Int, IsFiniteSet(PlacesIn(m_queues', k)),
         Cardinality(PlacesIn(m_queues', k)) = Cardinality(PlacesIn(m_queues, k)) + e,
         refs'[k] = refs[k] + e + Owned(k)' - Owned(k)
                    + Ones(Holds(t, k)') - Ones(Holds(t, k))
                    + Ones(Executes(t, k)') - Ones(Executes(t, k))
  PROVE  /\ IsFiniteSet(PlacesIn(m_queues', k))
         /\ refs'[k] = Owned(k)' + Cardinality(PlacesIn(m_queues', k)) + Cardinality(Holders(k)')
                       + Cardinality(Executors(k)')
<1>1. /\ Cardinality(Holders(k)) \in Int /\ Cardinality(Holders(k)') \in Int
      /\ Cardinality(Holders(k)') - Ones(t \in Holders(k)')
           = Cardinality(Holders(k)) - Ones(t \in Holders(k))
  <2>1. \A u \in Threads : u # t => (u \in Holders(k) <=> u \in Holders(k)')
    BY DEF StepOf, Holders, Holds
  <2>2. Holders(k) \in SUBSET Threads /\ Holders(k)' \in SUBSET Threads
    BY DEF Holders
  <2> QED BY <2>1, <2>2, OneApart
<1>2. /\ Cardinality(Executors(k)) \in Int /\ Cardinality(Executors(k)') \in Int
      /\ Cardinality(Executors(k)') - Ones(t \in Executors(k)')
           = Cardinality(Executors(k)) - Ones(t \in Executors(k))
  <2>1. \A u \in Threads : u # t => (u \in Executors(k) <=> u \in Executors(k)')
    BY DEF StepOf, Executors, Executes
  <2>2. Executors(k) \in SUBSET Threads /\ Executors(k)' \in SUBSET Threads
    BY DEF Executors
  <2> QED BY <2>1, <2>2, OneApart
<1>3. /\ (t \in Holders(k) <=> Holds(t, k)) /\ (t \in Holders(k)' <=> Holds(t, k)')
      /\ (t \in Executors(k) <=> Executes(t, k)) /\ (t \in Executors(k)' <=> Executes(t, k)')
  BY DEF Holders, Executors
<1>4. /\ Ones(t \in Holders(k)) = Ones(Holds(t, k))
      /\ Ones(t \in Holders(k)') = Ones(Holds(t, k)')
      /\ Ones(t \in Executors(k)) = Ones(Executes(t, k))
      /\ Ones(t \in Executors(k)') = Ones(Executes(t, k)')
  BY <1>3 DEF Ones
<1>5. /\ Owned(k) \in Int /\ Owned(k)' \in Int
      /\ Ones(Holds(t, k)) \in Int /\ Ones(Holds(t, k)') \in Int
      /\ Ones(Executes(t, k)) \in Int /\ Ones(Executes(t, k)') \in Int
  BY DEF Owned, Ones
<1>6. /\ refs[k] = Owned(k) + Cardinality(PlacesIn(m_queues, k)) + Cardinality(Holders(k))
                   + Cardinality(Executors(k))
      /\ refs[k] \in Int /\ refs'[k] \in Int
      /\ Cardinality(PlacesIn(m_queues, k)) \in Int
  BY FS_CardinalityType DEF RefInv
<1> QED BY <1>1, <1>2, <1>4, <1>5, <1>6

\* A step that changes no reference.
Quiet(t) ==
  /\ t \in Threads /\ StepOf(t) /\ UNCHANGED <<m_queues, refs, owned>>
  /\ \A k \in Jobs : (Holds(t, k)' <=> Holds(t, k)) /\ (Executes(t, k)' <=> Executes(t, k))

LEMMA QuietKeeps ==
  ASSUME RefInv, NEW t, Quiet(t)
  PROVE  RefInv'
<1>1. refs' \in [Jobs -> Int] /\ t \in Threads /\ StepOf(t)
  BY DEF Quiet, RefInv
<1>2. ASSUME NEW k \in Jobs
      PROVE  /\ IsFiniteSet(PlacesIn(m_queues', k))
             /\ refs'[k] = Owned(k)' + Cardinality(PlacesIn(m_queues', k))
                           + Cardinality(Holders(k)') + Cardinality(Executors(k)')
  <2>1. /\ IsFiniteSet(PlacesIn(m_queues', k))
        /\ Cardinality(PlacesIn(m_queues, k)) \in Int
        /\ Cardinality(PlacesIn(m_queues', k)) = Cardinality(PlacesIn(m_queues, k)) + 0
    BY FS_CardinalityType DEF Quiet, RefInv
  <2>2. /\ Owned(k)' = Owned(k) /\ Owned(k) \in Int
        /\ Ones(Holds(t, k)') = Ones(Holds(t, k)) /\ Ones(Holds(t, k)) \in Int
        /\ Ones(Executes(t, k)') = Ones(Executes(t, k)) /\ Ones(Executes(t, k)) \in Int
    BY DEF Quiet, Owned, Ones
  <2>3. refs'[k] = refs[k] /\ refs[k] \in Int
    BY DEF Quiet, RefInv
  <2>4. refs'[k] = refs[k] + 0 + Owned(k)' - Owned(k)
                    + Ones(Holds(t, k)') - Ones(Holds(t, k))
                    + Ones(Executes(t, k)') - Ones(Executes(t, k))
    BY <2>2, <2>3
  <2> QED BY <1>1, <2>1, <2>4, Accounts
<1> QED BY <1>1, <1>2 DEF RefInv

\* Pushing and taking, as the references see it.
LEMMA PushedRefs ==
  ASSUME PInv, QueueType, QueueType', RefInv, NEW q \in Queues, NEW j \in Jobs,
         NEW p \in Priorities, PushItem(Main, q, j, p), StepOf(Main),
         refs' = [refs EXCEPT ![j] = @ + 1], owned' = owned,
         \A k \in Jobs : Holds(Main, k)' <=> Holds(Main, k),
         \A k \in Jobs : Executes(Main, k)' <=> Executes(Main, k)
  PROVE  RefInv'
<1>1. /\ m_queues \in QueueContents /\ m_queues' \in QueueContents
      /\ m_queues' = [m_queues EXCEPT ![q][p] = Append(@, j)]
  BY DEF QueueType, QueueContents, PushItem
<1>2. refs' \in [Jobs -> Int]
  BY DEF RefInv
<1>3. ASSUME NEW k \in Jobs
      PROVE  /\ IsFiniteSet(PlacesIn(m_queues', k))
             /\ refs'[k] = Owned(k)' + Cardinality(PlacesIn(m_queues', k))
                           + Cardinality(Holders(k)') + Cardinality(Executors(k)')
  <2>1. PICK x : x = <<q, p, Len(m_queues[q][p]) + 1>>
    OBVIOUS
  <2>2. /\ PlacesIn(m_queues', k) = IF k = j THEN PlacesIn(m_queues, k) \cup {x}
                                    ELSE PlacesIn(m_queues, k)
        /\ x \notin PlacesIn(m_queues, k)
    <3>1. PICK s \in Seq(Jobs) : s = m_queues[q][p]
      BY <1>1 DEF QueueContents
    <3>2. PICK n \in Nat : n = Len(s)
      OBVIOUS
    <3>3. PICK Q \in QueueContents, R \in QueueContents : Q = m_queues /\ R = m_queues'
      BY <1>1
    <3>4. Q[q][p] = s /\ R[q][p] = Append(s, j)
      BY <1>1, <3>1, <3>3 DEF QueueContents
    <3>5. /\ n = Len(Q[q][p]) /\ Len(R[q][p]) = n + 1 /\ R[q][p][n + 1] = j
          /\ \A i \in 1 .. n : R[q][p][i] = Q[q][p][i]
      BY <3>2, <3>4
    <3>6. \A a \in Queues, b \in Priorities : ~(a = q /\ b = p) => R[a][b] = Q[a][b]
      BY <1>1, <3>3 DEF QueueContents
    <3>7. PushedAt(Q, R, q, p, n, j) /\ x = <<q, p, n + 1>>
      BY <2>1, <3>1, <3>2, <3>5, <3>6 DEF PushedAt
    <3>8. /\ k = j => PlacesIn(R, k) = PlacesIn(Q, k) \cup {x}
          /\ k # j => PlacesIn(R, k) = PlacesIn(Q, k)
          /\ x \notin PlacesIn(Q, k)
      BY <3>7, PushPlaces
    <3> QED BY <3>3, <3>8
  <2>3. /\ IsFiniteSet(PlacesIn(m_queues, k)) /\ Cardinality(PlacesIn(m_queues, k)) \in Int
        /\ refs[k] \in Int
    BY FS_CardinalityType DEF RefInv
  <2>4. PICK e : e = IF k = j THEN 1 ELSE 0
    OBVIOUS
  <2>5. /\ IsFiniteSet(PlacesIn(m_queues', k))
        /\ Cardinality(PlacesIn(m_queues', k)) = Cardinality(PlacesIn(m_queues, k)) + e
    <3>1. CASE k = j
      BY <2>2, <2>3, <2>4, <3>1, OneMore
    <3>2. CASE k # j
      BY <2>2, <2>3, <2>4, <3>2
    <3> QED BY <3>1, <3>2
  <2>6. /\ Owned(k)' = Owned(k) /\ Owned(k) \in Int
        /\ Ones(Holds(Main, k)') = Ones(Holds(Main, k)) /\ Ones(Holds(Main, k)) \in Int
        /\ Ones(Executes(Main, k)') = Ones(Executes(Main, k)) /\ Ones(Executes(Main, k)) \in Int
    BY DEF Owned, Ones
  <2>7. refs'[k] = refs[k] + e /\ e \in Int
    BY <2>4 DEF RefInv
  <2>8. refs'[k] = refs[k] + e + Owned(k)' - Owned(k)
                    + Ones(Holds(Main, k)') - Ones(Holds(Main, k))
                    + Ones(Executes(Main, k)') - Ones(Executes(Main, k))
    BY <2>3, <2>6, <2>7
  <2> QED BY <1>2, <2>5, <2>7, <2>8, PoolBasics, Accounts
<1> QED BY <1>2, <1>3 DEF RefInv

LEMMA TakesFrom ==
  ASSUME QueueType, QueueType', NEW t \in Threads, TakeItem(t)
  PROVE  /\ m_queues \in QueueContents /\ m_queues' \in QueueContents
         /\ qUsed[t] \in Queues /\ level[t] \in Priorities
         /\ m_queues[qUsed[t]][level[t]] # <<>> /\ Place(t) = m_queues[qUsed[t]][level[t]]
         /\ m_queues' = [m_queues EXCEPT ![qUsed[t]][level[t]] = Tail(@)]
<1>1. qUsed[t] \in Queues /\ level[t] \in Priorities
  BY Basics DEF QueueType, TakeItem
<1>2. m_queues \in QueueContents /\ m_queues' \in QueueContents
  BY DEF QueueType, QueueContents
<1>3. /\ m_queues[qUsed[t]][level[t]] # <<>> /\ Place(t) = m_queues[qUsed[t]][level[t]]
      /\ m_queues' = [m_queues EXCEPT ![qUsed[t]][level[t]] = Tail(@)]
  BY DEF TakeItem, Place
<1> QED BY <1>1, <1>2, <1>3

LEMMA TakenRefs ==
  ASSUME PInv, QueueType, QueueType', RefInv, NEW t \in Threads, TakeItem(t), StepOf(t),
         UNCHANGED <<refs, owned>>,
         \A k \in Jobs : Holds(t, k)' <=> k = Head(Place(t)),
         \A k \in Jobs : ~Holds(t, k) /\ ~Executes(t, k) /\ ~Executes(t, k)'
  PROVE  RefInv'
<1>1. /\ m_queues \in QueueContents /\ m_queues' \in QueueContents
      /\ qUsed[t] \in Queues /\ level[t] \in Priorities
      /\ m_queues[qUsed[t]][level[t]] # <<>> /\ Place(t) = m_queues[qUsed[t]][level[t]]
      /\ m_queues' = [m_queues EXCEPT ![qUsed[t]][level[t]] = Tail(@)]
  BY TakesFrom
<1>2. refs' \in [Jobs -> Int]
  BY DEF RefInv
<1>3. ASSUME NEW k \in Jobs
      PROVE  /\ IsFiniteSet(PlacesIn(m_queues', k))
             /\ refs'[k] = Owned(k)' + Cardinality(PlacesIn(m_queues', k))
                           + Cardinality(Holders(k)') + Cardinality(Executors(k)')
  <2>1. /\ IsFiniteSet(PlacesIn(m_queues, k)) /\ Cardinality(PlacesIn(m_queues, k)) \in Int
        /\ refs[k] \in Int /\ refs'[k] = refs[k]
    BY FS_CardinalityType DEF RefInv
  <2>2. PICK e : e = IF k = Head(Place(t)) THEN -1 ELSE 0
    OBVIOUS
  <2>3. /\ IsFiniteSet(PlacesIn(m_queues', k))
        /\ Cardinality(PlacesIn(m_queues', k))
             = Cardinality(PlacesIn(m_queues, k)) - (IF k = Head(Place(t)) THEN 1 ELSE 0)
    <3>1. PICK Q \in QueueContents, R \in QueueContents, q \in Queues, p \in Priorities :
            Q = m_queues /\ R = m_queues' /\ q = qUsed[t] /\ p = level[t]
      BY <1>1
    <3>2. /\ Q[q][p] # <<>> /\ Place(t) = Q[q][p] /\ R[q][p] = Tail(Q[q][p])
          /\ \A a \in Queues, b \in Priorities : ~(a = q /\ b = p) => R[a][b] = Q[a][b]
          /\ IsFiniteSet(PlacesIn(Q, k))
      BY <1>1, <2>1, <3>1 DEF QueueContents
    <3>3. /\ IsFiniteSet(PlacesIn(R, k))
          /\ Cardinality(PlacesIn(R, k))
               = Cardinality(PlacesIn(Q, k)) - (IF k = Head(Q[q][p]) THEN 1 ELSE 0)
      BY <3>2, TakePlaces
    <3> QED BY <3>1, <3>2, <3>3
  <2>4. Cardinality(PlacesIn(m_queues', k)) = Cardinality(PlacesIn(m_queues, k)) + e /\ e \in Int
    BY <2>1, <2>2, <2>3
  <2>5. /\ Owned(k)' = Owned(k) /\ Owned(k) \in Int
        /\ Ones(Holds(t, k)') = -e /\ Ones(Holds(t, k)) = 0
        /\ Ones(Executes(t, k)') = 0 /\ Ones(Executes(t, k)) = 0
    BY <2>2 DEF Owned, Ones
  <2>6. refs'[k] = refs[k] + e + Owned(k)' - Owned(k)
                    + Ones(Holds(t, k)') - Ones(Holds(t, k))
                    + Ones(Executes(t, k)') - Ones(Executes(t, k))
    BY <2>1, <2>4, <2>5
  <2> QED BY <1>2, <2>3, <2>4, <2>6, Accounts
<1> QED BY <1>2, <1>3 DEF RefInv

\* A step that changes no queue, and one job's references.
LEMMA HandedRefs ==
  ASSUME PInv, RefInv, NEW t \in Threads, StepOf(t), UNCHANGED m_queues, NEW j \in Jobs,
         NEW d \in Int, refs' = [refs EXCEPT ![j] = @ + d],
         Owned(j)' - Owned(j) + Ones(Holds(t, j)') - Ones(Holds(t, j))
           + Ones(Executes(t, j)') - Ones(Executes(t, j)) = d,
         \A k \in Jobs : k # j => (Holds(t, k)' <=> Holds(t, k)),
         \A k \in Jobs : k # j => (Executes(t, k)' <=> Executes(t, k)),
         \A k \in Jobs : k # j => (k \in owned' <=> k \in owned)
  PROVE  RefInv'
<1>1. refs' \in [Jobs -> Int]
  BY DEF RefInv
<1>2. ASSUME NEW k \in Jobs
      PROVE  /\ IsFiniteSet(PlacesIn(m_queues', k))
             /\ refs'[k] = Owned(k)' + Cardinality(PlacesIn(m_queues', k))
                           + Cardinality(Holders(k)') + Cardinality(Executors(k)')
  <2>1. /\ IsFiniteSet(PlacesIn(m_queues', k))
        /\ Cardinality(PlacesIn(m_queues, k)) \in Int
        /\ Cardinality(PlacesIn(m_queues', k)) = Cardinality(PlacesIn(m_queues, k))
        /\ refs[k] \in Int
    BY FS_CardinalityType DEF RefInv
  <2>2. /\ Owned(k)' \in Int /\ Owned(k) \in Int
        /\ Ones(Holds(t, k)') \in Int /\ Ones(Holds(t, k)) \in Int
        /\ Ones(Executes(t, k)') \in Int /\ Ones(Executes(t, k)) \in Int
    BY DEF Owned, Ones
  <2>3. refs'[k] = refs[k] + 0 + Owned(k)' - Owned(k)
                    + Ones(Holds(t, k)') - Ones(Holds(t, k))
                    + Ones(Executes(t, k)') - Ones(Executes(t, k))
    <3>1. CASE k = j
      <4>1. refs'[k] = refs[k] + d
        BY <3>1 DEF RefInv
      <4> QED BY <2>1, <2>2, <3>1, <4>1
    <3>2. CASE k # j
      <4>1. refs'[k] = refs[k]
        BY <3>2 DEF RefInv
      <4>2. /\ Owned(k)' = Owned(k) /\ Ones(Holds(t, k)') = Ones(Holds(t, k))
            /\ Ones(Executes(t, k)') = Ones(Executes(t, k))
        BY <3>2 DEF Owned, Ones
      <4> QED BY <2>1, <2>2, <4>1, <4>2
    <3> QED BY <3>1, <3>2
  <2>4. PICK e \in Int : e = 0
    OBVIOUS
  <2>5. Cardinality(PlacesIn(m_queues', k)) = Cardinality(PlacesIn(m_queues, k)) + e
    BY <2>1, <2>4
  <2>6. refs'[k] = refs[k] + e + Owned(k)' - Owned(k)
                    + Ones(Holds(t, k)') - Ones(Holds(t, k))
                    + Ones(Executes(t, k)') - Ones(Executes(t, k))
    BY <2>3, <2>4
  <2> QED BY <1>1, <2>1, <2>5, <2>6, Accounts
<1> QED BY <1>1, <1>2 DEF RefInv

\* The steps that take or drop no reference.
LEMMA ScanQuiet ==
  ASSUME PInv, QueueType, Placed, NEW t \in Threads, Scan(t)
  PROVE  Quiet(t)
BY PoolBasics DEF Scan, ScanLower, PInv, PType, InHand, WithJob, Placed, MainPlaced, Go,
     Popping, InExecute, Quiet, StepOf, Holds, Executes, queueVars, jobVars, poolVars,
     threadVars, mainVars, history

LEMMA CheckFinishedQuiet ==
  ASSUME PInv, QueueType, Placed, NEW t \in Threads, CheckFinished(t)
  PROVE  Quiet(t)
BY PoolBasics DEF CheckFinished, PInv, PType, InHand, WithJob, Placed, MainPlaced, Go, Popping,
     InExecute, Quiet, StepOf, Holds, Executes, queueVars, jobVars, poolVars, threadVars,
     mainVars, history

LEMMA TryLockFailsQuiet ==
  ASSUME PInv, QueueType, Placed, NEW t \in Threads, TryLockFails(t)
  PROVE  Quiet(t)
BY PoolBasics DEF TryLockFails, PInv, PType, InHand, WithJob, Placed, MainPlaced, Go, Popping,
     InExecute, Quiet, StepOf, Holds, Executes, queueVars, jobVars, poolVars, threadVars,
     mainVars, history

LEMMA TooLateQuiet ==
  ASSUME PInv, QueueType, Placed, NEW t \in Threads, TooLate(t)
  PROVE  Quiet(t)
<1> USE PoolBasics
    DEF TooLate, AfterExecute, PInv, PType, InHand, WithJob, Placed, MainPlaced, Go,
        Popping, InExecute, queueVars, jobVars, poolVars, mainVars
<1>1. StepOf(t) /\ UNCHANGED <<m_queues, refs, owned>>
  BY DEF StepOf
<1>2. CASE t = Main /\ caller = "user"
  <2>1. pc[t] = "lock" /\ pc'[t] = "user" /\ caller' = "user"
    BY <1>2
  <2> QED BY <1>1, <1>2, <2>1 DEF Quiet, Holds, Executes
<1>3. CASE ~(t = Main /\ caller = "user")
  <2>1. pc[t] = "tryLock" /\ pc'[t] = "release" /\ caller' = caller /\ job'[t] = job[t]
    <3>1. Threads = Workers \cup {Main}
      BY ThreadPoolAssumption
    <3>2. pc[t] # "lock"
      BY <1>3, <3>1
    <3> QED BY <1>3, <3>2
  <2> QED BY <1>1, <1>3, <2>1 DEF Quiet, Holds, Executes
<1> QED BY <1>2, <1>3

LEMMA FinishQuiet ==
  ASSUME PInv, QueueType, Placed, NEW t \in Threads, Finish(t)
  PROVE  Quiet(t)
BY PoolBasics DEF Finish, PInv, PType, InHand, WithJob, Placed, MainPlaced, Go, Popping,
     InExecute, Quiet, StepOf, Holds, Executes, queueVars, jobVars, poolVars, threadVars,
     mainVars, history

LEMMA CompleteQuiet ==
  ASSUME PInv, QueueType, Placed, NEW t \in Threads, Complete(t)
  PROVE  Quiet(t)
BY PoolBasics DEF Complete, PInv, PType, InHand, WithJob, Placed, MainPlaced, Go, Popping,
     InExecute, Quiet, StepOf, Holds, Executes, queueVars, jobVars, poolVars, threadVars,
     mainVars, history

LEMMA AnswerCallQuiet ==
  ASSUME PInv, QueueType, Placed, NEW w \in Workers, AnswerCall(w)
  PROVE  Quiet(w)
BY PoolBasics DEF AnswerCall, PInv, PType, InHand, WithJob, Placed, MainPlaced, Go, Popping,
     InExecute, Quiet, StepOf, Holds, Executes, queueVars, jobVars, poolVars, threadVars,
     mainVars, history

LEMMA SuspendQuiet ==
  ASSUME PInv, QueueType, Placed, NEW w \in Workers, Suspend(w)
  PROVE  Quiet(w)
BY PoolBasics DEF Suspend, PInv, PType, InHand, WithJob, Placed, MainPlaced, Go, Popping,
     InExecute, Quiet, StepOf, Holds, Executes, queueVars, jobVars, poolVars, threadVars,
     mainVars, history

LEMMA ResumedQuiet ==
  ASSUME PInv, QueueType, Placed, NEW w \in Workers, Resumed(w)
  PROVE  Quiet(w)
BY PoolBasics DEF Resumed, PInv, PType, InHand, WithJob, Placed, MainPlaced, Go, Popping,
     InExecute, Quiet, StepOf, Holds, Executes, queueVars, jobVars, poolVars, threadVars,
     mainVars, history

LEMMA WakeForItemQuiet ==
  ASSUME PInv, QueueType, Placed, NEW w \in Workers, WakeForItem(w)
  PROVE  Quiet(w)
BY PoolBasics DEF WakeForItem, PInv, PType, InHand, WithJob, Placed, MainPlaced, Go, Popping,
     InExecute, Quiet, StepOf, Holds, Executes, queueVars, jobVars, poolVars, threadVars,
     mainVars, history

LEMMA PopDirectQuiet ==
  ASSUME PInv, QueueType, Placed, NEW w \in Workers, PopDirect(w)
  PROVE  Quiet(w)
BY PoolBasics DEF PopDirect, Reserve, PInv, PType, InHand, WithJob, Placed, MainPlaced, Go,
     Popping, InExecute, Quiet, StepOf, Holds, Executes, queueVars, jobVars, poolVars,
     threadVars, mainVars, history

LEMMA PopSharedQuiet ==
  ASSUME PInv, QueueType, Placed, NEW w \in Workers, PopShared(w)
  PROVE  Quiet(w)
BY PoolBasics DEF PopShared, Reserve, BackToWait, PInv, PType, InHand, WithJob, Placed,
     MainPlaced, Go, Popping, InExecute, Quiet, StepOf, Holds, Executes, queueVars, jobVars,
     poolVars, threadVars, mainVars, history

LEMMA ExecuteQuiet ==
  ASSUME PInv, QueueType, Placed, Execute
  PROVE  Quiet(Main)
BY PoolBasics DEF Execute, PInv, PType, InHand, WithJob, Placed, MainPlaced, Go, Popping,
     InExecute, Quiet, StepOf, Holds, Executes, queueVars, jobVars, poolVars, threadVars,
     mainVars, history

LEMMA AbortQuiet ==
  ASSUME PInv, QueueType, Placed, Abort
  PROVE  Quiet(Main)
BY PoolBasics DEF Abort, PInv, PType, InHand, WithJob, Placed, MainPlaced, Go, Popping,
     InExecute, Quiet, StepOf, Holds, Executes, queueVars, jobVars, poolVars, threadVars,
     mainVars, history

LEMMA CountAddedQuiet ==
  ASSUME PInv, QueueType, Placed, CountAdded
  PROVE  Quiet(Main)
BY PoolBasics DEF CountAdded, CountItem, PInv, PType, InHand, WithJob, Placed, MainPlaced, Go,
     Popping, InExecute, Quiet, StepOf, Holds, Executes, queueVars, jobVars, poolVars,
     threadVars, mainVars, history

LEMMA CountJobQuiet ==
  ASSUME PInv, QueueType, Placed, CountJob
  PROVE  Quiet(Main)
BY PoolBasics DEF CountJob, PInv, PType, InHand, WithJob, Placed, MainPlaced, Go, Popping,
     InExecute, Quiet, StepOf, Holds, Executes, queueVars, jobVars, poolVars, threadVars,
     mainVars, history

LEMMA YieldHelpQuiet ==
  ASSUME PInv, QueueType, Placed, YieldHelp
  PROVE  Quiet(Main)
BY PoolBasics DEF YieldHelp, Reserve, PInv, PType, InHand, WithJob, Placed, MainPlaced, Go,
     Popping, InExecute, Quiet, StepOf, Holds, Executes, queueVars, jobVars, poolVars,
     threadVars, mainVars, history

LEMMA YieldDoneQuiet ==
  ASSUME PInv, QueueType, Placed, YieldDone
  PROVE  Quiet(Main)
BY PoolBasics DEF YieldDone, PInv, PType, InHand, WithJob, Placed, MainPlaced, Go, Popping,
     InExecute, Quiet, StepOf, Holds, Executes, queueVars, jobVars, poolVars, threadVars,
     mainVars, history

LEMMA CallWorkerQuiet ==
  ASSUME PInv, QueueType, Placed, CallWorker
  PROVE  Quiet(Main)
BY PoolBasics DEF CallWorker, PInv, PType, InHand, WithJob, Placed, MainPlaced, Go, Popping,
     InExecute, Quiet, StepOf, Holds, Executes, queueVars, jobVars, poolVars, threadVars,
     mainVars, history

LEMMA WaitForSuspensionQuiet ==
  ASSUME PInv, QueueType, Placed, WaitForSuspension
  PROVE  Quiet(Main)
BY PoolBasics DEF WaitForSuspension, PInv, PType, InHand, WithJob, Placed, MainPlaced, Go,
     Popping, InExecute, Quiet, StepOf, Holds, Executes, queueVars, jobVars, poolVars,
     threadVars, mainVars, history

LEMMA DrainPopQuiet ==
  ASSUME PInv, QueueType, Placed, DrainPop
  PROVE  Quiet(Main)
BY PoolBasics DEF DrainPop, Reserve, PInv, PType, InHand, WithJob, Placed, MainPlaced, Go,
     Popping, InExecute, Quiet, StepOf, Holds, Executes, queueVars, jobVars, poolVars,
     threadVars, mainVars, history

LEMMA DrainNextQuiet ==
  ASSUME PInv, QueueType, Placed, DrainNext
  PROVE  Quiet(Main)
BY PoolBasics DEF DrainNext, PInv, PType, InHand, WithJob, Placed, MainPlaced, Go, Popping,
     InExecute, Quiet, StepOf, Holds, Executes, queueVars, jobVars, poolVars, threadVars,
     mainVars, history

LEMMA DrainDoneQuiet ==
  ASSUME PInv, QueueType, Placed, DrainDone
  PROVE  Quiet(Main)
BY PoolBasics DEF DrainDone, PInv, PType, InHand, WithJob, Placed, MainPlaced, Go, Popping,
     InExecute, Quiet, StepOf, Holds, Executes, queueVars, jobVars, poolVars, threadVars,
     mainVars, history

LEMMA ResumeExecutionQuiet ==
  ASSUME PInv, QueueType, Placed, ResumeExecution
  PROVE  Quiet(Main)
BY PoolBasics DEF ResumeExecution, PInv, PType, InHand, WithJob, Placed, MainPlaced, Go,
     Popping, InExecute, Quiet, StepOf, Holds, Executes, queueVars, jobVars, poolVars,
     threadVars, mainVars, history

LEMMA AddInPlaceQuiet ==
  ASSUME PInv, QueueType, Placed, NEW j \in Jobs, AddInPlace(j)
  PROVE  Quiet(Main)
BY PoolBasics DEF AddInPlace, Call, PInv, PType, InHand, WithJob, Placed, MainPlaced, Go,
     Popping, InExecute, Quiet, StepOf, Holds, Executes, queueVars, jobVars, poolVars,
     threadVars, mainVars, history

LEMMA AddHandledQuiet ==
  ASSUME PInv, QueueType, Placed, NEW j \in Jobs, AddHandled(j)
  PROVE  Quiet(Main)
BY PoolBasics DEF AddHandled, Call, PInv, PType, InHand, WithJob, Placed, MainPlaced, Go,
     Popping, InExecute, Quiet, StepOf, Holds, Executes, queueVars, jobVars, poolVars,
     threadVars, mainVars, history

LEMMA CallExecuteQuiet ==
  ASSUME PInv, QueueType, Placed, NEW j \in Jobs, CallExecute(j)
  PROVE  Quiet(Main)
BY PoolBasics DEF CallExecute, Call, PInv, PType, InHand, WithJob, Placed, MainPlaced, Go,
     Popping, InExecute, Quiet, StepOf, Holds, Executes, queueVars, jobVars, poolVars,
     threadVars, mainVars, history

LEMMA CallAbortQuiet ==
  ASSUME PInv, QueueType, Placed, NEW j \in Jobs, CallAbort(j)
  PROVE  Quiet(Main)
BY PoolBasics DEF CallAbort, Call, PInv, PType, InHand, WithJob, Placed, MainPlaced, Go,
     Popping, InExecute, Quiet, StepOf, Holds, Executes, queueVars, jobVars, poolVars,
     threadVars, mainVars, history

LEMMA CallYieldWaitQuiet ==
  ASSUME PInv, QueueType, Placed, NEW j \in Jobs, CallYieldWait(j)
  PROVE  Quiet(Main)
BY PoolBasics DEF CallYieldWait, Call, PInv, PType, InHand, WithJob, Placed, MainPlaced, Go,
     Popping, InExecute, Quiet, StepOf, Holds, Executes, queueVars, jobVars, poolVars,
     threadVars, mainVars, history

LEMMA CallSuspendQuiet ==
  ASSUME PInv, QueueType, Placed, NEW by \in {"user", "abortAll"}, CallSuspend(by)
  PROVE  Quiet(Main)
BY PoolBasics DEF CallSuspend, PInv, PType, InHand, WithJob, Placed, MainPlaced, Go, Popping,
     InExecute, Quiet, StepOf, Holds, Executes, queueVars, jobVars, poolVars, threadVars,
     mainVars, history

\* The steps that do.
LEMMA AddToQueueRefs ==
  ASSUME PInv, QueueType, QueueType', Placed, RefInv, NEW j \in Jobs, AddToQueue(j)
  PROVE  RefInv'
<1>1. /\ StepOf(Main) /\ refs' = [refs EXCEPT ![j] = @ + 1] /\ owned' = owned
      /\ \A k \in Jobs : Holds(Main, k)' <=> Holds(Main, k)
      /\ \A k \in Jobs : Executes(Main, k)' <=> Executes(Main, k)
  BY PoolBasics DEF AddToQueue, Call, QueueOf, PInv, PType, InHand, WithJob, Placed,
     MainPlaced, Go, Popping, InExecute, StepOf, Holds, Executes, queueVars, jobVars,
     poolVars, threadVars, mainVars, history
<1>2. PICK q \in Queues, r \in Priorities : PushItem(Main, q, j, r)
  <2>1. PushItem(Main, QueueOf(j), j, PriorityOf(j))
    BY DEF AddToQueue
  <2>2. QueueOf(j) \in Queues /\ PriorityOf(j) \in Priorities
    BY PoolBasics DEF QueueOf, PriorityOf, PInv, PType
  <2> QED BY <2>1, <2>2
<1> QED BY <1>1, <1>2, PushedRefs

LEMMA ChangePriorityRefs ==
  ASSUME PInv, QueueType, QueueType', Placed, RefInv, NEW j \in Jobs, NEW p \in Priorities,
         ChangePriority(j, p)
  PROVE  RefInv'
<1>1. /\ StepOf(Main) /\ refs' = [refs EXCEPT ![j] = @ + 1] /\ owned' = owned
      /\ \A k \in Jobs : Holds(Main, k)' <=> Holds(Main, k)
      /\ \A k \in Jobs : Executes(Main, k)' <=> Executes(Main, k)
  BY PoolBasics DEF ChangePriority, Call, PInv, PType, InHand, WithJob, Placed, MainPlaced,
     Go, Popping, InExecute, StepOf, Holds, Executes, queueVars, jobVars, poolVars,
     threadVars, mainVars, history
<1>2. PICK q \in Queues, r \in Priorities : PushItem(Main, q, j, r)
  <2>1. PushItem(Main, Shared, j, p)
    BY DEF ChangePriority
  <2> QED BY <2>1, PoolBasics
<1> QED BY <1>1, <1>2, PushedRefs

LEMMA PoppedRefs ==
  ASSUME PInv, QueueType, QueueType', Placed, RefInv, NEW t \in Threads, Popped(t)
  PROVE  RefInv'
<1>1. Head(Place(t)) \in Jobs
  <2>1. level[t] \in Priorities /\ qUsed[t] \in Queues /\ Place(t) # <<>>
    BY Basics DEF Popped, TakeItem, QueueType
  <2>2. Place(t) \in Seq(Jobs)
    BY <2>1 DEF Place, QueueType
  <2> QED BY <2>1, <2>2
<1>2. TakeItem(t) /\ StepOf(t) /\ UNCHANGED <<refs, owned>>
  BY PoolBasics DEF Popped, PInv, PType, InHand, WithJob, Placed, MainPlaced, Go, Popping,
     InExecute, StepOf, Holds, Executes, queueVars, jobVars, poolVars, threadVars, mainVars,
     history
<1>3. \A k \in Jobs : Holds(t, k)' <=> k = Head(Place(t))
  <2>1. pc[t] = "scan" /\ job' = [job EXCEPT ![t] = Head(Place(t))] /\ caller' = caller
    BY DEF Popped, mainVars
  <2>2. job'[t] = Head(Place(t)) /\ pc'[t] \in {"abortPopped", "popped"}
    BY DEF Popped, Go, PInv, PType
  <2>3. ~(t = Main /\ caller' = "user")
    BY <2>1 DEF Placed, MainPlaced
  <2> QED BY <2>2, <2>3 DEF Holds, Popping
<1>4. \A k \in Jobs : ~Holds(t, k) /\ ~Executes(t, k) /\ ~Executes(t, k)'
  <2>1. pc[t] = "scan" /\ pc'[t] \in {"abortPopped", "popped"}
    BY DEF Popped, Go, PInv, PType
  <2> QED BY <2>1 DEF Holds, Executes, Popping, InExecute
<1> QED BY <1>1, <1>2, <1>3, <1>4, TakenRefs

LEMMA BeginRefs ==
  ASSUME PInv, QueueType, Placed, RefInv, NEW t \in Threads, Begin(t)
  PROVE  RefInv'
<1>0. PICK n \in Jobs : n = job[t]
  BY PoolBasics DEF Begin, PInv, PType, InHand, WithJob, Placed, MainPlaced, Go, Popping,
     InExecute, StepOf, Holds, Executes, queueVars, jobVars, poolVars, threadVars, mainVars,
     history
<1>1. /\ StepOf(t) /\ UNCHANGED m_queues /\ refs' = [refs EXCEPT ![n] = @ + 1]
      /\ \A k \in Jobs : k # n => (Holds(t, k)' <=> Holds(t, k))
      /\ \A k \in Jobs : k # n => (Executes(t, k)' <=> Executes(t, k))
      /\ \A k \in Jobs : k # n => (k \in owned' <=> k \in owned)
  BY <1>0, PoolBasics DEF Begin, PInv, PType, InHand, WithJob, Placed, MainPlaced, Go,
     Popping, InExecute, StepOf, Holds, Executes, queueVars, jobVars, poolVars, threadVars,
     mainVars, history
<1>2. /\ (n \in owned' <=> n \in owned)
      /\ (Holds(t, n)' <=> Holds(t, n)) /\ ~Executes(t, n) /\ Executes(t, n)'
  <2>1. pc[t] = "lock" => t = Main /\ caller = "user"
    <3>1. t \in Workers \/ t = Main
      BY ThreadPoolAssumption
    <3> QED BY <3>1 DEF Begin, Placed, MainPlaced
  <2>2. /\ pc[t] \in {"tryLock", "lock"} /\ pc'[t] = "running" /\ job'[t] = job[t] /\ job[t] = n
        /\ caller' = caller /\ owned' = owned
    BY <1>0 DEF Begin, Go, PInv, PType, mainVars
  <2> QED BY <2>1, <2>2 DEF Holds, Executes, Popping, InExecute
<1>3. PICK d \in Int : d = 1
  OBVIOUS
<1>4. refs' = [refs EXCEPT ![n] = @ + d]
  BY <1>1, <1>3 DEF RefInv
<1>5. Owned(n)' - Owned(n) + Ones(Holds(t, n)') - Ones(Holds(t, n))
        + Ones(Executes(t, n)') - Ones(Executes(t, n)) = d
  BY <1>2, <1>3 DEF Owned, Ones
<1> QED BY <1>1, <1>3, <1>4, <1>5, PoolBasics, HandedRefs

LEMMA LeaveExecuteRefs ==
  ASSUME PInv, QueueType, Placed, RefInv, NEW t \in Threads, LeaveExecute(t)
  PROVE  RefInv'
<1>0. PICK n \in Jobs : n = job[t]
  BY PoolBasics DEF LeaveExecute, AfterExecute, PInv, PType, InHand, WithJob, Placed,
     MainPlaced, Go, Popping, InExecute, StepOf, Holds, Executes, queueVars, jobVars,
     poolVars, threadVars, mainVars, history
<1>1. /\ StepOf(t) /\ UNCHANGED m_queues /\ refs' = [refs EXCEPT ![n] = @ - 1]
      /\ \A k \in Jobs : k # n => (Holds(t, k)' <=> Holds(t, k))
      /\ \A k \in Jobs : k # n => (Executes(t, k)' <=> Executes(t, k))
      /\ \A k \in Jobs : k # n => (k \in owned' <=> k \in owned)
  BY <1>0, PoolBasics DEF LeaveExecute, AfterExecute, PInv, PType, InHand, WithJob, Placed,
     MainPlaced, Go, Popping, InExecute, StepOf, Holds, Executes, queueVars, jobVars,
     poolVars, threadVars, mainVars, history
<1>2. /\ (n \in owned' <=> n \in owned)
      /\ (Holds(t, n)' <=> Holds(t, n)) /\ Executes(t, n) /\ ~Executes(t, n)'
  BY <1>0, PoolBasics DEF LeaveExecute, AfterExecute, PInv, PType, InHand, WithJob, Placed,
     MainPlaced, Go, Popping, InExecute, StepOf, Holds, Executes, queueVars, jobVars,
     poolVars, threadVars, mainVars, history
<1>3. PICK d \in Int : d = -1
  OBVIOUS
<1>4. refs' = [refs EXCEPT ![n] = @ + d]
  BY <1>1, <1>3 DEF RefInv
<1>5. Owned(n)' - Owned(n) + Ones(Holds(t, n)') - Ones(Holds(t, n))
        + Ones(Executes(t, n)') - Ones(Executes(t, n)) = d
  BY <1>2, <1>3 DEF Owned, Ones
<1> QED BY <1>1, <1>3, <1>4, <1>5, PoolBasics, HandedRefs

LEMMA ReleaseRefs ==
  ASSUME PInv, QueueType, Placed, RefInv, NEW t \in Threads, Release(t)
  PROVE  RefInv'
<1>0. PICK n \in Jobs : n = job[t]
  BY PoolBasics DEF Release, BackToWait, PInv, PType, InHand, WithJob, Placed, MainPlaced,
     Go, Popping, InExecute, StepOf, Holds, Executes, queueVars, jobVars, poolVars,
     threadVars, mainVars, history
<1>1. /\ StepOf(t) /\ UNCHANGED m_queues /\ refs' = [refs EXCEPT ![n] = @ - 1]
      /\ \A k \in Jobs : k # n => (Holds(t, k)' <=> Holds(t, k))
      /\ \A k \in Jobs : k # n => (Executes(t, k)' <=> Executes(t, k))
      /\ \A k \in Jobs : k # n => (k \in owned' <=> k \in owned)
  BY <1>0, PoolBasics DEF Release, BackToWait, PInv, PType, InHand, WithJob, Placed,
     MainPlaced, Go, Popping, InExecute, StepOf, Holds, Executes, queueVars, jobVars,
     poolVars, threadVars, mainVars, history
<1>2. /\ (n \in owned' <=> n \in owned)
      /\ Holds(t, n) /\ ~Holds(t, n)' /\ ~Executes(t, n) /\ ~Executes(t, n)'
  BY <1>0, PoolBasics DEF Release, BackToWait, PInv, PType, InHand, WithJob, Placed,
     MainPlaced, Go, Popping, InExecute, StepOf, Holds, Executes, queueVars, jobVars,
     poolVars, threadVars, mainVars, history
<1>3. PICK d \in Int : d = -1
  OBVIOUS
<1>4. refs' = [refs EXCEPT ![n] = @ + d]
  BY <1>1, <1>3 DEF RefInv
<1>5. Owned(n)' - Owned(n) + Ones(Holds(t, n)') - Ones(Holds(t, n))
        + Ones(Executes(t, n)') - Ones(Executes(t, n)) = d
  BY <1>2, <1>3 DEF Owned, Ones
<1> QED BY <1>1, <1>3, <1>4, <1>5, PoolBasics, HandedRefs

LEMMA AbortPoppedRefs ==
  ASSUME PInv, QueueType, Placed, RefInv, AbortPopped
  PROVE  RefInv'
<1>0. PICK n \in Jobs : n = job[Main]
  BY PoolBasics DEF AbortPopped, PInv, PType, InHand, WithJob, Placed, MainPlaced, Go,
     Popping, InExecute, StepOf, Holds, Executes, queueVars, jobVars, poolVars, threadVars,
     mainVars, history
<1>1. /\ StepOf(Main) /\ UNCHANGED m_queues /\ refs' = [refs EXCEPT ![n] = @ - 1]
      /\ \A k \in Jobs : k # n => (Holds(Main, k)' <=> Holds(Main, k))
      /\ \A k \in Jobs : k # n => (Executes(Main, k)' <=> Executes(Main, k))
      /\ \A k \in Jobs : k # n => (k \in owned' <=> k \in owned)
  BY <1>0, PoolBasics DEF AbortPopped, PInv, PType, InHand, WithJob, Placed, MainPlaced, Go,
     Popping, InExecute, StepOf, Holds, Executes, queueVars, jobVars, poolVars, threadVars,
     mainVars, history
<1>2. /\ (n \in owned' <=> n \in owned)
      /\ Holds(Main, n) /\ ~Holds(Main, n)' /\ ~Executes(Main, n) /\ ~Executes(Main, n)'
  BY <1>0, PoolBasics DEF AbortPopped, PInv, PType, InHand, WithJob, Placed, MainPlaced, Go,
     Popping, InExecute, StepOf, Holds, Executes, queueVars, jobVars, poolVars, threadVars,
     mainVars, history
<1>3. PICK d \in Int : d = -1
  OBVIOUS
<1>4. refs' = [refs EXCEPT ![n] = @ + d]
  BY <1>1, <1>3 DEF RefInv
<1>5. Owned(n)' - Owned(n) + Ones(Holds(Main, n)') - Ones(Holds(Main, n))
        + Ones(Executes(Main, n)') - Ones(Executes(Main, n)) = d
  BY <1>2, <1>3 DEF Owned, Ones
<1> QED BY <1>1, <1>3, <1>4, <1>5, PoolBasics, HandedRefs

LEMMA ReleaseOwnedRefs ==
  ASSUME PInv, QueueType, Placed, RefInv, NEW j \in Jobs, ReleaseOwned(j)
  PROVE  RefInv'
<1>0. PICK n \in Jobs : n = j
  BY PoolBasics DEF ReleaseOwned, Call, PInv, PType, InHand, WithJob, Placed, MainPlaced,
     Go, Popping, InExecute, StepOf, Holds, Executes, queueVars, jobVars, poolVars,
     threadVars, mainVars, history
<1>1. /\ StepOf(Main) /\ UNCHANGED m_queues /\ refs' = [refs EXCEPT ![n] = @ - 1]
      /\ \A k \in Jobs : k # n => (Holds(Main, k)' <=> Holds(Main, k))
      /\ \A k \in Jobs : k # n => (Executes(Main, k)' <=> Executes(Main, k))
      /\ \A k \in Jobs : k # n => (k \in owned' <=> k \in owned)
  BY <1>0, PoolBasics DEF ReleaseOwned, Call, PInv, PType, InHand, WithJob, Placed,
     MainPlaced, Go, Popping, InExecute, StepOf, Holds, Executes, queueVars, jobVars,
     poolVars, threadVars, mainVars, history
<1>2. /\ n \in owned /\ n \notin owned'
      /\ (Holds(Main, n)' <=> Holds(Main, n)) /\ (Executes(Main, n)' <=> Executes(Main, n))
  BY <1>0, PoolBasics DEF ReleaseOwned, Call, PInv, PType, InHand, WithJob, Placed,
     MainPlaced, Go, Popping, InExecute, StepOf, Holds, Executes, queueVars, jobVars,
     poolVars, threadVars, mainVars, history
<1>3. PICK d \in Int : d = -1
  OBVIOUS
<1>4. refs' = [refs EXCEPT ![n] = @ + d]
  BY <1>1, <1>3 DEF RefInv
<1>5. Owned(n)' - Owned(n) + Ones(Holds(Main, n)') - Ones(Holds(Main, n))
        + Ones(Executes(Main, n)') - Ones(Executes(Main, n)) = d
  BY <1>2, <1>3 DEF Owned, Ones
<1> QED BY <1>1, <1>3, <1>4, <1>5, PoolBasics, HandedRefs

LEMMA NextRefs ==
  ASSUME PInv, QueueType, QueueType', Placed, RefInv, [Next]_vars
  PROVE  RefInv'
<1>1. ASSUME NEW t \in Threads, Scan(t) PROVE RefInv'
  BY <1>1, ScanQuiet, QuietKeeps
<1>2. ASSUME NEW t \in Threads, Popped(t) PROVE RefInv'
  BY <1>2, PoppedRefs
<1>3. ASSUME NEW t \in Threads, CheckFinished(t) PROVE RefInv'
  BY <1>3, CheckFinishedQuiet, QuietKeeps
<1>4. ASSUME NEW t \in Threads, TryLockFails(t) PROVE RefInv'
  BY <1>4, TryLockFailsQuiet, QuietKeeps
<1>5. ASSUME NEW t \in Threads, Begin(t) PROVE RefInv'
  BY <1>5, BeginRefs
<1>6. ASSUME NEW t \in Threads, TooLate(t) PROVE RefInv'
  BY <1>6, TooLateQuiet, QuietKeeps
<1>7. ASSUME NEW t \in Threads, Finish(t) PROVE RefInv'
  BY <1>7, FinishQuiet, QuietKeeps
<1>8. ASSUME NEW t \in Threads, Complete(t) PROVE RefInv'
  BY <1>8, CompleteQuiet, QuietKeeps
<1>9. ASSUME NEW t \in Threads, LeaveExecute(t) PROVE RefInv'
  BY <1>9, LeaveExecuteRefs
<1>10. ASSUME NEW t \in Threads, Release(t) PROVE RefInv'
  BY <1>10, ReleaseRefs
<1>11. ASSUME NEW w \in Workers, AnswerCall(w) PROVE RefInv'
  BY <1>11, AnswerCallQuiet, QuietKeeps
<1>12. ASSUME NEW w \in Workers, Suspend(w) PROVE RefInv'
  BY <1>12, SuspendQuiet, QuietKeeps
<1>13. ASSUME NEW w \in Workers, Resumed(w) PROVE RefInv'
  BY <1>13, ResumedQuiet, QuietKeeps
<1>14. ASSUME NEW w \in Workers, WakeForItem(w) PROVE RefInv'
  BY <1>14, WakeForItemQuiet, QuietKeeps
<1>15. ASSUME NEW w \in Workers, PopDirect(w) PROVE RefInv'
  BY <1>15, PopDirectQuiet, QuietKeeps
<1>16. ASSUME NEW w \in Workers, PopShared(w) PROVE RefInv'
  BY <1>16, PopSharedQuiet, QuietKeeps
<1>17. ASSUME Execute PROVE RefInv'
  BY <1>17, ExecuteQuiet, QuietKeeps
<1>18. ASSUME Abort PROVE RefInv'
  BY <1>18, AbortQuiet, QuietKeeps
<1>19. ASSUME CountAdded PROVE RefInv'
  BY <1>19, CountAddedQuiet, QuietKeeps
<1>20. ASSUME CountJob PROVE RefInv'
  BY <1>20, CountJobQuiet, QuietKeeps
<1>21. ASSUME YieldHelp PROVE RefInv'
  BY <1>21, YieldHelpQuiet, QuietKeeps
<1>22. ASSUME YieldDone PROVE RefInv'
  BY <1>22, YieldDoneQuiet, QuietKeeps
<1>23. ASSUME CallWorker PROVE RefInv'
  BY <1>23, CallWorkerQuiet, QuietKeeps
<1>24. ASSUME WaitForSuspension PROVE RefInv'
  BY <1>24, WaitForSuspensionQuiet, QuietKeeps
<1>25. ASSUME DrainPop PROVE RefInv'
  BY <1>25, DrainPopQuiet, QuietKeeps
<1>26. ASSUME AbortPopped PROVE RefInv'
  BY <1>26, AbortPoppedRefs
<1>27. ASSUME DrainNext PROVE RefInv'
  BY <1>27, DrainNextQuiet, QuietKeeps
<1>28. ASSUME DrainDone PROVE RefInv'
  BY <1>28, DrainDoneQuiet, QuietKeeps
<1>29. ASSUME ResumeExecution PROVE RefInv'
  BY <1>29, ResumeExecutionQuiet, QuietKeeps
<1>30. ASSUME NEW j \in Jobs, AddInPlace(j) PROVE RefInv'
  BY <1>30, AddInPlaceQuiet, QuietKeeps
<1>31. ASSUME NEW j \in Jobs, AddHandled(j) PROVE RefInv'
  BY <1>31, AddHandledQuiet, QuietKeeps
<1>32. ASSUME NEW j \in Jobs, AddToQueue(j) PROVE RefInv'
  BY <1>32, AddToQueueRefs
<1>33. ASSUME NEW j \in Jobs, CallExecute(j) PROVE RefInv'
  BY <1>33, CallExecuteQuiet, QuietKeeps
<1>34. ASSUME NEW j \in Jobs, CallAbort(j) PROVE RefInv'
  BY <1>34, CallAbortQuiet, QuietKeeps
<1>35. ASSUME NEW j \in Jobs, ReleaseOwned(j) PROVE RefInv'
  BY <1>35, ReleaseOwnedRefs
<1>36. ASSUME NEW j \in Jobs, CallYieldWait(j) PROVE RefInv'
  BY <1>36, CallYieldWaitQuiet, QuietKeeps
<1>37. ASSUME NEW j \in Jobs, NEW p \in Priorities, ChangePriority(j, p) PROVE RefInv'
  BY <1>37, ChangePriorityRefs
<1>38. ASSUME NEW by \in {"user", "abortAll"}, CallSuspend(by) PROVE RefInv'
  BY <1>38, CallSuspendQuiet, QuietKeeps
<1>39. ASSUME UNCHANGED vars PROVE RefInv'
  <2>1. UNCHANGED <<m_queues, refs, owned, job, pc, caller>>
    BY <1>39 DEF vars, queueVars, jobVars, threadVars, mainVars
  <2> QED BY <2>1 DEF RefInv, Owned, Holders, Executors, Holds, Executes
<1>40. ASSUME NEW t \in Threads, Service(t) PROVE RefInv'
  BY <1>40, <1>1, <1>2, <1>3, <1>4, <1>5, <1>6, <1>7, <1>8, <1>9, <1>10 DEF Service
<1>41. ASSUME NEW w \in Workers, Worker(w) PROVE RefInv'
  BY <1>41, <1>11, <1>12, <1>13, <1>14, <1>15, <1>16, <1>40, PoolBasics DEF Worker
<1>42. ASSUME MainInside PROVE RefInv'
  BY <1>42, <1>17, <1>18, <1>19, <1>20, <1>21, <1>22, <1>23, <1>24, <1>25, <1>26, <1>27,
     <1>28, <1>29, <1>40, PoolBasics DEF MainInside
<1>43. ASSUME MainCalls PROVE RefInv'
  BY <1>43, <1>30, <1>31, <1>32, <1>33, <1>34, <1>35, <1>36, <1>37, <1>38 DEF MainCalls
<1> QED BY <1>39, <1>41, <1>42, <1>43 DEF Next

LEMMA RefsInitially == Init => RefInv
<1> SUFFICES ASSUME Init PROVE RefInv
  OBVIOUS
<1>1. refs \in [Jobs -> Int]
  BY DEF Init
<1>2. ASSUME NEW j \in Jobs
      PROVE  PlacesIn(m_queues, j) = {} /\ Holders(j) = {} /\ Executors(j) = {} /\ Owned(j) = 1
             /\ refs[j] = 1
  <2>1. m_queues \in QueueContents /\ \A q \in Queues, p \in Priorities : m_queues[q][p] = <<>>
    BY DEF Init, QueueInit, QueueContents
  <2>2. PlacesIn(m_queues, j) = {}
    <3> SUFFICES ASSUME NEW x \in PlacesIn(m_queues, j) PROVE FALSE
      OBVIOUS
    <3>1. PICK Q \in QueueContents : Q = m_queues
      BY <2>1
    <3>2. /\ x[1] \in Queues /\ x[2] \in Priorities /\ x[3] \in 1 .. Len(Q[x[1]][x[2]])
      BY <3>1, PlaceIs
    <3>3. Len(Q[x[1]][x[2]]) = 0
      BY <2>1, <3>1, <3>2
    <3> QED BY <3>2, <3>3
  <2>3. Holders(j) = {} /\ Executors(j) = {}
    <3>1. \A t \in Threads : job[t] = None
      BY DEF Init
    <3> QED BY <3>1, PoolBasics DEF Holders, Executors, Holds, Executes
  <2>4. Owned(j) = 1 /\ refs[j] = 1
    BY DEF Init, Owned, Ones
  <2> QED BY <2>2, <2>3, <2>4
<1>3. IsFiniteSet({}) /\ Cardinality({}) = 0
  BY FS_EmptySet
<1> QED BY SMTT(30), <1>1, <1>2, <1>3 DEF RefInv

LEMMA PlacedInitially == Init => Placed
BY PoolBasics DEF Init, QueueInit, Placed, MainPlaced

LEMMA RefInvariant == Spec => [](Placed /\ RefInv)
<1>1. Init => Placed /\ RefInv
  BY PlacedInitially, RefsInitially
<1>2. (PInv /\ QInv) /\ (PInv /\ QInv)' /\ (Placed /\ RefInv) /\ [Next]_vars => (Placed /\ RefInv)'
  BY NextPlaced, NextRefs DEF QInv
<1> QED BY <1>1, <1>2, PoolInvariant, PTL DEF Spec

(* The references of a job are those of the main thread, of its entries, and of
   the threads that took it or are in its Execute, at every moment. *)
THEOREM ReferencesAccounted == Spec => []RefsAccounted
<1>1. RefInv => RefsAccounted
  <2> SUFFICES ASSUME RefInv, NEW j \in Jobs
               PROVE refs[j] = (IF j \in owned THEN 1 ELSE 0) + Entries(j)
              + Cardinality({t \in Threads : job[t] = j /\ pc[t] \in Popping
                               /\ ~(t = Main /\ caller = "user")})
              + Cardinality({t \in Threads : job[t] = j /\ pc[t] \in InExecute})
    BY DEF RefsAccounted
  <2>1. Entries(j) = Cardinality(PlacesIn(m_queues, j))
    BY DEF Entries, Places, PlacesIn
  <2>2. Owned(j) = IF j \in owned THEN 1 ELSE 0
    BY DEF Owned, Ones
  <2> QED BY <2>1, <2>2 DEF RefInv, Holders, Executors, Holds, Executes
<1> QED BY <1>1, RefInvariant, PTL

-----------------------------------------------------------------------------
\* AbortAll: what was added is finished, in a queue, or in somebody's hands

HasEntry(Q, j) == \E q \in Queues, p \in Priorities : \E i \in 1 .. Len(Q[q][p]) : Q[q][p][i] = j

Unsettled == {"popped", "tryLock", "lock", "execute", "running", "abortPopped"}
InHands(t, j) == job[t] = j /\ pc[t] \in Unsettled
Settled(j) ==
  IsFinished(j) \/ HasEntry(m_queues, j) \/ \E t \in Threads : InHands(t, j)
Pending == added \in Seq(Jobs) /\ \A j \in Jobs : IsAdded(j) => Settled(j)

LEMMA PushEntry ==
  ASSUME NEW Q \in QueueContents, NEW R \in QueueContents, NEW q, NEW p, NEW n, NEW j,
         PushedAt(Q, R, q, p, n, j), NEW k \in Jobs
  PROVE  /\ HasEntry(Q, k) => HasEntry(R, k)
         /\ HasEntry(R, k) => HasEntry(Q, k) \/ k = j
         /\ HasEntry(R, j)
<1>0. /\ q \in Queues /\ p \in Priorities /\ n \in Nat /\ j \in Jobs
      /\ n = Len(Q[q][p]) /\ Len(R[q][p]) = n + 1 /\ R[q][p][n + 1] = j
      /\ \A i \in 1 .. n : R[q][p][i] = Q[q][p][i]
      /\ \A a \in Queues, b \in Priorities : ~(a = q /\ b = p) => R[a][b] = Q[a][b]
  BY DEF PushedAt
<1>1. ASSUME HasEntry(Q, k) PROVE HasEntry(R, k)
  <2>1. PICK a \in Queues, b \in Priorities : \E i \in 1 .. Len(Q[a][b]) : Q[a][b][i] = k
    BY <1>1 DEF HasEntry
  <2>2. PICK i \in 1 .. Len(Q[a][b]) : Q[a][b][i] = k
    BY <2>1
  <2>3. i \in 1 .. Len(R[a][b]) /\ R[a][b][i] = k
    <3>1. CASE a = q /\ b = p
      BY SMTT(30), <1>0, <2>2, <3>1
    <3>2. CASE ~(a = q /\ b = p)
      BY <1>0, <2>2, <3>2
    <3> QED BY <3>1, <3>2
  <2> QED BY <2>3 DEF HasEntry
<1>2. ASSUME HasEntry(R, k) PROVE HasEntry(Q, k) \/ k = j
  <2>1. PICK a \in Queues, b \in Priorities : \E i \in 1 .. Len(R[a][b]) : R[a][b][i] = k
    BY <1>2 DEF HasEntry
  <2>2. PICK i \in 1 .. Len(R[a][b]) : R[a][b][i] = k
    BY <2>1
  <2>3. (i \in 1 .. Len(Q[a][b]) /\ Q[a][b][i] = k) \/ k = j
    <3>1. CASE a = q /\ b = p
      <4>1. i \in 1 .. n \/ i = n + 1
        BY <1>0, <2>2, <3>1
      <4> QED BY <1>0, <2>2, <3>1, <4>1
    <3>2. CASE ~(a = q /\ b = p)
      BY <1>0, <2>2, <3>2
    <3> QED BY <3>1, <3>2
  <2> QED BY <2>3 DEF HasEntry
<1>3. HasEntry(R, j)
  <2>1. n + 1 \in 1 .. Len(R[q][p])
    BY <1>0
  <2> QED BY <1>0, <2>1 DEF HasEntry
<1> QED BY <1>1, <1>2, <1>3

\* The first of s is taken from a place of Q.
TakenAt(Q, R, q, p, s) ==
  /\ q \in Queues /\ p \in Priorities /\ s \in Seq(Jobs) /\ s # <<>>
  /\ Q[q][p] = s /\ R[q][p] = Tail(s)
  /\ \A a \in Queues, b \in Priorities : ~(a = q /\ b = p) => R[a][b] = Q[a][b]

LEMMA TakeEntry ==
  ASSUME NEW Q \in QueueContents, NEW R \in QueueContents, NEW q, NEW p, NEW s,
         TakenAt(Q, R, q, p, s), NEW k \in Jobs
  PROVE  /\ HasEntry(Q, k) => HasEntry(R, k) \/ k = Head(s)
         /\ HasEntry(R, k) => HasEntry(Q, k)
         /\ HasEntry(Q, Head(s)) /\ Head(s) \in Jobs
<1>0. /\ q \in Queues /\ p \in Priorities /\ s \in Seq(Jobs) /\ s # <<>>
      /\ Q[q][p] = s /\ R[q][p] = Tail(s)
      /\ \A a \in Queues, b \in Priorities : ~(a = q /\ b = p) => R[a][b] = Q[a][b]
  BY DEF TakenAt
<1>1. /\ Head(s) = s[1] /\ Len(s) \in Nat /\ Len(s) >= 1 /\ Len(R[q][p]) = Len(s) - 1
      /\ \A i \in 1 .. Len(s) - 1 : R[q][p][i] = s[i + 1]
  <2>1. s \in Seq(Jobs) /\ s # <<>>
    BY <1>0
  <2>2. /\ Head(s) = s[1] /\ Len(s) \in Nat /\ Len(s) >= 1 /\ Len(Tail(s)) = Len(s) - 1
        /\ \A i \in 1 .. Len(s) - 1 : Tail(s)[i] = s[i + 1]
    BY ONLY <2>1
  <2> QED BY <1>0, <2>2
<1>2. ASSUME HasEntry(Q, k) PROVE HasEntry(R, k) \/ k = Head(s)
  <2>1. PICK a \in Queues, b \in Priorities : \E i \in 1 .. Len(Q[a][b]) : Q[a][b][i] = k
    BY <1>2 DEF HasEntry
  <2>2. PICK i \in 1 .. Len(Q[a][b]) : Q[a][b][i] = k
    BY <2>1
  <2>3. CASE a = q /\ b = p
    <3>1. CASE i = 1
      BY <1>0, <1>1, <2>2, <2>3, <3>1
    <3>2. CASE i # 1
      <4>1. PICK h : h = i - 1
        OBVIOUS
      <4>2. h \in 1 .. Len(s) - 1 /\ h + 1 = i
        BY <1>0, <1>1, <2>2, <2>3, <3>2, <4>1
      <4>3. h \in 1 .. Len(R[q][p]) /\ R[q][p][h] = k
        BY <1>0, <1>1, <2>2, <2>3, <4>2
      <4> QED BY <1>0, <4>3 DEF HasEntry
    <3> QED BY <3>1, <3>2
  <2>4. CASE ~(a = q /\ b = p)
    BY <1>0, <2>2, <2>4 DEF HasEntry
  <2> QED BY <2>3, <2>4
<1>3. ASSUME HasEntry(R, k) PROVE HasEntry(Q, k)
  <2>1. PICK a \in Queues, b \in Priorities : \E i \in 1 .. Len(R[a][b]) : R[a][b][i] = k
    BY <1>3 DEF HasEntry
  <2>2. PICK i \in 1 .. Len(R[a][b]) : R[a][b][i] = k
    BY <2>1
  <2>3. CASE a = q /\ b = p
    <3>1. PICK h : h = i + 1
      OBVIOUS
    <3>2. i \in 1 .. Len(s) - 1 /\ h \in 1 .. Len(Q[q][p])
      BY <1>0, <1>1, <2>2, <2>3, <3>1
    <3>3. Q[q][p][h] = k
      BY <1>0, <1>1, <2>2, <2>3, <3>1, <3>2
    <3> QED BY <1>0, <3>2, <3>3 DEF HasEntry
  <2>4. CASE ~(a = q /\ b = p)
    BY <1>0, <2>2, <2>4 DEF HasEntry
  <2> QED BY <2>3, <2>4
<1>4. HasEntry(Q, Head(s)) /\ Head(s) \in Jobs
  <2>1. 1 \in 1 .. Len(Q[q][p]) /\ Q[q][p][1] = Head(s)
    BY <1>0, <1>1
  <2>2. s[1] \in Jobs
    BY <1>0, <1>1
  <2> QED BY <1>0, <1>1, <2>1, <2>2 DEF HasEntry
<1> QED BY <1>2, <1>3, <1>4

\* The same of the queues of the pool.
LEMMA Pushes ==
  ASSUME QueueType, QueueType', NEW t, NEW q \in Queues, NEW j \in Jobs, NEW p \in Priorities,
         PushItem(t, q, j, p)
  PROVE  \E n \in Nat : PushedAt(m_queues, m_queues', q, p, n, j)
<1>1. /\ m_queues \in QueueContents /\ m_queues' = [m_queues EXCEPT ![q][p] = Append(@, j)]
  BY DEF QueueType, QueueContents, PushItem
<1>2. PICK s \in Seq(Jobs) : s = m_queues[q][p]
  BY <1>1 DEF QueueContents
<1>3. PICK n \in Nat : n = Len(s)
  OBVIOUS
<1>4. m_queues'[q][p] = Append(s, j)
  BY <1>1, <1>2 DEF QueueContents
<1>5. /\ n = Len(m_queues[q][p]) /\ Len(m_queues'[q][p]) = n + 1 /\ m_queues'[q][p][n + 1] = j
      /\ \A i \in 1 .. n : m_queues'[q][p][i] = m_queues[q][p][i]
  BY <1>2, <1>3, <1>4
<1>6. \A a \in Queues, b \in Priorities : ~(a = q /\ b = p) => m_queues'[a][b] = m_queues[a][b]
  BY <1>1 DEF QueueContents
<1>7. PushedAt(m_queues, m_queues', q, p, n, j)
  BY <1>5, <1>6 DEF PushedAt
<1> QED BY <1>7

LEMMA Takes ==
  ASSUME QueueType, QueueType', NEW t \in Threads, TakeItem(t)
  PROVE  /\ TakenAt(m_queues, m_queues', qUsed[t], level[t], Place(t))
         /\ m_queues \in QueueContents /\ m_queues' \in QueueContents
<1>1. /\ m_queues \in QueueContents /\ m_queues' \in QueueContents
      /\ qUsed[t] \in Queues /\ level[t] \in Priorities
      /\ m_queues[qUsed[t]][level[t]] # <<>> /\ Place(t) = m_queues[qUsed[t]][level[t]]
      /\ m_queues' = [m_queues EXCEPT ![qUsed[t]][level[t]] = Tail(@)]
  BY TakesFrom
<1>2. PICK q \in Queues, p \in Priorities : q = qUsed[t] /\ p = level[t]
  BY <1>1
<1>3. Place(t) \in Seq(Jobs) /\ m_queues'[q][p] = Tail(Place(t))
  BY <1>1, <1>2 DEF QueueContents
<1>4. \A a \in Queues, b \in Priorities : ~(a = q /\ b = p) => m_queues'[a][b] = m_queues[a][b]
  BY <1>1, <1>2 DEF QueueContents
<1> QED BY <1>1, <1>2, <1>3, <1>4 DEF TakenAt

\* A step of t that settles what it lets go of.
Settles(t) ==
  /\ t \in Threads /\ StepOf(t) /\ added' = added
  /\ \A k \in Jobs : IsFinished(k) => IsFinished(k)'
  /\ \A k \in Jobs : HasEntry(m_queues, k) => HasEntry(m_queues', k) \/ InHands(t, k)'
  /\ \A k \in Jobs : InHands(t, k) =>
       InHands(t, k)' \/ IsFinished(k)' \/ \E u \in Threads \ {t} : InHands(u, k)

LEMMA SettlesKeeps ==
  ASSUME Pending, NEW t, Settles(t)
  PROVE  Pending'
<1>1. ASSUME NEW k \in Jobs, Settled(k) PROVE Settled(k)'
  <2>1. CASE IsFinished(k)
    BY <2>1 DEF Settles, Settled
  <2>2. CASE HasEntry(m_queues, k)
    BY <2>2 DEF Settles, Settled
  <2>3. CASE \E u \in Threads : InHands(u, k)
    <3>1. PICK u \in Threads : InHands(u, k)
      BY <2>3
    <3>2. CASE u # t
      <4>1. InHands(u, k)'
        BY <3>1, <3>2 DEF Settles, StepOf, InHands
      <4> QED BY <4>1 DEF Settled
    <3>3. CASE u = t
      <4>1. CASE \E v \in Threads \ {t} : InHands(v, k)
        <5>1. PICK v \in Threads \ {t} : InHands(v, k)
          BY <4>1
        <5>2. InHands(v, k)'
          BY <5>1 DEF Settles, StepOf, InHands
        <5> QED BY <5>2 DEF Settled
      <4>2. CASE InHands(t, k)' \/ IsFinished(k)'
        BY <4>2 DEF Settles, Settled
      <4> QED BY <3>1, <3>3, <4>1, <4>2 DEF Settles
    <3> QED BY <3>2, <3>3
  <2> QED BY <1>1, <2>1, <2>2, <2>3 DEF Settled
<1>2. \A k \in Jobs : IsAdded(k)' => IsAdded(k)
  BY DEF Settles, IsAdded
<1>3. (added \in Seq(Jobs))'
  BY DEF Settles, Pending
<1> QED BY <1>1, <1>2, <1>3 DEF Pending

LEMMA ScanSettles ==
  ASSUME PInv, QueueType, QueueType', Placed, Owner, NEW t \in Threads, Scan(t)
  PROVE  Settles(t)
<1>1. t \in Threads /\ StepOf(t) /\ UNCHANGED <<added, m_queues>>
  BY PoolBasics DEF Scan, ScanLower, PInv, PType, InHand, WithJob, Placed, MainPlaced,
     Owner, InExecute, Go, StepOf, InHands, Unsettled, IsFinished, queueVars, jobVars,
     poolVars, threadVars, mainVars, history
<1>2. \A k \in Jobs : IsFinished(k) => IsFinished(k)'
  BY PoolBasics DEF Scan, ScanLower, PInv, PType, InHand, WithJob, Placed, MainPlaced,
     Owner, InExecute, Go, StepOf, InHands, Unsettled, IsFinished, queueVars, jobVars,
     poolVars, threadVars, mainVars, history
<1>3. \A k \in Jobs : InHands(t, k) => InHands(t, k)' \/ IsFinished(k)'
  BY PoolBasics DEF Scan, ScanLower, PInv, PType, InHand, WithJob, Placed, MainPlaced,
     Owner, InExecute, Go, StepOf, InHands, Unsettled, IsFinished, queueVars, jobVars,
     poolVars, threadVars, mainVars, history
<1> QED BY <1>1, <1>2, <1>3 DEF Settles

LEMMA PoppedSettles ==
  ASSUME PInv, QueueType, QueueType', Placed, Owner, NEW t \in Threads, Popped(t)
  PROVE  Settles(t)
<1>1. StepOf(t) /\ added' = added /\ \A k \in Jobs : IsFinished(k) => IsFinished(k)'
  BY PoolBasics DEF Popped, TakeItem, PInv, PType, InHand, WithJob, Placed, MainPlaced,
     Owner, InExecute, Go, StepOf, InHands, Unsettled, IsFinished, queueVars, jobVars,
     poolVars, threadVars, mainVars, history
<1>2. \A k \in Jobs : InHands(t, k) => FALSE
  BY PoolBasics DEF Popped, PInv, PType, InHand, WithJob, Placed, MainPlaced, Owner,
     InExecute, Go, StepOf, InHands, Unsettled, IsFinished, queueVars, jobVars, poolVars,
     threadVars, mainVars, history
<1>3. ASSUME NEW k \in Jobs, HasEntry(m_queues, k)
      PROVE  HasEntry(m_queues', k) \/ InHands(t, k)'
  <2>1. TakeItem(t) /\ job'[t] = Head(Place(t)) /\ pc'[t] \in {"abortPopped", "popped"}
    BY DEF Popped, Go, PInv, PType
  <2>2. HasEntry(m_queues', k) \/ k = Head(Place(t))
    BY <1>3, <2>1, Takes, TakeEntry
  <2> QED BY <2>1, <2>2 DEF InHands, Unsettled
<1> QED BY <1>1, <1>2, <1>3 DEF Settles

LEMMA CheckFinishedSettles ==
  ASSUME PInv, QueueType, QueueType', Placed, Owner, NEW t \in Threads, CheckFinished(t)
  PROVE  Settles(t)
<1>1. t \in Threads /\ StepOf(t) /\ UNCHANGED <<added, m_queues>>
  BY PoolBasics DEF CheckFinished, PInv, PType, InHand, WithJob, Placed, MainPlaced, Owner,
     InExecute, Go, StepOf, InHands, Unsettled, IsFinished, queueVars, jobVars, poolVars,
     threadVars, mainVars, history
<1>2. \A k \in Jobs : IsFinished(k) => IsFinished(k)'
  BY PoolBasics DEF CheckFinished, PInv, PType, InHand, WithJob, Placed, MainPlaced, Owner,
     InExecute, Go, StepOf, InHands, Unsettled, IsFinished, queueVars, jobVars, poolVars,
     threadVars, mainVars, history
<1>3. \A k \in Jobs : InHands(t, k) => InHands(t, k)' \/ IsFinished(k)'
  BY PoolBasics DEF CheckFinished, PInv, PType, InHand, WithJob, Placed, MainPlaced, Owner,
     InExecute, Go, StepOf, InHands, Unsettled, IsFinished, queueVars, jobVars, poolVars,
     threadVars, mainVars, history
<1> QED BY <1>1, <1>2, <1>3 DEF Settles

LEMMA TryLockFailsSettles ==
  ASSUME PInv, QueueType, QueueType', Placed, Owner, NEW t \in Threads, TryLockFails(t)
  PROVE  Settles(t)
<1>1. t \in Threads /\ StepOf(t) /\ UNCHANGED <<added, m_queues, m_status>>
  BY PoolBasics DEF TryLockFails, PInv, PType, InHand, WithJob, Placed, MainPlaced, Owner,
     InExecute, Go, StepOf, InHands, Unsettled, IsFinished, queueVars, jobVars, poolVars,
     threadVars, mainVars, history
<1>2. ASSUME NEW k \in Jobs, InHands(t, k)
      PROVE  IsFinished(k)' \/ \E u \in Threads \ {t} : InHands(u, k)
  <2>1. PICK u \in Threads : u = m_mutex[k] /\ job[u] = k /\ pc[u] \in InExecute
    BY <1>2, PoolBasics DEF TryLockFails, PInv, PType, InHand, WithJob, Placed, MainPlaced,
       Owner, InExecute, Go, StepOf, InHands, Unsettled, IsFinished, queueVars, jobVars,
       poolVars, threadVars, mainVars, history
  <2>2. u # t
    BY <2>1 DEF TryLockFails, InExecute
  <2>3. CASE pc[u] = "running"
    BY <2>1, <2>2, <2>3 DEF InHands, Unsettled
  <2>4. CASE pc[u] # "running"
    BY <1>1, <2>1, <2>4 DEF Owner, InExecute, IsFinished
  <2> QED BY <2>3, <2>4
<1> QED BY <1>1, <1>2 DEF Settles, IsFinished

LEMMA BeginSettles ==
  ASSUME PInv, QueueType, QueueType', Placed, Owner, NEW t \in Threads, Begin(t)
  PROVE  Settles(t)
<1>1. t \in Threads /\ StepOf(t) /\ UNCHANGED <<added, m_queues>>
  BY PoolBasics DEF Begin, CanExecute, PInv, PType, InHand, WithJob, Placed, MainPlaced,
     Owner, InExecute, Go, StepOf, InHands, Unsettled, IsFinished, queueVars, jobVars,
     poolVars, threadVars, mainVars, history
<1>2. \A k \in Jobs : IsFinished(k) => IsFinished(k)'
  BY PoolBasics DEF Begin, CanExecute, PInv, PType, InHand, WithJob, Placed, MainPlaced,
     Owner, InExecute, Go, StepOf, InHands, Unsettled, IsFinished, queueVars, jobVars,
     poolVars, threadVars, mainVars, history
<1>3. \A k \in Jobs : InHands(t, k) => InHands(t, k)' \/ IsFinished(k)'
  BY PoolBasics DEF Begin, CanExecute, PInv, PType, InHand, WithJob, Placed, MainPlaced,
     Owner, InExecute, Go, StepOf, InHands, Unsettled, IsFinished, queueVars, jobVars,
     poolVars, threadVars, mainVars, history
<1> QED BY <1>1, <1>2, <1>3 DEF Settles

LEMMA TooLateSettles ==
  ASSUME PInv, QueueType, QueueType', Placed, Owner, NEW t \in Threads, TooLate(t)
  PROVE  Settles(t)
<1>1. t \in Threads /\ StepOf(t) /\ UNCHANGED <<added, m_queues>>
  BY PoolBasics DEF TooLate, AfterExecute, CanExecute, PInv, PType, InHand, WithJob, Placed,
     MainPlaced, Owner, InExecute, Go, StepOf, InHands, Unsettled, IsFinished, queueVars,
     jobVars, poolVars, threadVars, mainVars, history
<1>2. \A k \in Jobs : IsFinished(k) => IsFinished(k)'
  BY PoolBasics DEF TooLate, AfterExecute, CanExecute, PInv, PType, InHand, WithJob, Placed,
     MainPlaced, Owner, InExecute, Go, StepOf, InHands, Unsettled, IsFinished, queueVars,
     jobVars, poolVars, threadVars, mainVars, history
<1>3. \A k \in Jobs : InHands(t, k) => InHands(t, k)' \/ IsFinished(k)'
  BY PoolBasics DEF TooLate, AfterExecute, CanExecute, PInv, PType, InHand, WithJob, Placed,
     MainPlaced, Owner, InExecute, Go, StepOf, InHands, Unsettled, IsFinished, queueVars,
     jobVars, poolVars, threadVars, mainVars, history
<1> QED BY <1>1, <1>2, <1>3 DEF Settles

LEMMA FinishSettles ==
  ASSUME PInv, QueueType, QueueType', Placed, Owner, NEW t \in Threads, Finish(t)
  PROVE  Settles(t)
<1>1. t \in Threads /\ StepOf(t) /\ UNCHANGED <<added, m_queues>>
  BY PoolBasics DEF Finish, PInv, PType, InHand, WithJob, Placed, MainPlaced, Owner,
     InExecute, Go, StepOf, InHands, Unsettled, IsFinished, queueVars, jobVars, poolVars,
     threadVars, mainVars, history
<1>2. \A k \in Jobs : IsFinished(k) => IsFinished(k)'
  BY PoolBasics DEF Finish, PInv, PType, InHand, WithJob, Placed, MainPlaced, Owner,
     InExecute, Go, StepOf, InHands, Unsettled, IsFinished, queueVars, jobVars, poolVars,
     threadVars, mainVars, history
<1>3. \A k \in Jobs : InHands(t, k) => InHands(t, k)' \/ IsFinished(k)'
  BY PoolBasics DEF Finish, PInv, PType, InHand, WithJob, Placed, MainPlaced, Owner,
     InExecute, Go, StepOf, InHands, Unsettled, IsFinished, queueVars, jobVars, poolVars,
     threadVars, mainVars, history
<1> QED BY <1>1, <1>2, <1>3 DEF Settles

LEMMA CompleteSettles ==
  ASSUME PInv, QueueType, QueueType', Placed, Owner, NEW t \in Threads, Complete(t)
  PROVE  Settles(t)
<1>1. t \in Threads /\ StepOf(t) /\ UNCHANGED <<added, m_queues>>
  BY PoolBasics DEF Complete, PInv, PType, InHand, WithJob, Placed, MainPlaced, Owner,
     InExecute, Go, StepOf, InHands, Unsettled, IsFinished, queueVars, jobVars, poolVars,
     threadVars, mainVars, history
<1>2. \A k \in Jobs : IsFinished(k) => IsFinished(k)'
  BY PoolBasics DEF Complete, PInv, PType, InHand, WithJob, Placed, MainPlaced, Owner,
     InExecute, Go, StepOf, InHands, Unsettled, IsFinished, queueVars, jobVars, poolVars,
     threadVars, mainVars, history
<1>3. \A k \in Jobs : InHands(t, k) => InHands(t, k)' \/ IsFinished(k)'
  BY PoolBasics DEF Complete, PInv, PType, InHand, WithJob, Placed, MainPlaced, Owner,
     InExecute, Go, StepOf, InHands, Unsettled, IsFinished, queueVars, jobVars, poolVars,
     threadVars, mainVars, history
<1> QED BY <1>1, <1>2, <1>3 DEF Settles

LEMMA LeaveExecuteSettles ==
  ASSUME PInv, QueueType, QueueType', Placed, Owner, NEW t \in Threads, LeaveExecute(t)
  PROVE  Settles(t)
<1>1. t \in Threads /\ StepOf(t) /\ UNCHANGED <<added, m_queues>>
  BY PoolBasics DEF LeaveExecute, AfterExecute, PInv, PType, InHand, WithJob, Placed,
     MainPlaced, Owner, InExecute, Go, StepOf, InHands, Unsettled, IsFinished, queueVars,
     jobVars, poolVars, threadVars, mainVars, history
<1>2. \A k \in Jobs : IsFinished(k) => IsFinished(k)'
  BY PoolBasics DEF LeaveExecute, AfterExecute, PInv, PType, InHand, WithJob, Placed,
     MainPlaced, Owner, InExecute, Go, StepOf, InHands, Unsettled, IsFinished, queueVars,
     jobVars, poolVars, threadVars, mainVars, history
<1>3. \A k \in Jobs : InHands(t, k) => InHands(t, k)' \/ IsFinished(k)'
  BY PoolBasics DEF LeaveExecute, AfterExecute, PInv, PType, InHand, WithJob, Placed,
     MainPlaced, Owner, InExecute, Go, StepOf, InHands, Unsettled, IsFinished, queueVars,
     jobVars, poolVars, threadVars, mainVars, history
<1> QED BY <1>1, <1>2, <1>3 DEF Settles

LEMMA ReleaseSettles ==
  ASSUME PInv, QueueType, QueueType', Placed, Owner, NEW t \in Threads, Release(t)
  PROVE  Settles(t)
<1>1. t \in Threads /\ StepOf(t) /\ UNCHANGED <<added, m_queues>>
  BY PoolBasics DEF Release, BackToWait, PInv, PType, InHand, WithJob, Placed, MainPlaced,
     Owner, InExecute, Go, StepOf, InHands, Unsettled, IsFinished, queueVars, jobVars,
     poolVars, threadVars, mainVars, history
<1>2. \A k \in Jobs : IsFinished(k) => IsFinished(k)'
  BY PoolBasics DEF Release, BackToWait, PInv, PType, InHand, WithJob, Placed, MainPlaced,
     Owner, InExecute, Go, StepOf, InHands, Unsettled, IsFinished, queueVars, jobVars,
     poolVars, threadVars, mainVars, history
<1>3. \A k \in Jobs : InHands(t, k) => InHands(t, k)' \/ IsFinished(k)'
  BY PoolBasics DEF Release, BackToWait, PInv, PType, InHand, WithJob, Placed, MainPlaced,
     Owner, InExecute, Go, StepOf, InHands, Unsettled, IsFinished, queueVars, jobVars,
     poolVars, threadVars, mainVars, history
<1> QED BY <1>1, <1>2, <1>3 DEF Settles

LEMMA AnswerCallSettles ==
  ASSUME PInv, QueueType, QueueType', Placed, Owner, NEW w \in Workers, AnswerCall(w)
  PROVE  Settles(w)
<1>1. w \in Threads /\ StepOf(w) /\ UNCHANGED <<added, m_queues>>
  BY PoolBasics DEF AnswerCall, PInv, PType, InHand, WithJob, Placed, MainPlaced, Owner,
     InExecute, Go, StepOf, InHands, Unsettled, IsFinished, queueVars, jobVars, poolVars,
     threadVars, mainVars, history
<1>2. \A k \in Jobs : IsFinished(k) => IsFinished(k)'
  BY PoolBasics DEF AnswerCall, PInv, PType, InHand, WithJob, Placed, MainPlaced, Owner,
     InExecute, Go, StepOf, InHands, Unsettled, IsFinished, queueVars, jobVars, poolVars,
     threadVars, mainVars, history
<1>3. \A k \in Jobs : InHands(w, k) => InHands(w, k)' \/ IsFinished(k)'
  BY PoolBasics DEF AnswerCall, PInv, PType, InHand, WithJob, Placed, MainPlaced, Owner,
     InExecute, Go, StepOf, InHands, Unsettled, IsFinished, queueVars, jobVars, poolVars,
     threadVars, mainVars, history
<1> QED BY <1>1, <1>2, <1>3 DEF Settles

LEMMA SuspendSettles ==
  ASSUME PInv, QueueType, QueueType', Placed, Owner, NEW w \in Workers, Suspend(w)
  PROVE  Settles(w)
<1>1. w \in Threads /\ StepOf(w) /\ UNCHANGED <<added, m_queues>>
  BY PoolBasics DEF Suspend, PInv, PType, InHand, WithJob, Placed, MainPlaced, Owner,
     InExecute, Go, StepOf, InHands, Unsettled, IsFinished, queueVars, jobVars, poolVars,
     threadVars, mainVars, history
<1>2. \A k \in Jobs : IsFinished(k) => IsFinished(k)'
  BY PoolBasics DEF Suspend, PInv, PType, InHand, WithJob, Placed, MainPlaced, Owner,
     InExecute, Go, StepOf, InHands, Unsettled, IsFinished, queueVars, jobVars, poolVars,
     threadVars, mainVars, history
<1>3. \A k \in Jobs : InHands(w, k) => InHands(w, k)' \/ IsFinished(k)'
  BY PoolBasics DEF Suspend, PInv, PType, InHand, WithJob, Placed, MainPlaced, Owner,
     InExecute, Go, StepOf, InHands, Unsettled, IsFinished, queueVars, jobVars, poolVars,
     threadVars, mainVars, history
<1> QED BY <1>1, <1>2, <1>3 DEF Settles

LEMMA ResumedSettles ==
  ASSUME PInv, QueueType, QueueType', Placed, Owner, NEW w \in Workers, Resumed(w)
  PROVE  Settles(w)
<1>1. w \in Threads /\ StepOf(w) /\ UNCHANGED <<added, m_queues>>
  BY PoolBasics DEF Resumed, PInv, PType, InHand, WithJob, Placed, MainPlaced, Owner,
     InExecute, Go, StepOf, InHands, Unsettled, IsFinished, queueVars, jobVars, poolVars,
     threadVars, mainVars, history
<1>2. \A k \in Jobs : IsFinished(k) => IsFinished(k)'
  BY PoolBasics DEF Resumed, PInv, PType, InHand, WithJob, Placed, MainPlaced, Owner,
     InExecute, Go, StepOf, InHands, Unsettled, IsFinished, queueVars, jobVars, poolVars,
     threadVars, mainVars, history
<1>3. \A k \in Jobs : InHands(w, k) => InHands(w, k)' \/ IsFinished(k)'
  BY PoolBasics DEF Resumed, PInv, PType, InHand, WithJob, Placed, MainPlaced, Owner,
     InExecute, Go, StepOf, InHands, Unsettled, IsFinished, queueVars, jobVars, poolVars,
     threadVars, mainVars, history
<1> QED BY <1>1, <1>2, <1>3 DEF Settles

LEMMA WakeForItemSettles ==
  ASSUME PInv, QueueType, QueueType', Placed, Owner, NEW w \in Workers, WakeForItem(w)
  PROVE  Settles(w)
<1>1. w \in Threads /\ StepOf(w) /\ UNCHANGED <<added, m_queues>>
  BY PoolBasics DEF WakeForItem, PInv, PType, InHand, WithJob, Placed, MainPlaced, Owner,
     InExecute, Go, StepOf, InHands, Unsettled, IsFinished, queueVars, jobVars, poolVars,
     threadVars, mainVars, history
<1>2. \A k \in Jobs : IsFinished(k) => IsFinished(k)'
  BY PoolBasics DEF WakeForItem, PInv, PType, InHand, WithJob, Placed, MainPlaced, Owner,
     InExecute, Go, StepOf, InHands, Unsettled, IsFinished, queueVars, jobVars, poolVars,
     threadVars, mainVars, history
<1>3. \A k \in Jobs : InHands(w, k) => InHands(w, k)' \/ IsFinished(k)'
  BY PoolBasics DEF WakeForItem, PInv, PType, InHand, WithJob, Placed, MainPlaced, Owner,
     InExecute, Go, StepOf, InHands, Unsettled, IsFinished, queueVars, jobVars, poolVars,
     threadVars, mainVars, history
<1> QED BY <1>1, <1>2, <1>3 DEF Settles

LEMMA PopDirectSettles ==
  ASSUME PInv, QueueType, QueueType', Placed, Owner, NEW w \in Workers, PopDirect(w)
  PROVE  Settles(w)
<1>1. w \in Threads /\ StepOf(w) /\ UNCHANGED <<added, m_queues>>
  BY PoolBasics DEF PopDirect, Reserve, PInv, PType, InHand, WithJob, Placed, MainPlaced,
     Owner, InExecute, Go, StepOf, InHands, Unsettled, IsFinished, queueVars, jobVars,
     poolVars, threadVars, mainVars, history
<1>2. \A k \in Jobs : IsFinished(k) => IsFinished(k)'
  BY PoolBasics DEF PopDirect, Reserve, PInv, PType, InHand, WithJob, Placed, MainPlaced,
     Owner, InExecute, Go, StepOf, InHands, Unsettled, IsFinished, queueVars, jobVars,
     poolVars, threadVars, mainVars, history
<1>3. \A k \in Jobs : InHands(w, k) => InHands(w, k)' \/ IsFinished(k)'
  BY PoolBasics DEF PopDirect, Reserve, PInv, PType, InHand, WithJob, Placed, MainPlaced,
     Owner, InExecute, Go, StepOf, InHands, Unsettled, IsFinished, queueVars, jobVars,
     poolVars, threadVars, mainVars, history
<1> QED BY <1>1, <1>2, <1>3 DEF Settles

LEMMA PopSharedSettles ==
  ASSUME PInv, QueueType, QueueType', Placed, Owner, NEW w \in Workers, PopShared(w)
  PROVE  Settles(w)
<1>1. w \in Threads /\ StepOf(w) /\ UNCHANGED <<added, m_queues>>
  BY PoolBasics DEF PopShared, Reserve, BackToWait, PInv, PType, InHand, WithJob, Placed,
     MainPlaced, Owner, InExecute, Go, StepOf, InHands, Unsettled, IsFinished, queueVars,
     jobVars, poolVars, threadVars, mainVars, history
<1>2. \A k \in Jobs : IsFinished(k) => IsFinished(k)'
  BY PoolBasics DEF PopShared, Reserve, BackToWait, PInv, PType, InHand, WithJob, Placed,
     MainPlaced, Owner, InExecute, Go, StepOf, InHands, Unsettled, IsFinished, queueVars,
     jobVars, poolVars, threadVars, mainVars, history
<1>3. \A k \in Jobs : InHands(w, k) => InHands(w, k)' \/ IsFinished(k)'
  BY PoolBasics DEF PopShared, Reserve, BackToWait, PInv, PType, InHand, WithJob, Placed,
     MainPlaced, Owner, InExecute, Go, StepOf, InHands, Unsettled, IsFinished, queueVars,
     jobVars, poolVars, threadVars, mainVars, history
<1> QED BY <1>1, <1>2, <1>3 DEF Settles

LEMMA ExecuteSettles ==
  ASSUME PInv, QueueType, QueueType', Placed, Owner, Execute
  PROVE  Settles(Main)
<1>1. Main \in Threads /\ StepOf(Main) /\ UNCHANGED <<added, m_queues>>
  BY PoolBasics DEF Execute, PInv, PType, InHand, WithJob, Placed, MainPlaced, Owner,
     InExecute, Go, StepOf, InHands, Unsettled, IsFinished, queueVars, jobVars, poolVars,
     threadVars, mainVars, history
<1>2. \A k \in Jobs : IsFinished(k) => IsFinished(k)'
  BY PoolBasics DEF Execute, PInv, PType, InHand, WithJob, Placed, MainPlaced, Owner,
     InExecute, Go, StepOf, InHands, Unsettled, IsFinished, queueVars, jobVars, poolVars,
     threadVars, mainVars, history
<1>3. \A k \in Jobs : InHands(Main, k) => InHands(Main, k)' \/ IsFinished(k)'
  BY PoolBasics DEF Execute, PInv, PType, InHand, WithJob, Placed, MainPlaced, Owner,
     InExecute, Go, StepOf, InHands, Unsettled, IsFinished, queueVars, jobVars, poolVars,
     threadVars, mainVars, history
<1> QED BY <1>1, <1>2, <1>3 DEF Settles

LEMMA AbortSettles ==
  ASSUME PInv, QueueType, QueueType', Placed, Owner, Abort
  PROVE  Settles(Main)
<1>1. Main \in Threads /\ StepOf(Main) /\ UNCHANGED <<added, m_queues>>
  BY PoolBasics DEF Abort, AbortedIfWaiting, CanExecute, PInv, PType, InHand, WithJob,
     Placed, MainPlaced, Owner, InExecute, Go, StepOf, InHands, Unsettled, IsFinished,
     queueVars, jobVars, poolVars, threadVars, mainVars, history
<1>2. \A k \in Jobs : IsFinished(k) => IsFinished(k)'
  BY PoolBasics DEF Abort, AbortedIfWaiting, CanExecute, PInv, PType, InHand, WithJob,
     Placed, MainPlaced, Owner, InExecute, Go, StepOf, InHands, Unsettled, IsFinished,
     queueVars, jobVars, poolVars, threadVars, mainVars, history
<1>3. \A k \in Jobs : InHands(Main, k) => InHands(Main, k)' \/ IsFinished(k)'
  BY PoolBasics DEF Abort, AbortedIfWaiting, CanExecute, PInv, PType, InHand, WithJob,
     Placed, MainPlaced, Owner, InExecute, Go, StepOf, InHands, Unsettled, IsFinished,
     queueVars, jobVars, poolVars, threadVars, mainVars, history
<1> QED BY <1>1, <1>2, <1>3 DEF Settles

LEMMA CountAddedSettles ==
  ASSUME PInv, QueueType, QueueType', Placed, Owner, CountAdded
  PROVE  Settles(Main)
<1>1. Main \in Threads /\ StepOf(Main) /\ UNCHANGED <<added, m_queues>>
  BY PoolBasics DEF CountAdded, CountItem, PInv, PType, InHand, WithJob, Placed, MainPlaced,
     Owner, InExecute, Go, StepOf, InHands, Unsettled, IsFinished, queueVars, jobVars,
     poolVars, threadVars, mainVars, history
<1>2. \A k \in Jobs : IsFinished(k) => IsFinished(k)'
  BY PoolBasics DEF CountAdded, CountItem, PInv, PType, InHand, WithJob, Placed, MainPlaced,
     Owner, InExecute, Go, StepOf, InHands, Unsettled, IsFinished, queueVars, jobVars,
     poolVars, threadVars, mainVars, history
<1>3. \A k \in Jobs : InHands(Main, k) => InHands(Main, k)' \/ IsFinished(k)'
  BY PoolBasics DEF CountAdded, CountItem, PInv, PType, InHand, WithJob, Placed, MainPlaced,
     Owner, InExecute, Go, StepOf, InHands, Unsettled, IsFinished, queueVars, jobVars,
     poolVars, threadVars, mainVars, history
<1> QED BY <1>1, <1>2, <1>3 DEF Settles

LEMMA CountJobSettles ==
  ASSUME PInv, QueueType, QueueType', Placed, Owner, CountJob
  PROVE  Settles(Main)
<1>1. Main \in Threads /\ StepOf(Main) /\ UNCHANGED <<added, m_queues>>
  BY PoolBasics DEF CountJob, PInv, PType, InHand, WithJob, Placed, MainPlaced, Owner,
     InExecute, Go, StepOf, InHands, Unsettled, IsFinished, queueVars, jobVars, poolVars,
     threadVars, mainVars, history
<1>2. \A k \in Jobs : IsFinished(k) => IsFinished(k)'
  BY PoolBasics DEF CountJob, PInv, PType, InHand, WithJob, Placed, MainPlaced, Owner,
     InExecute, Go, StepOf, InHands, Unsettled, IsFinished, queueVars, jobVars, poolVars,
     threadVars, mainVars, history
<1>3. \A k \in Jobs : InHands(Main, k) => InHands(Main, k)' \/ IsFinished(k)'
  BY PoolBasics DEF CountJob, PInv, PType, InHand, WithJob, Placed, MainPlaced, Owner,
     InExecute, Go, StepOf, InHands, Unsettled, IsFinished, queueVars, jobVars, poolVars,
     threadVars, mainVars, history
<1> QED BY <1>1, <1>2, <1>3 DEF Settles

LEMMA YieldHelpSettles ==
  ASSUME PInv, QueueType, QueueType', Placed, Owner, YieldHelp
  PROVE  Settles(Main)
<1>1. Main \in Threads /\ StepOf(Main) /\ UNCHANGED <<added, m_queues>>
  BY PoolBasics DEF YieldHelp, Reserve, PInv, PType, InHand, WithJob, Placed, MainPlaced,
     Owner, InExecute, Go, StepOf, InHands, Unsettled, IsFinished, queueVars, jobVars,
     poolVars, threadVars, mainVars, history
<1>2. \A k \in Jobs : IsFinished(k) => IsFinished(k)'
  BY PoolBasics DEF YieldHelp, Reserve, PInv, PType, InHand, WithJob, Placed, MainPlaced,
     Owner, InExecute, Go, StepOf, InHands, Unsettled, IsFinished, queueVars, jobVars,
     poolVars, threadVars, mainVars, history
<1>3. \A k \in Jobs : InHands(Main, k) => InHands(Main, k)' \/ IsFinished(k)'
  BY PoolBasics DEF YieldHelp, Reserve, PInv, PType, InHand, WithJob, Placed, MainPlaced,
     Owner, InExecute, Go, StepOf, InHands, Unsettled, IsFinished, queueVars, jobVars,
     poolVars, threadVars, mainVars, history
<1> QED BY <1>1, <1>2, <1>3 DEF Settles

LEMMA YieldDoneSettles ==
  ASSUME PInv, QueueType, QueueType', Placed, Owner, YieldDone
  PROVE  Settles(Main)
<1>1. Main \in Threads /\ StepOf(Main) /\ UNCHANGED <<added, m_queues>>
  BY PoolBasics DEF YieldDone, PInv, PType, InHand, WithJob, Placed, MainPlaced, Owner,
     InExecute, Go, StepOf, InHands, Unsettled, IsFinished, queueVars, jobVars, poolVars,
     threadVars, mainVars, history
<1>2. \A k \in Jobs : IsFinished(k) => IsFinished(k)'
  BY PoolBasics DEF YieldDone, PInv, PType, InHand, WithJob, Placed, MainPlaced, Owner,
     InExecute, Go, StepOf, InHands, Unsettled, IsFinished, queueVars, jobVars, poolVars,
     threadVars, mainVars, history
<1>3. \A k \in Jobs : InHands(Main, k) => InHands(Main, k)' \/ IsFinished(k)'
  BY PoolBasics DEF YieldDone, PInv, PType, InHand, WithJob, Placed, MainPlaced, Owner,
     InExecute, Go, StepOf, InHands, Unsettled, IsFinished, queueVars, jobVars, poolVars,
     threadVars, mainVars, history
<1> QED BY <1>1, <1>2, <1>3 DEF Settles

LEMMA CallWorkerSettles ==
  ASSUME PInv, QueueType, QueueType', Placed, Owner, CallWorker
  PROVE  Settles(Main)
<1>1. Main \in Threads /\ StepOf(Main) /\ UNCHANGED <<added, m_queues>>
  BY PoolBasics DEF CallWorker, PInv, PType, InHand, WithJob, Placed, MainPlaced, Owner,
     InExecute, Go, StepOf, InHands, Unsettled, IsFinished, queueVars, jobVars, poolVars,
     threadVars, mainVars, history
<1>2. \A k \in Jobs : IsFinished(k) => IsFinished(k)'
  BY PoolBasics DEF CallWorker, PInv, PType, InHand, WithJob, Placed, MainPlaced, Owner,
     InExecute, Go, StepOf, InHands, Unsettled, IsFinished, queueVars, jobVars, poolVars,
     threadVars, mainVars, history
<1>3. \A k \in Jobs : InHands(Main, k) => InHands(Main, k)' \/ IsFinished(k)'
  BY PoolBasics DEF CallWorker, PInv, PType, InHand, WithJob, Placed, MainPlaced, Owner,
     InExecute, Go, StepOf, InHands, Unsettled, IsFinished, queueVars, jobVars, poolVars,
     threadVars, mainVars, history
<1> QED BY <1>1, <1>2, <1>3 DEF Settles

LEMMA WaitForSuspensionSettles ==
  ASSUME PInv, QueueType, QueueType', Placed, Owner, WaitForSuspension
  PROVE  Settles(Main)
<1>1. Main \in Threads /\ StepOf(Main) /\ UNCHANGED <<added, m_queues>>
  BY PoolBasics DEF WaitForSuspension, PInv, PType, InHand, WithJob, Placed, MainPlaced,
     Owner, InExecute, Go, StepOf, InHands, Unsettled, IsFinished, queueVars, jobVars,
     poolVars, threadVars, mainVars, history
<1>2. \A k \in Jobs : IsFinished(k) => IsFinished(k)'
  BY PoolBasics DEF WaitForSuspension, PInv, PType, InHand, WithJob, Placed, MainPlaced,
     Owner, InExecute, Go, StepOf, InHands, Unsettled, IsFinished, queueVars, jobVars,
     poolVars, threadVars, mainVars, history
<1>3. \A k \in Jobs : InHands(Main, k) => InHands(Main, k)' \/ IsFinished(k)'
  BY PoolBasics DEF WaitForSuspension, PInv, PType, InHand, WithJob, Placed, MainPlaced,
     Owner, InExecute, Go, StepOf, InHands, Unsettled, IsFinished, queueVars, jobVars,
     poolVars, threadVars, mainVars, history
<1> QED BY <1>1, <1>2, <1>3 DEF Settles

LEMMA DrainPopSettles ==
  ASSUME PInv, QueueType, QueueType', Placed, Owner, DrainPop
  PROVE  Settles(Main)
<1>1. Main \in Threads /\ StepOf(Main) /\ UNCHANGED <<added, m_queues>>
  BY PoolBasics DEF DrainPop, Reserve, PInv, PType, InHand, WithJob, Placed, MainPlaced,
     Owner, InExecute, Go, StepOf, InHands, Unsettled, IsFinished, queueVars, jobVars,
     poolVars, threadVars, mainVars, history
<1>2. \A k \in Jobs : IsFinished(k) => IsFinished(k)'
  BY PoolBasics DEF DrainPop, Reserve, PInv, PType, InHand, WithJob, Placed, MainPlaced,
     Owner, InExecute, Go, StepOf, InHands, Unsettled, IsFinished, queueVars, jobVars,
     poolVars, threadVars, mainVars, history
<1>3. \A k \in Jobs : InHands(Main, k) => InHands(Main, k)' \/ IsFinished(k)'
  BY PoolBasics DEF DrainPop, Reserve, PInv, PType, InHand, WithJob, Placed, MainPlaced,
     Owner, InExecute, Go, StepOf, InHands, Unsettled, IsFinished, queueVars, jobVars,
     poolVars, threadVars, mainVars, history
<1> QED BY <1>1, <1>2, <1>3 DEF Settles

LEMMA AbortPoppedSettles ==
  ASSUME PInv, QueueType, QueueType', Placed, Owner, AbortPopped
  PROVE  Settles(Main)
<1>1. Main \in Threads /\ StepOf(Main) /\ UNCHANGED <<added, m_queues>>
  BY PoolBasics DEF AbortPopped, AbortedIfWaiting, CanExecute, PInv, PType, InHand, WithJob,
     Placed, MainPlaced, Owner, InExecute, Go, StepOf, InHands, Unsettled, IsFinished,
     queueVars, jobVars, poolVars, threadVars, mainVars, history
<1>2. \A k \in Jobs : IsFinished(k) => IsFinished(k)'
  BY PoolBasics DEF AbortPopped, AbortedIfWaiting, CanExecute, PInv, PType, InHand, WithJob,
     Placed, MainPlaced, Owner, InExecute, Go, StepOf, InHands, Unsettled, IsFinished,
     queueVars, jobVars, poolVars, threadVars, mainVars, history
<1>3. \A k \in Jobs : InHands(Main, k) => InHands(Main, k)' \/ IsFinished(k)'
  BY PoolBasics DEF AbortPopped, AbortedIfWaiting, CanExecute, PInv, PType, InHand, WithJob,
     Placed, MainPlaced, Owner, InExecute, Go, StepOf, InHands, Unsettled, IsFinished,
     queueVars, jobVars, poolVars, threadVars, mainVars, history
<1> QED BY <1>1, <1>2, <1>3 DEF Settles

LEMMA DrainNextSettles ==
  ASSUME PInv, QueueType, QueueType', Placed, Owner, DrainNext
  PROVE  Settles(Main)
<1>1. Main \in Threads /\ StepOf(Main) /\ UNCHANGED <<added, m_queues>>
  BY PoolBasics DEF DrainNext, PInv, PType, InHand, WithJob, Placed, MainPlaced, Owner,
     InExecute, Go, StepOf, InHands, Unsettled, IsFinished, queueVars, jobVars, poolVars,
     threadVars, mainVars, history
<1>2. \A k \in Jobs : IsFinished(k) => IsFinished(k)'
  BY PoolBasics DEF DrainNext, PInv, PType, InHand, WithJob, Placed, MainPlaced, Owner,
     InExecute, Go, StepOf, InHands, Unsettled, IsFinished, queueVars, jobVars, poolVars,
     threadVars, mainVars, history
<1>3. \A k \in Jobs : InHands(Main, k) => InHands(Main, k)' \/ IsFinished(k)'
  BY PoolBasics DEF DrainNext, PInv, PType, InHand, WithJob, Placed, MainPlaced, Owner,
     InExecute, Go, StepOf, InHands, Unsettled, IsFinished, queueVars, jobVars, poolVars,
     threadVars, mainVars, history
<1> QED BY <1>1, <1>2, <1>3 DEF Settles

LEMMA DrainDoneSettles ==
  ASSUME PInv, QueueType, QueueType', Placed, Owner, DrainDone
  PROVE  Settles(Main)
<1>1. Main \in Threads /\ StepOf(Main) /\ UNCHANGED <<added, m_queues>>
  BY PoolBasics DEF DrainDone, PInv, PType, InHand, WithJob, Placed, MainPlaced, Owner,
     InExecute, Go, StepOf, InHands, Unsettled, IsFinished, queueVars, jobVars, poolVars,
     threadVars, mainVars, history
<1>2. \A k \in Jobs : IsFinished(k) => IsFinished(k)'
  BY PoolBasics DEF DrainDone, PInv, PType, InHand, WithJob, Placed, MainPlaced, Owner,
     InExecute, Go, StepOf, InHands, Unsettled, IsFinished, queueVars, jobVars, poolVars,
     threadVars, mainVars, history
<1>3. \A k \in Jobs : InHands(Main, k) => InHands(Main, k)' \/ IsFinished(k)'
  BY PoolBasics DEF DrainDone, PInv, PType, InHand, WithJob, Placed, MainPlaced, Owner,
     InExecute, Go, StepOf, InHands, Unsettled, IsFinished, queueVars, jobVars, poolVars,
     threadVars, mainVars, history
<1> QED BY <1>1, <1>2, <1>3 DEF Settles

LEMMA ResumeExecutionSettles ==
  ASSUME PInv, QueueType, QueueType', Placed, Owner, ResumeExecution
  PROVE  Settles(Main)
<1>1. Main \in Threads /\ StepOf(Main) /\ UNCHANGED <<added, m_queues>>
  BY PoolBasics DEF ResumeExecution, PInv, PType, InHand, WithJob, Placed, MainPlaced,
     Owner, InExecute, Go, StepOf, InHands, Unsettled, IsFinished, queueVars, jobVars,
     poolVars, threadVars, mainVars, history
<1>2. \A k \in Jobs : IsFinished(k) => IsFinished(k)'
  BY PoolBasics DEF ResumeExecution, PInv, PType, InHand, WithJob, Placed, MainPlaced,
     Owner, InExecute, Go, StepOf, InHands, Unsettled, IsFinished, queueVars, jobVars,
     poolVars, threadVars, mainVars, history
<1>3. \A k \in Jobs : InHands(Main, k) => InHands(Main, k)' \/ IsFinished(k)'
  BY PoolBasics DEF ResumeExecution, PInv, PType, InHand, WithJob, Placed, MainPlaced,
     Owner, InExecute, Go, StepOf, InHands, Unsettled, IsFinished, queueVars, jobVars,
     poolVars, threadVars, mainVars, history
<1> QED BY <1>1, <1>2, <1>3 DEF Settles

LEMMA CallExecuteSettles ==
  ASSUME PInv, QueueType, QueueType', Placed, Owner, NEW j \in Jobs, CallExecute(j)
  PROVE  Settles(Main)
<1>1. Main \in Threads /\ StepOf(Main) /\ UNCHANGED <<added, m_queues>>
  BY PoolBasics DEF CallExecute, Call, PInv, PType, InHand, WithJob, Placed, MainPlaced,
     Owner, InExecute, Go, StepOf, InHands, Unsettled, IsFinished, queueVars, jobVars,
     poolVars, threadVars, mainVars, history
<1>2. \A k \in Jobs : IsFinished(k) => IsFinished(k)'
  BY PoolBasics DEF CallExecute, Call, PInv, PType, InHand, WithJob, Placed, MainPlaced,
     Owner, InExecute, Go, StepOf, InHands, Unsettled, IsFinished, queueVars, jobVars,
     poolVars, threadVars, mainVars, history
<1>3. \A k \in Jobs : InHands(Main, k) => InHands(Main, k)' \/ IsFinished(k)'
  BY PoolBasics DEF CallExecute, Call, PInv, PType, InHand, WithJob, Placed, MainPlaced,
     Owner, InExecute, Go, StepOf, InHands, Unsettled, IsFinished, queueVars, jobVars,
     poolVars, threadVars, mainVars, history
<1> QED BY <1>1, <1>2, <1>3 DEF Settles

LEMMA CallAbortSettles ==
  ASSUME PInv, QueueType, QueueType', Placed, Owner, NEW j \in Jobs, CallAbort(j)
  PROVE  Settles(Main)
<1>1. Main \in Threads /\ StepOf(Main) /\ UNCHANGED <<added, m_queues>>
  BY PoolBasics DEF CallAbort, Call, PInv, PType, InHand, WithJob, Placed, MainPlaced,
     Owner, InExecute, Go, StepOf, InHands, Unsettled, IsFinished, queueVars, jobVars,
     poolVars, threadVars, mainVars, history
<1>2. \A k \in Jobs : IsFinished(k) => IsFinished(k)'
  BY PoolBasics DEF CallAbort, Call, PInv, PType, InHand, WithJob, Placed, MainPlaced,
     Owner, InExecute, Go, StepOf, InHands, Unsettled, IsFinished, queueVars, jobVars,
     poolVars, threadVars, mainVars, history
<1>3. \A k \in Jobs : InHands(Main, k) => InHands(Main, k)' \/ IsFinished(k)'
  BY PoolBasics DEF CallAbort, Call, PInv, PType, InHand, WithJob, Placed, MainPlaced,
     Owner, InExecute, Go, StepOf, InHands, Unsettled, IsFinished, queueVars, jobVars,
     poolVars, threadVars, mainVars, history
<1> QED BY <1>1, <1>2, <1>3 DEF Settles

LEMMA CallYieldWaitSettles ==
  ASSUME PInv, QueueType, QueueType', Placed, Owner, NEW j \in Jobs, CallYieldWait(j)
  PROVE  Settles(Main)
<1>1. Main \in Threads /\ StepOf(Main) /\ UNCHANGED <<added, m_queues>>
  BY PoolBasics DEF CallYieldWait, Call, PInv, PType, InHand, WithJob, Placed, MainPlaced,
     Owner, InExecute, Go, StepOf, InHands, Unsettled, IsFinished, queueVars, jobVars,
     poolVars, threadVars, mainVars, history
<1>2. \A k \in Jobs : IsFinished(k) => IsFinished(k)'
  BY PoolBasics DEF CallYieldWait, Call, PInv, PType, InHand, WithJob, Placed, MainPlaced,
     Owner, InExecute, Go, StepOf, InHands, Unsettled, IsFinished, queueVars, jobVars,
     poolVars, threadVars, mainVars, history
<1>3. \A k \in Jobs : InHands(Main, k) => InHands(Main, k)' \/ IsFinished(k)'
  BY PoolBasics DEF CallYieldWait, Call, PInv, PType, InHand, WithJob, Placed, MainPlaced,
     Owner, InExecute, Go, StepOf, InHands, Unsettled, IsFinished, queueVars, jobVars,
     poolVars, threadVars, mainVars, history
<1> QED BY <1>1, <1>2, <1>3 DEF Settles

LEMMA ReleaseOwnedSettles ==
  ASSUME PInv, QueueType, QueueType', Placed, Owner, NEW j \in Jobs, ReleaseOwned(j)
  PROVE  Settles(Main)
<1>1. Main \in Threads /\ StepOf(Main) /\ UNCHANGED <<added, m_queues>>
  BY PoolBasics DEF ReleaseOwned, Call, PInv, PType, InHand, WithJob, Placed, MainPlaced,
     Owner, InExecute, Go, StepOf, InHands, Unsettled, IsFinished, queueVars, jobVars,
     poolVars, threadVars, mainVars, history
<1>2. \A k \in Jobs : IsFinished(k) => IsFinished(k)'
  BY PoolBasics DEF ReleaseOwned, Call, PInv, PType, InHand, WithJob, Placed, MainPlaced,
     Owner, InExecute, Go, StepOf, InHands, Unsettled, IsFinished, queueVars, jobVars,
     poolVars, threadVars, mainVars, history
<1>3. \A k \in Jobs : InHands(Main, k) => InHands(Main, k)' \/ IsFinished(k)'
  BY PoolBasics DEF ReleaseOwned, Call, PInv, PType, InHand, WithJob, Placed, MainPlaced,
     Owner, InExecute, Go, StepOf, InHands, Unsettled, IsFinished, queueVars, jobVars,
     poolVars, threadVars, mainVars, history
<1> QED BY <1>1, <1>2, <1>3 DEF Settles

LEMMA CallSuspendSettles ==
  ASSUME PInv, QueueType, QueueType', Placed, Owner, NEW by \in {"user", "abortAll"},
         CallSuspend(by)
  PROVE  Settles(Main)
<1>1. Main \in Threads /\ StepOf(Main) /\ UNCHANGED <<added, m_queues>>
  BY PoolBasics DEF CallSuspend, PInv, PType, InHand, WithJob, Placed, MainPlaced, Owner,
     InExecute, Go, StepOf, InHands, Unsettled, IsFinished, queueVars, jobVars, poolVars,
     threadVars, mainVars, history
<1>2. \A k \in Jobs : IsFinished(k) => IsFinished(k)'
  BY PoolBasics DEF CallSuspend, PInv, PType, InHand, WithJob, Placed, MainPlaced, Owner,
     InExecute, Go, StepOf, InHands, Unsettled, IsFinished, queueVars, jobVars, poolVars,
     threadVars, mainVars, history
<1>3. \A k \in Jobs : InHands(Main, k) => InHands(Main, k)' \/ IsFinished(k)'
  BY PoolBasics DEF CallSuspend, PInv, PType, InHand, WithJob, Placed, MainPlaced, Owner,
     InExecute, Go, StepOf, InHands, Unsettled, IsFinished, queueVars, jobVars, poolVars,
     threadVars, mainVars, history
<1> QED BY <1>1, <1>2, <1>3 DEF Settles

LEMMA ChangePrioritySettles ==
  ASSUME PInv, QueueType, QueueType', Placed, Owner, NEW j \in Jobs, NEW p \in Priorities,
         ChangePriority(j, p)
  PROVE  Settles(Main)
<1>1. /\ Main \in Threads /\ StepOf(Main) /\ added' = added
      /\ \A k \in Jobs : IsFinished(k) => IsFinished(k)'
      /\ \A k \in Jobs : InHands(Main, k) => FALSE
  BY PoolBasics DEF ChangePriority, Call, PushItem, PInv, PType, InHand, WithJob, Placed,
     MainPlaced, Owner, InExecute, Go, StepOf, InHands, Unsettled, IsFinished, queueVars,
     jobVars, poolVars, threadVars, mainVars, history
<1>2. ASSUME NEW k \in Jobs, HasEntry(m_queues, k)
      PROVE  HasEntry(m_queues', k)
  <2>1. PICK n \in Nat : PushedAt(m_queues, m_queues', Shared, p, n, j)
    BY PoolBasics, Pushes DEF ChangePriority
  <2>2. m_queues \in QueueContents /\ m_queues' \in QueueContents
    BY DEF QueueType, QueueContents
  <2> QED BY <1>2, <2>1, <2>2, PushEntry
<1> QED BY <1>1, <1>2 DEF Settles

LEMMA AddSettles ==
  ASSUME Pending, NEW j \in Jobs, added' = Append(added, j), StepOf(Main), Settled(j)',
         \A k \in Jobs : IsFinished(k) => IsFinished(k)',
         \A k \in Jobs : HasEntry(m_queues, k) => HasEntry(m_queues', k),
         \A k \in Jobs : ~InHands(Main, k)
  PROVE  Pending'
<1>1. added \in Seq(Jobs) /\ (added \in Seq(Jobs))'
  BY DEF Pending
<1>2. \A k \in Jobs : IsAdded(k)' => IsAdded(k) \/ k = j
  <2> SUFFICES ASSUME NEW k \in Jobs, NEW i \in DOMAIN added', added'[i] = k, k # j
               PROVE  IsAdded(k)
    BY DEF IsAdded
  <2>1. i \in DOMAIN added /\ added[i] = k
    BY <1>1
  <2> QED BY <2>1 DEF IsAdded
<1>3. ASSUME NEW k \in Jobs, Settled(k) PROVE Settled(k)'
  <2>1. CASE IsFinished(k) \/ HasEntry(m_queues, k)
    BY <2>1 DEF Settled
  <2>2. CASE \E u \in Threads : InHands(u, k)
    <3>1. PICK u \in Threads : InHands(u, k)
      BY <2>2
    <3>2. InHands(u, k)'
      BY <3>1 DEF StepOf, InHands
    <3> QED BY <3>2 DEF Settled
  <2> QED BY <1>3, <2>1, <2>2 DEF Settled
<1> QED BY <1>1, <1>2, <1>3 DEF Pending

LEMMA NextPending ==
  ASSUME PInv, QueueType, QueueType', Placed, Owner, Pending, [Next]_vars
  PROVE  Pending'
<1>1. ASSUME NEW t \in Threads, Scan(t) PROVE Pending'
  BY <1>1, ScanSettles, SettlesKeeps
<1>2. ASSUME NEW t \in Threads, Popped(t) PROVE Pending'
  BY <1>2, PoppedSettles, SettlesKeeps
<1>3. ASSUME NEW t \in Threads, CheckFinished(t) PROVE Pending'
  BY <1>3, CheckFinishedSettles, SettlesKeeps
<1>4. ASSUME NEW t \in Threads, TryLockFails(t) PROVE Pending'
  BY <1>4, TryLockFailsSettles, SettlesKeeps
<1>5. ASSUME NEW t \in Threads, Begin(t) PROVE Pending'
  BY <1>5, BeginSettles, SettlesKeeps
<1>6. ASSUME NEW t \in Threads, TooLate(t) PROVE Pending'
  BY <1>6, TooLateSettles, SettlesKeeps
<1>7. ASSUME NEW t \in Threads, Finish(t) PROVE Pending'
  BY <1>7, FinishSettles, SettlesKeeps
<1>8. ASSUME NEW t \in Threads, Complete(t) PROVE Pending'
  BY <1>8, CompleteSettles, SettlesKeeps
<1>9. ASSUME NEW t \in Threads, LeaveExecute(t) PROVE Pending'
  BY <1>9, LeaveExecuteSettles, SettlesKeeps
<1>10. ASSUME NEW t \in Threads, Release(t) PROVE Pending'
  BY <1>10, ReleaseSettles, SettlesKeeps
<1>11. ASSUME NEW w \in Workers, AnswerCall(w) PROVE Pending'
  BY <1>11, AnswerCallSettles, SettlesKeeps
<1>12. ASSUME NEW w \in Workers, Suspend(w) PROVE Pending'
  BY <1>12, SuspendSettles, SettlesKeeps
<1>13. ASSUME NEW w \in Workers, Resumed(w) PROVE Pending'
  BY <1>13, ResumedSettles, SettlesKeeps
<1>14. ASSUME NEW w \in Workers, WakeForItem(w) PROVE Pending'
  BY <1>14, WakeForItemSettles, SettlesKeeps
<1>15. ASSUME NEW w \in Workers, PopDirect(w) PROVE Pending'
  BY <1>15, PopDirectSettles, SettlesKeeps
<1>16. ASSUME NEW w \in Workers, PopShared(w) PROVE Pending'
  BY <1>16, PopSharedSettles, SettlesKeeps
<1>17. ASSUME Execute PROVE Pending'
  BY <1>17, ExecuteSettles, SettlesKeeps
<1>18. ASSUME Abort PROVE Pending'
  BY <1>18, AbortSettles, SettlesKeeps
<1>19. ASSUME CountAdded PROVE Pending'
  BY <1>19, CountAddedSettles, SettlesKeeps
<1>20. ASSUME CountJob PROVE Pending'
  BY <1>20, CountJobSettles, SettlesKeeps
<1>21. ASSUME YieldHelp PROVE Pending'
  BY <1>21, YieldHelpSettles, SettlesKeeps
<1>22. ASSUME YieldDone PROVE Pending'
  BY <1>22, YieldDoneSettles, SettlesKeeps
<1>23. ASSUME CallWorker PROVE Pending'
  BY <1>23, CallWorkerSettles, SettlesKeeps
<1>24. ASSUME WaitForSuspension PROVE Pending'
  BY <1>24, WaitForSuspensionSettles, SettlesKeeps
<1>25. ASSUME DrainPop PROVE Pending'
  BY <1>25, DrainPopSettles, SettlesKeeps
<1>26. ASSUME AbortPopped PROVE Pending'
  BY <1>26, AbortPoppedSettles, SettlesKeeps
<1>27. ASSUME DrainNext PROVE Pending'
  BY <1>27, DrainNextSettles, SettlesKeeps
<1>28. ASSUME DrainDone PROVE Pending'
  BY <1>28, DrainDoneSettles, SettlesKeeps
<1>29. ASSUME ResumeExecution PROVE Pending'
  BY <1>29, ResumeExecutionSettles, SettlesKeeps
<1>30. ASSUME NEW j \in Jobs, AddInPlace(j) PROVE Pending'
  <2>1. /\ added' = Append(added, j) /\ StepOf(Main) /\ Main \in Threads
        /\ \A k \in Jobs : IsFinished(k) => IsFinished(k)'
        /\ \A k \in Jobs : ~InHands(Main, k)
    BY <1>30, PoolBasics DEF AddInPlace, Call, CanExecute, PInv, PType, InHand, WithJob,
       Placed, MainPlaced, Owner, InExecute, Go, StepOf, InHands, Unsettled, IsFinished,
       queueVars, jobVars, poolVars, threadVars, mainVars, history
  <2>2. \A k \in Jobs : HasEntry(m_queues, k) => HasEntry(m_queues', k)
    BY <1>30 DEF AddInPlace, queueVars
  <2>3. Settled(j)'
    BY <1>30, PoolBasics DEF AddInPlace, Go, PInv, PType, Settled, InHands, Unsettled
  <2> QED BY <2>1, <2>2, <2>3, AddSettles
<1>31. ASSUME NEW j \in Jobs, AddHandled(j) PROVE Pending'
  <2>1. /\ added' = Append(added, j) /\ StepOf(Main) /\ Main \in Threads
        /\ \A k \in Jobs : IsFinished(k) => IsFinished(k)'
        /\ \A k \in Jobs : ~InHands(Main, k)
    BY <1>31, PoolBasics DEF AddHandled, Call, CanExecute, PInv, PType, InHand, WithJob,
       Placed, MainPlaced, Owner, InExecute, Go, StepOf, InHands, Unsettled, IsFinished,
       queueVars, jobVars, poolVars, threadVars, mainVars, history
  <2>2. \A k \in Jobs : HasEntry(m_queues, k) => HasEntry(m_queues', k)
    BY <1>31 DEF AddHandled, queueVars
  <2>3. Settled(j)'
    <3>1. /\ m_status[j] \in {"inprogress", "ok", "aborted"}
          /\ UNCHANGED <<m_status, job, pc>>
      BY <1>31 DEF AddHandled, CanExecute, PInv, PType, threadVars
    <3>2. CASE m_status[j] # "inprogress"
      BY <3>1, <3>2 DEF Settled, IsFinished
    <3>3. CASE m_status[j] = "inprogress"
      <4>1. PICK t \in Threads : t = m_mutex[j] /\ job[t] = j /\ pc[t] \in InExecute
        BY <3>3 DEF Owner, PInv, PType
      <4>2. InHands(t, j)'
        BY <3>1, <3>3, <4>1 DEF Owner, InExecute, InHands, Unsettled
      <4> QED BY <4>2 DEF Settled
    <3> QED BY <3>2, <3>3
  <2> QED BY <2>1, <2>2, <2>3, AddSettles
<1>32. ASSUME NEW j \in Jobs, AddToQueue(j) PROVE Pending'
  <2>1. /\ added' = Append(added, j) /\ StepOf(Main) /\ Main \in Threads
        /\ \A k \in Jobs : IsFinished(k) => IsFinished(k)'
        /\ \A k \in Jobs : ~InHands(Main, k)
    BY <1>32, PoolBasics DEF AddToQueue, Call, CanExecute, PushItem, PInv, PType, InHand,
       WithJob, Placed, MainPlaced, Owner, InExecute, Go, StepOf, InHands, Unsettled,
       IsFinished, queueVars, jobVars, poolVars, threadVars, mainVars, history
  <2>2. PICK n \in Nat : PushedAt(m_queues, m_queues', QueueOf(j), PriorityOf(j), n, j)
    <3>1. QueueOf(j) \in Queues /\ PriorityOf(j) \in Priorities
      BY PoolBasics DEF QueueOf, PriorityOf, PInv, PType
    <3> QED BY <1>32, <3>1, Pushes DEF AddToQueue
  <2>3. m_queues \in QueueContents /\ m_queues' \in QueueContents
    BY DEF QueueType, QueueContents
  <2>4. \A k \in Jobs : HasEntry(m_queues, k) => HasEntry(m_queues', k)
    BY <2>2, <2>3, PushEntry
  <2>5. Settled(j)'
    <3>1. HasEntry(m_queues', j)
      BY <2>2, <2>3, PushEntry
    <3> QED BY <3>1 DEF Settled
  <2> QED BY <2>1, <2>4, <2>5, AddSettles
<1>33. ASSUME NEW j \in Jobs, CallExecute(j) PROVE Pending'
  BY <1>33, CallExecuteSettles, SettlesKeeps
<1>34. ASSUME NEW j \in Jobs, CallAbort(j) PROVE Pending'
  BY <1>34, CallAbortSettles, SettlesKeeps
<1>35. ASSUME NEW j \in Jobs, ReleaseOwned(j) PROVE Pending'
  BY <1>35, ReleaseOwnedSettles, SettlesKeeps
<1>36. ASSUME NEW j \in Jobs, CallYieldWait(j) PROVE Pending'
  BY <1>36, CallYieldWaitSettles, SettlesKeeps
<1>37. ASSUME NEW j \in Jobs, NEW p \in Priorities, ChangePriority(j, p) PROVE Pending'
  BY <1>37, ChangePrioritySettles, SettlesKeeps
<1>38. ASSUME NEW by \in {"user", "abortAll"}, CallSuspend(by) PROVE Pending'
  BY <1>38, CallSuspendSettles, SettlesKeeps
<1>39. ASSUME UNCHANGED vars PROVE Pending'
  BY <1>39 DEF vars, queueVars, jobVars, threadVars, mainVars, history, Pending, Settled, InHands,
       IsAdded, IsFinished
<1>40. ASSUME NEW t \in Threads, Service(t) PROVE Pending'
  BY <1>40, <1>1, <1>2, <1>3, <1>4, <1>5, <1>6, <1>7, <1>8, <1>9, <1>10 DEF Service
<1>41. ASSUME NEW w \in Workers, Worker(w) PROVE Pending'
  BY <1>41, <1>11, <1>12, <1>13, <1>14, <1>15, <1>16, <1>40, PoolBasics DEF Worker
<1>42. ASSUME MainInside PROVE Pending'
  BY <1>42, <1>17, <1>18, <1>19, <1>20, <1>21, <1>22, <1>23, <1>24, <1>25, <1>26, <1>27,
     <1>28, <1>29, <1>40, PoolBasics DEF MainInside
<1>43. ASSUME MainCalls PROVE Pending'
  BY <1>43, <1>30, <1>31, <1>32, <1>33, <1>34, <1>35, <1>36, <1>37, <1>38 DEF MainCalls
<1> QED BY <1>39, <1>41, <1>42, <1>43 DEF Next

\* The queues AbortAll has gone through stay empty.
Behind(q) == IF q = Shared THEN index > 0 ELSE q < index - 1
Emptied ==
  /\ caller = "abortAll" /\ pc[Main] \in {"drain", "scan", "abortPopped"} =>
       \A q \in Queues : Behind(q) => m_nItems[q] = 0
  /\ pc[Main] = "resume" => \A q \in Queues : m_nItems[q] = 0

\* Only AbortAll moves on, and only a Push of the main thread counts an item.
Calm ==
  /\ \A q \in Queues : m_nItems[q] = 0 => m_nItems'[q] = 0
  /\ pc'[Main] = "resume" => pc[Main] = "resume"
  /\ caller' = "abortAll" /\ pc'[Main] \in {"drain", "scan", "abortPopped"} =>
       /\ caller = "abortAll" /\ pc[Main] \in {"drain", "scan", "abortPopped"}
       /\ index' = index

LEMMA CalmKeeps ==
  ASSUME Emptied, Calm
  PROVE  Emptied'
BY DEF Emptied, Calm, Behind

LEMMA ReserveCalm ==
  ASSUME QueueType, NEW t \in Threads, NEW q \in Queues, Reserve(t, q)
  PROVE  \A r \in Queues : m_nItems[r] = 0 => m_nItems'[r] = 0
BY DEF Reserve, QueueType

LEMMA NextEmptied ==
  ASSUME PInv, QueueType, Placed, Emptied, [Next]_vars
  PROVE  Emptied'
<1>1. ASSUME NEW t \in Threads, Scan(t) PROVE Emptied'
  <2>1. Calm
    BY <1>1, PoolBasics DEF Scan, ScanLower, PInv, PType, InHand, Placed, MainPlaced, Go,
       Calm, queueVars, jobVars, poolVars, threadVars, mainVars, history
  <2> QED BY <2>1, CalmKeeps
<1>2. ASSUME NEW t \in Threads, Popped(t) PROVE Emptied'
  <2>1. Calm
    BY <1>2, PoolBasics DEF Popped, TakeItem, PInv, PType, InHand, Placed, MainPlaced, Go,
       Calm, queueVars, jobVars, poolVars, threadVars, mainVars, history
  <2> QED BY <2>1, CalmKeeps
<1>3. ASSUME NEW t \in Threads, CheckFinished(t) PROVE Emptied'
  <2>1. Calm
    BY <1>3, PoolBasics DEF CheckFinished, PInv, PType, InHand, Placed, MainPlaced, Go,
       Calm, queueVars, jobVars, poolVars, threadVars, mainVars, history
  <2> QED BY <2>1, CalmKeeps
<1>4. ASSUME NEW t \in Threads, TryLockFails(t) PROVE Emptied'
  <2>1. Calm
    BY <1>4, PoolBasics DEF TryLockFails, PInv, PType, InHand, Placed, MainPlaced, Go, Calm,
       queueVars, jobVars, poolVars, threadVars, mainVars, history
  <2> QED BY <2>1, CalmKeeps
<1>5. ASSUME NEW t \in Threads, Begin(t) PROVE Emptied'
  <2>1. Calm
    BY <1>5, PoolBasics DEF Begin, PInv, PType, InHand, Placed, MainPlaced, Go, Calm,
       queueVars, jobVars, poolVars, threadVars, mainVars, history
  <2> QED BY <2>1, CalmKeeps
<1>6. ASSUME NEW t \in Threads, TooLate(t) PROVE Emptied'
  <2>1. Calm
    BY <1>6, PoolBasics DEF TooLate, AfterExecute, PInv, PType, InHand, Placed, MainPlaced,
       Go, Calm, queueVars, jobVars, poolVars, threadVars, mainVars, history
  <2> QED BY <2>1, CalmKeeps
<1>7. ASSUME NEW t \in Threads, Finish(t) PROVE Emptied'
  <2>1. Calm
    BY <1>7, PoolBasics DEF Finish, PInv, PType, InHand, Placed, MainPlaced, Go, Calm,
       queueVars, jobVars, poolVars, threadVars, mainVars, history
  <2> QED BY <2>1, CalmKeeps
<1>8. ASSUME NEW t \in Threads, Complete(t) PROVE Emptied'
  <2>1. Calm
    BY <1>8, PoolBasics DEF Complete, PInv, PType, InHand, Placed, MainPlaced, Go, Calm,
       queueVars, jobVars, poolVars, threadVars, mainVars, history
  <2> QED BY <2>1, CalmKeeps
<1>9. ASSUME NEW t \in Threads, LeaveExecute(t) PROVE Emptied'
  <2>1. Calm
    BY <1>9, PoolBasics DEF LeaveExecute, AfterExecute, PInv, PType, InHand, Placed,
       MainPlaced, Go, Calm, queueVars, jobVars, poolVars, threadVars, mainVars, history
  <2> QED BY <2>1, CalmKeeps
<1>10. ASSUME NEW t \in Threads, Release(t) PROVE Emptied'
  <2>1. Calm
    BY <1>10, PoolBasics DEF Release, BackToWait, PInv, PType, InHand, Placed, MainPlaced,
       Go, Calm, queueVars, jobVars, poolVars, threadVars, mainVars, history
  <2> QED BY <2>1, CalmKeeps
<1>11. ASSUME NEW w \in Workers, AnswerCall(w) PROVE Emptied'
  <2>1. Calm
    BY <1>11, PoolBasics DEF AnswerCall, PInv, PType, InHand, Placed, MainPlaced, Go, Calm,
       queueVars, jobVars, poolVars, threadVars, mainVars, history
  <2> QED BY <2>1, CalmKeeps
<1>12. ASSUME NEW w \in Workers, Suspend(w) PROVE Emptied'
  <2>1. Calm
    BY <1>12, PoolBasics DEF Suspend, PInv, PType, InHand, Placed, MainPlaced, Go, Calm,
       queueVars, jobVars, poolVars, threadVars, mainVars, history
  <2> QED BY <2>1, CalmKeeps
<1>13. ASSUME NEW w \in Workers, Resumed(w) PROVE Emptied'
  <2>1. Calm
    BY <1>13, PoolBasics DEF Resumed, PInv, PType, InHand, Placed, MainPlaced, Go, Calm,
       queueVars, jobVars, poolVars, threadVars, mainVars, history
  <2> QED BY <2>1, CalmKeeps
<1>14. ASSUME NEW w \in Workers, WakeForItem(w) PROVE Emptied'
  <2>1. Calm
    BY <1>14, PoolBasics DEF WakeForItem, PInv, PType, InHand, Placed, MainPlaced, Go, Calm,
       queueVars, jobVars, poolVars, threadVars, mainVars, history
  <2> QED BY <2>1, CalmKeeps
<1>15. ASSUME NEW w \in Workers, PopDirect(w) PROVE Emptied'
  <2>1. \A r \in Queues : m_nItems[r] = 0 => m_nItems'[r] = 0
    BY <1>15, PoolBasics, ReserveCalm DEF PopDirect, queueVars
  <2>2. /\ pc'[Main] = "resume" => pc[Main] = "resume"
        /\ caller' = "abortAll" /\ pc'[Main] \in {"drain", "scan", "abortPopped"} =>
             /\ caller = "abortAll" /\ pc[Main] \in {"drain", "scan", "abortPopped"}
             /\ index' = index
    BY <1>15, PoolBasics DEF PopDirect, PInv, PType, InHand, Placed, MainPlaced, Go, Calm,
       queueVars, jobVars, poolVars, threadVars, mainVars, history
  <2> QED BY <2>1, <2>2, CalmKeeps DEF Calm
<1>16. ASSUME NEW w \in Workers, PopShared(w) PROVE Emptied'
  <2>1. \A r \in Queues : m_nItems[r] = 0 => m_nItems'[r] = 0
    BY <1>16, PoolBasics, ReserveCalm DEF PopShared, queueVars
  <2>2. /\ pc'[Main] = "resume" => pc[Main] = "resume"
        /\ caller' = "abortAll" /\ pc'[Main] \in {"drain", "scan", "abortPopped"} =>
             /\ caller = "abortAll" /\ pc[Main] \in {"drain", "scan", "abortPopped"}
             /\ index' = index
    BY <1>16, PoolBasics DEF PopShared, BackToWait, PInv, PType, InHand, Placed, MainPlaced,
       Go, Calm, queueVars, jobVars, poolVars, threadVars, mainVars, history
  <2> QED BY <2>1, <2>2, CalmKeeps DEF Calm
<1>17. ASSUME Execute PROVE Emptied'
  <2>1. Calm
    BY <1>17, PoolBasics DEF Execute, PInv, PType, InHand, Placed, MainPlaced, Go, Calm,
       queueVars, jobVars, poolVars, threadVars, mainVars, history
  <2> QED BY <2>1, CalmKeeps
<1>18. ASSUME Abort PROVE Emptied'
  <2>1. Calm
    BY <1>18, PoolBasics DEF Abort, PInv, PType, InHand, Placed, MainPlaced, Go, Calm,
       queueVars, jobVars, poolVars, threadVars, mainVars, history
  <2> QED BY <2>1, CalmKeeps
<1>19. ASSUME CountAdded PROVE Emptied'
  <2>1. pc'[Main] \in {"countJob", "user"}
    BY <1>19, PoolBasics DEF CountAdded, PInv, PType, InHand, Placed, MainPlaced, Go, Calm,
       queueVars, jobVars, poolVars, threadVars, mainVars, history
  <2> QED BY <2>1 DEF Emptied
<1>20. ASSUME CountJob PROVE Emptied'
  <2>1. Calm
    BY <1>20, PoolBasics DEF CountJob, PInv, PType, InHand, Placed, MainPlaced, Go, Calm,
       queueVars, jobVars, poolVars, threadVars, mainVars, history
  <2> QED BY <2>1, CalmKeeps
<1>21. ASSUME YieldHelp PROVE Emptied'
  <2>1. \A r \in Queues : m_nItems[r] = 0 => m_nItems'[r] = 0
    BY <1>21, PoolBasics, ReserveCalm DEF YieldHelp, queueVars
  <2>2. /\ pc'[Main] = "resume" => pc[Main] = "resume"
        /\ caller' = "abortAll" /\ pc'[Main] \in {"drain", "scan", "abortPopped"} =>
             /\ caller = "abortAll" /\ pc[Main] \in {"drain", "scan", "abortPopped"}
             /\ index' = index
    BY <1>21, PoolBasics DEF YieldHelp, PInv, PType, InHand, Placed, MainPlaced, Go, Calm,
       queueVars, jobVars, poolVars, threadVars, mainVars, history
  <2> QED BY <2>1, <2>2, CalmKeeps DEF Calm
<1>22. ASSUME YieldDone PROVE Emptied'
  <2>1. Calm
    BY <1>22, PoolBasics DEF YieldDone, PInv, PType, InHand, Placed, MainPlaced, Go, Calm,
       queueVars, jobVars, poolVars, threadVars, mainVars, history
  <2> QED BY <2>1, CalmKeeps
<1>23. ASSUME CallWorker PROVE Emptied'
  <2>1. Calm
    BY <1>23, PoolBasics DEF CallWorker, PInv, PType, InHand, Placed, MainPlaced, Go, Calm,
       queueVars, jobVars, poolVars, threadVars, mainVars, history
  <2> QED BY <2>1, CalmKeeps
<1>24. ASSUME WaitForSuspension PROVE Emptied'
  <2>1. /\ pc'[Main] \in {"user", "drain"} /\ index' = 0 /\ UNCHANGED m_nItems
    BY <1>24, PoolBasics DEF WaitForSuspension, PInv, PType, InHand, Placed, MainPlaced, Go,
       Calm, queueVars, jobVars, poolVars, threadVars, mainVars, history
  <2>2. \A q \in Queues : ~Behind(q)'
    <3>1. \A q \in Queues : q = Shared \/ q \in Nat
      BY ThreadPoolAssumption DEF Workers
    <3> QED BY <2>1, <3>1 DEF Behind
  <2> QED BY <2>1, <2>2 DEF Emptied
<1>25. ASSUME DrainPop PROVE Emptied'
  <2>1. Calm
    BY <1>25, PoolBasics DEF DrainPop, Reserve, PInv, PType, InHand, Placed, MainPlaced, Go,
       Calm, queueVars, jobVars, poolVars, threadVars, mainVars, history
  <2> QED BY <2>1, CalmKeeps
<1>26. ASSUME AbortPopped PROVE Emptied'
  <2>1. Calm
    BY <1>26, PoolBasics DEF AbortPopped, PInv, PType, InHand, Placed, MainPlaced, Go, Calm,
       queueVars, jobVars, poolVars, threadVars, mainVars, history
  <2> QED BY <2>1, CalmKeeps
<1>27. ASSUME DrainNext PROVE Emptied'
  <2>1. /\ pc[Main] = "drain" /\ caller = "abortAll" /\ m_nItems[Drained] = 0
        /\ index \in Nat /\ index' = index + 1 /\ UNCHANGED <<pc, caller, m_nItems>>
    BY <1>27, PoolBasics DEF DrainNext, PInv, PType, InHand, Placed, MainPlaced, Go, Calm,
       queueVars, jobVars, poolVars, threadVars, mainVars, history
  <2>2. \A q \in Queues : Behind(q)' => Behind(q) \/ q = Drained
    <3>1. \A q \in Queues : q = Shared \/ q \in Nat
      BY ThreadPoolAssumption DEF Workers
    <3> QED BY <2>1, <3>1 DEF Behind, Drained
  <2> QED BY <2>1, <2>2 DEF Emptied
<1>28. ASSUME DrainDone PROVE Emptied'
  <2>1. /\ pc[Main] = "drain" /\ caller = "abortAll" /\ m_nItems[Drained] = 0
        /\ index = NumWorkers /\ pc'[Main] = "resume" /\ UNCHANGED <<caller, m_nItems>>
    BY <1>28, PoolBasics DEF DrainDone, PInv, PType, InHand, Placed, MainPlaced, Go, Calm,
       queueVars, jobVars, poolVars, threadVars, mainVars, history
  <2>2. \A q \in Queues : Behind(q) \/ q = Drained
    <3>1. \A q \in Queues : q = Shared \/ q \in 0 .. NumWorkers - 1
      BY ThreadPoolAssumption DEF Workers
    <3> QED BY <2>1, <3>1, PoolBasics DEF Behind, Drained
  <2> QED BY <2>1, <2>2 DEF Emptied
<1>29. ASSUME ResumeExecution PROVE Emptied'
  <2>1. Calm
    BY <1>29, PoolBasics DEF ResumeExecution, PInv, PType, InHand, Placed, MainPlaced, Go,
       Calm, queueVars, jobVars, poolVars, threadVars, mainVars, history
  <2> QED BY <2>1, CalmKeeps
<1>30. ASSUME NEW j \in Jobs, AddInPlace(j) PROVE Emptied'
  <2>1. Calm
    BY <1>30, PoolBasics DEF AddInPlace, Call, PInv, PType, InHand, Placed, MainPlaced, Go,
       Calm, queueVars, jobVars, poolVars, threadVars, mainVars, history
  <2> QED BY <2>1, CalmKeeps
<1>31. ASSUME NEW j \in Jobs, AddHandled(j) PROVE Emptied'
  <2>1. Calm
    BY <1>31, PoolBasics DEF AddHandled, Call, PInv, PType, InHand, Placed, MainPlaced, Go,
       Calm, queueVars, jobVars, poolVars, threadVars, mainVars, history
  <2> QED BY <2>1, CalmKeeps
<1>32. ASSUME NEW j \in Jobs, AddToQueue(j) PROVE Emptied'
  <2>1. Calm
    BY <1>32, PoolBasics DEF AddToQueue, Call, PushItem, PInv, PType, InHand, Placed,
       MainPlaced, Go, Calm, queueVars, jobVars, poolVars, threadVars, mainVars, history
  <2> QED BY <2>1, CalmKeeps
<1>33. ASSUME NEW j \in Jobs, CallExecute(j) PROVE Emptied'
  <2>1. Calm
    BY <1>33, PoolBasics DEF CallExecute, Call, PInv, PType, InHand, Placed, MainPlaced, Go,
       Calm, queueVars, jobVars, poolVars, threadVars, mainVars, history
  <2> QED BY <2>1, CalmKeeps
<1>34. ASSUME NEW j \in Jobs, CallAbort(j) PROVE Emptied'
  <2>1. Calm
    BY <1>34, PoolBasics DEF CallAbort, Call, PInv, PType, InHand, Placed, MainPlaced, Go,
       Calm, queueVars, jobVars, poolVars, threadVars, mainVars, history
  <2> QED BY <2>1, CalmKeeps
<1>35. ASSUME NEW j \in Jobs, ReleaseOwned(j) PROVE Emptied'
  <2>1. Calm
    BY <1>35, PoolBasics DEF ReleaseOwned, Call, PInv, PType, InHand, Placed, MainPlaced, Go,
       Calm, queueVars, jobVars, poolVars, threadVars, mainVars, history
  <2> QED BY <2>1, CalmKeeps
<1>36. ASSUME NEW j \in Jobs, CallYieldWait(j) PROVE Emptied'
  <2>1. Calm
    BY <1>36, PoolBasics DEF CallYieldWait, Call, PInv, PType, InHand, Placed, MainPlaced,
       Go, Calm, queueVars, jobVars, poolVars, threadVars, mainVars, history
  <2> QED BY <2>1, CalmKeeps
<1>37. ASSUME NEW j \in Jobs, NEW p \in Priorities, ChangePriority(j, p) PROVE Emptied'
  <2>1. Calm
    BY <1>37, PoolBasics DEF ChangePriority, Call, PushItem, PInv, PType, InHand, Placed,
       MainPlaced, Go, Calm, queueVars, jobVars, poolVars, threadVars, mainVars, history
  <2> QED BY <2>1, CalmKeeps
<1>38. ASSUME NEW by \in {"user", "abortAll"}, CallSuspend(by) PROVE Emptied'
  <2>1. /\ pc'[Main] \in {"call", "drain"} /\ index' = 0 /\ UNCHANGED m_nItems
    BY <1>38, PoolBasics DEF CallSuspend, PInv, PType, InHand, Placed, MainPlaced, Go, Calm,
       queueVars, jobVars, poolVars, threadVars, mainVars, history
  <2>2. \A q \in Queues : ~Behind(q)'
    <3>1. \A q \in Queues : q = Shared \/ q \in Nat
      BY ThreadPoolAssumption DEF Workers
    <3> QED BY <2>1, <3>1 DEF Behind
  <2> QED BY <2>1, <2>2 DEF Emptied
<1>39. ASSUME UNCHANGED vars PROVE Emptied'
  <2>1. Calm
    BY <1>39, PoolBasics DEF vars, PInv, PType, InHand, Placed, MainPlaced, Go, Calm,
       queueVars, jobVars, poolVars, threadVars, mainVars, history
  <2> QED BY <2>1, CalmKeeps
<1>40. ASSUME NEW t \in Threads, Service(t) PROVE Emptied'
  BY <1>40, <1>1, <1>2, <1>3, <1>4, <1>5, <1>6, <1>7, <1>8, <1>9, <1>10 DEF Service
<1>41. ASSUME NEW w \in Workers, Worker(w) PROVE Emptied'
  BY <1>41, <1>11, <1>12, <1>13, <1>14, <1>15, <1>16, <1>40, PoolBasics DEF Worker
<1>42. ASSUME MainInside PROVE Emptied'
  BY <1>42, <1>17, <1>18, <1>19, <1>20, <1>21, <1>22, <1>23, <1>24, <1>25, <1>26, <1>27,
     <1>28, <1>29, <1>40, PoolBasics DEF MainInside
<1>43. ASSUME MainCalls PROVE Emptied'
  BY <1>43, <1>30, <1>31, <1>32, <1>33, <1>34, <1>35, <1>36, <1>37, <1>38 DEF MainCalls
<1> QED BY <1>39, <1>41, <1>42, <1>43 DEF Next

LEMMA AbortInitially == Init => Owner /\ Pending /\ Emptied
<1> SUFFICES ASSUME Init PROVE Owner /\ Pending /\ Emptied
  OBVIOUS
<1>1. Owner
  BY PoolBasics DEF Init, Owner, InExecute
<1>2. Pending
  BY DEF Init, Pending, IsAdded
<1>3. Emptied
  BY PoolBasics DEF Init, Emptied
<1> QED BY <1>1, <1>2, <1>3

LEMMA AbortInvariant == Spec => [](Placed /\ Owner /\ Pending /\ Emptied)
<1>1. Init => Placed /\ Owner /\ Pending /\ Emptied
  BY PlacedInitially, AbortInitially
<1>2. /\ PInv /\ QInv /\ (PInv /\ QInv)'
      /\ Placed /\ Owner /\ Pending /\ Emptied /\ [Next]_vars
      => (Placed /\ Owner /\ Pending /\ Emptied)'
  BY NextPlaced, NextOwner, NextPending, NextEmptied DEF QInv
<1> QED BY <1>1, <1>2, PoolInvariant, PTL DEF Spec

(* When AbortAll lets the workers go on there is nothing in any queue, and every
   job that was added is finished or aborted. *)
THEOREM NothingLeftByAbortAll == Spec => []AbortAllLeavesNothing
<1>1. PInv /\ QInv /\ Placed /\ Owner /\ Pending /\ Emptied => AbortAllLeavesNothing
  <2> SUFFICES ASSUME PInv, QInv, Placed, Owner, Pending, Emptied, pc[Main] = "resume"
               PROVE  /\ Places = {} /\ \A q \in Queues : m_nItems[q] = 0
                      /\ AllFinished
    BY DEF AbortAllLeavesNothing
  <2>1. \A q \in Queues : m_nItems[q] = 0
    BY DEF Emptied
  <2>2. \A w \in Workers : pc[w] = "suspended"
    <3>1. caller = "abortAll" /\ m_nSuspend > 0
      BY DEF Placed, MainPlaced
    <3> QED BY <3>1 DEF PInv, Asleep
  <2>3. \A t \in Threads : pc[t] \in {"resume", "suspended"}
    BY <2>2, ThreadPoolAssumption
  <2>4. \A t \in Threads : qStep[t] # "scan" /\ qStep[t] # "count"
    <3>1. \A t \in Threads : qStep[t] # "scan"
      BY <2>3 DEF PInv, InHand
    <3>2. qStep[Main] # "count"
      BY DEF Placed
    <3>3. \A t \in Threads : qStep[t] # "count"
      BY <3>2 DEF PInv, InHand
    <3> QED BY <3>1, <3>3
  <2>5. ASSUME NEW q \in Queues, NEW p \in Priorities
        PROVE  m_queues[q][p] \in Seq(Jobs) /\ Len(m_queues[q][p]) = 0
    <3>1. N \in 0 .. N /\ QueueType /\ ItemsFinite
      BY Basics DEF QInv
    <3>2. Past(q, N) = {} /\ Counting(q) = {}
      BY <2>4 DEF Past, Counting
    <3>3. Cardinality({}) = 0
      BY FS_EmptySet
    <3>4. Cardinality(Items(q, N)) = 0
      BY <2>1, <3>2, <3>3 DEF QInv, AllPromised
    <3>5. Items(q, N) = {}
      BY <3>1, <3>4, Finite, FS_EmptySet
    <3>6. m_queues[q][p] \in Seq(Jobs)
      BY <3>1 DEF QueueType
    <3>7. PICK n \in Nat : n = Len(m_queues[q][p])
      BY <3>6
    <3>8. CASE n > 0
      <4>1. PICK x \in Priorities \X Nat : x = <<p, 1>>
        BY Basics
      <4>2. x \in Items(q, N)
        BY <3>7, <3>8, <4>1, Basics DEF Items
      <4> QED BY <3>5, <4>2
    <3> QED BY <3>6, <3>7, <3>8
  <2>6. Places = {}
    <3> SUFFICES ASSUME NEW x \in Places PROVE FALSE
      OBVIOUS
    <3>1. PICK q \in Queues, p \in Priorities : x \in {<<q, p, i>> : i \in DOMAIN m_queues[q][p]}
      BY DEF Places
    <3>2. PICK i \in DOMAIN m_queues[q][p] : TRUE
      BY <3>1
    <3>3. i \in 1 .. Len(m_queues[q][p])
      BY <2>5, <3>2
    <3> QED BY <2>5, <3>3
  <2>7. AllFinished
    <3> SUFFICES ASSUME NEW j \in Jobs, IsAdded(j) PROVE IsFinished(j)
      BY DEF AllFinished
    <3>1. Settled(j)
      BY DEF Pending
    <3>2. ~HasEntry(m_queues, j)
      BY <2>5 DEF HasEntry
    <3>3. \A t \in Threads : ~InHands(t, j)
      BY <2>3 DEF InHands, Unsettled
    <3> QED BY <3>1, <3>2, <3>3 DEF Settled
  <2> QED BY <2>1, <2>6, <2>7
<1> QED BY <1>1, PoolInvariant, AbortInvariant, PTL

-----------------------------------------------------------------------------
\* Serial jobs: one queue, one thread, one after the other

SeqIn(s, k) == \E i \in 1 .. Len(s) : s[i] = k
Before(s, x, y) == \E i, k \in 1 .. Len(s) : i < k /\ s[i] = x /\ s[k] = y

LEMMA AppendIn ==
  ASSUME NEW s \in Seq(Jobs), NEW j \in Jobs, NEW k
  PROVE  SeqIn(Append(s, j), k) <=> SeqIn(s, k) \/ k = j
<1>1. /\ Len(s) \in Nat /\ Len(Append(s, j)) = Len(s) + 1 /\ Append(s, j)[Len(s) + 1] = j
      /\ \A i \in 1 .. Len(s) : Append(s, j)[i] = s[i]
  OBVIOUS
<1>2. PICK z : z = Append(s, j)
  OBVIOUS
<1>3. ASSUME SeqIn(z, k) PROVE SeqIn(s, k) \/ k = j
  BY <1>1, <1>2, <1>3 DEF SeqIn
<1>4. ASSUME SeqIn(s, k) PROVE SeqIn(z, k)
  BY <1>1, <1>2, <1>4 DEF SeqIn
<1>5. SeqIn(z, j)
  BY <1>1, <1>2 DEF SeqIn
<1> QED BY <1>2, <1>3, <1>4, <1>5

LEMMA AppendBefore ==
  ASSUME NEW s \in Seq(Jobs), NEW j \in Jobs, NEW x, NEW y
  PROVE  Before(Append(s, j), x, y) <=> Before(s, x, y) \/ (SeqIn(s, x) /\ y = j)
<1>1. /\ Len(s) \in Nat /\ Len(Append(s, j)) = Len(s) + 1 /\ Append(s, j)[Len(s) + 1] = j
      /\ \A i \in 1 .. Len(s) : Append(s, j)[i] = s[i]
  OBVIOUS
<1>2. PICK z : z = Append(s, j)
  OBVIOUS
<1>3. ASSUME Before(z, x, y) PROVE Before(s, x, y) \/ (SeqIn(s, x) /\ y = j)
  <2>1. PICK i \in 1 .. Len(z), k \in 1 .. Len(z) : i < k /\ z[i] = x /\ z[k] = y
    BY <1>3 DEF Before
  <2>2. i \in 1 .. Len(s) /\ s[i] = x
    BY <1>1, <1>2, <2>1
  <2>3. CASE k = Len(s) + 1
    BY <1>1, <1>2, <2>1, <2>2, <2>3 DEF SeqIn
  <2>4. CASE k # Len(s) + 1
    <3>1. k \in 1 .. Len(s) /\ s[k] = y
      BY <1>1, <1>2, <2>1, <2>4
    <3> QED BY <2>1, <2>2, <3>1 DEF Before
  <2> QED BY <2>3, <2>4
<1>4. ASSUME Before(s, x, y) PROVE Before(z, x, y)
  <2>1. PICK i \in 1 .. Len(s), k \in 1 .. Len(s) : i < k /\ s[i] = x /\ s[k] = y
    BY <1>4 DEF Before
  <2>2. i \in 1 .. Len(z) /\ k \in 1 .. Len(z) /\ z[i] = x /\ z[k] = y
    BY <1>1, <1>2, <2>1
  <2> QED BY <2>1, <2>2 DEF Before
<1>5. ASSUME SeqIn(s, x), y = j PROVE Before(z, x, y)
  <2>1. PICK i \in 1 .. Len(s) : s[i] = x
    BY <1>5 DEF SeqIn
  <2>2. PICK k \in 1 .. Len(z) : k = Len(s) + 1
    BY <1>1, <1>2
  <2>3. i \in 1 .. Len(z) /\ i < k /\ z[i] = x /\ z[k] = y
    BY <1>1, <1>2, <1>5, <2>1, <2>2
  <2> QED BY <2>3 DEF Before
<1> QED BY <1>2, <1>3, <1>4, <1>5

LEMMA TailIn ==
  ASSUME NEW s \in Seq(Jobs), s # <<>>, NEW k
  PROVE  SeqIn(s, k) <=> SeqIn(Tail(s), k) \/ k = Head(s)
<1>1. PICK z : z = Tail(s)
  OBVIOUS
<1>2. /\ Head(s) = s[1] /\ Len(s) \in Nat /\ Len(s) >= 1 /\ Len(z) = Len(s) - 1
      /\ \A i \in 1 .. Len(s) - 1 : z[i] = s[i + 1]
  BY <1>1
<1>3. ASSUME SeqIn(s, k), k # Head(s) PROVE SeqIn(z, k)
  <2>1. PICK i \in 1 .. Len(s) : s[i] = k
    BY <1>3 DEF SeqIn
  <2>2. PICK h \in 1 .. Len(z) : h + 1 = i
    <3>1. i - 1 \in 1 .. Len(z) /\ (i - 1) + 1 = i
      BY <1>2, <1>3, <2>1
    <3> QED BY <3>1
  <2>3. z[h] = k
    BY <1>2, <2>1, <2>2
  <2> QED BY <2>3 DEF SeqIn
<1>4. ASSUME SeqIn(z, k) PROVE SeqIn(s, k)
  <2>1. PICK i \in 1 .. Len(z) : z[i] = k
    BY <1>4 DEF SeqIn
  <2>2. i + 1 \in 1 .. Len(s) /\ s[i + 1] = k
    BY <1>2, <2>1
  <2> QED BY <2>2 DEF SeqIn
<1>5. SeqIn(s, Head(s))
  <2>1. 1 \in 1 .. Len(s)
    BY <1>2
  <2> QED BY <1>2, <2>1 DEF SeqIn
<1> QED BY <1>1, <1>3, <1>4, <1>5

LEMMA TailBefore ==
  ASSUME NEW s \in Seq(Jobs), s # <<>>, NEW x, NEW y
  PROVE  /\ Before(Tail(s), x, y) => Before(s, x, y)
         /\ x = Head(s) /\ SeqIn(Tail(s), y) => Before(s, x, y)
<1>1. PICK z : z = Tail(s)
  OBVIOUS
<1>2. /\ Head(s) = s[1] /\ Len(s) \in Nat /\ Len(s) >= 1 /\ Len(z) = Len(s) - 1
      /\ \A i \in 1 .. Len(s) - 1 : z[i] = s[i + 1]
  BY <1>1
<1>3. ASSUME Before(z, x, y) PROVE Before(s, x, y)
  <2>1. PICK i \in 1 .. Len(z), k \in 1 .. Len(z) : i < k /\ z[i] = x /\ z[k] = y
    BY <1>3 DEF Before
  <2>2. /\ i + 1 \in 1 .. Len(s) /\ k + 1 \in 1 .. Len(s) /\ i + 1 < k + 1
        /\ s[i + 1] = x /\ s[k + 1] = y
    BY <1>2, <2>1
  <2> QED BY <2>2 DEF Before
<1>4. ASSUME x = Head(s), SeqIn(z, y) PROVE Before(s, x, y)
  <2>1. PICK k \in 1 .. Len(z) : z[k] = y
    BY <1>4 DEF SeqIn
  <2>2. /\ 1 \in 1 .. Len(s) /\ k + 1 \in 1 .. Len(s) /\ 1 < k + 1
        /\ s[1] = x /\ s[k + 1] = y
    BY <1>2, <1>4, <2>1
  <2> QED BY <2>2 DEF Before
<1> QED BY <1>1, <1>3, <1>4

LEMMA BeforeIn ==
  ASSUME NEW s, NEW x, NEW y, Before(s, x, y)
  PROVE  SeqIn(s, x) /\ SeqIn(s, y)
BY DEF Before, SeqIn

LEMMA EntryIn ==
  ASSUME NEW Q, NEW k
  PROVE  /\ HasEntry(Q, k) => \E q \in Queues, p \in Priorities : SeqIn(Q[q][p], k)
         /\ \A q \in Queues, p \in Priorities : SeqIn(Q[q][p], k) => HasEntry(Q, k)
BY DEF HasEntry, SeqIn

\* The jobs SerialOrder is about.
InLine(j) == j \in Serial /\ j \in Queued /\ j \notin outOfLine

InProgramOrder ==
  /\ added \in Seq(Jobs) /\ Len(added) <= Len(Program)
  /\ \A i \in 1 .. Len(added) : added[i] = Program[i]
Fresh ==
  \A k \in Jobs : InLine(k) /\ ~SeqIn(added, k) =>
    /\ m_status[k] = "unserviced" /\ ~HasEntry(m_queues, k)
    /\ \A t \in Threads : job[t] # k
Lined ==
  \A k \in Jobs : InLine(k) =>
    /\ \A q \in Queues, p \in Priorities :
         SeqIn(m_queues[q][p], k) => q = 0 /\ p = m_priority[k]
    /\ HasEntry(m_queues, k) => m_status[k] = "pending" /\ \A t \in Threads : job[t] # k
Ordered ==
  \A p \in Priorities : \A x, y \in Jobs :
    InLine(x) /\ InLine(y) /\ Before(m_queues[0][p], x, y) => Before(added, x, y)
InTurn ==
  \A x, y \in Jobs :
    /\ InLine(x) /\ InLine(y) /\ m_priority[x] = m_priority[y]
    /\ Before(added, x, y) /\ ~HasEntry(m_queues, y)
    => IsFinished(x)
Lone ==
  \A t \in Threads : \A k \in Jobs :
    InLine(k) /\ job[t] = k => t = 0 \/ (t = Main /\ caller = "abortAll")
SInv == InProgramOrder /\ Fresh /\ Lined /\ Ordered /\ InTurn /\ Lone

LEMMA BeforeStrict ==
  ASSUME InProgramOrder, NEW x, NEW y, Before(added, x, y)
  PROVE  x # y /\ ~Before(added, y, x)
<1>1. \A i, k \in 1 .. Len(added) : added[i] = added[k] => i = k
  <2>1. Program \in Seq(Jobs) /\ \A i, k \in DOMAIN Program : Program[i] = Program[k] => i = k
    BY ThreadPoolAssumption
  <2>2. DOMAIN Program = 1 .. Len(Program) /\ Len(Program) \in Nat /\ Len(added) \in Nat
    BY <2>1 DEF InProgramOrder
  <2>3. \A i \in 1 .. Len(added) : i \in DOMAIN Program /\ added[i] = Program[i]
    BY <2>2 DEF InProgramOrder
  <2> QED BY <2>1, <2>3
<1>2. PICK i \in 1 .. Len(added), k \in 1 .. Len(added) : i < k /\ added[i] = x /\ added[k] = y
  BY DEF Before
<1>3. x # y
  BY <1>1, <1>2
<1>4. ASSUME Before(added, y, x) PROVE FALSE
  <2>1. PICK a \in 1 .. Len(added), b \in 1 .. Len(added) : a < b /\ added[a] = y /\ added[b] = x
    BY <1>4 DEF Before
  <2>2. a = k /\ b = i
    BY <1>1, <1>2, <2>1
  <2> QED BY <1>2, <2>1, <2>2
<1> QED BY <1>3, <1>4

\* What the program adds next was not added before.
LEMMA NextIsNew ==
  ASSUME InProgramOrder, NEW j \in Jobs, IsNext(j), added' = Append(added, j)
  PROVE  InProgramOrder' /\ ~SeqIn(added, j)
<1>1. /\ Program \in Seq(Jobs) /\ \A i, k \in DOMAIN Program : Program[i] = Program[k] => i = k
      /\ added \in Seq(Jobs) /\ Len(added) \in Nat /\ Len(Program) \in Nat
      /\ DOMAIN Program = 1 .. Len(Program)
  BY ThreadPoolAssumption DEF InProgramOrder
<1>2. Len(added) < Len(Program) /\ j = Program[Len(added) + 1]
  BY DEF IsNext
<1>3. ~SeqIn(added, j)
  <2> SUFFICES ASSUME NEW i \in 1 .. Len(added), added[i] = j PROVE FALSE
    BY DEF SeqIn
  <2>1. i \in DOMAIN Program /\ Len(added) + 1 \in DOMAIN Program /\ Program[i] = j
    BY <1>1, <1>2 DEF InProgramOrder
  <2>2. i = Len(added) + 1
    BY <1>1, <1>2, <2>1
  <2> QED BY <1>1, <2>2
<1>4. /\ added' \in Seq(Jobs) /\ Len(added') = Len(added) + 1 /\ added'[Len(added) + 1] = j
      /\ \A i \in 1 .. Len(added) : added'[i] = added[i]
  BY <1>1
<1>5. InProgramOrder'
  BY <1>1, <1>2, <1>4 DEF InProgramOrder
<1> QED BY <1>3, <1>5

\* Who pops a job from the first worker's queue.
LEMMA PopperIs ==
  ASSUME PInv, QueueType, Placed, Uses, NEW t \in Threads, pc[t] = "scan", qUsed[t] = 0
  PROVE  t = 0 \/ (t = Main /\ caller = "abortAll")
<1>1. qStep[t] = "scan"
  BY DEF PInv, InHand
<1>2. 0 # Shared
  BY ThreadPoolAssumption, PoolBasics
<1>3. t \in Workers \/ t = Main
  BY ThreadPoolAssumption
<1>4. t = Main => caller = "abortAll"
  BY <1>1, <1>2 DEF Uses, Placed, MainPlaced
<1> QED BY <1>1, <1>2, <1>3, <1>4 DEF Uses

\* A step that adds and queues nothing, and takes no job that is in line.
SQuiet ==
  /\ UNCHANGED <<m_queues, added, m_priority>> /\ outOfLine \subseteq outOfLine'
  /\ \A k \in Jobs : IsFinished(k) => IsFinished(k)'
  /\ \A k \in Jobs : m_status'[k] = m_status[k] \/ \E t \in Threads : job[t] = k
  /\ \A t \in Threads : \A k \in Jobs : InLine(k)' /\ job'[t] = k => job[t] = k
  /\ \A k \in Jobs : InLine(k)' /\ job'[Main] = k /\ caller = "abortAll" => caller' = "abortAll"

LEMMA SQuietKeeps ==
  ASSUME SInv, SQuiet
  PROVE  SInv'
<1>1. \A k \in Jobs : InLine(k)' => InLine(k)
  BY DEF SQuiet, InLine
<1>2. InProgramOrder'
  BY DEF SInv, SQuiet, InProgramOrder
<1>3. ASSUME NEW k \in Jobs, InLine(k)'
      PROVE  (~SeqIn(added, k) =>
                /\ m_status[k] = "unserviced" /\ ~HasEntry(m_queues, k)
                /\ \A t \in Threads : job[t] # k)'
  <2>1. ~SeqIn(added, k) =>
          /\ m_status[k] = "unserviced" /\ ~HasEntry(m_queues, k)
          /\ \A t \in Threads : job[t] # k
    BY <1>1, <1>3 DEF SInv, Fresh
  <2>2. UNCHANGED <<m_queues, added>>
    BY DEF SQuiet
  <2>3. (\A t \in Threads : job[t] # k) => m_status'[k] = m_status[k] /\ \A t \in Threads : job'[t] # k
    BY <1>3 DEF SQuiet
  <2> QED BY <2>1, <2>2, <2>3
<1>4. ASSUME NEW k \in Jobs, InLine(k)'
      PROVE  (/\ \A q \in Queues, p \in Priorities :
                   SeqIn(m_queues[q][p], k) => q = 0 /\ p = m_priority[k]
              /\ HasEntry(m_queues, k) => m_status[k] = "pending" /\ \A t \in Threads : job[t] # k)'
  <2>1. /\ \A q \in Queues, p \in Priorities :
               SeqIn(m_queues[q][p], k) => q = 0 /\ p = m_priority[k]
        /\ HasEntry(m_queues, k) => m_status[k] = "pending" /\ \A t \in Threads : job[t] # k
    BY <1>1, <1>4 DEF SInv, Lined
  <2>2. UNCHANGED <<m_queues, m_priority>>
    BY DEF SQuiet
  <2>3. (\A t \in Threads : job[t] # k) => m_status'[k] = m_status[k] /\ \A t \in Threads : job'[t] # k
    BY <1>4 DEF SQuiet
  <2> QED BY <2>1, <2>2, <2>3
<1>5. Ordered'
  <2>1. UNCHANGED <<m_queues, added>>
    BY DEF SQuiet
  <2> QED BY <1>1, <2>1 DEF SInv, Ordered
<1>6. InTurn'
  <2>1. UNCHANGED <<m_queues, added, m_priority>>
    BY DEF SQuiet
  <2>2. \A k \in Jobs : IsFinished(k) => IsFinished(k)'
    BY DEF SQuiet
  <2> QED BY <1>1, <2>1, <2>2 DEF SInv, InTurn
<1>7. Lone'
  <2> SUFFICES ASSUME NEW t \in Threads, NEW k \in Jobs, InLine(k)', job'[t] = k
               PROVE  t = 0 \/ (t = Main /\ caller' = "abortAll")
    BY DEF Lone
  <2>1. t = 0 \/ (t = Main /\ caller = "abortAll")
    BY <1>1 DEF SInv, SQuiet, Lone
  <2> QED BY <2>1 DEF SQuiet
<1> QED BY <1>2, <1>3, <1>4, <1>5, <1>6, <1>7 DEF SInv, Fresh, Lined

LEMMA ScanSQuiet ==
  ASSUME PInv, QueueType, Placed, Owner, NEW t \in Threads, Scan(t)
  PROVE  SQuiet
<1>1. UNCHANGED <<m_queues, added, m_priority>> /\ outOfLine \subseteq outOfLine'
  BY PoolBasics DEF Scan, ScanLower, SQuiet, InLine, PInv, PType, InHand, WithJob, Placed,
     MainPlaced, Owner, InExecute, Go, IsFinished, queueVars, jobVars, poolVars, threadVars,
     mainVars, history
<1>2. /\ \A k \in Jobs : IsFinished(k) => IsFinished(k)'
      /\ \A k \in Jobs : m_status'[k] = m_status[k] \/ \E u \in Threads : job[u] = k
  BY PoolBasics DEF Scan, ScanLower, SQuiet, InLine, PInv, PType, InHand, WithJob, Placed,
     MainPlaced, Owner, InExecute, Go, IsFinished, queueVars, jobVars, poolVars, threadVars,
     mainVars, history
<1>3. /\ \A u \in Threads : \A k \in Jobs : InLine(k)' /\ job'[u] = k => job[u] = k
      /\ \A k \in Jobs : InLine(k)' /\ job'[Main] = k /\ caller = "abortAll" => caller' = "abortAll"
  BY PoolBasics DEF Scan, ScanLower, SQuiet, InLine, PInv, PType, InHand, WithJob, Placed,
     MainPlaced, Owner, InExecute, Go, IsFinished, queueVars, jobVars, poolVars, threadVars,
     mainVars, history
<1> QED BY <1>1, <1>2, <1>3 DEF SQuiet

LEMMA CheckFinishedSQuiet ==
  ASSUME PInv, QueueType, Placed, Owner, NEW t \in Threads, CheckFinished(t)
  PROVE  SQuiet
<1>1. UNCHANGED <<m_queues, added, m_priority>> /\ outOfLine \subseteq outOfLine'
  BY PoolBasics DEF CheckFinished, SQuiet, InLine, PInv, PType, InHand, WithJob, Placed,
     MainPlaced, Owner, InExecute, Go, IsFinished, queueVars, jobVars, poolVars, threadVars,
     mainVars, history
<1>2. /\ \A k \in Jobs : IsFinished(k) => IsFinished(k)'
      /\ \A k \in Jobs : m_status'[k] = m_status[k] \/ \E u \in Threads : job[u] = k
  BY PoolBasics DEF CheckFinished, SQuiet, InLine, PInv, PType, InHand, WithJob, Placed,
     MainPlaced, Owner, InExecute, Go, IsFinished, queueVars, jobVars, poolVars, threadVars,
     mainVars, history
<1>3. /\ \A u \in Threads : \A k \in Jobs : InLine(k)' /\ job'[u] = k => job[u] = k
      /\ \A k \in Jobs : InLine(k)' /\ job'[Main] = k /\ caller = "abortAll" => caller' = "abortAll"
  BY PoolBasics DEF CheckFinished, SQuiet, InLine, PInv, PType, InHand, WithJob, Placed,
     MainPlaced, Owner, InExecute, Go, IsFinished, queueVars, jobVars, poolVars, threadVars,
     mainVars, history
<1> QED BY <1>1, <1>2, <1>3 DEF SQuiet

LEMMA TryLockFailsSQuiet ==
  ASSUME PInv, QueueType, Placed, Owner, NEW t \in Threads, TryLockFails(t)
  PROVE  SQuiet
<1>1. UNCHANGED <<m_queues, added, m_priority>> /\ outOfLine \subseteq outOfLine'
  BY PoolBasics DEF TryLockFails, SQuiet, InLine, PInv, PType, InHand, WithJob, Placed,
     MainPlaced, Owner, InExecute, Go, IsFinished, queueVars, jobVars, poolVars, threadVars,
     mainVars, history
<1>2. /\ \A k \in Jobs : IsFinished(k) => IsFinished(k)'
      /\ \A k \in Jobs : m_status'[k] = m_status[k] \/ \E u \in Threads : job[u] = k
  BY PoolBasics DEF TryLockFails, SQuiet, InLine, PInv, PType, InHand, WithJob, Placed,
     MainPlaced, Owner, InExecute, Go, IsFinished, queueVars, jobVars, poolVars, threadVars,
     mainVars, history
<1>3. /\ \A u \in Threads : \A k \in Jobs : InLine(k)' /\ job'[u] = k => job[u] = k
      /\ \A k \in Jobs : InLine(k)' /\ job'[Main] = k /\ caller = "abortAll" => caller' = "abortAll"
  BY PoolBasics DEF TryLockFails, SQuiet, InLine, PInv, PType, InHand, WithJob, Placed,
     MainPlaced, Owner, InExecute, Go, IsFinished, queueVars, jobVars, poolVars, threadVars,
     mainVars, history
<1> QED BY <1>1, <1>2, <1>3 DEF SQuiet

LEMMA BeginSQuiet ==
  ASSUME PInv, QueueType, Placed, Owner, NEW t \in Threads, Begin(t)
  PROVE  SQuiet
<1>1. UNCHANGED <<m_queues, added, m_priority>> /\ outOfLine \subseteq outOfLine'
  BY PoolBasics DEF Begin, CanExecute, SQuiet, InLine, PInv, PType, InHand, WithJob, Placed,
     MainPlaced, Owner, InExecute, Go, IsFinished, queueVars, jobVars, poolVars, threadVars,
     mainVars, history
<1>2. /\ \A k \in Jobs : IsFinished(k) => IsFinished(k)'
      /\ \A k \in Jobs : m_status'[k] = m_status[k] \/ \E u \in Threads : job[u] = k
  BY PoolBasics DEF Begin, CanExecute, SQuiet, InLine, PInv, PType, InHand, WithJob, Placed,
     MainPlaced, Owner, InExecute, Go, IsFinished, queueVars, jobVars, poolVars, threadVars,
     mainVars, history
<1>3. /\ \A u \in Threads : \A k \in Jobs : InLine(k)' /\ job'[u] = k => job[u] = k
      /\ \A k \in Jobs : InLine(k)' /\ job'[Main] = k /\ caller = "abortAll" => caller' = "abortAll"
  BY PoolBasics DEF Begin, CanExecute, SQuiet, InLine, PInv, PType, InHand, WithJob, Placed,
     MainPlaced, Owner, InExecute, Go, IsFinished, queueVars, jobVars, poolVars, threadVars,
     mainVars, history
<1> QED BY <1>1, <1>2, <1>3 DEF SQuiet

LEMMA TooLateSQuiet ==
  ASSUME PInv, QueueType, Placed, Owner, NEW t \in Threads, TooLate(t)
  PROVE  SQuiet
<1>1. UNCHANGED <<m_queues, added, m_priority>> /\ outOfLine \subseteq outOfLine'
  BY PoolBasics DEF TooLate, AfterExecute, CanExecute, SQuiet, InLine, PInv, PType, InHand,
     WithJob, Placed, MainPlaced, Owner, InExecute, Go, IsFinished, queueVars, jobVars,
     poolVars, threadVars, mainVars, history
<1>2. /\ \A k \in Jobs : IsFinished(k) => IsFinished(k)'
      /\ \A k \in Jobs : m_status'[k] = m_status[k] \/ \E u \in Threads : job[u] = k
  BY PoolBasics DEF TooLate, AfterExecute, CanExecute, SQuiet, InLine, PInv, PType, InHand,
     WithJob, Placed, MainPlaced, Owner, InExecute, Go, IsFinished, queueVars, jobVars,
     poolVars, threadVars, mainVars, history
<1>3. /\ \A u \in Threads : \A k \in Jobs : InLine(k)' /\ job'[u] = k => job[u] = k
      /\ \A k \in Jobs : InLine(k)' /\ job'[Main] = k /\ caller = "abortAll" => caller' = "abortAll"
  BY PoolBasics DEF TooLate, AfterExecute, CanExecute, SQuiet, InLine, PInv, PType, InHand,
     WithJob, Placed, MainPlaced, Owner, InExecute, Go, IsFinished, queueVars, jobVars,
     poolVars, threadVars, mainVars, history
<1> QED BY <1>1, <1>2, <1>3 DEF SQuiet

LEMMA FinishSQuiet ==
  ASSUME PInv, QueueType, Placed, Owner, NEW t \in Threads, Finish(t)
  PROVE  SQuiet
<1>1. UNCHANGED <<m_queues, added, m_priority>> /\ outOfLine \subseteq outOfLine'
  BY PoolBasics DEF Finish, SQuiet, InLine, PInv, PType, InHand, WithJob, Placed,
     MainPlaced, Owner, InExecute, Go, IsFinished, queueVars, jobVars, poolVars, threadVars,
     mainVars, history
<1>2. /\ \A k \in Jobs : IsFinished(k) => IsFinished(k)'
      /\ \A k \in Jobs : m_status'[k] = m_status[k] \/ \E u \in Threads : job[u] = k
  BY PoolBasics DEF Finish, SQuiet, InLine, PInv, PType, InHand, WithJob, Placed,
     MainPlaced, Owner, InExecute, Go, IsFinished, queueVars, jobVars, poolVars, threadVars,
     mainVars, history
<1>3. /\ \A u \in Threads : \A k \in Jobs : InLine(k)' /\ job'[u] = k => job[u] = k
      /\ \A k \in Jobs : InLine(k)' /\ job'[Main] = k /\ caller = "abortAll" => caller' = "abortAll"
  BY PoolBasics DEF Finish, SQuiet, InLine, PInv, PType, InHand, WithJob, Placed,
     MainPlaced, Owner, InExecute, Go, IsFinished, queueVars, jobVars, poolVars, threadVars,
     mainVars, history
<1> QED BY <1>1, <1>2, <1>3 DEF SQuiet

LEMMA CompleteSQuiet ==
  ASSUME PInv, QueueType, Placed, Owner, NEW t \in Threads, Complete(t)
  PROVE  SQuiet
<1>1. UNCHANGED <<m_queues, added, m_priority>> /\ outOfLine \subseteq outOfLine'
  BY PoolBasics DEF Complete, SQuiet, InLine, PInv, PType, InHand, WithJob, Placed,
     MainPlaced, Owner, InExecute, Go, IsFinished, queueVars, jobVars, poolVars, threadVars,
     mainVars, history
<1>2. /\ \A k \in Jobs : IsFinished(k) => IsFinished(k)'
      /\ \A k \in Jobs : m_status'[k] = m_status[k] \/ \E u \in Threads : job[u] = k
  BY PoolBasics DEF Complete, SQuiet, InLine, PInv, PType, InHand, WithJob, Placed,
     MainPlaced, Owner, InExecute, Go, IsFinished, queueVars, jobVars, poolVars, threadVars,
     mainVars, history
<1>3. /\ \A u \in Threads : \A k \in Jobs : InLine(k)' /\ job'[u] = k => job[u] = k
      /\ \A k \in Jobs : InLine(k)' /\ job'[Main] = k /\ caller = "abortAll" => caller' = "abortAll"
  BY PoolBasics DEF Complete, SQuiet, InLine, PInv, PType, InHand, WithJob, Placed,
     MainPlaced, Owner, InExecute, Go, IsFinished, queueVars, jobVars, poolVars, threadVars,
     mainVars, history
<1> QED BY <1>1, <1>2, <1>3 DEF SQuiet

LEMMA LeaveExecuteSQuiet ==
  ASSUME PInv, QueueType, Placed, Owner, NEW t \in Threads, LeaveExecute(t)
  PROVE  SQuiet
<1>1. UNCHANGED <<m_queues, added, m_priority>> /\ outOfLine \subseteq outOfLine'
  BY PoolBasics DEF LeaveExecute, AfterExecute, SQuiet, InLine, PInv, PType, InHand,
     WithJob, Placed, MainPlaced, Owner, InExecute, Go, IsFinished, queueVars, jobVars,
     poolVars, threadVars, mainVars, history
<1>2. /\ \A k \in Jobs : IsFinished(k) => IsFinished(k)'
      /\ \A k \in Jobs : m_status'[k] = m_status[k] \/ \E u \in Threads : job[u] = k
  BY PoolBasics DEF LeaveExecute, AfterExecute, SQuiet, InLine, PInv, PType, InHand,
     WithJob, Placed, MainPlaced, Owner, InExecute, Go, IsFinished, queueVars, jobVars,
     poolVars, threadVars, mainVars, history
<1>3. /\ \A u \in Threads : \A k \in Jobs : InLine(k)' /\ job'[u] = k => job[u] = k
      /\ \A k \in Jobs : InLine(k)' /\ job'[Main] = k /\ caller = "abortAll" => caller' = "abortAll"
  BY PoolBasics DEF LeaveExecute, AfterExecute, SQuiet, InLine, PInv, PType, InHand,
     WithJob, Placed, MainPlaced, Owner, InExecute, Go, IsFinished, queueVars, jobVars,
     poolVars, threadVars, mainVars, history
<1> QED BY <1>1, <1>2, <1>3 DEF SQuiet

LEMMA ReleaseSQuiet ==
  ASSUME PInv, QueueType, Placed, Owner, NEW t \in Threads, Release(t)
  PROVE  SQuiet
<1>1. UNCHANGED <<m_queues, added, m_priority>> /\ outOfLine \subseteq outOfLine'
  BY PoolBasics DEF Release, BackToWait, SQuiet, InLine, PInv, PType, InHand, WithJob,
     Placed, MainPlaced, Owner, InExecute, Go, IsFinished, queueVars, jobVars, poolVars,
     threadVars, mainVars, history
<1>2. /\ \A k \in Jobs : IsFinished(k) => IsFinished(k)'
      /\ \A k \in Jobs : m_status'[k] = m_status[k] \/ \E u \in Threads : job[u] = k
  BY PoolBasics DEF Release, BackToWait, SQuiet, InLine, PInv, PType, InHand, WithJob,
     Placed, MainPlaced, Owner, InExecute, Go, IsFinished, queueVars, jobVars, poolVars,
     threadVars, mainVars, history
<1>3. /\ \A u \in Threads : \A k \in Jobs : InLine(k)' /\ job'[u] = k => job[u] = k
      /\ \A k \in Jobs : InLine(k)' /\ job'[Main] = k /\ caller = "abortAll" => caller' = "abortAll"
  BY PoolBasics DEF Release, BackToWait, SQuiet, InLine, PInv, PType, InHand, WithJob,
     Placed, MainPlaced, Owner, InExecute, Go, IsFinished, queueVars, jobVars, poolVars,
     threadVars, mainVars, history
<1> QED BY <1>1, <1>2, <1>3 DEF SQuiet

LEMMA AnswerCallSQuiet ==
  ASSUME PInv, QueueType, Placed, Owner, NEW w \in Workers, AnswerCall(w)
  PROVE  SQuiet
<1>1. UNCHANGED <<m_queues, added, m_priority>> /\ outOfLine \subseteq outOfLine'
  BY PoolBasics DEF AnswerCall, SQuiet, InLine, PInv, PType, InHand, WithJob, Placed,
     MainPlaced, Owner, InExecute, Go, IsFinished, queueVars, jobVars, poolVars, threadVars,
     mainVars, history
<1>2. /\ \A k \in Jobs : IsFinished(k) => IsFinished(k)'
      /\ \A k \in Jobs : m_status'[k] = m_status[k] \/ \E u \in Threads : job[u] = k
  BY PoolBasics DEF AnswerCall, SQuiet, InLine, PInv, PType, InHand, WithJob, Placed,
     MainPlaced, Owner, InExecute, Go, IsFinished, queueVars, jobVars, poolVars, threadVars,
     mainVars, history
<1>3. /\ \A u \in Threads : \A k \in Jobs : InLine(k)' /\ job'[u] = k => job[u] = k
      /\ \A k \in Jobs : InLine(k)' /\ job'[Main] = k /\ caller = "abortAll" => caller' = "abortAll"
  BY PoolBasics DEF AnswerCall, SQuiet, InLine, PInv, PType, InHand, WithJob, Placed,
     MainPlaced, Owner, InExecute, Go, IsFinished, queueVars, jobVars, poolVars, threadVars,
     mainVars, history
<1> QED BY <1>1, <1>2, <1>3 DEF SQuiet

LEMMA SuspendSQuiet ==
  ASSUME PInv, QueueType, Placed, Owner, NEW w \in Workers, Suspend(w)
  PROVE  SQuiet
<1>1. UNCHANGED <<m_queues, added, m_priority>> /\ outOfLine \subseteq outOfLine'
  BY PoolBasics DEF Suspend, SQuiet, InLine, PInv, PType, InHand, WithJob, Placed,
     MainPlaced, Owner, InExecute, Go, IsFinished, queueVars, jobVars, poolVars, threadVars,
     mainVars, history
<1>2. /\ \A k \in Jobs : IsFinished(k) => IsFinished(k)'
      /\ \A k \in Jobs : m_status'[k] = m_status[k] \/ \E u \in Threads : job[u] = k
  BY PoolBasics DEF Suspend, SQuiet, InLine, PInv, PType, InHand, WithJob, Placed,
     MainPlaced, Owner, InExecute, Go, IsFinished, queueVars, jobVars, poolVars, threadVars,
     mainVars, history
<1>3. /\ \A u \in Threads : \A k \in Jobs : InLine(k)' /\ job'[u] = k => job[u] = k
      /\ \A k \in Jobs : InLine(k)' /\ job'[Main] = k /\ caller = "abortAll" => caller' = "abortAll"
  BY PoolBasics DEF Suspend, SQuiet, InLine, PInv, PType, InHand, WithJob, Placed,
     MainPlaced, Owner, InExecute, Go, IsFinished, queueVars, jobVars, poolVars, threadVars,
     mainVars, history
<1> QED BY <1>1, <1>2, <1>3 DEF SQuiet

LEMMA ResumedSQuiet ==
  ASSUME PInv, QueueType, Placed, Owner, NEW w \in Workers, Resumed(w)
  PROVE  SQuiet
<1>1. UNCHANGED <<m_queues, added, m_priority>> /\ outOfLine \subseteq outOfLine'
  BY PoolBasics DEF Resumed, SQuiet, InLine, PInv, PType, InHand, WithJob, Placed,
     MainPlaced, Owner, InExecute, Go, IsFinished, queueVars, jobVars, poolVars, threadVars,
     mainVars, history
<1>2. /\ \A k \in Jobs : IsFinished(k) => IsFinished(k)'
      /\ \A k \in Jobs : m_status'[k] = m_status[k] \/ \E u \in Threads : job[u] = k
  BY PoolBasics DEF Resumed, SQuiet, InLine, PInv, PType, InHand, WithJob, Placed,
     MainPlaced, Owner, InExecute, Go, IsFinished, queueVars, jobVars, poolVars, threadVars,
     mainVars, history
<1>3. /\ \A u \in Threads : \A k \in Jobs : InLine(k)' /\ job'[u] = k => job[u] = k
      /\ \A k \in Jobs : InLine(k)' /\ job'[Main] = k /\ caller = "abortAll" => caller' = "abortAll"
  BY PoolBasics DEF Resumed, SQuiet, InLine, PInv, PType, InHand, WithJob, Placed,
     MainPlaced, Owner, InExecute, Go, IsFinished, queueVars, jobVars, poolVars, threadVars,
     mainVars, history
<1> QED BY <1>1, <1>2, <1>3 DEF SQuiet

LEMMA WakeForItemSQuiet ==
  ASSUME PInv, QueueType, Placed, Owner, NEW w \in Workers, WakeForItem(w)
  PROVE  SQuiet
<1>1. UNCHANGED <<m_queues, added, m_priority>> /\ outOfLine \subseteq outOfLine'
  BY PoolBasics DEF WakeForItem, SQuiet, InLine, PInv, PType, InHand, WithJob, Placed,
     MainPlaced, Owner, InExecute, Go, IsFinished, queueVars, jobVars, poolVars, threadVars,
     mainVars, history
<1>2. /\ \A k \in Jobs : IsFinished(k) => IsFinished(k)'
      /\ \A k \in Jobs : m_status'[k] = m_status[k] \/ \E u \in Threads : job[u] = k
  BY PoolBasics DEF WakeForItem, SQuiet, InLine, PInv, PType, InHand, WithJob, Placed,
     MainPlaced, Owner, InExecute, Go, IsFinished, queueVars, jobVars, poolVars, threadVars,
     mainVars, history
<1>3. /\ \A u \in Threads : \A k \in Jobs : InLine(k)' /\ job'[u] = k => job[u] = k
      /\ \A k \in Jobs : InLine(k)' /\ job'[Main] = k /\ caller = "abortAll" => caller' = "abortAll"
  BY PoolBasics DEF WakeForItem, SQuiet, InLine, PInv, PType, InHand, WithJob, Placed,
     MainPlaced, Owner, InExecute, Go, IsFinished, queueVars, jobVars, poolVars, threadVars,
     mainVars, history
<1> QED BY <1>1, <1>2, <1>3 DEF SQuiet

LEMMA PopDirectSQuiet ==
  ASSUME PInv, QueueType, Placed, Owner, NEW w \in Workers, PopDirect(w)
  PROVE  SQuiet
<1>1. UNCHANGED <<m_queues, added, m_priority>> /\ outOfLine \subseteq outOfLine'
  BY PoolBasics DEF PopDirect, Reserve, SQuiet, InLine, PInv, PType, InHand, WithJob,
     Placed, MainPlaced, Owner, InExecute, Go, IsFinished, queueVars, jobVars, poolVars,
     threadVars, mainVars, history
<1>2. /\ \A k \in Jobs : IsFinished(k) => IsFinished(k)'
      /\ \A k \in Jobs : m_status'[k] = m_status[k] \/ \E u \in Threads : job[u] = k
  BY PoolBasics DEF PopDirect, Reserve, SQuiet, InLine, PInv, PType, InHand, WithJob,
     Placed, MainPlaced, Owner, InExecute, Go, IsFinished, queueVars, jobVars, poolVars,
     threadVars, mainVars, history
<1>3. /\ \A u \in Threads : \A k \in Jobs : InLine(k)' /\ job'[u] = k => job[u] = k
      /\ \A k \in Jobs : InLine(k)' /\ job'[Main] = k /\ caller = "abortAll" => caller' = "abortAll"
  BY PoolBasics DEF PopDirect, Reserve, SQuiet, InLine, PInv, PType, InHand, WithJob,
     Placed, MainPlaced, Owner, InExecute, Go, IsFinished, queueVars, jobVars, poolVars,
     threadVars, mainVars, history
<1> QED BY <1>1, <1>2, <1>3 DEF SQuiet

LEMMA PopSharedSQuiet ==
  ASSUME PInv, QueueType, Placed, Owner, NEW w \in Workers, PopShared(w)
  PROVE  SQuiet
<1>1. UNCHANGED <<m_queues, added, m_priority>> /\ outOfLine \subseteq outOfLine'
  BY PoolBasics DEF PopShared, Reserve, BackToWait, SQuiet, InLine, PInv, PType, InHand,
     WithJob, Placed, MainPlaced, Owner, InExecute, Go, IsFinished, queueVars, jobVars,
     poolVars, threadVars, mainVars, history
<1>2. /\ \A k \in Jobs : IsFinished(k) => IsFinished(k)'
      /\ \A k \in Jobs : m_status'[k] = m_status[k] \/ \E u \in Threads : job[u] = k
  BY PoolBasics DEF PopShared, Reserve, BackToWait, SQuiet, InLine, PInv, PType, InHand,
     WithJob, Placed, MainPlaced, Owner, InExecute, Go, IsFinished, queueVars, jobVars,
     poolVars, threadVars, mainVars, history
<1>3. /\ \A u \in Threads : \A k \in Jobs : InLine(k)' /\ job'[u] = k => job[u] = k
      /\ \A k \in Jobs : InLine(k)' /\ job'[Main] = k /\ caller = "abortAll" => caller' = "abortAll"
  BY PoolBasics DEF PopShared, Reserve, BackToWait, SQuiet, InLine, PInv, PType, InHand,
     WithJob, Placed, MainPlaced, Owner, InExecute, Go, IsFinished, queueVars, jobVars,
     poolVars, threadVars, mainVars, history
<1> QED BY <1>1, <1>2, <1>3 DEF SQuiet

LEMMA ExecuteSQuiet ==
  ASSUME PInv, QueueType, Placed, Owner, Execute
  PROVE  SQuiet
<1>1. UNCHANGED <<m_queues, added, m_priority>> /\ outOfLine \subseteq outOfLine'
  BY PoolBasics DEF Execute, SQuiet, InLine, PInv, PType, InHand, WithJob, Placed,
     MainPlaced, Owner, InExecute, Go, IsFinished, queueVars, jobVars, poolVars, threadVars,
     mainVars, history
<1>2. /\ \A k \in Jobs : IsFinished(k) => IsFinished(k)'
      /\ \A k \in Jobs : m_status'[k] = m_status[k] \/ \E u \in Threads : job[u] = k
  BY PoolBasics DEF Execute, SQuiet, InLine, PInv, PType, InHand, WithJob, Placed,
     MainPlaced, Owner, InExecute, Go, IsFinished, queueVars, jobVars, poolVars, threadVars,
     mainVars, history
<1>3. /\ \A u \in Threads : \A k \in Jobs : InLine(k)' /\ job'[u] = k => job[u] = k
      /\ \A k \in Jobs : InLine(k)' /\ job'[Main] = k /\ caller = "abortAll" => caller' = "abortAll"
  BY PoolBasics DEF Execute, SQuiet, InLine, PInv, PType, InHand, WithJob, Placed,
     MainPlaced, Owner, InExecute, Go, IsFinished, queueVars, jobVars, poolVars, threadVars,
     mainVars, history
<1> QED BY <1>1, <1>2, <1>3 DEF SQuiet

LEMMA AbortSQuiet ==
  ASSUME PInv, QueueType, Placed, Owner, Abort
  PROVE  SQuiet
<1>1. UNCHANGED <<m_queues, added, m_priority>> /\ outOfLine \subseteq outOfLine'
  BY PoolBasics DEF Abort, AbortedIfWaiting, CanExecute, SQuiet, InLine, PInv, PType,
     InHand, WithJob, Placed, MainPlaced, Owner, InExecute, Go, IsFinished, queueVars,
     jobVars, poolVars, threadVars, mainVars, history
<1>2. /\ \A k \in Jobs : IsFinished(k) => IsFinished(k)'
      /\ \A k \in Jobs : m_status'[k] = m_status[k] \/ \E u \in Threads : job[u] = k
  BY PoolBasics DEF Abort, AbortedIfWaiting, CanExecute, SQuiet, InLine, PInv, PType,
     InHand, WithJob, Placed, MainPlaced, Owner, InExecute, Go, IsFinished, queueVars,
     jobVars, poolVars, threadVars, mainVars, history
<1>3. /\ \A u \in Threads : \A k \in Jobs : InLine(k)' /\ job'[u] = k => job[u] = k
      /\ \A k \in Jobs : InLine(k)' /\ job'[Main] = k /\ caller = "abortAll" => caller' = "abortAll"
  BY PoolBasics DEF Abort, AbortedIfWaiting, CanExecute, SQuiet, InLine, PInv, PType,
     InHand, WithJob, Placed, MainPlaced, Owner, InExecute, Go, IsFinished, queueVars,
     jobVars, poolVars, threadVars, mainVars, history
<1> QED BY <1>1, <1>2, <1>3 DEF SQuiet

LEMMA CountAddedSQuiet ==
  ASSUME PInv, QueueType, Placed, Owner, CountAdded
  PROVE  SQuiet
<1>1. UNCHANGED <<m_queues, added, m_priority>> /\ outOfLine \subseteq outOfLine'
  BY PoolBasics DEF CountAdded, CountItem, SQuiet, InLine, PInv, PType, InHand, WithJob,
     Placed, MainPlaced, Owner, InExecute, Go, IsFinished, queueVars, jobVars, poolVars,
     threadVars, mainVars, history
<1>2. /\ \A k \in Jobs : IsFinished(k) => IsFinished(k)'
      /\ \A k \in Jobs : m_status'[k] = m_status[k] \/ \E u \in Threads : job[u] = k
  BY PoolBasics DEF CountAdded, CountItem, SQuiet, InLine, PInv, PType, InHand, WithJob,
     Placed, MainPlaced, Owner, InExecute, Go, IsFinished, queueVars, jobVars, poolVars,
     threadVars, mainVars, history
<1>3. /\ \A u \in Threads : \A k \in Jobs : InLine(k)' /\ job'[u] = k => job[u] = k
      /\ \A k \in Jobs : InLine(k)' /\ job'[Main] = k /\ caller = "abortAll" => caller' = "abortAll"
  BY PoolBasics DEF CountAdded, CountItem, SQuiet, InLine, PInv, PType, InHand, WithJob,
     Placed, MainPlaced, Owner, InExecute, Go, IsFinished, queueVars, jobVars, poolVars,
     threadVars, mainVars, history
<1> QED BY <1>1, <1>2, <1>3 DEF SQuiet

LEMMA CountJobSQuiet ==
  ASSUME PInv, QueueType, Placed, Owner, CountJob
  PROVE  SQuiet
<1>1. UNCHANGED <<m_queues, added, m_priority>> /\ outOfLine \subseteq outOfLine'
  BY PoolBasics DEF CountJob, SQuiet, InLine, PInv, PType, InHand, WithJob, Placed,
     MainPlaced, Owner, InExecute, Go, IsFinished, queueVars, jobVars, poolVars, threadVars,
     mainVars, history
<1>2. /\ \A k \in Jobs : IsFinished(k) => IsFinished(k)'
      /\ \A k \in Jobs : m_status'[k] = m_status[k] \/ \E u \in Threads : job[u] = k
  BY PoolBasics DEF CountJob, SQuiet, InLine, PInv, PType, InHand, WithJob, Placed,
     MainPlaced, Owner, InExecute, Go, IsFinished, queueVars, jobVars, poolVars, threadVars,
     mainVars, history
<1>3. /\ \A u \in Threads : \A k \in Jobs : InLine(k)' /\ job'[u] = k => job[u] = k
      /\ \A k \in Jobs : InLine(k)' /\ job'[Main] = k /\ caller = "abortAll" => caller' = "abortAll"
  BY PoolBasics DEF CountJob, SQuiet, InLine, PInv, PType, InHand, WithJob, Placed,
     MainPlaced, Owner, InExecute, Go, IsFinished, queueVars, jobVars, poolVars, threadVars,
     mainVars, history
<1> QED BY <1>1, <1>2, <1>3 DEF SQuiet

LEMMA YieldHelpSQuiet ==
  ASSUME PInv, QueueType, Placed, Owner, YieldHelp
  PROVE  SQuiet
<1>1. UNCHANGED <<m_queues, added, m_priority>> /\ outOfLine \subseteq outOfLine'
  BY PoolBasics DEF YieldHelp, Reserve, SQuiet, InLine, PInv, PType, InHand, WithJob,
     Placed, MainPlaced, Owner, InExecute, Go, IsFinished, queueVars, jobVars, poolVars,
     threadVars, mainVars, history
<1>2. /\ \A k \in Jobs : IsFinished(k) => IsFinished(k)'
      /\ \A k \in Jobs : m_status'[k] = m_status[k] \/ \E u \in Threads : job[u] = k
  BY PoolBasics DEF YieldHelp, Reserve, SQuiet, InLine, PInv, PType, InHand, WithJob,
     Placed, MainPlaced, Owner, InExecute, Go, IsFinished, queueVars, jobVars, poolVars,
     threadVars, mainVars, history
<1>3. /\ \A u \in Threads : \A k \in Jobs : InLine(k)' /\ job'[u] = k => job[u] = k
      /\ \A k \in Jobs : InLine(k)' /\ job'[Main] = k /\ caller = "abortAll" => caller' = "abortAll"
  BY PoolBasics DEF YieldHelp, Reserve, SQuiet, InLine, PInv, PType, InHand, WithJob,
     Placed, MainPlaced, Owner, InExecute, Go, IsFinished, queueVars, jobVars, poolVars,
     threadVars, mainVars, history
<1> QED BY <1>1, <1>2, <1>3 DEF SQuiet

LEMMA YieldDoneSQuiet ==
  ASSUME PInv, QueueType, Placed, Owner, YieldDone
  PROVE  SQuiet
<1>1. UNCHANGED <<m_queues, added, m_priority>> /\ outOfLine \subseteq outOfLine'
  BY PoolBasics DEF YieldDone, SQuiet, InLine, PInv, PType, InHand, WithJob, Placed,
     MainPlaced, Owner, InExecute, Go, IsFinished, queueVars, jobVars, poolVars, threadVars,
     mainVars, history
<1>2. /\ \A k \in Jobs : IsFinished(k) => IsFinished(k)'
      /\ \A k \in Jobs : m_status'[k] = m_status[k] \/ \E u \in Threads : job[u] = k
  BY PoolBasics DEF YieldDone, SQuiet, InLine, PInv, PType, InHand, WithJob, Placed,
     MainPlaced, Owner, InExecute, Go, IsFinished, queueVars, jobVars, poolVars, threadVars,
     mainVars, history
<1>3. /\ \A u \in Threads : \A k \in Jobs : InLine(k)' /\ job'[u] = k => job[u] = k
      /\ \A k \in Jobs : InLine(k)' /\ job'[Main] = k /\ caller = "abortAll" => caller' = "abortAll"
  BY PoolBasics DEF YieldDone, SQuiet, InLine, PInv, PType, InHand, WithJob, Placed,
     MainPlaced, Owner, InExecute, Go, IsFinished, queueVars, jobVars, poolVars, threadVars,
     mainVars, history
<1> QED BY <1>1, <1>2, <1>3 DEF SQuiet

LEMMA CallWorkerSQuiet ==
  ASSUME PInv, QueueType, Placed, Owner, CallWorker
  PROVE  SQuiet
<1>1. UNCHANGED <<m_queues, added, m_priority>> /\ outOfLine \subseteq outOfLine'
  BY PoolBasics DEF CallWorker, SQuiet, InLine, PInv, PType, InHand, WithJob, Placed,
     MainPlaced, Owner, InExecute, Go, IsFinished, queueVars, jobVars, poolVars, threadVars,
     mainVars, history
<1>2. /\ \A k \in Jobs : IsFinished(k) => IsFinished(k)'
      /\ \A k \in Jobs : m_status'[k] = m_status[k] \/ \E u \in Threads : job[u] = k
  BY PoolBasics DEF CallWorker, SQuiet, InLine, PInv, PType, InHand, WithJob, Placed,
     MainPlaced, Owner, InExecute, Go, IsFinished, queueVars, jobVars, poolVars, threadVars,
     mainVars, history
<1>3. /\ \A u \in Threads : \A k \in Jobs : InLine(k)' /\ job'[u] = k => job[u] = k
      /\ \A k \in Jobs : InLine(k)' /\ job'[Main] = k /\ caller = "abortAll" => caller' = "abortAll"
  BY PoolBasics DEF CallWorker, SQuiet, InLine, PInv, PType, InHand, WithJob, Placed,
     MainPlaced, Owner, InExecute, Go, IsFinished, queueVars, jobVars, poolVars, threadVars,
     mainVars, history
<1> QED BY <1>1, <1>2, <1>3 DEF SQuiet

LEMMA WaitForSuspensionSQuiet ==
  ASSUME PInv, QueueType, Placed, Owner, WaitForSuspension
  PROVE  SQuiet
<1>1. UNCHANGED <<m_queues, added, m_priority>> /\ outOfLine \subseteq outOfLine'
  BY PoolBasics DEF WaitForSuspension, SQuiet, InLine, PInv, PType, InHand, WithJob, Placed,
     MainPlaced, Owner, InExecute, Go, IsFinished, queueVars, jobVars, poolVars, threadVars,
     mainVars, history
<1>2. /\ \A k \in Jobs : IsFinished(k) => IsFinished(k)'
      /\ \A k \in Jobs : m_status'[k] = m_status[k] \/ \E u \in Threads : job[u] = k
  BY PoolBasics DEF WaitForSuspension, SQuiet, InLine, PInv, PType, InHand, WithJob, Placed,
     MainPlaced, Owner, InExecute, Go, IsFinished, queueVars, jobVars, poolVars, threadVars,
     mainVars, history
<1>3. /\ \A u \in Threads : \A k \in Jobs : InLine(k)' /\ job'[u] = k => job[u] = k
      /\ \A k \in Jobs : InLine(k)' /\ job'[Main] = k /\ caller = "abortAll" => caller' = "abortAll"
  BY PoolBasics DEF WaitForSuspension, SQuiet, InLine, PInv, PType, InHand, WithJob, Placed,
     MainPlaced, Owner, InExecute, Go, IsFinished, queueVars, jobVars, poolVars, threadVars,
     mainVars, history
<1> QED BY <1>1, <1>2, <1>3 DEF SQuiet

LEMMA DrainPopSQuiet ==
  ASSUME PInv, QueueType, Placed, Owner, DrainPop
  PROVE  SQuiet
<1>1. UNCHANGED <<m_queues, added, m_priority>> /\ outOfLine \subseteq outOfLine'
  BY PoolBasics DEF DrainPop, Reserve, SQuiet, InLine, PInv, PType, InHand, WithJob, Placed,
     MainPlaced, Owner, InExecute, Go, IsFinished, queueVars, jobVars, poolVars, threadVars,
     mainVars, history
<1>2. /\ \A k \in Jobs : IsFinished(k) => IsFinished(k)'
      /\ \A k \in Jobs : m_status'[k] = m_status[k] \/ \E u \in Threads : job[u] = k
  BY PoolBasics DEF DrainPop, Reserve, SQuiet, InLine, PInv, PType, InHand, WithJob, Placed,
     MainPlaced, Owner, InExecute, Go, IsFinished, queueVars, jobVars, poolVars, threadVars,
     mainVars, history
<1>3. /\ \A u \in Threads : \A k \in Jobs : InLine(k)' /\ job'[u] = k => job[u] = k
      /\ \A k \in Jobs : InLine(k)' /\ job'[Main] = k /\ caller = "abortAll" => caller' = "abortAll"
  BY PoolBasics DEF DrainPop, Reserve, SQuiet, InLine, PInv, PType, InHand, WithJob, Placed,
     MainPlaced, Owner, InExecute, Go, IsFinished, queueVars, jobVars, poolVars, threadVars,
     mainVars, history
<1> QED BY <1>1, <1>2, <1>3 DEF SQuiet

LEMMA AbortPoppedSQuiet ==
  ASSUME PInv, QueueType, Placed, Owner, AbortPopped
  PROVE  SQuiet
<1>1. UNCHANGED <<m_queues, added, m_priority>> /\ outOfLine \subseteq outOfLine'
  BY PoolBasics DEF AbortPopped, AbortedIfWaiting, CanExecute, SQuiet, InLine, PInv, PType,
     InHand, WithJob, Placed, MainPlaced, Owner, InExecute, Go, IsFinished, queueVars,
     jobVars, poolVars, threadVars, mainVars, history
<1>2. /\ \A k \in Jobs : IsFinished(k) => IsFinished(k)'
      /\ \A k \in Jobs : m_status'[k] = m_status[k] \/ \E u \in Threads : job[u] = k
  BY PoolBasics DEF AbortPopped, AbortedIfWaiting, CanExecute, SQuiet, InLine, PInv, PType,
     InHand, WithJob, Placed, MainPlaced, Owner, InExecute, Go, IsFinished, queueVars,
     jobVars, poolVars, threadVars, mainVars, history
<1>3. /\ \A u \in Threads : \A k \in Jobs : InLine(k)' /\ job'[u] = k => job[u] = k
      /\ \A k \in Jobs : InLine(k)' /\ job'[Main] = k /\ caller = "abortAll" => caller' = "abortAll"
  BY PoolBasics DEF AbortPopped, AbortedIfWaiting, CanExecute, SQuiet, InLine, PInv, PType,
     InHand, WithJob, Placed, MainPlaced, Owner, InExecute, Go, IsFinished, queueVars,
     jobVars, poolVars, threadVars, mainVars, history
<1> QED BY <1>1, <1>2, <1>3 DEF SQuiet

LEMMA DrainNextSQuiet ==
  ASSUME PInv, QueueType, Placed, Owner, DrainNext
  PROVE  SQuiet
<1>1. UNCHANGED <<m_queues, added, m_priority>> /\ outOfLine \subseteq outOfLine'
  BY PoolBasics DEF DrainNext, SQuiet, InLine, PInv, PType, InHand, WithJob, Placed,
     MainPlaced, Owner, InExecute, Go, IsFinished, queueVars, jobVars, poolVars, threadVars,
     mainVars, history
<1>2. /\ \A k \in Jobs : IsFinished(k) => IsFinished(k)'
      /\ \A k \in Jobs : m_status'[k] = m_status[k] \/ \E u \in Threads : job[u] = k
  BY PoolBasics DEF DrainNext, SQuiet, InLine, PInv, PType, InHand, WithJob, Placed,
     MainPlaced, Owner, InExecute, Go, IsFinished, queueVars, jobVars, poolVars, threadVars,
     mainVars, history
<1>3. /\ \A u \in Threads : \A k \in Jobs : InLine(k)' /\ job'[u] = k => job[u] = k
      /\ \A k \in Jobs : InLine(k)' /\ job'[Main] = k /\ caller = "abortAll" => caller' = "abortAll"
  BY PoolBasics DEF DrainNext, SQuiet, InLine, PInv, PType, InHand, WithJob, Placed,
     MainPlaced, Owner, InExecute, Go, IsFinished, queueVars, jobVars, poolVars, threadVars,
     mainVars, history
<1> QED BY <1>1, <1>2, <1>3 DEF SQuiet

LEMMA DrainDoneSQuiet ==
  ASSUME PInv, QueueType, Placed, Owner, DrainDone
  PROVE  SQuiet
<1>1. UNCHANGED <<m_queues, added, m_priority>> /\ outOfLine \subseteq outOfLine'
  BY PoolBasics DEF DrainDone, SQuiet, InLine, PInv, PType, InHand, WithJob, Placed,
     MainPlaced, Owner, InExecute, Go, IsFinished, queueVars, jobVars, poolVars, threadVars,
     mainVars, history
<1>2. /\ \A k \in Jobs : IsFinished(k) => IsFinished(k)'
      /\ \A k \in Jobs : m_status'[k] = m_status[k] \/ \E u \in Threads : job[u] = k
  BY PoolBasics DEF DrainDone, SQuiet, InLine, PInv, PType, InHand, WithJob, Placed,
     MainPlaced, Owner, InExecute, Go, IsFinished, queueVars, jobVars, poolVars, threadVars,
     mainVars, history
<1>3. /\ \A u \in Threads : \A k \in Jobs : InLine(k)' /\ job'[u] = k => job[u] = k
      /\ \A k \in Jobs : InLine(k)' /\ job'[Main] = k /\ caller = "abortAll" => caller' = "abortAll"
  BY PoolBasics DEF DrainDone, SQuiet, InLine, PInv, PType, InHand, WithJob, Placed,
     MainPlaced, Owner, InExecute, Go, IsFinished, queueVars, jobVars, poolVars, threadVars,
     mainVars, history
<1> QED BY <1>1, <1>2, <1>3 DEF SQuiet

LEMMA ResumeExecutionSQuiet ==
  ASSUME PInv, QueueType, Placed, Owner, ResumeExecution
  PROVE  SQuiet
<1>1. UNCHANGED <<m_queues, added, m_priority>> /\ outOfLine \subseteq outOfLine'
  BY PoolBasics DEF ResumeExecution, SQuiet, InLine, PInv, PType, InHand, WithJob, Placed,
     MainPlaced, Owner, InExecute, Go, IsFinished, queueVars, jobVars, poolVars, threadVars,
     mainVars, history
<1>2. /\ \A k \in Jobs : IsFinished(k) => IsFinished(k)'
      /\ \A k \in Jobs : m_status'[k] = m_status[k] \/ \E u \in Threads : job[u] = k
  BY PoolBasics DEF ResumeExecution, SQuiet, InLine, PInv, PType, InHand, WithJob, Placed,
     MainPlaced, Owner, InExecute, Go, IsFinished, queueVars, jobVars, poolVars, threadVars,
     mainVars, history
<1>3. /\ \A u \in Threads : \A k \in Jobs : InLine(k)' /\ job'[u] = k => job[u] = k
      /\ \A k \in Jobs : InLine(k)' /\ job'[Main] = k /\ caller = "abortAll" => caller' = "abortAll"
  BY PoolBasics DEF ResumeExecution, SQuiet, InLine, PInv, PType, InHand, WithJob, Placed,
     MainPlaced, Owner, InExecute, Go, IsFinished, queueVars, jobVars, poolVars, threadVars,
     mainVars, history
<1> QED BY <1>1, <1>2, <1>3 DEF SQuiet

LEMMA CallExecuteSQuiet ==
  ASSUME PInv, QueueType, Placed, Owner, NEW j \in Jobs, CallExecute(j)
  PROVE  SQuiet
<1>1. UNCHANGED <<m_queues, added, m_priority>> /\ outOfLine \subseteq outOfLine'
  BY PoolBasics DEF CallExecute, Call, SQuiet, InLine, PInv, PType, InHand, WithJob, Placed,
     MainPlaced, Owner, InExecute, Go, IsFinished, queueVars, jobVars, poolVars, threadVars,
     mainVars, history
<1>2. /\ \A k \in Jobs : IsFinished(k) => IsFinished(k)'
      /\ \A k \in Jobs : m_status'[k] = m_status[k] \/ \E u \in Threads : job[u] = k
  BY PoolBasics DEF CallExecute, Call, SQuiet, InLine, PInv, PType, InHand, WithJob, Placed,
     MainPlaced, Owner, InExecute, Go, IsFinished, queueVars, jobVars, poolVars, threadVars,
     mainVars, history
<1>3. /\ \A u \in Threads : \A k \in Jobs : InLine(k)' /\ job'[u] = k => job[u] = k
      /\ \A k \in Jobs : InLine(k)' /\ job'[Main] = k /\ caller = "abortAll" => caller' = "abortAll"
  BY PoolBasics DEF CallExecute, Call, SQuiet, InLine, PInv, PType, InHand, WithJob, Placed,
     MainPlaced, Owner, InExecute, Go, IsFinished, queueVars, jobVars, poolVars, threadVars,
     mainVars, history
<1> QED BY <1>1, <1>2, <1>3 DEF SQuiet

LEMMA CallAbortSQuiet ==
  ASSUME PInv, QueueType, Placed, Owner, NEW j \in Jobs, CallAbort(j)
  PROVE  SQuiet
<1>1. UNCHANGED <<m_queues, added, m_priority>> /\ outOfLine \subseteq outOfLine'
  BY PoolBasics DEF CallAbort, Call, SQuiet, InLine, PInv, PType, InHand, WithJob, Placed,
     MainPlaced, Owner, InExecute, Go, IsFinished, queueVars, jobVars, poolVars, threadVars,
     mainVars, history
<1>2. /\ \A k \in Jobs : IsFinished(k) => IsFinished(k)'
      /\ \A k \in Jobs : m_status'[k] = m_status[k] \/ \E u \in Threads : job[u] = k
  BY PoolBasics DEF CallAbort, Call, SQuiet, InLine, PInv, PType, InHand, WithJob, Placed,
     MainPlaced, Owner, InExecute, Go, IsFinished, queueVars, jobVars, poolVars, threadVars,
     mainVars, history
<1>3. /\ \A u \in Threads : \A k \in Jobs : InLine(k)' /\ job'[u] = k => job[u] = k
      /\ \A k \in Jobs : InLine(k)' /\ job'[Main] = k /\ caller = "abortAll" => caller' = "abortAll"
  BY PoolBasics DEF CallAbort, Call, SQuiet, InLine, PInv, PType, InHand, WithJob, Placed,
     MainPlaced, Owner, InExecute, Go, IsFinished, queueVars, jobVars, poolVars, threadVars,
     mainVars, history
<1> QED BY <1>1, <1>2, <1>3 DEF SQuiet

LEMMA CallYieldWaitSQuiet ==
  ASSUME PInv, QueueType, Placed, Owner, NEW j \in Jobs, CallYieldWait(j)
  PROVE  SQuiet
<1>1. UNCHANGED <<m_queues, added, m_priority>> /\ outOfLine \subseteq outOfLine'
  BY PoolBasics DEF CallYieldWait, Call, SQuiet, InLine, PInv, PType, InHand, WithJob,
     Placed, MainPlaced, Owner, InExecute, Go, IsFinished, queueVars, jobVars, poolVars,
     threadVars, mainVars, history
<1>2. /\ \A k \in Jobs : IsFinished(k) => IsFinished(k)'
      /\ \A k \in Jobs : m_status'[k] = m_status[k] \/ \E u \in Threads : job[u] = k
  BY PoolBasics DEF CallYieldWait, Call, SQuiet, InLine, PInv, PType, InHand, WithJob,
     Placed, MainPlaced, Owner, InExecute, Go, IsFinished, queueVars, jobVars, poolVars,
     threadVars, mainVars, history
<1>3. /\ \A u \in Threads : \A k \in Jobs : InLine(k)' /\ job'[u] = k => job[u] = k
      /\ \A k \in Jobs : InLine(k)' /\ job'[Main] = k /\ caller = "abortAll" => caller' = "abortAll"
  BY PoolBasics DEF CallYieldWait, Call, SQuiet, InLine, PInv, PType, InHand, WithJob,
     Placed, MainPlaced, Owner, InExecute, Go, IsFinished, queueVars, jobVars, poolVars,
     threadVars, mainVars, history
<1> QED BY <1>1, <1>2, <1>3 DEF SQuiet

LEMMA ReleaseOwnedSQuiet ==
  ASSUME PInv, QueueType, Placed, Owner, NEW j \in Jobs, ReleaseOwned(j)
  PROVE  SQuiet
<1>1. UNCHANGED <<m_queues, added, m_priority>> /\ outOfLine \subseteq outOfLine'
  BY PoolBasics DEF ReleaseOwned, Call, SQuiet, InLine, PInv, PType, InHand, WithJob,
     Placed, MainPlaced, Owner, InExecute, Go, IsFinished, queueVars, jobVars, poolVars,
     threadVars, mainVars, history
<1>2. /\ \A k \in Jobs : IsFinished(k) => IsFinished(k)'
      /\ \A k \in Jobs : m_status'[k] = m_status[k] \/ \E u \in Threads : job[u] = k
  BY PoolBasics DEF ReleaseOwned, Call, SQuiet, InLine, PInv, PType, InHand, WithJob,
     Placed, MainPlaced, Owner, InExecute, Go, IsFinished, queueVars, jobVars, poolVars,
     threadVars, mainVars, history
<1>3. /\ \A u \in Threads : \A k \in Jobs : InLine(k)' /\ job'[u] = k => job[u] = k
      /\ \A k \in Jobs : InLine(k)' /\ job'[Main] = k /\ caller = "abortAll" => caller' = "abortAll"
  BY PoolBasics DEF ReleaseOwned, Call, SQuiet, InLine, PInv, PType, InHand, WithJob,
     Placed, MainPlaced, Owner, InExecute, Go, IsFinished, queueVars, jobVars, poolVars,
     threadVars, mainVars, history
<1> QED BY <1>1, <1>2, <1>3 DEF SQuiet

LEMMA CallSuspendSQuiet ==
  ASSUME PInv, QueueType, Placed, Owner, NEW by \in {"user", "abortAll"}, CallSuspend(by)
  PROVE  SQuiet
<1>1. UNCHANGED <<m_queues, added, m_priority>> /\ outOfLine \subseteq outOfLine'
  BY PoolBasics DEF CallSuspend, SQuiet, InLine, PInv, PType, InHand, WithJob, Placed,
     MainPlaced, Owner, InExecute, Go, IsFinished, queueVars, jobVars, poolVars, threadVars,
     mainVars, history
<1>2. /\ \A k \in Jobs : IsFinished(k) => IsFinished(k)'
      /\ \A k \in Jobs : m_status'[k] = m_status[k] \/ \E u \in Threads : job[u] = k
  BY PoolBasics DEF CallSuspend, SQuiet, InLine, PInv, PType, InHand, WithJob, Placed,
     MainPlaced, Owner, InExecute, Go, IsFinished, queueVars, jobVars, poolVars, threadVars,
     mainVars, history
<1>3. /\ \A u \in Threads : \A k \in Jobs : InLine(k)' /\ job'[u] = k => job[u] = k
      /\ \A k \in Jobs : InLine(k)' /\ job'[Main] = k /\ caller = "abortAll" => caller' = "abortAll"
  BY PoolBasics DEF CallSuspend, SQuiet, InLine, PInv, PType, InHand, WithJob, Placed,
     MainPlaced, Owner, InExecute, Go, IsFinished, queueVars, jobVars, poolVars, threadVars,
     mainVars, history
<1> QED BY <1>1, <1>2, <1>3 DEF SQuiet

\* A job that is not in line is added, and not queued.
LEMMA AddedAside ==
  ASSUME SInv, NEW j \in Jobs, IsNext(j), added' = Append(added, j), ~InLine(j),
         UNCHANGED <<m_queues, m_status, outOfLine, caller>>,
         \A k \in Jobs : InLine(k) => m_priority'[k] = m_priority[k],
         \A t \in Threads : \A k \in Jobs : InLine(k) /\ job'[t] = k => job[t] = k
  PROVE  SInv'
<1>1. \A k \in Jobs : InLine(k)' <=> InLine(k)
  BY DEF InLine
<1>2. InProgramOrder'
  BY NextIsNew DEF SInv
<1>3. added \in Seq(Jobs)
  BY DEF SInv, InProgramOrder
<1>4. /\ \A k \in Jobs : SeqIn(added, k) => SeqIn(added', k)
      /\ \A x, y \in Jobs : Before(added', x, y) => Before(added, x, y) \/ y = j
      /\ \A x, y \in Jobs : Before(added, x, y) => Before(added', x, y)
  BY <1>3, AppendIn, AppendBefore
<1>5. Fresh'
  BY <1>1, <1>4 DEF SInv, Fresh
<1>6. Lined'
  BY <1>1 DEF SInv, Lined
<1>7. Ordered'
  BY <1>1, <1>4 DEF SInv, Ordered
<1>8. InTurn'
  BY <1>1, <1>4 DEF SInv, InTurn, IsFinished
<1>9. Lone'
  BY <1>1 DEF SInv, Lone
<1> QED BY <1>2, <1>5, <1>6, <1>7, <1>8, <1>9 DEF SInv

LEMMA AddInPlaceSerial ==
  ASSUME PInv, SInv, NEW j \in Jobs, AddInPlace(j)
  PROVE  SInv'
<1>1. ~InLine(j)
  BY DEF AddInPlace, InPlace, InLine
<1>2. \A t \in Threads : \A k \in Jobs : InLine(k) /\ job'[t] = k => job[t] = k
  BY <1>1 DEF AddInPlace, PInv, PType
<1>3. /\ IsNext(j) /\ added' = Append(added, j) /\ UNCHANGED <<m_queues, m_status, outOfLine, caller>>
      /\ UNCHANGED m_priority
  BY DEF AddInPlace, queueVars, jobVars, mainVars
<1> QED BY <1>1, <1>2, <1>3, AddedAside

LEMMA AddHandledSerial ==
  ASSUME PInv, SInv, NEW j \in Jobs, AddHandled(j)
  PROVE  SInv'
<1>1. /\ IsNext(j) /\ added' = Append(added, j) /\ UNCHANGED <<m_queues, m_status, outOfLine, caller>>
      /\ UNCHANGED job /\ ~CanExecute(j)
      /\ m_priority' = [m_priority EXCEPT ![j] = PriorityOf(j)]
  BY DEF AddHandled, queueVars, threadVars, mainVars
<1>2. ~InLine(j)
  <2>1. ~SeqIn(added, j)
    BY <1>1, NextIsNew DEF SInv
  <2> QED BY <1>1, <2>1 DEF SInv, Fresh, CanExecute
<1>3. \A k \in Jobs : InLine(k) => m_priority'[k] = m_priority[k]
  BY <1>1, <1>2 DEF PInv, PType
<1>4. \A t \in Threads : \A k \in Jobs : InLine(k) /\ job'[t] = k => job[t] = k
  BY <1>1
<1> QED BY <1>1, <1>2, <1>3, <1>4, AddedAside

\* What a push makes of the queues, in the terms of the invariant.
LEMMA PushIn ==
  ASSUME QueueType, NEW q \in Queues, NEW p \in Priorities, NEW j \in Jobs, NEW t,
         PushItem(t, q, j, p), NEW a \in Queues, NEW b \in Priorities
  PROVE  /\ m_queues[a][b] \in Seq(Jobs)
         /\ a = q /\ b = p => m_queues'[a][b] = Append(m_queues[a][b], j)
         /\ ~(a = q /\ b = p) => m_queues'[a][b] = m_queues[a][b]
BY DEF QueueType, PushItem

LEMMA AddToQueueSerial ==
  ASSUME PInv, QueueType, QueueType', SInv, NEW j \in Jobs, AddToQueue(j)
  PROVE  SInv'
<1>1. /\ IsNext(j) /\ added' = Append(added, j) /\ UNCHANGED <<outOfLine, caller, job>>
      /\ m_priority' = [m_priority EXCEPT ![j] = PriorityOf(j)]
      /\ m_status' = [m_status EXCEPT ![j] = "pending"] /\ CanExecute(j)
      /\ PushItem(Main, QueueOf(j), j, PriorityOf(j))
  BY DEF AddToQueue, mainVars
<1>2. \A k \in Jobs : InLine(k)' <=> InLine(k)
  BY <1>1 DEF InLine
<1>3. InProgramOrder' /\ ~SeqIn(added, j) /\ added \in Seq(Jobs)
  BY <1>1, NextIsNew DEF SInv, InProgramOrder
<1>4. /\ \A k \in Jobs : SeqIn(added', k) <=> SeqIn(added, k) \/ k = j
      /\ \A x, y \in Jobs : Before(added', x, y) <=> Before(added, x, y) \/ (SeqIn(added, x) /\ y = j)
  BY <1>1, <1>3, AppendIn, AppendBefore
<1>5. PICK q \in Queues, p \in Priorities : q = QueueOf(j) /\ p = PriorityOf(j)
  BY PoolBasics DEF QueueOf, PriorityOf, PInv, PType
<1>6. InLine(j) =>
        /\ q = 0 /\ p = m_priority[j] /\ ~HasEntry(m_queues, j) /\ \A t \in Threads : job[t] # j
  BY <1>3, <1>5 DEF SInv, Fresh, InLine, QueueOf, PriorityOf
<1>7. \A k \in Jobs : InLine(k) => m_priority'[k] = m_priority[k]
  <2>1. InLine(j) => PriorityOf(j) = m_priority[j]
    BY <1>5, <1>6
  <2> QED BY <1>1, <2>1 DEF PInv, PType
<1>8. PICK n : PushedAt(m_queues, m_queues', q, p, n, j)
  BY <1>1, <1>5, Pushes
<1>9. m_queues \in QueueContents /\ m_queues' \in QueueContents
  BY DEF QueueType, QueueContents
<1>10. /\ \A k \in Jobs : HasEntry(m_queues', k) <=> HasEntry(m_queues, k) \/ k = j
  BY <1>8, <1>9, PushEntry
<1>11. \A k \in Jobs : k # j => m_status'[k] = m_status[k]
  BY <1>1 DEF PInv, PType
<1>12. m_status'[j] = "pending"
  BY <1>1 DEF PInv, PType
<1>13. Fresh'
  BY <1>1, <1>2, <1>4, <1>7, <1>10, <1>11 DEF SInv, Fresh
<1>14. \A a \in Queues, b \in Priorities : \A k \in Jobs :
         SeqIn(m_queues'[a][b], k) => SeqIn(m_queues[a][b], k) \/ (k = j /\ a = q /\ b = p)
  <2> SUFFICES ASSUME NEW a \in Queues, NEW b \in Priorities, NEW k \in Jobs,
                      SeqIn(m_queues'[a][b], k)
               PROVE  SeqIn(m_queues[a][b], k) \/ (k = j /\ a = q /\ b = p)
    OBVIOUS
  <2>1. CASE a = q /\ b = p
    <3>1. m_queues[a][b] \in Seq(Jobs) /\ m_queues'[a][b] = Append(m_queues[a][b], j)
      BY <1>1, <1>5, <2>1, PushIn
    <3> QED BY <2>1, <3>1, AppendIn
  <2>2. CASE ~(a = q /\ b = p)
    BY <1>1, <1>5, <2>2, PushIn
  <2> QED BY <2>1, <2>2
<1>15. Lined'
  <2>1. ASSUME NEW k \in Jobs, InLine(k), NEW a \in Queues, NEW b \in Priorities,
               SeqIn(m_queues'[a][b], k)
        PROVE  a = 0 /\ b = m_priority'[k]
    <3>1. CASE SeqIn(m_queues[a][b], k)
      BY <1>7, <2>1, <3>1 DEF SInv, Lined
    <3>2. CASE k = j /\ a = q /\ b = p
      BY <1>6, <1>7, <2>1, <3>2
    <3> QED BY <1>14, <2>1, <3>1, <3>2
  <2>2. ASSUME NEW k \in Jobs, InLine(k), HasEntry(m_queues', k)
        PROVE  m_status'[k] = "pending" /\ \A t \in Threads : job'[t] # k
    <3>1. CASE k = j
      BY <1>1, <1>6, <1>12, <2>2, <3>1
    <3>2. CASE k # j
      <4>1. m_status[k] = "pending" /\ \A t \in Threads : job[t] # k
        BY <1>10, <2>2, <3>2 DEF SInv, Lined
      <4> QED BY <1>1, <1>11, <3>2, <4>1
    <3> QED BY <3>1, <3>2
  <2> QED BY <1>2, <2>1, <2>2 DEF Lined
<1>16. Ordered'
  <2> SUFFICES ASSUME NEW b \in Priorities, NEW x \in Jobs, NEW y \in Jobs,
                      InLine(x), InLine(y), Before(m_queues'[0][b], x, y)
               PROVE  Before(added', x, y)
    BY <1>2 DEF Ordered
  <2>1. 0 \in Queues
    BY PoolBasics
  <2>2. CASE Before(m_queues[0][b], x, y)
    BY <1>4, <2>2 DEF SInv, Ordered
  <2>3. CASE SeqIn(m_queues[0][b], x) /\ y = j
    <3>1. HasEntry(m_queues, x)
      BY <2>1, <2>3, EntryIn
    <3>2. SeqIn(added, x)
      BY <3>1 DEF SInv, Fresh
    <3> QED BY <1>4, <2>3, <3>2
  <2>4. CASE 0 = q /\ b = p
    <3>1. /\ m_queues[0][b] \in Seq(Jobs)
          /\ m_queues'[0][b] = Append(m_queues[0][b], j)
      BY <1>1, <1>5, <2>1, <2>4, PushIn
    <3> QED BY <2>2, <2>3, <3>1, AppendBefore
  <2>5. CASE ~(0 = q /\ b = p)
    <3>1. m_queues'[0][b] = m_queues[0][b]
      BY <1>1, <1>5, <2>1, <2>5, PushIn
    <3> QED BY <2>2, <3>1
  <2> QED BY <2>4, <2>5
<1>17. InTurn'
  <2> SUFFICES ASSUME NEW x \in Jobs, NEW y \in Jobs, InLine(x), InLine(y),
                      m_priority'[x] = m_priority'[y], Before(added', x, y),
                      ~HasEntry(m_queues', y)
               PROVE  IsFinished(x)'
    BY <1>2 DEF InTurn
  <2>1. y # j /\ ~HasEntry(m_queues, y)
    BY <1>10
  <2>2. Before(added, x, y)
    BY <1>4, <2>1
  <2>3. IsFinished(x)
    BY <1>7, <2>1, <2>2 DEF SInv, InTurn
  <2>4. x # j
    BY <1>1, <2>3 DEF IsFinished, CanExecute
  <2> QED BY <1>11, <2>3, <2>4 DEF IsFinished
<1>18. Lone'
  BY <1>1, <1>2 DEF SInv, Lone
<1> QED BY <1>3, <1>13, <1>15, <1>16, <1>17, <1>18 DEF SInv

LEMMA ChangePrioritySerial ==
  ASSUME PInv, QueueType, QueueType', SInv, NEW j \in Jobs, NEW p \in Priorities,
         ChangePriority(j, p)
  PROVE  SInv'
<1>1. /\ UNCHANGED <<caller, job, added, m_status>> /\ outOfLine' = outOfLine \cup {j}
      /\ m_priority' = [m_priority EXCEPT ![j] = p]
      /\ PushItem(Main, Shared, j, p)
  BY DEF ChangePriority, mainVars
<1>2. \A k \in Jobs : InLine(k)' => InLine(k) /\ k # j
  BY <1>1 DEF InLine
<1>3. Shared \in Queues /\ 0 \in Queues /\ 0 # Shared
  BY PoolBasics, ThreadPoolAssumption
<1>4. PICK n : PushedAt(m_queues, m_queues', Shared, p, n, j)
  BY <1>1, <1>3, Pushes
<1>5. m_queues \in QueueContents /\ m_queues' \in QueueContents
  BY DEF QueueType, QueueContents
<1>6. \A k \in Jobs : k # j => (HasEntry(m_queues', k) <=> HasEntry(m_queues, k))
  BY <1>4, <1>5, PushEntry
<1>7. \A k \in Jobs : k # j => m_priority'[k] = m_priority[k]
  BY <1>1 DEF PInv, PType
<1>8. InProgramOrder'
  BY <1>1 DEF SInv, InProgramOrder
<1>9. Fresh'
  BY <1>1, <1>2, <1>6 DEF SInv, Fresh
<1>10. \A a \in Queues, b \in Priorities : \A k \in Jobs :
         k # j /\ SeqIn(m_queues'[a][b], k) => SeqIn(m_queues[a][b], k)
  <2> SUFFICES ASSUME NEW a \in Queues, NEW b \in Priorities, NEW k \in Jobs, k # j,
                      SeqIn(m_queues'[a][b], k)
               PROVE  SeqIn(m_queues[a][b], k)
    OBVIOUS
  <2>1. CASE a = Shared /\ b = p
    <3>1. m_queues[a][b] \in Seq(Jobs) /\ m_queues'[a][b] = Append(m_queues[a][b], j)
      BY <1>1, <1>3, <2>1, PushIn
    <3> QED BY <2>1, <3>1, AppendIn
  <2>2. CASE ~(a = Shared /\ b = p)
    BY <1>1, <1>3, <2>2, PushIn
  <2> QED BY <2>1, <2>2
<1>11. Lined'
  <2>1. ASSUME NEW k \in Jobs, InLine(k)', NEW a \in Queues, NEW b \in Priorities,
               SeqIn(m_queues'[a][b], k)
        PROVE  a = 0 /\ b = m_priority'[k]
    BY <1>2, <1>7, <1>10, <2>1 DEF SInv, Lined
  <2>2. ASSUME NEW k \in Jobs, InLine(k)', HasEntry(m_queues', k)
        PROVE  m_status'[k] = "pending" /\ \A t \in Threads : job'[t] # k
    <3>1. m_status[k] = "pending" /\ \A t \in Threads : job[t] # k
      BY <1>2, <1>6, <2>2 DEF SInv, Lined
    <3> QED BY <1>1, <3>1
  <2> QED BY <2>1, <2>2 DEF Lined
<1>12. Ordered'
  <2>1. \A b \in Priorities : m_queues'[0][b] = m_queues[0][b]
    BY <1>1, <1>3, PushIn
  <2> QED BY <1>1, <1>2, <2>1 DEF SInv, Ordered
<1>13. InTurn'
  BY <1>1, <1>2, <1>6, <1>7 DEF SInv, InTurn, IsFinished
<1>14. Lone'
  BY <1>1, <1>2 DEF SInv, Lone
<1> QED BY <1>8, <1>9, <1>11, <1>12, <1>13, <1>14 DEF SInv

LEMMA PoppedSerial ==
  ASSUME PInv, QueueType, QueueType', Placed, Uses, Pending, SInv, NEW t \in Threads, Popped(t)
  PROVE  SInv'
<1>1. PICK h, q, p, s : h = Head(Place(t)) /\ q = qUsed[t] /\ p = level[t] /\ s = Place(t)
  OBVIOUS
<1>2. /\ UNCHANGED <<added, m_status, m_priority, outOfLine, caller>>
      /\ pc[t] = "scan" /\ TakeItem(t) /\ job' = [job EXCEPT ![t] = h]
  BY <1>1 DEF Popped, jobVars, mainVars, history
<1>3. /\ TakenAt(m_queues, m_queues', q, p, s) /\ h = Head(s)
      /\ m_queues \in QueueContents /\ m_queues' \in QueueContents
  BY <1>1, <1>2, Takes
<1>4. /\ q \in Queues /\ p \in Priorities /\ s \in Seq(Jobs) /\ s # <<>>
      /\ m_queues[q][p] = s /\ m_queues'[q][p] = Tail(s)
      /\ \A a \in Queues, b \in Priorities : ~(a = q /\ b = p) => m_queues'[a][b] = m_queues[a][b]
  BY <1>3 DEF TakenAt
<1>5. /\ h \in Jobs /\ HasEntry(m_queues, h)
      /\ \A k \in Jobs : HasEntry(m_queues, k) => HasEntry(m_queues', k) \/ k = h
      /\ \A k \in Jobs : HasEntry(m_queues', k) => HasEntry(m_queues, k)
  <2>1. /\ HasEntry(m_queues, Head(s)) /\ Head(s) \in Jobs
    <3>1. PICK k \in Jobs : TRUE
      BY <1>4
    <3> QED BY <1>3, <3>1, TakeEntry
  <2>2. ASSUME NEW k \in Jobs
        PROVE  /\ HasEntry(m_queues, k) => HasEntry(m_queues', k) \/ k = Head(s)
               /\ HasEntry(m_queues', k) => HasEntry(m_queues, k)
    BY <1>3, TakeEntry
  <2> QED BY <1>3, <2>1, <2>2
<1>6. \A k \in Jobs : SeqIn(s, k) <=> SeqIn(Tail(s), k) \/ k = h
  BY <1>3, <1>4, TailIn
<1>7. \A a \in Queues, b \in Priorities : \A k \in Jobs :
        SeqIn(m_queues'[a][b], k) => SeqIn(m_queues[a][b], k)
  BY <1>4, <1>6
<1>8. \A k \in Jobs : InLine(k)' <=> InLine(k)
  BY <1>2 DEF InLine
<1>9. InLine(h) => q = 0 /\ p = m_priority[h] /\ SeqIn(added, h)
  <2>1. SeqIn(m_queues[q][p], h)
    BY <1>4, <1>5, <1>6
  <2> QED BY <1>4, <1>5, <2>1 DEF SInv, Lined, Fresh
<1>10. InLine(h) => t = 0 \/ (t = Main /\ caller = "abortAll")
  BY <1>1, <1>2, <1>9, PopperIs
<1>11. \A u \in Threads : \A k \in Jobs : job'[u] = k => job[u] = k \/ (u = t /\ k = h)
  BY <1>2 DEF PInv, PType
<1>12. InProgramOrder'
  BY <1>2 DEF SInv, InProgramOrder
<1>13. Fresh'
  <2> SUFFICES ASSUME NEW k \in Jobs, InLine(k), ~SeqIn(added', k)
               PROVE  /\ m_status'[k] = "unserviced" /\ ~HasEntry(m_queues', k)
                      /\ \A u \in Threads : job'[u] # k
    BY <1>8 DEF Fresh
  <2>1. /\ m_status[k] = "unserviced" /\ ~HasEntry(m_queues, k)
        /\ \A u \in Threads : job[u] # k
    BY <1>2 DEF SInv, Fresh
  <2> QED BY <1>2, <1>5, <1>9, <1>11, <2>1
<1>14. Lined'
  <2>1. ASSUME NEW k \in Jobs, InLine(k), NEW a \in Queues, NEW b \in Priorities,
               SeqIn(m_queues'[a][b], k)
        PROVE  a = 0 /\ b = m_priority'[k]
    BY <1>2, <1>7, <2>1 DEF SInv, Lined
  <2>2. ASSUME NEW k \in Jobs, InLine(k), HasEntry(m_queues', k)
        PROVE  m_status'[k] = "pending" /\ \A u \in Threads : job'[u] # k
    <3>1. m_status[k] = "pending" /\ \A u \in Threads : job[u] # k
      BY <1>5, <2>2 DEF SInv, Lined
    <3>2. k # h
      <4> SUFFICES ASSUME k = h PROVE FALSE
        OBVIOUS
      <4>1. PICK a \in Queues, b \in Priorities : SeqIn(m_queues'[a][b], h)
        BY <2>2, EntryIn
      <4>2. a = q /\ b = p
        BY <1>2, <1>9, <2>1, <2>2, <4>1
      <4>3. SeqIn(Tail(s), h)
        BY <1>4, <4>1, <4>2
      <4>4. Before(s, h, h)
        BY <1>3, <1>4, <4>3, TailBefore
      <4>5. Before(added, h, h)
        BY <1>4, <1>5, <1>9, <2>2, <4>4 DEF SInv, Ordered
      <4> QED BY <4>5, BeforeStrict DEF SInv
    <3> QED BY <1>2, <1>11, <3>1, <3>2
  <2> QED BY <1>8, <2>1, <2>2 DEF Lined
<1>15. Ordered'
  <2> SUFFICES ASSUME NEW b \in Priorities, NEW x \in Jobs, NEW y \in Jobs,
                      InLine(x), InLine(y), Before(m_queues'[0][b], x, y)
               PROVE  Before(added, x, y)
    BY <1>2, <1>8 DEF Ordered
  <2>1. 0 \in Queues
    BY PoolBasics
  <2>2. Before(m_queues[0][b], x, y)
    <3>1. CASE 0 = q /\ b = p
      BY <1>4, <3>1, TailBefore
    <3>2. CASE ~(0 = q /\ b = p)
      BY <1>4, <2>1, <3>2
    <3> QED BY <3>1, <3>2
  <2> QED BY <2>2 DEF SInv, Ordered
<1>16. InTurn'
  <2> SUFFICES ASSUME NEW x \in Jobs, NEW y \in Jobs, InLine(x), InLine(y),
                      m_priority[x] = m_priority[y], Before(added, x, y), ~HasEntry(m_queues', y)
               PROVE  IsFinished(x)
    BY <1>2, <1>8 DEF InTurn, IsFinished
  <2>1. CASE ~HasEntry(m_queues, y)
    BY <2>1 DEF SInv, InTurn
  <2>2. CASE HasEntry(m_queues, y)
    <3>1. y = h /\ q = 0 /\ p = m_priority[x]
      BY <1>5, <1>9, <2>2
    <3>2. ~HasEntry(m_queues, x)
      <4> SUFFICES ASSUME HasEntry(m_queues, x) PROVE FALSE
        OBVIOUS
      <4>1. PICK a \in Queues, b \in Priorities : SeqIn(m_queues[a][b], x)
        BY EntryIn
      <4>2. a = q /\ b = p
        BY <3>1, <4>1 DEF SInv, Lined
      <4>3. x # h
        BY <3>1, BeforeStrict DEF SInv
      <4>4. SeqIn(Tail(s), x)
        BY <1>4, <1>6, <4>1, <4>2, <4>3
      <4>5. Before(s, h, x)
        BY <1>3, <1>4, <4>4, TailBefore
      <4>6. Before(added, h, x)
        BY <1>4, <3>1, <4>5 DEF SInv, Ordered
      <4> QED BY <3>1, <4>6, BeforeStrict DEF SInv
    <3>3. IsAdded(x)
      <4>1. SeqIn(added, x) /\ added \in Seq(Jobs)
        BY BeforeIn DEF SInv, InProgramOrder
      <4> QED BY <4>1 DEF SeqIn, IsAdded
    <3>4. ASSUME NEW u \in Threads, InHands(u, x) PROVE FALSE
      <4>1. job[u] = x /\ pc[u] \in Unsettled
        BY <3>4 DEF InHands
      <4>2. u = 0 \/ (u = Main /\ caller = "abortAll")
        BY <4>1 DEF SInv, Lone
      <4>3. t = 0 \/ (t = Main /\ caller = "abortAll")
        BY <1>10, <3>1
      <4>4. u # t
        BY <1>2, <4>1 DEF Unsettled
      <4>5. pc[Main] # "call" /\ caller = "abortAll"
        BY <1>2, <4>1, <4>2, <4>3, <4>4 DEF Unsettled
      <4>6. pc[0] = "suspended"
        BY <4>5, PoolBasics DEF PInv, Asleep, Placed
      <4> QED BY <1>2, <4>1, <4>2, <4>3, <4>4, <4>6 DEF Unsettled
    <3> QED BY <3>2, <3>3, <3>4 DEF Pending, Settled
  <2> QED BY <2>1, <2>2
<1>17. Lone'
  BY <1>2, <1>8, <1>10, <1>11 DEF SInv, Lone
<1> QED BY <1>12, <1>13, <1>14, <1>15, <1>16, <1>17 DEF SInv

LEMMA NextSerial ==
  ASSUME PInv, QueueType, QueueType', Placed, Owner, Uses, Pending, SInv, [Next]_vars
  PROVE  SInv'
<1>1. ASSUME NEW t \in Threads, Scan(t) PROVE SInv'
  BY <1>1, ScanSQuiet, SQuietKeeps
<1>2. ASSUME NEW t \in Threads, Popped(t) PROVE SInv'
  BY <1>2, PoppedSerial
<1>3. ASSUME NEW t \in Threads, CheckFinished(t) PROVE SInv'
  BY <1>3, CheckFinishedSQuiet, SQuietKeeps
<1>4. ASSUME NEW t \in Threads, TryLockFails(t) PROVE SInv'
  BY <1>4, TryLockFailsSQuiet, SQuietKeeps
<1>5. ASSUME NEW t \in Threads, Begin(t) PROVE SInv'
  BY <1>5, BeginSQuiet, SQuietKeeps
<1>6. ASSUME NEW t \in Threads, TooLate(t) PROVE SInv'
  BY <1>6, TooLateSQuiet, SQuietKeeps
<1>7. ASSUME NEW t \in Threads, Finish(t) PROVE SInv'
  BY <1>7, FinishSQuiet, SQuietKeeps
<1>8. ASSUME NEW t \in Threads, Complete(t) PROVE SInv'
  BY <1>8, CompleteSQuiet, SQuietKeeps
<1>9. ASSUME NEW t \in Threads, LeaveExecute(t) PROVE SInv'
  BY <1>9, LeaveExecuteSQuiet, SQuietKeeps
<1>10. ASSUME NEW t \in Threads, Release(t) PROVE SInv'
  BY <1>10, ReleaseSQuiet, SQuietKeeps
<1>11. ASSUME NEW w \in Workers, AnswerCall(w) PROVE SInv'
  BY <1>11, AnswerCallSQuiet, SQuietKeeps
<1>12. ASSUME NEW w \in Workers, Suspend(w) PROVE SInv'
  BY <1>12, SuspendSQuiet, SQuietKeeps
<1>13. ASSUME NEW w \in Workers, Resumed(w) PROVE SInv'
  BY <1>13, ResumedSQuiet, SQuietKeeps
<1>14. ASSUME NEW w \in Workers, WakeForItem(w) PROVE SInv'
  BY <1>14, WakeForItemSQuiet, SQuietKeeps
<1>15. ASSUME NEW w \in Workers, PopDirect(w) PROVE SInv'
  BY <1>15, PopDirectSQuiet, SQuietKeeps
<1>16. ASSUME NEW w \in Workers, PopShared(w) PROVE SInv'
  BY <1>16, PopSharedSQuiet, SQuietKeeps
<1>17. ASSUME Execute PROVE SInv'
  BY <1>17, ExecuteSQuiet, SQuietKeeps
<1>18. ASSUME Abort PROVE SInv'
  BY <1>18, AbortSQuiet, SQuietKeeps
<1>19. ASSUME CountAdded PROVE SInv'
  BY <1>19, CountAddedSQuiet, SQuietKeeps
<1>20. ASSUME CountJob PROVE SInv'
  BY <1>20, CountJobSQuiet, SQuietKeeps
<1>21. ASSUME YieldHelp PROVE SInv'
  BY <1>21, YieldHelpSQuiet, SQuietKeeps
<1>22. ASSUME YieldDone PROVE SInv'
  BY <1>22, YieldDoneSQuiet, SQuietKeeps
<1>23. ASSUME CallWorker PROVE SInv'
  BY <1>23, CallWorkerSQuiet, SQuietKeeps
<1>24. ASSUME WaitForSuspension PROVE SInv'
  BY <1>24, WaitForSuspensionSQuiet, SQuietKeeps
<1>25. ASSUME DrainPop PROVE SInv'
  BY <1>25, DrainPopSQuiet, SQuietKeeps
<1>26. ASSUME AbortPopped PROVE SInv'
  BY <1>26, AbortPoppedSQuiet, SQuietKeeps
<1>27. ASSUME DrainNext PROVE SInv'
  BY <1>27, DrainNextSQuiet, SQuietKeeps
<1>28. ASSUME DrainDone PROVE SInv'
  BY <1>28, DrainDoneSQuiet, SQuietKeeps
<1>29. ASSUME ResumeExecution PROVE SInv'
  BY <1>29, ResumeExecutionSQuiet, SQuietKeeps
<1>30. ASSUME NEW j \in Jobs, AddInPlace(j) PROVE SInv'
  BY <1>30, AddInPlaceSerial
<1>31. ASSUME NEW j \in Jobs, AddHandled(j) PROVE SInv'
  BY <1>31, AddHandledSerial
<1>32. ASSUME NEW j \in Jobs, AddToQueue(j) PROVE SInv'
  BY <1>32, AddToQueueSerial
<1>33. ASSUME NEW j \in Jobs, CallExecute(j) PROVE SInv'
  BY <1>33, CallExecuteSQuiet, SQuietKeeps
<1>34. ASSUME NEW j \in Jobs, CallAbort(j) PROVE SInv'
  BY <1>34, CallAbortSQuiet, SQuietKeeps
<1>35. ASSUME NEW j \in Jobs, ReleaseOwned(j) PROVE SInv'
  BY <1>35, ReleaseOwnedSQuiet, SQuietKeeps
<1>36. ASSUME NEW j \in Jobs, CallYieldWait(j) PROVE SInv'
  BY <1>36, CallYieldWaitSQuiet, SQuietKeeps
<1>37. ASSUME NEW j \in Jobs, NEW p \in Priorities, ChangePriority(j, p) PROVE SInv'
  BY <1>37, ChangePrioritySerial
<1>38. ASSUME NEW by \in {"user", "abortAll"}, CallSuspend(by) PROVE SInv'
  BY <1>38, CallSuspendSQuiet, SQuietKeeps
<1>39. ASSUME UNCHANGED vars PROVE SInv'
  <2>1. SQuiet
    BY <1>39 DEF vars, queueVars, jobVars, threadVars, mainVars, history, SQuiet, IsFinished
  <2> QED BY <2>1, SQuietKeeps
<1>40. ASSUME NEW t \in Threads, Service(t) PROVE SInv'
  BY <1>40, <1>1, <1>2, <1>3, <1>4, <1>5, <1>6, <1>7, <1>8, <1>9, <1>10 DEF Service
<1>41. ASSUME NEW w \in Workers, Worker(w) PROVE SInv'
  BY <1>41, <1>11, <1>12, <1>13, <1>14, <1>15, <1>16, <1>40, PoolBasics DEF Worker
<1>42. ASSUME MainInside PROVE SInv'
  BY <1>42, <1>17, <1>18, <1>19, <1>20, <1>21, <1>22, <1>23, <1>24, <1>25, <1>26, <1>27,
     <1>28, <1>29, <1>40, PoolBasics DEF MainInside
<1>43. ASSUME MainCalls PROVE SInv'
  BY <1>43, <1>30, <1>31, <1>32, <1>33, <1>34, <1>35, <1>36, <1>37, <1>38 DEF MainCalls
<1> QED BY <1>39, <1>41, <1>42, <1>43 DEF Next

LEMMA SerialInitially == Init => Uses /\ SInv
<1> SUFFICES ASSUME Init PROVE Uses /\ SInv
  OBVIOUS
<1>1. Uses
  BY DEF Init, QueueInit, Uses
<1>2. /\ added = <<>> /\ \A q \in Queues, p \in Priorities : m_queues[q][p] = <<>>
      /\ \A t \in Threads : job[t] = None
  BY DEF Init, QueueInit
<1>3. \A k : ~SeqIn(<<>>, k)
  BY DEF SeqIn
<1>4. \A k : ~HasEntry(m_queues, k)
  BY <1>2 DEF HasEntry
<1>5. \A x, y : ~Before(<<>>, x, y)
  BY DEF Before
<1>6. InProgramOrder
  <2>1. Program \in Seq(Jobs)
    BY ThreadPoolAssumption
  <2> QED BY <1>2, <2>1 DEF InProgramOrder
<1>7. Fresh
  BY <1>2, <1>4, PoolBasics DEF Init, Fresh
<1>8. Lined
  BY <1>2, <1>3, <1>4 DEF Lined
<1>9. Ordered
  BY <1>2, <1>5, PoolBasics DEF Ordered
<1>10. InTurn
  BY <1>2, <1>5 DEF InTurn
<1>11. Lone
  BY <1>2, PoolBasics DEF Lone
<1> QED BY <1>1, <1>6, <1>7, <1>8, <1>9, <1>10, <1>11 DEF SInv

LEMMA SerialInvariant == Spec => [](Uses /\ SInv)
<1>1. Init => Uses /\ SInv
  BY SerialInitially
<1>2. /\ PInv /\ QInv /\ (PInv /\ QInv)'
      /\ Placed /\ Owner /\ Pending /\ Emptied /\ Uses /\ SInv /\ [Next]_vars
      => (Uses /\ SInv)'
  BY NextUses, NextSerial DEF QInv
<1> QED BY <1>1, <1>2, PoolInvariant, AbortInvariant, PTL DEF Spec

(* Serial jobs of one priority that are always queued are executed in the order in
   which they were added: a later one does not start before the earlier ones are finished, unless
   the program took one of them out of line. *)
THEOREM SerialJobsInOrder == Spec => []SerialOrder
<1>1. PInv /\ SInv => SerialOrder
  <2> SUFFICES ASSUME PInv, SInv, NEW i \in DOMAIN added, NEW k \in DOMAIN added, i < k,
                      {added[i], added[k]} \subseteq (Serial \cap Queued) \ outOfLine,
                      m_priority[added[i]] = m_priority[added[k]], runs[added[k]] > 0
               PROVE  IsFinished(added[i])
    BY DEF SerialOrder
  <2>1. added \in Seq(Jobs)
    BY DEF SInv, InProgramOrder
  <2>2. PICK x \in Jobs, y \in Jobs : x = added[i] /\ y = added[k]
    BY <2>1
  <2>3. InLine(x) /\ InLine(y)
    BY <2>2 DEF InLine
  <2>4. Before(added, x, y)
    <3>1. i \in 1 .. Len(added) /\ k \in 1 .. Len(added)
      BY <2>1
    <3> QED BY <2>2, <3>1 DEF Before
  <2>5. m_status[y] # "pending"
    BY <2>2 DEF PInv, RunsTold
  <2>6. ~HasEntry(m_queues, y)
    BY <2>3, <2>5 DEF SInv, Lined
  <2> QED BY <2>2, <2>3, <2>4, <2>6 DEF SInv, InTurn
<1> QED BY <1>1, PoolInvariant, SerialInvariant, PTL

-----------------------------------------------------------------------------
\* The number of jobs

HasJob(t) == job[t] \in Jobs /\ ~(t = Main /\ caller = "user")
AtWork == {t \in Threads : HasJob(t)}
\* The main thread has pushed an entry in AddJob and not come to ++m_nJobs.
NotCounted == Ones(pc[Main] \in {"added", "countJob"})
\* AbortAll takes entries out and only sets m_nJobs at its end.
Draining == caller = "abortAll" /\ pc[Main] \in {"drain", "scan", "abortPopped"}
Tally == m_nJobs + raised + NotCounted

JobsInv ==
  /\ m_nJobs \in Int /\ raised \in Int /\ IsFiniteSet(Places)
  /\ ~Draining => Tally = Cardinality(Places) + Cardinality(AtWork)

LEMMA JobsAccount ==
  ASSUME JobsInv, NEW t \in Threads, StepOf(t), NEW e \in Int,
         IsFiniteSet(Places'), Cardinality(Places') = Cardinality(Places) + e,
         m_nJobs' \in Int, raised' \in Int,
         ~Draining' => /\ ~Draining
                       /\ Tally' = Tally + e + Ones(HasJob(t)') - Ones(HasJob(t))
  PROVE  JobsInv'
<1>1. /\ Cardinality(AtWork) \in Int /\ Cardinality(AtWork') \in Int
      /\ Cardinality(AtWork') - Ones(t \in AtWork') = Cardinality(AtWork) - Ones(t \in AtWork)
  <2>1. \A u \in Threads : u # t => (u \in AtWork <=> u \in AtWork')
    BY DEF StepOf, AtWork, HasJob
  <2>2. AtWork \in SUBSET Threads /\ AtWork' \in SUBSET Threads
    BY DEF AtWork
  <2> QED BY <2>1, <2>2, OneApart
<1>2. Ones(t \in AtWork) = Ones(HasJob(t)) /\ Ones(t \in AtWork') = Ones(HasJob(t)')
  BY DEF AtWork, Ones
<1>3. Ones(HasJob(t)) \in Int /\ Ones(HasJob(t)') \in Int
  BY DEF Ones
<1>4. Tally \in Int /\ Cardinality(Places) \in Int
  BY FS_CardinalityType DEF JobsInv, Tally, NotCounted, Ones
<1> QED BY <1>1, <1>2, <1>3, <1>4 DEF JobsInv

\* A step that neither queues, nor takes, nor lets go of a job.
CQuiet(t) ==
  /\ t \in Threads /\ StepOf(t) /\ UNCHANGED <<m_queues, m_nJobs, raised>>
  /\ HasJob(t)' <=> HasJob(t)
  /\ pc'[Main] \in {"added", "countJob"} <=> pc[Main] \in {"added", "countJob"}
  /\ Draining => Draining'

LEMMA CQuietKeeps ==
  ASSUME JobsInv, NEW t, CQuiet(t) PROVE JobsInv'
<1>1. /\ t \in Threads /\ StepOf(t) /\ Places' = Places /\ m_nJobs' \in Int /\ raised' \in Int
  BY DEF CQuiet, Places, JobsInv
<1>2. IsFiniteSet(Places') /\ Cardinality(Places') = Cardinality(Places) + 0
  BY <1>1, FS_CardinalityType DEF JobsInv
<1>3. Tally' = Tally /\ Tally \in Int
  BY DEF CQuiet, Tally, NotCounted, Ones, JobsInv
<1>4. Ones(HasJob(t)') = Ones(HasJob(t)) /\ Ones(HasJob(t)) \in Int
  BY DEF CQuiet, Ones
<1>5. ~Draining' => ~Draining
  BY DEF CQuiet
<1>6. Tally' = Tally + 0 + Ones(HasJob(t)') - Ones(HasJob(t))
  BY <1>3, <1>4
<1> QED BY <1>1, <1>2, <1>5, <1>6, JobsAccount

LEMMA IsAPlace ==
  ASSUME NEW Q \in QueueContents, NEW q, NEW p, NEW i
  PROVE  LET all == UNION {UNION {{<<a, b, c>> : c \in DOMAIN Q[a][b]} : b \in Priorities} : a \in Queues}
         IN  <<q, p, i>> \in all <=> q \in Queues /\ p \in Priorities /\ i \in 1 .. Len(Q[q][p])
<1>1. \A a \in Queues, b \in Priorities : DOMAIN Q[a][b] = 1 .. Len(Q[a][b])
  BY DEF QueueContents
<1> QED BY <1>1

\* One entry more.
LEMMA PushAll ==
  ASSUME QueueType, QueueType', NEW t, NEW q \in Queues, NEW j \in Jobs, NEW p \in Priorities,
         PushItem(t, q, j, p), IsFiniteSet(Places)
  PROVE  IsFiniteSet(Places') /\ Cardinality(Places') = Cardinality(Places) + 1
<1>1. PICK n \in Nat : PushedAt(m_queues, m_queues', q, p, n, j)
  BY Pushes
<1>2. m_queues \in QueueContents /\ m_queues' \in QueueContents
  BY DEF QueueType, QueueContents
<1>3. /\ n = Len(m_queues[q][p]) /\ Len(m_queues'[q][p]) = n + 1
      /\ \A a \in Queues, b \in Priorities : ~(a = q /\ b = p) => m_queues'[a][b] = m_queues[a][b]
  BY <1>1 DEF PushedAt
<1>4. \A a, b, i : /\ <<a, b, i>> \in Places <=> a \in Queues /\ b \in Priorities /\ i \in 1 .. Len(m_queues[a][b])
                   /\ <<a, b, i>> \in Places' <=> a \in Queues /\ b \in Priorities /\ i \in 1 .. Len(m_queues'[a][b])
  BY <1>2, IsAPlace DEF Places
<1>5. /\ \A x \in Places : x = <<x[1], x[2], x[3]>>
      /\ \A x \in Places' : x = <<x[1], x[2], x[3]>>
  BY DEF Places
<1> DEFINE y == <<q, p, n + 1>>
<1>6. y \notin Places /\ y \in Places'
  BY <1>3, <1>4
<1>7. ASSUME NEW a, NEW b, NEW i, <<a, b, i>> # y PROVE <<a, b, i>> \in Places <=> <<a, b, i>> \in Places'
  <2>1. CASE a = q /\ b = p
    <3>1. i # n + 1
      BY <1>7, <2>1
    <3> QED BY <1>3, <1>4, <2>1, <3>1
  <2>2. CASE ~(a = q /\ b = p)
    BY <1>3, <1>4, <2>2
  <2> QED BY <2>1, <2>2
<1> HIDE DEF y
<1>8. \A x : x \in Places' <=> x \in Places \/ x = y
  BY <1>5, <1>6, <1>7
<1>9. Places' = Places \cup {y}
  BY <1>8
<1> QED BY <1>6, <1>9, OneMore

\* One entry less.
LEMMA TakeAll ==
  ASSUME QueueType, QueueType', NEW t \in Threads, TakeItem(t), IsFiniteSet(Places)
  PROVE  IsFiniteSet(Places') /\ Cardinality(Places') = Cardinality(Places) - 1
<1>1. /\ m_queues \in QueueContents /\ m_queues' \in QueueContents
      /\ qUsed[t] \in Queues /\ level[t] \in Priorities
      /\ m_queues[qUsed[t]][level[t]] # <<>>
      /\ m_queues' = [m_queues EXCEPT ![qUsed[t]][level[t]] = Tail(@)]
  BY TakesFrom
<1>2. PICK q \in Queues, p \in Priorities : q = qUsed[t] /\ p = level[t]
  BY <1>1
<1>3. PICK s \in Seq(Jobs) : s = m_queues[q][p]
  BY <1>1 DEF QueueContents
<1>4. PICK n \in Nat : n = Len(s) /\ n > 0
  <2>1. s # <<>>
    BY <1>1, <1>2, <1>3
  <2> QED BY <2>1
<1>5. /\ Len(m_queues'[q][p]) = n - 1
      /\ \A a \in Queues, b \in Priorities : ~(a = q /\ b = p) => m_queues'[a][b] = m_queues[a][b]
  <2>1. m_queues'[q][p] = Tail(s)
    BY <1>1, <1>2, <1>3 DEF QueueContents
  <2>2. Len(Tail(s)) = n - 1
    BY <1>4
  <2> QED BY <1>1, <1>2, <2>1, <2>2 DEF QueueContents
<1>6. \A a, b, i : /\ <<a, b, i>> \in Places <=> a \in Queues /\ b \in Priorities /\ i \in 1 .. Len(m_queues[a][b])
                   /\ <<a, b, i>> \in Places' <=> a \in Queues /\ b \in Priorities /\ i \in 1 .. Len(m_queues'[a][b])
  BY <1>1, IsAPlace DEF Places
<1>7. /\ \A x \in Places : x = <<x[1], x[2], x[3]>>
      /\ \A x \in Places' : x = <<x[1], x[2], x[3]>>
  BY DEF Places
<1> DEFINE y == <<q, p, n>>
<1>8. y \in Places /\ y \notin Places'
  BY <1>3, <1>4, <1>5, <1>6
<1>9. ASSUME NEW a, NEW b, NEW i, <<a, b, i>> # y PROVE <<a, b, i>> \in Places <=> <<a, b, i>> \in Places'
  <2>1. CASE a = q /\ b = p
    <3>1. i # n
      BY <1>9, <2>1
    <3> QED BY <1>3, <1>4, <1>5, <1>6, <2>1, <3>1
  <2>2. CASE ~(a = q /\ b = p)
    BY <1>5, <1>6, <2>2
  <2> QED BY <2>1, <2>2
<1> HIDE DEF y
<1>10. \A x : x \in Places' <=> x \in Places /\ x # y
  BY <1>7, <1>8, <1>9
<1>11. Places' = Places \ {y}
  BY <1>10
<1> QED BY <1>8, <1>11, OneLess
LEMMA ExecuteCounts ==
  ASSUME PInv, QueueType, Placed, Execute
  PROVE  CQuiet(Main)
<1>1. StepOf(Main) /\ UNCHANGED <<m_queues, m_nJobs, raised>>
  BY PoolBasics DEF Execute, PInv, PType, Go, StepOf, queueVars, poolVars, mainVars, history
<1>2. pc[Main] = "execute" /\ pc'[Main] \in {"user", "lock"} /\ caller = "user" /\ caller' = "user"
  BY PoolBasics DEF Execute, PInv, PType, Placed, MainPlaced, Go, mainVars
<1> QED BY <1>1, <1>2, PoolBasics DEF CQuiet, HasJob, Draining

LEMMA QuietSteps ==
  ASSUME PInv, QueueType, Placed
  PROVE  /\ \A t \in Threads :
              Scan(t) \/ CheckFinished(t) \/ TryLockFails(t) \/ Begin(t) \/ TooLate(t) \/ Finish(t)
              \/ Complete(t) \/ LeaveExecute(t) => CQuiet(t)
         /\ \A w \in Workers :
              AnswerCall(w) \/ Suspend(w) \/ Resumed(w) \/ WakeForItem(w) \/ PopDirect(w) \/ PopShared(w)
              => CQuiet(w)
         /\ Execute \/ Abort \/ CountAdded \/ YieldHelp \/ YieldDone \/ CallWorker \/ WaitForSuspension
            \/ DrainPop \/ DrainNext \/ ResumeExecution => CQuiet(Main)
         /\ \A j \in Jobs :
              AddInPlace(j) \/ AddHandled(j) \/ CallExecute(j) \/ CallAbort(j) \/ ReleaseOwned(j)
              \/ CallYieldWait(j) => CQuiet(Main)
         /\ \A by \in {"user", "abortAll"} : CallSuspend(by) => CQuiet(Main)
         /\ UNCHANGED vars => CQuiet(Main)
<1>0. Threads = Workers \cup {Main}
  BY ThreadPoolAssumption
<1> USE <1>0, PoolBasics
    DEF PInv, PType, InHand, WithJob, QueueType, Placed, MainPlaced, Go, CQuiet, StepOf, HasJob, Draining,
        queueVars, jobVars, poolVars, threadVars, mainVars, history
<1>1. ASSUME NEW t \in Threads, Scan(t) PROVE CQuiet(t)
  BY <1>1 DEF Scan, ScanLower
<1>2. ASSUME NEW t \in Threads, CheckFinished(t) PROVE CQuiet(t)
  BY <1>2 DEF CheckFinished
<1>3. ASSUME NEW t \in Threads, TryLockFails(t) PROVE CQuiet(t)
  BY <1>3 DEF TryLockFails
<1>4. ASSUME NEW t \in Threads, Begin(t) PROVE CQuiet(t)
  BY <1>4 DEF Begin
<1>5. ASSUME NEW t \in Threads, TooLate(t) PROVE CQuiet(t)
  BY <1>5 DEF TooLate, AfterExecute
<1>6. ASSUME NEW t \in Threads, Finish(t) PROVE CQuiet(t)
  BY <1>6 DEF Finish
<1>7. ASSUME NEW t \in Threads, Complete(t) PROVE CQuiet(t)
  BY <1>7 DEF Complete
<1>8. ASSUME NEW t \in Threads, LeaveExecute(t) PROVE CQuiet(t)
  BY <1>8 DEF LeaveExecute, AfterExecute
<1>9. ASSUME NEW w \in Workers, AnswerCall(w) PROVE CQuiet(w)
  BY <1>9 DEF AnswerCall
<1>10. ASSUME NEW w \in Workers, Suspend(w) PROVE CQuiet(w)
  BY <1>10 DEF Suspend
<1>11. ASSUME NEW w \in Workers, Resumed(w) PROVE CQuiet(w)
  BY <1>11 DEF Resumed
<1>12. ASSUME NEW w \in Workers, WakeForItem(w) PROVE CQuiet(w)
  BY <1>12 DEF WakeForItem
<1>13. ASSUME NEW w \in Workers, PopDirect(w) PROVE CQuiet(w)
  BY <1>13 DEF PopDirect, Reserve
<1>14. ASSUME NEW w \in Workers, PopShared(w) PROVE CQuiet(w)
  BY <1>14 DEF PopShared, Reserve, BackToWait
<1>15. ASSUME Execute PROVE CQuiet(Main)
  BY ONLY <1>15, ExecuteCounts, PInv, QueueType, Placed
<1>16. ASSUME Abort PROVE CQuiet(Main)
  BY <1>16 DEF Abort
<1>17. ASSUME CountAdded PROVE CQuiet(Main)
  BY <1>17 DEF CountAdded, CountItem
<1>18. ASSUME YieldHelp PROVE CQuiet(Main)
  BY <1>18 DEF YieldHelp, Reserve
<1>19. ASSUME YieldDone PROVE CQuiet(Main)
  BY <1>19 DEF YieldDone
<1>20. ASSUME CallWorker PROVE CQuiet(Main)
  BY <1>20 DEF CallWorker
<1>21. ASSUME WaitForSuspension PROVE CQuiet(Main)
  BY <1>21 DEF WaitForSuspension
<1>22. ASSUME DrainPop PROVE CQuiet(Main)
  BY <1>22 DEF DrainPop, Reserve
<1>23. ASSUME DrainNext PROVE CQuiet(Main)
  BY <1>23 DEF DrainNext
<1>24. ASSUME ResumeExecution PROVE CQuiet(Main)
  BY <1>24 DEF ResumeExecution
<1>25. ASSUME NEW j \in Jobs, AddInPlace(j) PROVE CQuiet(Main)
  BY <1>25 DEF AddInPlace, Call
<1>26. ASSUME NEW j \in Jobs, AddHandled(j) PROVE CQuiet(Main)
  BY <1>26 DEF AddHandled, Call
<1>27. ASSUME NEW j \in Jobs, CallExecute(j) PROVE CQuiet(Main)
  BY <1>27 DEF CallExecute, Call
<1>28. ASSUME NEW j \in Jobs, CallAbort(j) PROVE CQuiet(Main)
  BY <1>28 DEF CallAbort, Call
<1>29. ASSUME NEW j \in Jobs, ReleaseOwned(j) PROVE CQuiet(Main)
  BY <1>29 DEF ReleaseOwned, Call
<1>30. ASSUME NEW j \in Jobs, CallYieldWait(j) PROVE CQuiet(Main)
  BY <1>30 DEF CallYieldWait, Call
<1>31. ASSUME NEW by \in {"user", "abortAll"}, CallSuspend(by) PROVE CQuiet(Main)
  <2>1. caller = "user" /\ pc[Main] = "user" /\ pc'[Main] \in {"call", "drain"} /\ job' = job
    BY <1>31 DEF CallSuspend
  <2>2. \A u \in Threads : u # Main => job'[u] = job[u] /\ pc'[u] = pc[u]
    BY <1>31 DEF CallSuspend
  <2>3. job[Main] \notin Jobs
    BY <2>1
  <2> QED BY <1>31, <2>1, <2>2, <2>3 DEF CallSuspend
<1>32. ASSUME UNCHANGED vars PROVE CQuiet(Main)
  BY <1>32 DEF vars
<1> QED
  BY ONLY <1>1, <1>2, <1>3, <1>4, <1>5, <1>6, <1>7, <1>8, <1>9, <1>10, <1>11, <1>12, <1>13, <1>14, <1>15, <1>16, <1>17, <1>18, <1>19, <1>20, <1>21, <1>22, <1>23, <1>24, <1>25, <1>26, <1>27, <1>28, <1>29, <1>30, <1>31, <1>32


LEMMA PushedJobs ==
  ASSUME PInv, QueueType, QueueType', Placed, JobsInv, NEW j \in Jobs,
         AddToQueue(j) \/ \E p \in Priorities : ChangePriority(j, p)
  PROVE  JobsInv'
<1>1. PICK q \in Queues, r \in Priorities : PushItem(Main, q, j, r)
  <2>1. AddToQueue(j) => PushItem(Main, QueueOf(j), j, PriorityOf(j))
    BY DEF AddToQueue
  <2>2. QueueOf(j) \in Queues /\ PriorityOf(j) \in Priorities
    BY PoolBasics DEF QueueOf, PriorityOf, PInv, PType
  <2>3. \A p \in Priorities : ChangePriority(j, p) => PushItem(Main, Shared, j, p)
    BY DEF ChangePriority
  <2> QED BY <2>1, <2>2, <2>3, PoolBasics
<1>2. IsFiniteSet(Places') /\ Cardinality(Places') = Cardinality(Places) + 1
  BY <1>1, PushAll DEF JobsInv
<1>3. /\ pc[Main] = "user" /\ caller = "user" /\ caller' = "user" /\ job' = job
      /\ \A u \in Threads : u # Main => pc'[u] = pc[u]
      /\ \/ pc'[Main] = "added" /\ UNCHANGED <<m_nJobs, raised>>
         \/ pc'[Main] = "raised" /\ m_nJobs' = m_nJobs /\ raised' = raised + 1
  BY PoolBasics DEF AddToQueue, ChangePriority, Call, Go, PInv, PType, Placed, MainPlaced, poolVars, mainVars
<1>4. StepOf(Main) /\ ~HasJob(Main) /\ ~HasJob(Main)' /\ ~Draining
  BY <1>3 DEF StepOf, HasJob, Draining
<1>5. m_nJobs' \in Int /\ raised' \in Int /\ Tally' = Tally + 1 + Ones(HasJob(Main)') - Ones(HasJob(Main))
  BY <1>3, <1>4 DEF JobsInv, Tally, NotCounted, Ones
<1> QED BY <1>2, <1>4, <1>5, PoolBasics, JobsAccount

LEMMA PoppedJobs ==
  ASSUME PInv, QueueType, QueueType', Placed, JobsInv, NEW t \in Threads, Popped(t)
  PROVE  JobsInv'
<1>0. PICK e \in Int : e = -1
  OBVIOUS
<1>1. /\ TakeItem(t) /\ caller' = caller /\ UNCHANGED <<m_nJobs, raised>>
      /\ pc[t] = "scan" /\ pc'[t] \in {"popped", "abortPopped"}
      /\ \A u \in Threads : u # t => job'[u] = job[u] /\ pc'[u] = pc[u]
      /\ job'[t] = Head(Place(t))
  BY DEF Popped, Go, PInv, PType, poolVars, mainVars, history
<1>2. Head(Place(t)) \in Jobs
  <2>1. level[t] \in Priorities /\ qUsed[t] \in Queues /\ Place(t) # <<>>
    BY Basics DEF Popped, TakeItem, QueueType
  <2>2. Place(t) \in Seq(Jobs)
    BY <2>1 DEF Place, QueueType
  <2> QED BY <2>1, <2>2
<1>3. IsFiniteSet(Places') /\ Cardinality(Places') = Cardinality(Places) + e
  <2>1. IsFiniteSet(Places') /\ Cardinality(Places') = Cardinality(Places) - 1
    BY <1>1, TakeAll DEF JobsInv
  <2> QED BY <1>0, <2>1, FS_CardinalityType DEF JobsInv
<1>4. StepOf(t) /\ ~HasJob(t) /\ HasJob(t)' /\ (Draining => Draining')
  <2>1. ~(t = Main /\ caller = "user")
    BY <1>1 DEF Placed, MainPlaced
  <2>2. job[t] \notin Jobs
    BY <1>1 DEF PInv, InHand, WithJob
  <2>3. Draining => Draining'
    <3>1. t = Main /\ Draining => pc'[Main] = "abortPopped"
      BY DEF Popped, Go, PInv, PType, Draining
    <3> QED BY <1>1, <3>1, PoolBasics DEF Draining
  <2> QED BY <1>1, <1>2, <2>1, <2>2, <2>3 DEF StepOf, HasJob
<1>5. /\ m_nJobs' \in Int /\ raised' \in Int
      /\ Tally' = Tally + e + Ones(HasJob(t)') - Ones(HasJob(t))
  <2>1. pc'[Main] \in {"added", "countJob"} <=> pc[Main] \in {"added", "countJob"}
    BY <1>1, PoolBasics
  <2> QED BY <1>0, <1>1, <1>4, <2>1 DEF JobsInv, Tally, NotCounted, Ones
<1>6. ~Draining' => ~Draining
  BY <1>4
<1> QED BY <1>3, <1>4, <1>5, <1>6, JobsAccount

LEMMA ReleaseJobs ==
  ASSUME PInv, QueueType, Placed, JobsInv, NEW t \in Threads, Release(t)
  PROVE  JobsInv'
<1>0. PICK e \in Int : e = 0
  OBVIOUS
<1>1. /\ UNCHANGED m_queues /\ caller' = caller /\ raised' = raised /\ m_nJobs' = m_nJobs - 1
      /\ pc[t] = "release" /\ job'[t] = None
      /\ \A u \in Threads : u # t => job'[u] = job[u] /\ pc'[u] = pc[u]
      /\ pc'[t] \notin {"added", "countJob"}
  BY DEF Release, BackToWait, Go, PInv, PType, queueVars, mainVars, history
<1>2. Places' = Places /\ IsFiniteSet(Places') /\ Cardinality(Places') = Cardinality(Places) + e
  BY <1>0, <1>1, FS_CardinalityType DEF Places, JobsInv
<1>3. StepOf(t) /\ HasJob(t) /\ ~HasJob(t)' /\ (Draining => Draining')
  <2>1. ~(t = Main /\ caller = "user")
    BY <1>1 DEF Placed, MainPlaced
  <2>2. job[t] \in Jobs
    BY <1>1 DEF PInv, InHand, WithJob
  <2>3. Draining => t # Main
    BY <1>1 DEF Draining
  <2> QED BY <1>1, <2>1, <2>2, <2>3, PoolBasics DEF StepOf, HasJob, Draining
<1>4. /\ m_nJobs' \in Int /\ raised' \in Int
      /\ Tally' = Tally + e + Ones(HasJob(t)') - Ones(HasJob(t))
  <2>1. pc'[Main] \in {"added", "countJob"} <=> pc[Main] \in {"added", "countJob"}
    BY <1>1, PoolBasics
  <2> QED BY <1>0, <1>1, <1>3, <2>1 DEF JobsInv, Tally, NotCounted, Ones
<1>5. ~Draining' => ~Draining
  BY <1>3
<1> QED BY <1>2, <1>3, <1>4, <1>5, JobsAccount

LEMMA CountJobJobs ==
  ASSUME PInv, QueueType, Placed, JobsInv, CountJob
  PROVE  JobsInv'
<1>1. /\ UNCHANGED m_queues /\ caller' = caller /\ raised' = raised /\ m_nJobs' = m_nJobs + 1
      /\ pc[Main] = "countJob" /\ pc'[Main] = "user" /\ job' = job
      /\ \A u \in Threads : u # Main => pc'[u] = pc[u]
  BY PoolBasics DEF CountJob, Go, PInv, PType, queueVars, mainVars, history
<1>2. Places' = Places /\ IsFiniteSet(Places') /\ Cardinality(Places') = Cardinality(Places) + 0
  BY <1>1, FS_CardinalityType DEF Places, JobsInv
<1>3. StepOf(Main) /\ (HasJob(Main)' <=> HasJob(Main)) /\ ~Draining
  BY <1>1 DEF StepOf, HasJob, Draining
<1>4. /\ m_nJobs' \in Int /\ raised' \in Int
      /\ Tally' = Tally + 0 + Ones(HasJob(Main)') - Ones(HasJob(Main))
  BY <1>1, <1>3 DEF JobsInv, Tally, NotCounted, Ones
<1> QED BY <1>2, <1>3, <1>4, PoolBasics, JobsAccount

LEMMA AbortPoppedJobs ==
  ASSUME PInv, QueueType, Placed, JobsInv, AbortPopped
  PROVE  JobsInv'
<1>1. /\ UNCHANGED <<m_queues, m_nJobs, raised>> /\ caller' = caller /\ pc[Main] = "abortPopped"
      /\ pc'[Main] = "drain"
  BY PoolBasics DEF AbortPopped, Go, PInv, PType, queueVars, poolVars, mainVars, history
<1>2. Places' = Places /\ Draining'
  BY <1>1 DEF Places, Draining, Placed, MainPlaced
<1> QED BY <1>1, <1>2 DEF JobsInv

\* At the end of AbortAll there is nothing to count.
LEMMA DrainDoneJobs ==
  ASSUME PInv', QueueType, JobsInv, Placed', AbortAllLeavesNothing', DrainDone
  PROVE  JobsInv'
<1>1. m_nJobs' = 0 /\ raised' = 0 /\ UNCHANGED m_queues /\ pc'[Main] = "resume"
  BY PoolBasics DEF DrainDone, Go, PInv, PType, queueVars
<1>2. Places' = {} /\ Cardinality({}) = 0 /\ IsFiniteSet({})
  BY <1>1, FS_EmptySet DEF AbortAllLeavesNothing
<1>3. AtWork' = {}
  <2>1. caller' = "abortAll" /\ m_nSuspend' > 0
    BY <1>1 DEF Placed, MainPlaced
  <2>2. \A w \in Workers : pc'[w] = "suspended"
    BY <2>1 DEF PInv, Asleep
  <2>3. \A t \in Threads : pc'[t] \in {"resume", "suspended"}
    BY <1>1, <2>2, ThreadPoolAssumption
  <2>4. \A t \in Threads : job'[t] \notin Jobs
    BY <2>3 DEF PInv, InHand, WithJob
  <2> QED BY <2>4 DEF AtWork, HasJob
<1> QED BY <1>1, <1>2, <1>3 DEF JobsInv, Tally, NotCounted, Ones

LEMMA NextJobs ==
  ASSUME PInv, PInv', QueueType, QueueType', Placed, Placed', AbortAllLeavesNothing', JobsInv, [Next]_vars
  PROVE  JobsInv'
<1>1. ASSUME NEW t \in Threads, Service(t) PROVE JobsInv'
  BY <1>1, QuietSteps, CQuietKeeps, PoppedJobs, ReleaseJobs DEF Service
<1>2. ASSUME NEW w \in Workers, Worker(w) PROVE JobsInv'
  BY <1>1, <1>2, QuietSteps, CQuietKeeps, PoolBasics DEF Worker
<1>3. ASSUME MainInside PROVE JobsInv'
  BY <1>1, <1>3, QuietSteps, CQuietKeeps, CountJobJobs, AbortPoppedJobs, DrainDoneJobs, PoolBasics
     DEF MainInside
<1>4. ASSUME MainCalls PROVE JobsInv'
  BY <1>4, QuietSteps, CQuietKeeps, PushedJobs DEF MainCalls
<1>5. ASSUME UNCHANGED vars PROVE JobsInv'
  BY <1>5, QuietSteps, CQuietKeeps
<1> QED BY <1>2, <1>3, <1>4, <1>5 DEF Next

LEMMA JobsInitially == Init => JobsInv
<1> SUFFICES ASSUME Init PROVE JobsInv
  OBVIOUS
<1>1. /\ m_queues \in QueueContents /\ \A q \in Queues, p \in Priorities : m_queues[q][p] = <<>>
      /\ m_nJobs = 0 /\ raised = 0 /\ pc[Main] = "user" /\ \A t \in Threads : job[t] = None
  BY PoolBasics DEF Init, QueueInit, QueueContents
<1>2. Places = {} /\ AtWork = {}
  <2>1. \A x \in Places : FALSE
    BY <1>1 DEF Places
  <2> QED BY <1>1, <2>1, PoolBasics DEF AtWork, HasJob
<1> QED BY <1>1, <1>2, FS_EmptySet DEF JobsInv, Tally, NotCounted, Ones

(* Between calls of the main thread GetJobCount is the number of entries in the queues
   and of jobs being serviced, less those ChangePriority added: no interleaving of a push, a
   pop and the two counts loses one, and AbortAll starts again from an empty pool. *)
THEOREM JobsAreCounted == Spec => []JobsCounted
<1>1. (PInv /\ QInv) /\ (PInv /\ QInv)' /\ Placed /\ Placed' /\ AbortAllLeavesNothing' /\ JobsInv
      /\ [Next]_vars => JobsInv'
  BY NextJobs DEF QInv
<1>2. Spec => []JobsInv
  BY <1>1, JobsInitially, PoolInvariant, RefInvariant, NothingLeftByAbortAll, PTL DEF Spec
<1>3. PInv /\ Placed /\ JobsInv => JobsCounted
  <2> SUFFICES ASSUME PInv, Placed, JobsInv, pc[Main] = "user"
               PROVE  m_nJobs + raised = Cardinality(Places) + Cardinality({w \in Workers : job[w] # None})
    BY DEF JobsCounted
  <2>1. caller = "user"
    BY DEF Placed, MainPlaced
  <2>2. AtWork = {w \in Workers : job[w] # None}
    BY <2>1, PoolBasics, ThreadPoolAssumption DEF AtWork, HasJob, PInv, PType
  <2> QED BY <2>1, <2>2 DEF JobsInv, Tally, NotCounted, Ones, Draining
<1> QED BY <1>2, <1>3, PoolInvariant, RefInvariant, PTL
=============================================================================
