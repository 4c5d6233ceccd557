--------------------------- MODULE TSQueueProofs ---------------------------
(***************************************************************************)
(* CTSQueue for any number of threads, nodes, pushes and pops, at every    *)
(* interleaving of their accesses to memory: its lists, its order, its     *)
(* free list and, when no call is under way, its count.                    *)
(***************************************************************************)
EXTENDS TSQueue, FiniteSetTheorems, SequenceTheorems, TLAPS

-----------------------------------------------------------------------------
(* What can be reached along a pNext *)

\* pNext does not lead out of the set.
Shut(P, S) == \A m \in S : P[m] \in Nodes => P[m] \in S
Reach(P, n) == {m \in Nodes : \A S \in SUBSET Nodes : n \in S /\ Shut(P, S) => m \in S}

LEMMA FromIsReach ==
  ASSUME NEW n PROVE From(n) = Reach(pNext, n)
  BY DEF From, Reach, Shut

\* The node itself, and whatever follows; nothing else.
LEMMA ReachShut ==
  ASSUME NEW P, NEW n \in Nodes
  PROVE  n \in Reach(P, n) /\ Reach(P, n) \in SUBSET Nodes /\ Shut(P, Reach(P, n))
<1>1. n \in Reach(P, n) /\ Reach(P, n) \in SUBSET Nodes
  BY DEF Reach
<1>2. ASSUME NEW m \in Reach(P, n), P[m] \in Nodes PROVE P[m] \in Reach(P, n)
  <2>1. ASSUME NEW S \in SUBSET Nodes, n \in S, Shut(P, S) PROVE P[m] \in S
    BY <1>2, <2>1 DEF Reach, Shut
  <2> QED BY <1>2, <2>1 DEF Reach
<1> QED BY <1>1, <1>2 DEF Shut

LEMMA ReachLeast ==
  ASSUME NEW P, NEW n, NEW S \in SUBSET Nodes, n \in S, Shut(P, S)
  PROVE  Reach(P, n) \subseteq S
  BY DEF Reach

LEMMA ReachWithin ==
  ASSUME NEW P, NEW n \in Nodes, NEW m \in Reach(P, n)
  PROVE  Reach(P, m) \subseteq Reach(P, n)
  BY ReachShut, ReachLeast

LEMMA ReachNext ==
  ASSUME NEW P, NEW n \in Nodes
  PROVE  /\ P[n] \in Nodes => Reach(P, n) = {n} \cup Reach(P, P[n])
         /\ P[n] \notin Nodes => Reach(P, n) = {n}
<1>1. CASE P[n] \in Nodes
  <2> DEFINE S == {n} \cup Reach(P, P[n])
  <2>1. P[n] \in Reach(P, P[n]) /\ Reach(P, P[n]) \in SUBSET Nodes /\ Shut(P, Reach(P, P[n]))
    BY <1>1, ReachShut
  <2>2. S \in SUBSET Nodes /\ n \in S /\ Shut(P, S)
    BY <2>1 DEF Shut
  <2>3. Reach(P, n) \subseteq S
    BY <2>2, ReachLeast
  <2>4. n \in Reach(P, n) /\ P[n] \in Reach(P, n)
    BY <1>1, ReachShut DEF Shut
  <2>5. Reach(P, P[n]) \subseteq Reach(P, n)
    BY <2>4, ReachWithin
  <2> QED BY <1>1, <2>3, <2>4, <2>5
<1>2. CASE P[n] \notin Nodes
  <2>1. Shut(P, {n})
    BY <1>2 DEF Shut
  <2>2. Reach(P, n) \subseteq {n}
    BY <2>1, ReachLeast
  <2> QED BY <1>2, <2>2, ReachShut
<1> QED BY <1>1, <1>2

\* A list is what it was when no node of it was written to.
LEMMA ReachSame ==
  ASSUME NEW P, NEW Q, NEW n \in Nodes, \A m \in Reach(P, n) : Q[m] = P[m]
  PROVE  Reach(Q, n) = Reach(P, n)
<1>1. n \in Reach(P, n) /\ Reach(P, n) \in SUBSET Nodes /\ Shut(P, Reach(P, n))
  BY ReachShut
<1>2. Shut(Q, Reach(P, n))
  BY <1>1 DEF Shut
<1>3. Reach(Q, n) \subseteq Reach(P, n)
  BY <1>1, <1>2, ReachLeast
<1>4. n \in Reach(Q, n) /\ Reach(Q, n) \in SUBSET Nodes /\ Shut(Q, Reach(Q, n))
  BY ReachShut
<1>5. Shut(P, Reach(Q, n))
  BY <1>3, <1>4 DEF Shut
<1>6. Reach(P, n) \subseteq Reach(Q, n)
  BY <1>4, <1>5, ReachLeast
<1> QED BY <1>3, <1>6

\* Writing to one node leaves a list without it alone, and puts another behind the
\* end of a list.
LEMMA ReachWritten ==
  ASSUME NEW P, NEW Q, NEW l \in Nodes, NEW n \in Nodes, \A m \in Nodes \ {l} : Q[m] = P[m]
  PROVE  /\ l \notin Reach(P, n) => Reach(Q, n) = Reach(P, n)
         /\ l \in Reach(P, n) /\ P[l] \notin Nodes /\ Q[l] \in Nodes
              => Reach(Q, n) = Reach(P, n) \cup Reach(P, Q[l])
<1>1. n \in Reach(P, n) /\ Reach(P, n) \in SUBSET Nodes /\ Shut(P, Reach(P, n))
  BY ReachShut
<1>2. ASSUME l \notin Reach(P, n) PROVE Reach(Q, n) = Reach(P, n)
  BY <1>1, <1>2, ReachSame
<1>3. ASSUME l \in Reach(P, n), P[l] \notin Nodes, Q[l] \in Nodes
      PROVE  Reach(Q, n) = Reach(P, n) \cup Reach(P, Q[l])
  <2> DEFINE k == Q[l]
  <2>1. k \in Reach(P, k) /\ Reach(P, k) \in SUBSET Nodes /\ Shut(P, Reach(P, k))
    BY <1>3, ReachShut
  <2>2. Shut(Q, Reach(P, n) \cup Reach(P, k))
    <3> SUFFICES ASSUME NEW m \in Reach(P, n) \cup Reach(P, k), Q[m] \in Nodes
                 PROVE  Q[m] \in Reach(P, n) \cup Reach(P, k)
      BY DEF Shut
    <3>1. CASE m = l
      BY <2>1, <3>1
    <3>2. CASE m # l
      BY <1>1, <2>1, <3>2 DEF Shut
    <3> QED BY <3>1, <3>2
  <2>3. Reach(Q, n) \subseteq Reach(P, n) \cup Reach(P, k)
    BY <1>1, <2>1, <2>2, ReachLeast
  <2>4. n \in Reach(Q, n) /\ Reach(Q, n) \in SUBSET Nodes /\ Shut(Q, Reach(Q, n))
    BY ReachShut
  <2>5. Shut(P, Reach(Q, n))
    BY <1>3, <2>4 DEF Shut
  <2>6. Reach(P, n) \subseteq Reach(Q, n)
    BY <2>4, <2>5, ReachLeast
  <2>7. l \in Reach(Q, n) /\ k \in Reach(Q, n)
    BY <1>3, <2>4, <2>6 DEF Shut
  <2>8. Reach(P, k) \subseteq Reach(Q, n)
    BY <2>4, <2>5, <2>7, ReachLeast
  <2> QED BY <2>3, <2>6, <2>8
<1> QED BY <1>2, <1>3

-----------------------------------------------------------------------------
(* The invariant *)

Linking == {"link", "helpNext", "helpPush", "finish"}
Pushing == {"tailSequence", "tailNode"} \cup Linking \cup {"count"}
Popper(t) == pc[t] \in {"popCount", "free"}
Popping == {"headSequence", "headNode", "popTailSequence", "popNext", "checkHead", "checkTail",
            "popHelp", "element", "pop", "popCount", "free"}

Spots == [pNode : Nodes, sequence : Nat]
Types ==
  /\ m_Head \in Spots /\ m_Tail \in Spots
  /\ pNext \in [Nodes -> Words] /\ elem \in [Nodes -> Items \cup {Nothing}]
  /\ m_FreeNodes \in Seq(Nodes) /\ m_Count \in Int /\ unused \in SUBSET Nodes
  /\ pc \in [Threads -> {"idle"} \cup Pushing \cup Popping]
  /\ node \in [Threads -> Nodes \cup {NULL}] /\ link \in [Threads -> Spots]
  /\ tailSequence \in [Threads -> Nat] /\ next \in [Threads -> Words]
  /\ item \in [Threads -> Items \cup {Nothing}]
  /\ npush \in [Threads -> Nat] /\ stray \in BOOLEAN
  /\ order \in Seq(Items) /\ popped \in Seq(Items)
  /\ there \in [Threads -> SUBSET returned]
  /\ \A t \in Threads : pc[t] \in Pushing \/ Popper(t) => node[t] \in Nodes

Queue == Reach(pNext, m_Head.pNode)
Free == Range(m_FreeNodes)
\* What a thread has that no other may touch.
Held(t) == IF Unlinked(t) THEN Reach(pNext, node[t]) ELSE IF Popper(t) THEN {node[t]} ELSE {}

Apart ==
  /\ IsInjective(m_FreeNodes)
  /\ Free \cap unused = {} /\ Queue \cap Free = {} /\ Queue \cap unused = {}
  /\ \A t \in Threads :
       Held(t) \cap Queue = {} /\ Held(t) \cap Free = {} /\ Held(t) \cap unused = {}
  /\ \A t, u \in Threads : t # u => Held(t) \cap Held(u) = {}
Covered ==
  \A n \in Nodes : n \in Queue \/ n \in Free \/ n \in unused \/ \E t \in Threads : n \in Held(t)

\* A node of the queue, or of a list that waits behind a node.
Listed(n) == n \in Queue \/ \E t \in Threads : Unlinked(t) /\ n \in Reach(pNext, node[t])
Linked ==
  /\ \A n \in Nodes : Listed(n) => /\ pNext[n] \in Nodes \cup {End}
                                   /\ pNext[n] \in Nodes => n \notin Reach(pNext, pNext[n])
  /\ \A n \in Free \cup unused : pNext[n] # End
  /\ \A t \in Threads : Popper(t) => pNext[node[t]] # End

\* A thread that is about to link to a list of another read the tail before
\* that one had its node.
Earlier(R) ==
  /\ R \in SUBSET (Threads \X Threads)
  /\ \A t \in Threads : <<t, t>> \notin R
  /\ \A t, u, v \in Threads : <<t, u>> \in R /\ <<u, v>> \in R => <<t, v>> \in R
  /\ \A t, u \in Threads :
       pc[t] = "link" /\ Unlinked(u) /\ link[t].pNode \in Reach(pNext, node[u]) => <<t, u>> \in R
Forest == \E R \in SUBSET (Threads \X Threads) : Earlier(R)

TailRead(t) ==
  /\ pc[t] \in Linking \cup {"tailNode"} => link[t].sequence <= m_Tail.sequence
  /\ pc[t] \in Linking /\ link[t].sequence = m_Tail.sequence => link[t].pNode = m_Tail.pNode
  /\ m_Tail = link[t] =>
       /\ pc[t] = "helpNext" => pNext[m_Tail.pNode] # End
       /\ pc[t] = "helpPush" => pNext[m_Tail.pNode] = next[t] /\ next[t] # End
       /\ pc[t] = "finish" => pNext[m_Tail.pNode] = node[t]

HeadRead(t) ==
  /\ pc[t] \in Popping \ {"headSequence", "popCount", "free"} => link[t].sequence <= m_Head.sequence
  /\ pc[t] \in Popping \ {"headSequence", "headNode", "popCount", "free"}
       /\ link[t].sequence = m_Head.sequence => link[t].pNode = m_Head.pNode
  /\ pc[t] \in {"popNext", "checkHead", "checkTail", "popHelp"} =>
       tailSequence[t] <= m_Tail.sequence
  /\ pc[t] \in {"checkHead", "checkTail", "popHelp"} /\ next[t] # End
       /\ m_Tail.pNode = link[t].pNode /\ m_Tail.sequence = tailSequence[t]
       => pNext[m_Tail.pNode] = next[t]
  /\ pc[t] \in {"checkHead", "checkTail", "element", "pop"} /\ next[t] # End /\ m_Head = link[t]
       => pNext[m_Head.pNode] = next[t]
  /\ pc[t] \in {"checkTail", "popHelp"} => next[t] # NULL
  /\ pc[t] = "popHelp" => next[t] # End
  /\ pc[t] \in {"element", "pop"} =>
       /\ next[t] \in Nodes
       /\ m_Head = link[t] => m_Tail.pNode # m_Head.pNode
  /\ pc[t] = "pop" /\ m_Head = link[t] => item[t] = elem[next[t]]

Ends ==
  /\ m_Tail.pNode \in Queue
  /\ \A t \in Threads : TailRead(t) /\ HeadRead(t)

\* Nodes whose element is still to be taken.
Full(n) == Listed(n) /\ n # m_Head.pNode
Pushed(count, x) == x[1] \in Threads /\ x[2] <= count[x[1]]
Elements ==
  /\ \A n \in Nodes : Full(n) => elem[n] \in Items /\ Pushed(npush, elem[n]) /\ elem[n] \notin Range(popped)
  /\ \A m, n \in Nodes : Full(m) /\ Full(n) /\ elem[m] = elem[n] => m = n
  /\ \A t \in Threads : Unlinked(t) => elem[node[t]] = <<t, npush[t]>>
  /\ \A t \in Threads : pc[t] \in {"finish", "count"} => <<t, npush[t]>> \in Range(order)
  /\ \A x \in Range(popped) : Pushed(npush, x)
  /\ IsInjective(popped)
  /\ returned \in SUBSET Range(order)
  /\ \A x \in Items : x \in Range(order) <=>
       \/ x \in Range(popped)
       \/ \E n \in Nodes : /\ Full(n) /\ elem[n] = x
                           /\ \A t \in Threads : Unlinked(t) => n # node[t]

\* The nodes from the head on, in their order.
InOrder(path, len) ==
  /\ len \in Nat /\ Len(order) = Len(popped) + len
  /\ \A i \in 1 .. Len(popped) : popped[i] = order[i]
  /\ path \in [0 .. len -> Queue]
  /\ path[0] = m_Head.pNode /\ pNext[path[len]] = End
  /\ \A i \in 0 .. len - 1 :
       /\ pNext[path[i]] = path[i + 1]
       /\ elem[path[i + 1]] = order[Len(popped) + i + 1]
Straight ==
  ~stray => /\ \A t \in Threads : Unlinked(t) => pNext[node[t]] = End
            /\ \E len \in 0 .. Len(order) : \E path \in [0 .. len -> Queue] : InOrder(path, len)

SeenNothing(t) ==
  /\ ~stray /\ next[t] = End
  /\ pc[t] # "checkTail" => pc[t] = "checkHead" /\ link[t].sequence = m_Head.sequence
  => there[t] \subseteq Range(popped)
SeenEmpty == \A t \in Threads : SeenNothing(t)

IInv == Types /\ Apart /\ Covered /\ Linked /\ Forest /\ Ends /\ Elements /\ Straight /\ SeenEmpty

-----------------------------------------------------------------------------
(* Steps that leave the lists as they are *)

LEMMA SpotsEqual ==
  \A a, b \in Spots : /\ a = b <=> a.pNode = b.pNode /\ a.sequence = b.sequence
                      /\ a.pNode \in Nodes /\ a.sequence \in Nat
  BY DEF Spots

Others(t) == \A u \in Threads \ {t} :
  /\ pc'[u] = pc[u] /\ node'[u] = node[u] /\ link'[u] = link[u] /\ next'[u] = next[u]
  /\ tailSequence'[u] = tailSequence[u] /\ item'[u] = item[u] /\ there'[u] = there[u]

\* The tail stays, or moves on past the head.
TailKept ==
  \/ m_Tail' = m_Tail
  \/ /\ m_Tail'.pNode \in Queue /\ m_Tail'.pNode # m_Head.pNode
     /\ m_Tail'.sequence > m_Tail.sequence
HeadKept == m_Head' = m_Head \/ m_Head'.sequence > m_Head.sequence

\* What the other threads have read of the two ends stays right.
LEMMA OthersEnds ==
  ASSUME Types, Types', Linked, Ends, NEW t \in Threads, Others(t), TailKept, HeadKept,
         m_Head' # m_Head => m_Tail' = m_Tail,
         \A n \in {m_Head.pNode, m_Tail.pNode} : pNext[n] # End => pNext'[n] = pNext[n],
         pNext[m_Head.pNode] \in Nodes =>
           elem'[pNext[m_Head.pNode]] = elem[pNext[m_Head.pNode]],
         NEW u \in Threads \ {t}
  PROVE  TailRead(u)' /\ HeadRead(u)'
<1>1. /\ m_Head \in Spots /\ m_Tail \in Spots /\ link[u] \in Spots
      /\ m_Head' \in Spots /\ m_Tail' \in Spots
      /\ m_Head.sequence \in Nat /\ m_Tail.sequence \in Nat /\ link[u].sequence \in Nat
      /\ m_Head'.sequence \in Nat /\ m_Tail'.sequence \in Nat /\ tailSequence[u] \in Nat
  BY SpotsEqual DEF Types
<1>2. /\ pc'[u] = pc[u] /\ node'[u] = node[u] /\ link'[u] = link[u] /\ next'[u] = next[u]
      /\ tailSequence'[u] = tailSequence[u] /\ item'[u] = item[u]
  BY DEF Others
<1>3. TailRead(u) /\ HeadRead(u)
  BY DEF Ends
<1>4. \/ m_Tail' = m_Tail
      \/ m_Tail'.sequence > m_Tail.sequence /\ m_Tail'.pNode # m_Head.pNode
  BY DEF TailKept
<1>5. \/ m_Head' = m_Head
      \/ m_Head'.sequence > m_Head.sequence /\ m_Tail' = m_Tail
  BY DEF HeadKept
<1>6. /\ pc[u] \in Linking \cup {"tailNode"} => link[u].sequence <= m_Tail.sequence
      /\ pc[u] \in Linking /\ link[u].sequence = m_Tail.sequence => link[u].pNode = m_Tail.pNode
      /\ m_Tail = link[u] =>
          /\ pc[u] = "helpNext" => pNext[m_Tail.pNode] # End
          /\ pc[u] = "helpPush" => pNext[m_Tail.pNode] = next[u] /\ next[u] # End
          /\ pc[u] = "finish" => pNext[m_Tail.pNode] = node[u]
  BY <1>3 DEF TailRead
<1>7. pc[u] = "finish" => node[u] \in Nodes /\ node[u] # End
  BY QueueAssumption DEF Types, Pushing, Linking
<1>8. TailRead(u)'
  BY <1>1, <1>2, <1>4, <1>6, <1>7 DEF TailRead, Linking
<1>9. HeadRead(u)'
  <2>1. \/ m_Head' = m_Head /\ m_Tail' = m_Tail
        \/ m_Head' = m_Head /\ m_Tail'.sequence > m_Tail.sequence /\ m_Tail'.pNode # m_Head.pNode
        \/ m_Head'.sequence > m_Head.sequence /\ m_Tail' = m_Tail
    BY <1>4, <1>5
  <2>2. CASE m_Head' = m_Head /\ m_Tail' = m_Tail
    BY <1>1, <1>2, <1>3, <2>2, QueueAssumption DEF HeadRead, Popping
  <2>3. CASE m_Head' = m_Head /\ m_Tail'.sequence > m_Tail.sequence /\ m_Tail'.pNode # m_Head.pNode
    BY <1>1, <1>2, <1>3, <2>3, QueueAssumption DEF HeadRead, Popping
  <2>4. CASE m_Head'.sequence > m_Head.sequence /\ m_Tail' = m_Tail
    BY <1>1, <1>2, <1>3, <2>4, QueueAssumption, SpotsEqual DEF HeadRead, Popping
  <2> QED BY <2>1, <2>2, <2>3, <2>4
<1> QED BY <1>8, <1>9

\* Nor does what a thread has seen of an empty queue become wrong.
LEMMA OthersSeen ==
  ASSUME Types, Types', Ends, SeenEmpty, NEW t \in Threads, Others(t), HeadKept,
         stray' \/ ~stray, Range(popped) \subseteq Range(popped'),
         NEW u \in Threads \ {t}
  PROVE  SeenNothing(u)'
<1>1. /\ pc'[u] = pc[u] /\ link'[u] = link[u] /\ next'[u] = next[u] /\ there'[u] = there[u]
      /\ SeenNothing(u) /\ HeadRead(u)
  BY DEF Others, SeenEmpty, Ends
<1>2. m_Head'.sequence \in Nat /\ m_Head.sequence \in Nat /\ link[u].sequence \in Nat
  BY SpotsEqual DEF Types
<1>3. pc[u] = "checkHead" => link[u].sequence <= m_Head.sequence
  BY <1>1 DEF HeadRead, Popping
<1>4. pc[u] = "checkHead" /\ link[u].sequence = m_Head'.sequence => link[u].sequence = m_Head.sequence
  BY <1>2, <1>3 DEF HeadKept
<1>5. ~stray' => ~stray
  OBVIOUS
<1>6. ASSUME ~stray, next[u] = End,
             pc[u] # "checkTail" => pc[u] = "checkHead" /\ link[u].sequence = m_Head.sequence
      PROVE  there[u] \subseteq Range(popped')
  BY <1>1, <1>6 DEF SeenNothing
<1> QED BY <1>1, <1>4, <1>5, <1>6 DEF SeenNothing

\* A step after which each thread has what it had.
Quiet(t) ==
  /\ Others(t) /\ TailKept
  /\ UNCHANGED <<m_Head, pNext, elem, m_FreeNodes, unused, npush, order, popped, stray>>
  /\ returned' \in SUBSET Range(order)
  /\ Unlinked(t)' <=> Unlinked(t)
  /\ Popper(t)' <=> Popper(t)
  /\ Unlinked(t) \/ Popper(t) => node'[t] = node[t]
  /\ pc'[t] = "link" => link'[t].pNode = m_Tail.pNode
  /\ pc'[t] \in {"finish", "count"} => pc[t] \in {"finish", "count"}

LEMMA QuietLists ==
  ASSUME NEW t \in Threads, Quiet(t)
  PROVE  /\ \A u \in Threads : /\ Unlinked(u)' <=> Unlinked(u)
                               /\ Popper(u)' <=> Popper(u)
                               /\ Unlinked(u) \/ Popper(u) => node'[u] = node[u]
                               /\ Held(u)' = Held(u)
         /\ Queue' = Queue /\ Free' = Free /\ \A n : Listed(n)' <=> Listed(n)
<1>1. \A u \in Threads : /\ Unlinked(u)' <=> Unlinked(u)
                         /\ Popper(u)' <=> Popper(u)
                         /\ Unlinked(u) \/ Popper(u) => node'[u] = node[u]
  BY DEF Quiet, Others, Unlinked, Popper
<1>2. UNCHANGED <<m_Head, pNext, m_FreeNodes>>
  BY DEF Quiet
<1>3. \A u \in Threads : Held(u)' = Held(u)
  BY <1>1, <1>2 DEF Held
<1>4. Queue' = Queue /\ Free' = Free
  BY <1>2 DEF Queue, Free
<1>5. \A n : Listed(n)' <=> Listed(n)
  BY <1>1, <1>2, <1>4 DEF Listed
<1> QED BY <1>1, <1>3, <1>4, <1>5

LEMMA QuietKeeps ==
  ASSUME IInv, Types', NEW t \in Threads, Quiet(t),
         TailRead(t)', HeadRead(t)', SeenNothing(t)'
  PROVE  IInv'
<1>1. /\ \A u \in Threads : /\ Unlinked(u)' <=> Unlinked(u)
                            /\ Popper(u)' <=> Popper(u)
                            /\ Unlinked(u) \/ Popper(u) => node'[u] = node[u]
                            /\ Held(u)' = Held(u)
      /\ Queue' = Queue /\ Free' = Free /\ \A n : Listed(n)' <=> Listed(n)
  BY QuietLists
<1>2. UNCHANGED <<m_Head, pNext, elem, m_FreeNodes, unused, npush, order, popped, stray>>
  BY DEF Quiet
<1>3. Apart' /\ Covered'
  BY <1>1, <1>2 DEF IInv, Apart, Covered
<1>4. Linked'
  BY <1>1, <1>2 DEF IInv, Linked
<1>5. m_Tail.pNode \in Queue /\ m_Tail'.pNode \in Queue
  BY DEF IInv, Ends, Quiet, TailKept
<1>6. Forest'
  <2>1. PICK R \in SUBSET (Threads \X Threads) : Earlier(R)
    BY DEF IInv, Forest
  <2>2. ASSUME NEW v \in Threads, NEW u \in Threads, pc'[v] = "link", Unlinked(u)',
               link'[v].pNode \in Reach(pNext', node'[u])
        PROVE  <<v, u>> \in R
    <3>1. Unlinked(u) /\ link'[v].pNode \in Reach(pNext, node[u])
      BY <1>1, <1>2, <2>2
    <3>2. CASE v = t
      <4>1. link'[t].pNode = m_Tail.pNode
        BY <2>2, <3>2 DEF Quiet
      <4>2. m_Tail.pNode \in Held(u)
        BY <3>1, <3>2, <4>1 DEF Held
      <4> QED BY <1>5, <4>2 DEF IInv, Apart
    <3>3. CASE v # t
      <4>1. pc[v] = "link" /\ link'[v] = link[v]
        BY <2>2, <3>3 DEF Quiet, Others
      <4> QED BY <2>1, <3>1, <4>1 DEF Earlier
    <3> QED BY <3>2, <3>3
  <2>3. Earlier(R)'
    BY <2>1, <2>2 DEF Earlier
  <2> QED BY <2>3 DEF Forest
<1>7. Ends'
  <2>1. \A u \in Threads \ {t} : TailRead(u)' /\ HeadRead(u)'
    BY <1>2, OthersEnds DEF IInv, Quiet, HeadKept
  <2> QED BY <1>1, <1>5, <2>1 DEF Ends
<1>8. Elements'
  <2>1. \A n : Full(n)' <=> Full(n)
    BY <1>1, <1>2 DEF Full
  <2>3. \A u \in Threads : pc'[u] \in {"finish", "count"} => pc[u] \in {"finish", "count"}
    BY DEF Quiet, Others
  <2>4. returned' \in SUBSET Range(order)
    BY DEF Quiet
  <2>5. Elements
    BY DEF IInv
  <2> QED BY SMTT(30), <1>1, <1>2, <2>1, <2>3, <2>4, <2>5 DEF Elements
<1>9. Straight'
  <2>1. ASSUME NEW path, NEW len, InOrder(path, len) PROVE InOrder(path, len)'
    BY <1>1, <1>2, <2>1 DEF InOrder
  <2> QED BY <1>1, <1>2, <2>1 DEF IInv, Straight
<1>10. SeenEmpty'
  <2>1. \A u \in Threads \ {t} : SeenNothing(u)'
    BY <1>2, OthersSeen DEF IInv, Quiet, HeadKept
  <2> QED BY <2>1 DEF SeenEmpty
<1> QED BY <1>3, <1>4, <1>6, <1>7, <1>8, <1>9, <1>10 DEF IInv

\* FinishPush with what follows the tail.
LEMMA FinishKeeps ==
  ASSUME Types, Linked, Ends, NEW n, NEW oldTail \in Spots, FinishPush(n, oldTail),
         m_Tail = oldTail => n # End /\ pNext[m_Tail.pNode] = n
  PROVE  TailKept /\ m_Tail' \in Spots
<1>1. m_Tail \in Spots /\ m_Tail.pNode \in Nodes /\ m_Tail.sequence \in Nat
      /\ m_Head.pNode \in Nodes
  BY SpotsEqual DEF Types
<1>2. CASE m_Tail # oldTail
  BY <1>1, <1>2 DEF FinishPush, TailKept
<1>3. CASE m_Tail = oldTail
  <2>1. m_Tail' = [pNode |-> n, sequence |-> m_Tail.sequence + 1]
    BY <1>3 DEF FinishPush
  <2>2. m_Tail.pNode \in Queue /\ Listed(m_Tail.pNode)
    BY DEF Ends, Listed
  <2>3. n \in Nodes /\ m_Tail.pNode \notin Reach(pNext, n)
    BY <1>1, <1>3, <2>2 DEF Linked
  <2>4. n \in Queue
    BY <1>1, <1>3, <2>2, <2>3, ReachShut DEF Queue, Shut
  <2>5. n # m_Head.pNode
    BY <2>2, <2>3 DEF Queue
  <2> QED BY <1>1, <2>1, <2>3, <2>4, <2>5 DEF TailKept, Spots
<1> QED BY <1>2, <1>3

-----------------------------------------------------------------------------
(* The steps that write to no list *)

Places == {"idle"} \cup Pushing \cup Popping

LEMMA Stepped ==
  ASSUME Types, NEW t \in Threads, NEW from, NEW to \in Places, Step(t, from, to)
  PROVE  /\ pc[t] = from /\ pc'[t] = to /\ pc' \in [Threads -> Places]
         /\ \A u \in Threads \ {t} : pc'[u] = pc[u]
  BY DEF Step, Types, Places

LEMMA InSpots ==
  ASSUME Types
  PROVE  /\ m_Head \in Spots /\ m_Head.pNode \in Nodes /\ m_Head.sequence \in Nat
         /\ m_Tail \in Spots /\ m_Tail.pNode \in Nodes /\ m_Tail.sequence \in Nat
         /\ \A t \in Threads : /\ link[t] \in Spots /\ link[t].pNode \in Nodes
                               /\ link[t].sequence \in Nat
  BY SpotsEqual DEF Types

LEMMA ReadTailSequenceKeeps ==
  ASSUME IInv, NEW t \in Threads, ReadTailSequence(t) PROVE IInv'
<1>1. /\ pc[t] = "tailSequence" /\ pc'[t] = "tailNode" /\ pc' \in [Threads -> Places]
      /\ \A u \in Threads \ {t} : pc'[u] = pc[u]
  BY Stepped DEF ReadTailSequence, IInv, Places, Pushing
<1>2. /\ link' = [link EXCEPT ![t].sequence = m_Tail.sequence]
      /\ UNCHANGED <<shared, node, tailSequence, next, item, history>>
  BY DEF ReadTailSequence
<1>3. /\ link'[t].sequence = m_Tail.sequence /\ link' \in [Threads -> Spots]
      /\ \A u \in Threads \ {t} : link'[u] = link[u]
  BY <1>2, InSpots DEF IInv, Types, Spots
<1>4. Types'
  BY <1>1, <1>2, <1>3 DEF IInv, Types, Places, Pushing, Popper, shared, history
<1>5. Quiet(t)
  BY <1>1, <1>2, <1>3 DEF IInv, Elements, Quiet, Others, TailKept, Unlinked, Popper, shared, history
<1>6. TailRead(t)' /\ HeadRead(t)' /\ SeenNothing(t)'
  BY <1>1, <1>2, <1>3, InSpots
     DEF IInv, TailRead, HeadRead, SeenNothing, Linking, Popping, shared, history
<1> QED BY <1>4, <1>5, <1>6, QuietKeeps

LEMMA ReadTailNodeKeeps ==
  ASSUME IInv, NEW t \in Threads, ReadTailNode(t) PROVE IInv'
<1>1. /\ pc[t] = "tailNode" /\ pc'[t] = "link" /\ pc' \in [Threads -> Places]
      /\ \A u \in Threads \ {t} : pc'[u] = pc[u]
  BY Stepped DEF ReadTailNode, IInv, Places, Pushing, Linking
<1>2. /\ link' = [link EXCEPT ![t].pNode = m_Tail.pNode]
      /\ UNCHANGED <<shared, node, tailSequence, next, item, history>>
  BY DEF ReadTailNode
<1>3. /\ link'[t].pNode = m_Tail.pNode /\ link'[t].sequence = link[t].sequence
      /\ link' \in [Threads -> Spots] /\ \A u \in Threads \ {t} : link'[u] = link[u]
  BY <1>2, InSpots DEF IInv, Types, Spots
<1>4. Types'
  BY <1>1, <1>2, <1>3 DEF IInv, Types, Places, Pushing, Linking, Popper, shared, history
<1>5. Quiet(t)
  BY <1>1, <1>2, <1>3 DEF IInv, Elements, Quiet, Others, TailKept, Unlinked, Popper, shared, history
<1>6. TailRead(t) /\ link'[t] \in Spots
  BY <1>3 DEF IInv, Ends
<1>7. TailRead(t)' /\ HeadRead(t)' /\ SeenNothing(t)'
  BY <1>1, <1>2, <1>3, <1>6, InSpots
     DEF IInv, TailRead, HeadRead, SeenNothing, Linking, Popping, shared, history
<1> QED BY <1>4, <1>5, <1>7, QuietKeeps

LEMMA LinkFailsKeeps ==
  ASSUME IInv, NEW t \in Threads, LinkFails(t) PROVE IInv'
<1>1. /\ pc[t] = "link" /\ pc'[t] = "helpNext" /\ pc' \in [Threads -> Places]
      /\ \A u \in Threads \ {t} : pc'[u] = pc[u]
  BY Stepped DEF LinkFails, IInv, Places, Pushing, Linking
<1>2. /\ pNext[link[t].pNode] # End
      /\ UNCHANGED <<shared, node, link, tailSequence, next, item, history>>
  BY DEF LinkFails
<1>3. Types'
  BY <1>1, <1>2 DEF IInv, Types, Places, Pushing, Linking, Popper, shared, history
<1>4. Quiet(t)
  BY <1>1, <1>2 DEF IInv, Elements, Quiet, Others, TailKept, Unlinked, Popper, shared, history
<1>5. TailRead(t)
  BY DEF IInv, Ends
<1>6. TailRead(t)' /\ HeadRead(t)' /\ SeenNothing(t)'
  BY <1>1, <1>2, <1>5
     DEF TailRead, HeadRead, SeenNothing, Linking, Popping, shared, history
<1> QED BY <1>3, <1>4, <1>6, QuietKeeps

LEMMA HelpReadNextKeeps ==
  ASSUME IInv, NEW t \in Threads, HelpReadNext(t) PROVE IInv'
<1>1. /\ pc[t] = "helpNext" /\ pc'[t] = "helpPush" /\ pc' \in [Threads -> Places]
      /\ \A u \in Threads \ {t} : pc'[u] = pc[u]
  BY Stepped DEF HelpReadNext, IInv, Places, Pushing, Linking
<1>2. /\ next' = [next EXCEPT ![t] = pNext[link[t].pNode]]
      /\ UNCHANGED <<shared, node, link, tailSequence, item, history>>
  BY DEF HelpReadNext
<1>3. /\ next'[t] = pNext[link[t].pNode] /\ next' \in [Threads -> Words]
      /\ \A u \in Threads \ {t} : next'[u] = next[u]
  BY <1>2, InSpots DEF IInv, Types
<1>4. Types'
  BY <1>1, <1>2, <1>3 DEF IInv, Types, Places, Pushing, Linking, Popper, shared, history
<1>5. Quiet(t)
  BY <1>1, <1>2, <1>3 DEF IInv, Elements, Quiet, Others, TailKept, Unlinked, Popper, shared, history
<1>6. TailRead(t)
  BY DEF IInv, Ends
<1>7. TailRead(t)' /\ HeadRead(t)' /\ SeenNothing(t)'
  BY <1>1, <1>2, <1>3, <1>6
     DEF TailRead, HeadRead, SeenNothing, Linking, Popping, shared, history
<1> QED BY <1>4, <1>5, <1>7, QuietKeeps

LEMMA HelpPushKeeps ==
  ASSUME IInv, NEW t \in Threads, HelpPush(t) PROVE IInv'
<1>1. /\ pc[t] = "helpPush" /\ pc'[t] = "tailSequence" /\ pc' \in [Threads -> Places]
      /\ \A u \in Threads \ {t} : pc'[u] = pc[u]
  BY Stepped DEF HelpPush, IInv, Places, Pushing
<1>2. /\ FinishPush(next[t], link[t])
      /\ UNCHANGED <<pNext, m_FreeNodes, m_Head, elem, m_Count, unused, node, link, tailSequence,
                     next, item, history>>
  BY DEF HelpPush
<1>3. m_Tail = link[t] => next[t] # End /\ pNext[m_Tail.pNode] = next[t]
  BY <1>1 DEF IInv, Ends, TailRead
<1>4. TailKept /\ m_Tail' \in Spots
  BY <1>2, <1>3, FinishKeeps, InSpots DEF IInv
<1>5. Types'
  BY <1>1, <1>2, <1>4 DEF IInv, Types, Places, Pushing, Linking, Popper, history
<1>6. Quiet(t)
  BY <1>1, <1>2, <1>4 DEF IInv, Elements, Quiet, Others, Unlinked, Popper, history
<1>7. TailRead(t)' /\ HeadRead(t)' /\ SeenNothing(t)'
  BY <1>1 DEF TailRead, HeadRead, SeenNothing, Linking, Popping
<1> QED BY <1>5, <1>6, <1>7, QuietKeeps

LEMMA FinishesKeep ==
  ASSUME IInv, NEW t \in Threads, Finish(t) PROVE IInv'
<1>1. /\ pc[t] = "finish" /\ pc'[t] = "count" /\ pc' \in [Threads -> Places]
      /\ \A u \in Threads \ {t} : pc'[u] = pc[u]
  BY Stepped DEF Finish, IInv, Places, Pushing
<1>2. /\ FinishPush(node[t], link[t])
      /\ UNCHANGED <<pNext, m_FreeNodes, m_Head, elem, m_Count, unused, node, link, tailSequence,
                     next, item, history>>
  BY DEF Finish
<1>3. m_Tail = link[t] => node[t] # End /\ pNext[m_Tail.pNode] = node[t]
  BY <1>1, QueueAssumption DEF IInv, Ends, TailRead, Types, Pushing, Linking
<1>4. TailKept /\ m_Tail' \in Spots
  BY <1>2, <1>3, FinishKeeps, InSpots DEF IInv
<1>5. Types'
  BY <1>1, <1>2, <1>4 DEF IInv, Types, Places, Pushing, Linking, Popper, history
<1>6. Quiet(t)
  BY <1>1, <1>2, <1>4 DEF IInv, Elements, Quiet, Others, Unlinked, Popper, history
<1>7. TailRead(t)' /\ HeadRead(t)' /\ SeenNothing(t)'
  BY <1>1 DEF TailRead, HeadRead, SeenNothing, Linking, Popping
<1> QED BY <1>5, <1>6, <1>7, QuietKeeps

LEMMA ReturnsFrom ==
  ASSUME Types, NEW t \in Threads, NEW from, ReturnFrom(t, from)
  PROVE  /\ pc[t] = from /\ pc'[t] = "idle" /\ pc' \in [Threads -> Places]
         /\ node' \in [Threads -> Nodes \cup {NULL}] /\ link' \in [Threads -> Spots]
         /\ tailSequence' \in [Threads -> Nat] /\ next' \in [Threads -> Words]
         /\ item' \in [Threads -> Items \cup {Nothing}]
         /\ \A u \in Threads \ {t} :
              /\ pc'[u] = pc[u] /\ node'[u] = node[u] /\ link'[u] = link[u] /\ next'[u] = next[u]
              /\ tailSequence'[u] = tailSequence[u] /\ item'[u] = item[u]
<1>1. NoLink \in Spots /\ NULL \in Words /\ "idle" \in Places
  BY QueueAssumption DEF NoLink, Spots, Words, Places
<1>2. Step(t, from, "idle")
  BY DEF ReturnFrom
<1>3. /\ pc[t] = from /\ pc'[t] = "idle" /\ pc' \in [Threads -> Places]
      /\ \A u \in Threads \ {t} : pc'[u] = pc[u]
  BY <1>1, <1>2, Stepped
<1> QED BY <1>1, <1>3 DEF ReturnFrom, Types

LEMMA CountPushKeeps ==
  ASSUME IInv, NEW t \in Threads, CountPush(t) PROVE IInv'
<1>1. /\ pc[t] = "count" /\ pc'[t] = "idle" /\ pc' \in [Threads -> Places]
      /\ node' \in [Threads -> Nodes \cup {NULL}] /\ link' \in [Threads -> Spots]
      /\ tailSequence' \in [Threads -> Nat] /\ next' \in [Threads -> Words]
      /\ item' \in [Threads -> Items \cup {Nothing}]
      /\ \A u \in Threads \ {t} :
           /\ pc'[u] = pc[u] /\ node'[u] = node[u] /\ link'[u] = link[u] /\ next'[u] = next[u]
           /\ tailSequence'[u] = tailSequence[u] /\ item'[u] = item[u]
  BY ReturnsFrom DEF CountPush, IInv
<1>2. /\ m_Count' = m_Count + 1 /\ returned' = returned \cup {<<t, npush[t]>>}
      /\ UNCHANGED <<pNext, m_FreeNodes, m_Head, m_Tail, elem, unused,
                     npush, npop, order, popped, there, stray>>
  BY DEF CountPush
<1>3. <<t, npush[t]>> \in Range(order) /\ returned \in SUBSET Range(order)
  BY <1>1 DEF IInv, Elements
<1>4. Types'
  <2>1. there' \in [Threads -> SUBSET returned']
    BY <1>2 DEF IInv, Types
  <2> QED BY <1>1, <1>2, <2>1 DEF IInv, Types, Places, Pushing, Linking, Popper
<1>5. Quiet(t)
  BY <1>1, <1>2, <1>3 DEF Quiet, Others, TailKept, Unlinked, Popper
<1>6. TailRead(t)' /\ HeadRead(t)' /\ SeenNothing(t)'
  BY <1>1 DEF TailRead, HeadRead, SeenNothing, Linking, Popping
<1> QED BY <1>4, <1>5, <1>6, QuietKeeps

\* PopItem.  A thread that pops holds no list.
LEMMA PopItemKeeps ==
  ASSUME IInv, NEW t \in Threads, PopItem(t) PROVE IInv'
<1>1. /\ pc[t] = "idle" /\ pc'[t] = "headSequence" /\ pc' \in [Threads -> Places]
      /\ \A u \in Threads \ {t} : pc'[u] = pc[u]
  BY Stepped DEF PopItem, IInv, Places, Popping
<1>2. /\ there' = [there EXCEPT ![t] = returned \ Range(popped)]
      /\ UNCHANGED <<shared, node, link, tailSequence, next, item,
                     npush, order, popped, returned, stray>>
  BY DEF PopItem
<1>3. there' \in [Threads -> SUBSET returned] /\ \A u \in Threads \ {t} : there'[u] = there[u]
  BY <1>2 DEF IInv, Types
<1>4. Types'
  BY <1>1, <1>2, <1>3 DEF IInv, Types, Places, Pushing, Linking, Popping, Popper, shared
<1>5. Quiet(t)
  BY <1>1, <1>2, <1>3 DEF IInv, Elements, Quiet, Others, TailKept, Unlinked, Popper, shared
<1>6. TailRead(t)' /\ HeadRead(t)' /\ SeenNothing(t)'
  BY <1>1 DEF TailRead, HeadRead, SeenNothing, Linking, Popping
<1> QED BY <1>4, <1>5, <1>6, QuietKeeps

LEMMA ReadHeadSequenceKeeps ==
  ASSUME IInv, NEW t \in Threads, ReadHeadSequence(t) PROVE IInv'
<1>1. /\ pc[t] = "headSequence" /\ pc'[t] = "headNode" /\ pc' \in [Threads -> Places]
      /\ \A u \in Threads \ {t} : pc'[u] = pc[u]
  BY Stepped DEF ReadHeadSequence, IInv, Places, Popping
<1>2. /\ link' = [link EXCEPT ![t].sequence = m_Head.sequence]
      /\ UNCHANGED <<shared, node, tailSequence, next, item, history>>
  BY DEF ReadHeadSequence
<1>3. /\ link'[t].sequence = m_Head.sequence /\ link' \in [Threads -> Spots]
      /\ \A u \in Threads \ {t} : link'[u] = link[u]
  BY <1>2, InSpots DEF IInv, Types, Spots
<1>4. Types'
  BY <1>1, <1>2, <1>3 DEF IInv, Types, Places, Pushing, Linking, Popping, Popper, shared, history
<1>5. Quiet(t)
  BY <1>1, <1>2, <1>3 DEF IInv, Elements, Quiet, Others, TailKept, Unlinked, Popper, shared, history
<1>6. TailRead(t)' /\ HeadRead(t)' /\ SeenNothing(t)'
  BY <1>1, <1>2, <1>3, InSpots
     DEF IInv, TailRead, HeadRead, SeenNothing, Linking, Popping, shared, history
<1> QED BY <1>4, <1>5, <1>6, QuietKeeps

LEMMA ReadHeadNodeKeeps ==
  ASSUME IInv, NEW t \in Threads, ReadHeadNode(t) PROVE IInv'
<1>1. /\ pc[t] = "headNode" /\ pc'[t] = "popTailSequence" /\ pc' \in [Threads -> Places]
      /\ \A u \in Threads \ {t} : pc'[u] = pc[u]
  BY Stepped DEF ReadHeadNode, IInv, Places, Popping
<1>2. /\ link' = [link EXCEPT ![t].pNode = m_Head.pNode]
      /\ UNCHANGED <<shared, node, tailSequence, next, item, history>>
  BY DEF ReadHeadNode
<1>3. /\ link'[t].pNode = m_Head.pNode /\ link'[t].sequence = link[t].sequence
      /\ link' \in [Threads -> Spots] /\ \A u \in Threads \ {t} : link'[u] = link[u]
  BY <1>2, InSpots DEF IInv, Types, Spots
<1>4. Types'
  BY <1>1, <1>2, <1>3 DEF IInv, Types, Places, Pushing, Linking, Popping, Popper, shared, history
<1>5. Quiet(t)
  BY <1>1, <1>2, <1>3 DEF IInv, Elements, Quiet, Others, TailKept, Unlinked, Popper, shared, history
<1>6. HeadRead(t) /\ link'[t] \in Spots
  BY <1>3 DEF IInv, Ends
<1>7. TailRead(t)' /\ HeadRead(t)' /\ SeenNothing(t)'
  BY <1>1, <1>2, <1>3, <1>6, InSpots
     DEF IInv, TailRead, HeadRead, SeenNothing, Linking, Popping, shared, history
<1> QED BY <1>4, <1>5, <1>7, QuietKeeps

LEMMA PopReadTailSequenceKeeps ==
  ASSUME IInv, NEW t \in Threads, PopReadTailSequence(t) PROVE IInv'
<1>1. /\ pc[t] = "popTailSequence" /\ pc'[t] = "popNext" /\ pc' \in [Threads -> Places]
      /\ \A u \in Threads \ {t} : pc'[u] = pc[u]
  BY Stepped DEF PopReadTailSequence, IInv, Places, Popping
<1>2. /\ tailSequence' = [tailSequence EXCEPT ![t] = m_Tail.sequence]
      /\ UNCHANGED <<shared, node, link, next, item, history>>
  BY DEF PopReadTailSequence
<1>3. /\ tailSequence'[t] = m_Tail.sequence /\ tailSequence' \in [Threads -> Nat]
      /\ \A u \in Threads \ {t} : tailSequence'[u] = tailSequence[u]
  BY <1>2, InSpots DEF IInv, Types
<1>4. Types'
  BY <1>1, <1>2, <1>3 DEF IInv, Types, Places, Pushing, Linking, Popping, Popper, shared, history
<1>5. Quiet(t)
  BY <1>1, <1>2, <1>3 DEF IInv, Elements, Quiet, Others, TailKept, Unlinked, Popper, shared, history
<1>6. HeadRead(t)
  BY DEF IInv, Ends
<1>7. TailRead(t)' /\ HeadRead(t)' /\ SeenNothing(t)'
  BY <1>1, <1>2, <1>3, <1>6, InSpots
     DEF IInv, TailRead, HeadRead, SeenNothing, Linking, Popping, shared, history
<1> QED BY <1>4, <1>5, <1>7, QuietKeeps

\* The end of the list behind the head, with the head still there: all that was
\* linked has been taken.
LEMMA EmptyQueue ==
  ASSUME Types, Straight, ~stray, pNext[m_Head.pNode] = End
  PROVE  Range(order) \subseteq Range(popped)
<1>1. PICK len \in 0 .. Len(order) : \E path \in [0 .. len -> Queue] : InOrder(path, len)
  BY DEF Straight
<1> PICK path \in [0 .. len -> Queue] : InOrder(path, len)
  BY <1>1
<1>2. m_Head.pNode \in Nodes /\ Queue \in SUBSET Nodes /\ order \in Seq(Items) /\ popped \in Seq(Items)
  BY InSpots, ReachShut DEF Queue, Types
<1>3. len = 0
  <2>1. ASSUME len # 0 PROVE FALSE
    <3>1. 0 \in 0 .. len - 1 /\ 1 \in 0 .. len
      BY <2>1
    <3>2. pNext[path[0]] = path[0 + 1] /\ path[0] = m_Head.pNode
      BY <3>1 DEF InOrder
    <3>3. path[1] \in Nodes
      BY <1>2, <3>1
    <3> QED BY <3>2, <3>3, QueueAssumption
  <2> QED BY <2>1
<1>4. Len(order) = Len(popped) /\ \A i \in 1 .. Len(popped) : popped[i] = order[i]
  BY <1>2, <1>3 DEF InOrder
<1> QED BY <1>2, <1>4 DEF Range

LEMMA PopReadNextKeeps ==
  ASSUME IInv, NEW t \in Threads, PopReadNext(t) PROVE IInv'
<1>1. /\ pc[t] = "popNext" /\ pc'[t] = "checkHead" /\ pc' \in [Threads -> Places]
      /\ \A u \in Threads \ {t} : pc'[u] = pc[u]
  BY Stepped DEF PopReadNext, IInv, Places, Popping
<1>2. /\ next' = [next EXCEPT ![t] = pNext[link[t].pNode]]
      /\ UNCHANGED <<shared, node, link, tailSequence, item, history>>
  BY DEF PopReadNext
<1>3. /\ next'[t] = pNext[link[t].pNode] /\ next' \in [Threads -> Words]
      /\ \A u \in Threads \ {t} : next'[u] = next[u]
  BY <1>2, InSpots DEF IInv, Types
<1>4. Types'
  BY <1>1, <1>2, <1>3 DEF IInv, Types, Places, Pushing, Linking, Popping, Popper, shared, history
<1>5. Quiet(t)
  BY <1>1, <1>2, <1>3 DEF IInv, Elements, Quiet, Others, TailKept, Unlinked, Popper, shared, history
<1>6. HeadRead(t)
  BY DEF IInv, Ends
<1>7. TailRead(t)' /\ HeadRead(t)'
  BY <1>1, <1>2, <1>3, <1>6
     DEF TailRead, HeadRead, Linking, Popping, shared, history
<1>8. SeenNothing(t)'
  <2>1. link[t].sequence = m_Head.sequence => link[t].pNode = m_Head.pNode
    BY <1>1, <1>6 DEF HeadRead, Popping
  <2>2. ASSUME ~stray, link[t].sequence = m_Head.sequence, next'[t] = End
        PROVE  there[t] \subseteq Range(popped)
    <3>1. Range(order) \subseteq Range(popped)
      BY <1>3, <2>1, <2>2, EmptyQueue DEF IInv
    <3>2. there[t] \subseteq returned /\ returned \subseteq Range(order)
      BY DEF IInv, Types, Elements
    <3> QED BY <3>1, <3>2
  <2> QED BY <1>1, <1>2, <2>2 DEF SeenNothing, shared, history
<1> QED BY <1>4, <1>5, <1>7, <1>8, QuietKeeps

LEMMA CheckHeadKeeps ==
  ASSUME IInv, NEW t \in Threads, CheckHead(t) PROVE IInv'
<1>1. /\ pc[t] = "checkHead" /\ pc' \in [Threads -> Places]
      /\ pc'[t] = IF HeadMoved(t) THEN "headSequence" ELSE "checkTail"
      /\ \A u \in Threads \ {t} : pc'[u] = pc[u]
  BY Stepped DEF CheckHead, IInv, Places, Popping
<1>2. UNCHANGED <<shared, node, link, tailSequence, next, item, history>>
  BY DEF CheckHead
<1>3. Types'
  BY <1>1, <1>2 DEF IInv, Types, Places, Pushing, Linking, Popping, Popper, shared, history
<1>4. Quiet(t)
  BY <1>1, <1>2 DEF IInv, Elements, Quiet, Others, TailKept, Unlinked, Popper, shared, history
<1>5. HeadRead(t) /\ SeenNothing(t)
  BY DEF IInv, Ends, SeenEmpty
<1>6. TailRead(t)' /\ HeadRead(t)' /\ SeenNothing(t)'
  <2>1. CASE HeadMoved(t)
    BY <1>1, <2>1 DEF TailRead, HeadRead, SeenNothing, Linking, Popping
  <2>2. CASE ~HeadMoved(t)
    BY <1>1, <1>2, <1>5, <2>2
       DEF HeadMoved, TailRead, HeadRead, SeenNothing, Linking, Popping, shared, history
  <2> QED BY <2>1, <2>2
<1> QED BY <1>3, <1>4, <1>6, QuietKeeps

LEMMA PopNothingKeeps ==
  ASSUME IInv, NEW t \in Threads, PopNothing(t) PROVE IInv'
<1>1. /\ pc[t] = "checkTail" /\ pc'[t] = "idle" /\ pc' \in [Threads -> Places]
      /\ node' \in [Threads -> Nodes \cup {NULL}] /\ link' \in [Threads -> Spots]
      /\ tailSequence' \in [Threads -> Nat] /\ next' \in [Threads -> Words]
      /\ item' \in [Threads -> Items \cup {Nothing}]
      /\ \A u \in Threads \ {t} :
           /\ pc'[u] = pc[u] /\ node'[u] = node[u] /\ link'[u] = link[u] /\ next'[u] = next[u]
           /\ tailSequence'[u] = tailSequence[u] /\ item'[u] = item[u]
  BY ReturnsFrom DEF PopNothing, IInv
<1>2. /\ there' = [there EXCEPT ![t] = {}]
      /\ UNCHANGED <<shared, npush, npop, order, popped, returned, stray>>
  BY DEF PopNothing
<1>3. there' \in [Threads -> SUBSET returned] /\ \A u \in Threads \ {t} : there'[u] = there[u]
  BY <1>2 DEF IInv, Types
<1>4. Types'
  BY <1>1, <1>2, <1>3 DEF IInv, Types, Places, Pushing, Linking, Popping, Popper, shared
<1>5. Quiet(t)
  BY <1>1, <1>2, <1>3 DEF IInv, Elements, Quiet, Others, TailKept, Unlinked, Popper, shared
<1>6. TailRead(t)' /\ HeadRead(t)' /\ SeenNothing(t)'
  BY <1>1 DEF TailRead, HeadRead, SeenNothing, Linking, Popping
<1> QED BY <1>4, <1>5, <1>6, QuietKeeps

LEMMA TailBehindKeeps ==
  ASSUME IInv, NEW t \in Threads, TailBehind(t) PROVE IInv'
<1>1. /\ pc[t] = "checkTail" /\ pc'[t] = "popHelp" /\ pc' \in [Threads -> Places]
      /\ \A u \in Threads \ {t} : pc'[u] = pc[u]
  BY Stepped DEF TailBehind, IInv, Places, Popping
<1>2. next[t] # End /\ UNCHANGED <<shared, node, link, tailSequence, next, item, history>>
  BY DEF TailBehind
<1>3. Types'
  BY <1>1, <1>2 DEF IInv, Types, Places, Pushing, Linking, Popping, Popper, shared, history
<1>4. Quiet(t)
  BY <1>1, <1>2 DEF IInv, Elements, Quiet, Others, TailKept, Unlinked, Popper, shared, history
<1>5. HeadRead(t)
  BY DEF IInv, Ends
<1>6. TailRead(t)' /\ HeadRead(t)' /\ SeenNothing(t)'
  BY <1>1, <1>2, <1>5 DEF TailRead, HeadRead, SeenNothing, Linking, Popping, shared, history
<1> QED BY <1>3, <1>4, <1>6, QuietKeeps

LEMMA HasNextKeeps ==
  ASSUME IInv, NEW t \in Threads, HasNext(t) PROVE IInv'
<1>1. /\ pc[t] = "checkTail" /\ pc' \in [Threads -> Places]
      /\ pc'[t] = IF next[t] # End THEN "element" ELSE "headSequence"
      /\ \A u \in Threads \ {t} : pc'[u] = pc[u]
  BY Stepped DEF HasNext, IInv, Places, Popping
<1>2. /\ link[t].pNode # m_Tail.pNode
      /\ UNCHANGED <<shared, node, link, tailSequence, next, item, history>>
  BY DEF HasNext
<1>3. Types'
  BY <1>1, <1>2 DEF IInv, Types, Places, Pushing, Linking, Popping, Popper, shared, history
<1>4. Quiet(t)
  BY <1>1, <1>2 DEF IInv, Elements, Quiet, Others, TailKept, Unlinked, Popper, shared, history
<1>5. HeadRead(t) /\ next[t] \in Words
  BY DEF IInv, Ends, Types
<1>6. TailRead(t)' /\ HeadRead(t)' /\ SeenNothing(t)'
  <2>1. CASE next[t] = End
    BY <1>1, <2>1 DEF TailRead, HeadRead, SeenNothing, Linking, Popping
  <2>2. CASE next[t] # End
    <3>1. next[t] \in Nodes /\ (m_Head = link[t] => m_Tail.pNode # m_Head.pNode)
      BY <1>1, <1>2, <1>5, <2>2 DEF HeadRead, Words
    <3> QED BY <1>1, <1>2, <1>5, <2>2, <3>1
               DEF TailRead, HeadRead, SeenNothing, Linking, Popping, shared, history
  <2> QED BY <2>1, <2>2
<1> QED BY <1>3, <1>4, <1>6, QuietKeeps

LEMMA PopHelpKeeps ==
  ASSUME IInv, NEW t \in Threads, PopHelp(t) PROVE IInv'
<1>1. /\ pc[t] = "popHelp" /\ pc'[t] = "headSequence" /\ pc' \in [Threads -> Places]
      /\ \A u \in Threads \ {t} : pc'[u] = pc[u]
  BY Stepped DEF PopHelp, IInv, Places, Popping
<1> DEFINE read == [pNode |-> link[t].pNode, sequence |-> tailSequence[t]]
<1>2. /\ FinishPush(next[t], read)
      /\ UNCHANGED <<pNext, m_FreeNodes, m_Head, elem, m_Count, unused, node, link, tailSequence,
                     next, item, history>>
  BY DEF PopHelp
<1>3. /\ read \in Spots
      /\ m_Tail = read => m_Tail.pNode = link[t].pNode /\ m_Tail.sequence = tailSequence[t]
  BY InSpots DEF IInv, Types, Spots
<1> HIDE DEF read
<1>4. m_Tail = read => next[t] # End /\ pNext[m_Tail.pNode] = next[t]
  BY <1>1, <1>3 DEF IInv, Ends, HeadRead
<1>5. TailKept /\ m_Tail' \in Spots
  BY <1>2, <1>3, <1>4, FinishKeeps DEF IInv
<1>6. Types'
  BY <1>1, <1>2, <1>5 DEF IInv, Types, Places, Pushing, Linking, Popping, Popper, history
<1>7. Quiet(t)
  BY <1>1, <1>2, <1>5 DEF IInv, Elements, Quiet, Others, Unlinked, Popper, history
<1>8. TailRead(t)' /\ HeadRead(t)' /\ SeenNothing(t)'
  BY <1>1 DEF TailRead, HeadRead, SeenNothing, Linking, Popping
<1> QED BY <1>6, <1>7, <1>8, QuietKeeps

LEMMA ReadElementKeeps ==
  ASSUME IInv, NEW t \in Threads, ReadElement(t) PROVE IInv'
<1>1. /\ pc[t] = "element" /\ pc'[t] = "pop" /\ pc' \in [Threads -> Places]
      /\ \A u \in Threads \ {t} : pc'[u] = pc[u]
  BY Stepped DEF ReadElement, IInv, Places, Popping
<1>2. /\ item' = [item EXCEPT ![t] = elem[next[t]]]
      /\ UNCHANGED <<shared, node, link, tailSequence, next, history>>
  BY DEF ReadElement
<1>3. HeadRead(t) /\ next[t] \in Nodes
  BY <1>1 DEF IInv, Ends, HeadRead
<1>4. /\ item'[t] = elem[next[t]] /\ item' \in [Threads -> Items \cup {Nothing}]
      /\ \A u \in Threads \ {t} : item'[u] = item[u]
  BY <1>2, <1>3 DEF IInv, Types
<1>5. Types'
  BY <1>1, <1>2, <1>4 DEF IInv, Types, Places, Pushing, Linking, Popping, Popper, shared, history
<1>6. Quiet(t)
  BY <1>1, <1>2, <1>4 DEF IInv, Elements, Quiet, Others, TailKept, Unlinked, Popper, shared, history
<1>7. TailRead(t)' /\ HeadRead(t)' /\ SeenNothing(t)'
  BY <1>1, <1>2, <1>3, <1>4 DEF TailRead, HeadRead, SeenNothing, Linking, Popping, shared, history
<1> QED BY <1>5, <1>6, <1>7, QuietKeeps

LEMMA PopFailsKeeps ==
  ASSUME IInv, NEW t \in Threads, PopFails(t) PROVE IInv'
<1>1. /\ pc[t] = "pop" /\ pc'[t] = "headSequence" /\ pc' \in [Threads -> Places]
      /\ \A u \in Threads \ {t} : pc'[u] = pc[u]
  BY Stepped DEF PopFails, IInv, Places, Popping
<1>2. UNCHANGED <<shared, node, link, tailSequence, next, item, history>>
  BY DEF PopFails
<1>3. Types'
  BY <1>1, <1>2 DEF IInv, Types, Places, Pushing, Linking, Popping, Popper, shared, history
<1>4. Quiet(t)
  BY <1>1, <1>2 DEF IInv, Elements, Quiet, Others, TailKept, Unlinked, Popper, shared, history
<1>5. TailRead(t)' /\ HeadRead(t)' /\ SeenNothing(t)'
  BY <1>1 DEF TailRead, HeadRead, SeenNothing, Linking, Popping
<1> QED BY <1>3, <1>4, <1>5, QuietKeeps

LEMMA CountPopKeeps ==
  ASSUME IInv, NEW t \in Threads, CountPop(t) PROVE IInv'
<1>1. /\ pc[t] = "popCount" /\ pc'[t] = "free" /\ pc' \in [Threads -> Places]
      /\ \A u \in Threads \ {t} : pc'[u] = pc[u]
  BY Stepped DEF CountPop, IInv, Places, Popping
<1>2. /\ m_Count' = m_Count - 1
      /\ UNCHANGED <<m_Head, m_Tail, pNext, elem, m_FreeNodes, unused, node, link, tailSequence,
                     next, item, history>>
  BY DEF CountPop
<1>3. Types'
  BY <1>1, <1>2 DEF IInv, Types, Places, Pushing, Linking, Popping, Popper, history
<1>4. Quiet(t)
  BY <1>1, <1>2 DEF IInv, Elements, Quiet, Others, TailKept, Unlinked, Popper, history
<1>5. TailRead(t)' /\ HeadRead(t)' /\ SeenNothing(t)'
  BY <1>1 DEF TailRead, HeadRead, SeenNothing, Linking, Popping
<1> QED BY <1>3, <1>4, <1>5, QuietKeeps

-----------------------------------------------------------------------------
(* Sequences *)

LEMMA WithoutHead ==
  ASSUME NEW S, NEW s \in Seq(S), s # <<>>, IsInjective(s)
  PROVE  /\ Tail(s) \in Seq(S) /\ IsInjective(Tail(s)) /\ Head(s) \in Range(s)
         /\ Range(Tail(s)) = Range(s) \ {Head(s)}
<1>1. /\ Tail(s) \in Seq(S) /\ Len(Tail(s)) = Len(s) - 1
      /\ \A i \in 1 .. Len(Tail(s)) : Tail(s)[i] = s[i + 1]
  BY HeadTailProperties
<1>2. /\ Len(s) \in Nat \ {0} /\ Head(s) = s[1] /\ DOMAIN s = 1 .. Len(s)
      /\ DOMAIN Tail(s) = 1 .. Len(s) - 1
  BY <1>1, LenProperties, EmptySeq
<1> DEFINE r == Tail(s)
<1>3. /\ DOMAIN r = 1 .. Len(s) - 1 /\ \A i \in 1 .. Len(s) - 1 : r[i] = s[i + 1] /\ i + 1 \in 1 .. Len(s)
  BY <1>1, <1>2
<1> HIDE DEF r
<1>4. \A i, j \in 1 .. Len(s) : s[i] = s[j] => i = j
  BY <1>2 DEF IsInjective
<1>5. IsInjective(r)
  BY <1>2, <1>3, <1>4 DEF IsInjective
<1>6. s[1] \in Range(s)
  BY <1>2 DEF Range
<1>7. ASSUME NEW x \in Range(r) PROVE x \in Range(s) /\ x # s[1]
  <2>1. PICK i \in 1 .. Len(s) - 1 : x = r[i]
    BY <1>3, <1>7 DEF Range
  <2>2. x = s[i + 1] /\ i + 1 \in 1 .. Len(s) /\ i + 1 # 1
    BY <1>3, <2>1
  <2> QED BY <1>2, <1>4, <2>2 DEF Range
<1>8. ASSUME NEW x \in Range(s), x # s[1] PROVE x \in Range(r)
  <2>1. PICK i \in 1 .. Len(s) : x = s[i]
    BY <1>2 DEF Range
  <2>2. i - 1 \in 1 .. Len(s) - 1 /\ (i - 1) + 1 = i
    BY <1>2, <1>8, <2>1
  <2>3. r[i - 1] = x
    BY <1>3, <2>1, <2>2
  <2> QED BY <1>3, <2>2, <2>3 DEF Range
<1> QED BY <1>1, <1>2, <1>5, <1>6, <1>7, <1>8 DEF r

LEMMA WithFirst ==
  ASSUME NEW S, NEW s \in Seq(S), NEW x \in S, x \notin Range(s), IsInjective(s)
  PROVE  /\ <<x>> \o s \in Seq(S) /\ IsInjective(<<x>> \o s)
         /\ Range(<<x>> \o s) = Range(s) \cup {x}
<1> DEFINE r == <<x>> \o s
<1>1. <<x>> \in Seq(S) /\ Len(<<x>>) = 1 /\ <<x>>[1] = x
  OBVIOUS
<1>2. /\ r \in Seq(S) /\ Len(r) = 1 + Len(s) /\ Len(s) \in Nat
      /\ \A i \in 1 .. 1 + Len(s) : r[i] = IF i <= 1 THEN x ELSE s[i - 1]
  BY <1>1, ConcatProperties, LenProperties
<1>3. DOMAIN r = 1 .. 1 + Len(s) /\ DOMAIN s = 1 .. Len(s)
  BY <1>2, LenProperties
<1> HIDE DEF r
<1>4. \A i \in 1 .. Len(s) : s[i] # x
  BY <1>3 DEF Range
<1>5. \A i \in 1 .. 1 + Len(s) : i = 1 \/ i - 1 \in 1 .. Len(s)
  BY <1>2
<1>6. IsInjective(r)
  <2> SUFFICES ASSUME NEW i \in 1 .. 1 + Len(s), NEW j \in 1 .. 1 + Len(s), r[i] = r[j]
               PROVE  i = j
    BY <1>3 DEF IsInjective
  <2>1. CASE i = 1 \/ j = 1
    BY <1>2, <1>4, <1>5, <2>1
  <2>2. CASE i # 1 /\ j # 1
    <3>1. i - 1 \in 1 .. Len(s) /\ j - 1 \in 1 .. Len(s) /\ s[i - 1] = s[j - 1]
      BY <1>2, <1>5, <2>2
    <3>2. i - 1 = j - 1
      BY <1>3, <3>1 DEF IsInjective
    <3> QED BY <3>2
  <2> QED BY <2>1, <2>2
<1>7. Range(r) = Range(s) \cup {x}
  <2>1. r[1] = x /\ 1 \in DOMAIN r
    BY <1>2, <1>3
  <2>2. ASSUME NEW i \in 1 .. Len(s) PROVE s[i] \in Range(r)
    <3>1. i + 1 \in 1 .. 1 + Len(s) /\ r[i + 1] = s[(i + 1) - 1] /\ (i + 1) - 1 = i
      BY <1>2
    <3> QED BY <1>3, <3>1 DEF Range
  <2>3. ASSUME NEW i \in 1 .. 1 + Len(s) PROVE r[i] \in Range(s) \cup {x}
    BY <1>2, <1>3, <1>5 DEF Range
  <2> QED BY <1>3, <2>1, <2>2, <2>3 DEF Range
<1> QED BY <1>2, <1>6, <1>7 DEF r

LEMMA WithLast ==
  ASSUME NEW S, NEW s \in Seq(S), NEW x \in S
  PROVE  /\ Append(s, x) \in Seq(S) /\ Len(Append(s, x)) = Len(s) + 1
         /\ \A i \in 1 .. Len(s) : Append(s, x)[i] = s[i]
         /\ Append(s, x)[Len(s) + 1] = x
         /\ Range(Append(s, x)) = Range(s) \cup {x}
         /\ x \notin Range(s) /\ IsInjective(s) => IsInjective(Append(s, x))
<1> DEFINE r == Append(s, x)
<1>1. /\ r \in Seq(S) /\ Len(r) = Len(s) + 1 /\ Len(s) \in Nat
      /\ \A i \in 1 .. Len(s) : r[i] = s[i]
      /\ r[Len(s) + 1] = x
  BY AppendProperties, LenProperties
<1>2. DOMAIN r = 1 .. Len(s) + 1 /\ DOMAIN s = 1 .. Len(s)
  BY <1>1, LenProperties
<1> HIDE DEF r
<1>3. \A i \in 1 .. Len(s) + 1 : i \in 1 .. Len(s) \/ i = Len(s) + 1
  BY <1>1
<1>4. 1 .. Len(s) \subseteq 1 .. Len(s) + 1 /\ Len(s) + 1 \in 1 .. Len(s) + 1
  BY <1>1
<1>5. Range(r) = Range(s) \cup {x}
  BY <1>1, <1>2, <1>3, <1>4 DEF Range
<1>6. ASSUME x \notin Range(s), IsInjective(s) PROVE IsInjective(r)
  <2>1. \A i \in 1 .. Len(s) : s[i] # x
    BY <1>2, <1>6 DEF Range
  <2> QED BY <1>1, <1>2, <1>3, <1>6, <2>1 DEF IsInjective
<1> QED BY <1>1, <1>5, <1>6 DEF r

-----------------------------------------------------------------------------
(* Lists *)

LEMMA QueueNodes ==
  ASSUME Types
  PROVE  /\ Queue \in SUBSET Nodes /\ m_Head.pNode \in Queue /\ Shut(pNext, Queue)
         /\ \A t \in Threads : Held(t) \in SUBSET Nodes /\ (Unlinked(t) => Shut(pNext, Held(t)))
         /\ \A t \in Threads : Unlinked(t) \/ Popper(t) => node[t] \in Nodes /\ node[t] \in Held(t)
<1>1. Queue \in SUBSET Nodes /\ m_Head.pNode \in Queue /\ Shut(pNext, Queue)
  BY InSpots, ReachShut DEF Queue
<1>2. ASSUME NEW t \in Threads
      PROVE  /\ Unlinked(t) \/ Popper(t) => node[t] \in Nodes /\ node[t] \in Held(t)
             /\ Held(t) \in SUBSET Nodes /\ (Unlinked(t) => Shut(pNext, Held(t)))
  <2>1. CASE Unlinked(t)
    <3>1. node[t] \in Nodes
      BY <2>1 DEF Types, Unlinked, Pushing, Linking
    <3> QED BY <2>1, <3>1, ReachShut DEF Held
  <2>2. CASE ~Unlinked(t) /\ Popper(t)
    BY <2>2 DEF Held, Types
  <2>3. CASE ~Unlinked(t) /\ ~Popper(t)
    BY <2>3 DEF Held
  <2> QED BY <2>1, <2>2, <2>3
<1> QED BY <1>1, <1>2

\* What follows a node of a list is of that list.
LEMMA BehindListed ==
  ASSUME Types, NEW m, Listed(m), pNext[m] \in Nodes
  PROVE  \A k \in Reach(pNext, pNext[m]) : Listed(k)
<1>1. CASE m \in Queue
  BY <1>1, InSpots, ReachWithin, QueueNodes DEF Queue, Listed, Shut
<1>2. CASE m \notin Queue
  <2>1. PICK u \in Threads : Unlinked(u) /\ m \in Reach(pNext, node[u])
    BY <1>2 DEF Listed
  <2>2. node[u] \in Nodes /\ pNext[m] \in Reach(pNext, node[u])
    BY <2>1, QueueNodes DEF Held, Shut
  <2> QED BY <2>1, <2>2, ReachWithin DEF Listed
<1> QED BY <1>1, <1>2

LEMMA ListedHeld ==
  ASSUME NEW m
  PROVE  Listed(m) <=> m \in Queue \/ \E u \in Threads : Unlinked(u) /\ m \in Held(u)
  BY DEF Listed, Held

LEMMA ListsWritten ==
  ASSUME NEW l \in Nodes, \A m \in Nodes \ {l} : pNext'[m] = pNext[m], NEW n \in Nodes
  PROVE  /\ l \notin Reach(pNext, n) => Reach(pNext', n) = Reach(pNext, n)
         /\ l \in Reach(pNext, n) /\ pNext[l] \notin Nodes /\ pNext'[l] \in Nodes
              => Reach(pNext', n) = Reach(pNext, n) \cup Reach(pNext, pNext'[l])
<1> DEFINE P == pNext
           Q == pNext'
<1>1. \A m \in Nodes \ {l} : Q[m] = P[m]
  OBVIOUS
<1> HIDE DEF P, Q
<1>2. /\ l \notin Reach(P, n) => Reach(Q, n) = Reach(P, n)
      /\ l \in Reach(P, n) /\ P[l] \notin Nodes /\ Q[l] \in Nodes
           => Reach(Q, n) = Reach(P, n) \cup Reach(P, Q[l])
  BY <1>1, ReachWritten
<1> QED BY <1>2 DEF P, Q

-----------------------------------------------------------------------------
(* PushItem takes a node *)

Took(t, n) ==
  /\ n \in Nodes /\ n \in Free \cup unused
  /\ m_FreeNodes' \in Seq(Nodes) /\ IsInjective(m_FreeNodes')
  /\ Free' = Free \ {n} /\ unused' = unused \ {n}
  /\ node' = [node EXCEPT ![t] = n]
  /\ elem' = [elem EXCEPT ![n] = <<t, npush[t] + 1>>]
  /\ pNext' = [pNext EXCEPT ![n] = End]
  /\ npush' = [npush EXCEPT ![t] = npush[t] + 1]
  /\ pc[t] = "idle" /\ pc'[t] = "tailSequence" /\ pc' \in [Threads -> Places]
  /\ \A u \in Threads \ {t} : pc'[u] = pc[u]
  /\ UNCHANGED <<m_Head, m_Tail, m_Count, link, tailSequence, next, item,
                 npop, order, popped, returned, there, stray>>

LEMMA PushItemTakes ==
  ASSUME IInv, NEW t \in Threads, PushItem(t) PROVE \E n : Took(t, n)
<1>1. PICK n \in FreeOrNew : /\ node' = [node EXCEPT ![t] = n]
                            /\ elem' = [elem EXCEPT ![n] = <<t, npush[t] + 1>>]
                            /\ pNext' = [pNext EXCEPT ![n] = End]
                            /\ unused' = unused \ {n}
  BY DEF PushItem
<1>2. /\ pc[t] = "idle" /\ pc'[t] = "tailSequence" /\ pc' \in [Threads -> Places]
      /\ \A u \in Threads \ {t} : pc'[u] = pc[u]
  BY Stepped DEF PushItem, IInv, Places, Pushing
<1>3. /\ m_FreeNodes' = IF m_FreeNodes = <<>> THEN <<>> ELSE Tail(m_FreeNodes)
      /\ npush' = [npush EXCEPT ![t] = npush[t] + 1]
      /\ UNCHANGED <<m_Head, m_Tail, m_Count, link, tailSequence, next, item,
                     npop, order, popped, returned, there, stray>>
  BY DEF PushItem
<1>4. /\ m_FreeNodes \in Seq(Nodes) /\ IsInjective(m_FreeNodes) /\ unused \in SUBSET Nodes
      /\ Free \cap unused = {}
  BY DEF IInv, Types, Apart
<1>5. /\ n \in Nodes /\ n \in Free \cup unused
      /\ m_FreeNodes' \in Seq(Nodes) /\ IsInjective(m_FreeNodes')
      /\ Free' = Free \ {n}
  <2>1. CASE m_FreeNodes # <<>>
    <3>1. n = Head(m_FreeNodes) /\ m_FreeNodes' = Tail(m_FreeNodes)
      BY <1>3, <2>1 DEF FreeOrNew
    <3>2. /\ Tail(m_FreeNodes) \in Seq(Nodes) /\ IsInjective(Tail(m_FreeNodes))
          /\ Range(Tail(m_FreeNodes)) = Range(m_FreeNodes) \ {n} /\ n \in Range(m_FreeNodes)
      BY <1>4, <2>1, <3>1, WithoutHead
    <3> QED BY <1>4, <3>1, <3>2, RangeOfSeq DEF Free
  <2>2. CASE m_FreeNodes = <<>>
    <3>1. n \in unused /\ m_FreeNodes' = <<>>
      BY <1>3, <2>2 DEF FreeOrNew
    <3>2. <<>> \in Seq(Nodes) /\ IsInjective(<<>>) /\ Range(<<>>) = {}
      BY DEF IsInjective, Range
    <3> QED BY <1>4, <2>2, <3>1, <3>2 DEF Free
  <2> QED BY <2>1, <2>2
<1> QED BY <1>1, <1>2, <1>3, <1>5 DEF Took

LEMMA TookLists ==
  ASSUME IInv, NEW t \in Threads, NEW n, Took(t, n)
  PROVE  /\ n \notin Queue /\ \A u \in Threads : n \notin Held(u)
         /\ ~Listed(n) /\ Queue' = Queue
         /\ ~Unlinked(t) /\ Unlinked(t)' /\ Held(t) = {} /\ Held(t)' = {n} /\ node'[t] = n
         /\ ~Popper(t)'
         /\ \A u \in Threads \ {t} :
              /\ Unlinked(u)' <=> Unlinked(u)
              /\ Popper(u)' <=> Popper(u)
              /\ node'[u] = node[u] /\ Held(u)' = Held(u)
         /\ \A m : Listed(m)' <=> Listed(m) \/ m = n
         /\ pNext'[n] = End /\ elem'[n] = <<t, npush[t] + 1>> /\ n # m_Head.pNode
         /\ \A m \in Nodes \ {n} : pNext'[m] = pNext[m] /\ elem'[m] = elem[m]
<1>1. /\ n \in Nodes /\ n \in Free \cup unused /\ pNext \in [Nodes -> Words] /\ End \in Words
      /\ node \in [Threads -> Nodes \cup {NULL}] /\ elem \in [Nodes -> Items \cup {Nothing}]
  BY DEF IInv, Types, Took, Words
<1>2. n \notin Queue /\ \A u \in Threads : n \notin Held(u)
  BY <1>1 DEF IInv, Apart
<1>3. ~Listed(n)
  BY <1>2, ListedHeld
<1>4. pNext' = [pNext EXCEPT ![n] = End] /\ m_Head' = m_Head
  BY DEF Took
<1>6. pNext'[n] = End /\ \A m \in Nodes \ {n} : pNext'[m] = pNext[m]
  BY <1>1, <1>4
<1>5. Queue' = Queue
  BY <1>1, <1>2, <1>4, <1>6, InSpots, ListsWritten DEF Queue, IInv
<1>7. elem'[n] = <<t, npush[t] + 1>> /\ \A m \in Nodes \ {n} : elem'[m] = elem[m]
  BY <1>1 DEF Took
<1>8. ~Unlinked(t) /\ ~Popper(t) /\ Unlinked(t)' /\ ~Popper(t)' /\ node'[t] = n
  BY <1>1 DEF Took, Unlinked, Popper
<1>9. Held(t) = {} /\ Held(t)' = {n}
  <2>1. Reach(pNext', n) = {n}
    BY <1>1, <1>6, ReachNext, QueueAssumption
  <2> QED BY <1>8, <2>1 DEF Held
<1>10. ASSUME NEW u \in Threads \ {t}
       PROVE  /\ Unlinked(u)' <=> Unlinked(u)
              /\ Popper(u)' <=> Popper(u)
              /\ node'[u] = node[u] /\ Held(u)' = Held(u)
  <2>1. (Unlinked(u)' <=> Unlinked(u)) /\ (Popper(u)' <=> Popper(u)) /\ node'[u] = node[u]
    BY <1>1 DEF Took, Unlinked, Popper
  <2>2. CASE Unlinked(u)
    <3>1. node[u] \in Nodes /\ n \notin Reach(pNext, node[u])
      BY <1>2, <2>2, QueueNodes DEF IInv, Held
    <3>2. Reach(pNext', node[u]) = Reach(pNext, node[u])
      BY <1>1, <1>6, <3>1, ListsWritten
    <3> QED BY <2>1, <2>2, <3>2 DEF Held
  <2>3. CASE ~Unlinked(u)
    BY <2>1, <2>3 DEF Held
  <2> QED BY <2>1, <2>2, <2>3
<1>11. ASSUME NEW m PROVE Listed(m)' <=> Listed(m) \/ m = n
  <2>1. Listed(m)' <=> m \in Queue' \/ \E u \in Threads : Unlinked(u)' /\ m \in Held(u)'
    BY DEF Listed, Held
  <2> QED BY <1>5, <1>8, <1>9, <1>10, <2>1, ListedHeld
<1>12. n # m_Head.pNode
  BY <1>2, QueueNodes DEF IInv
<1> QED BY <1>2, <1>3, <1>5, <1>6, <1>7, <1>8, <1>9, <1>10, <1>11, <1>12

LEMMA PushItemKeeps ==
  ASSUME IInv, NEW t \in Threads, PushItem(t) PROVE IInv'
<1>1. PICK n : Took(t, n)
  BY PushItemTakes
<1>2. /\ n \notin Queue /\ \A u \in Threads : n \notin Held(u)
      /\ ~Listed(n) /\ Queue' = Queue
      /\ ~Unlinked(t) /\ Unlinked(t)' /\ Held(t) = {} /\ Held(t)' = {n} /\ node'[t] = n
      /\ ~Popper(t)'
      /\ \A u \in Threads \ {t} :
           /\ Unlinked(u)' <=> Unlinked(u)
           /\ Popper(u)' <=> Popper(u)
           /\ node'[u] = node[u] /\ Held(u)' = Held(u)
      /\ \A m : Listed(m)' <=> Listed(m) \/ m = n
      /\ pNext'[n] = End /\ elem'[n] = <<t, npush[t] + 1>> /\ n # m_Head.pNode
      /\ \A m \in Nodes \ {n} : pNext'[m] = pNext[m] /\ elem'[m] = elem[m]
  BY <1>1, TookLists
<1>3. n \in Nodes /\ n \in Free \cup unused /\ Free' = Free \ {n} /\ unused' = unused \ {n}
      /\ IsInjective(m_FreeNodes')
  BY <1>1 DEF Took
<1>4. /\ UNCHANGED <<m_Head, m_Tail, link, next, item, order, popped, returned, there, stray>>
      /\ pc[t] = "idle" /\ pc'[t] = "tailSequence" /\ \A u \in Threads \ {t} : pc'[u] = pc[u]
      /\ npush' = [npush EXCEPT ![t] = npush[t] + 1]
  BY <1>1 DEF Took
<1>5. npush \in [Threads -> Nat] /\ npush[t] \in Nat /\ <<t, npush[t] + 1>> \in Items
  BY DEF IInv, Types, Items
<1>6. /\ npush'[t] = npush[t] + 1 /\ npush' \in [Threads -> Nat]
      /\ \A u \in Threads \ {t} : npush'[u] = npush[u]
  BY <1>4, <1>5
<1>7. Types'
  <2>1. /\ pNext' \in [Nodes -> Words] /\ elem' \in [Nodes -> Items \cup {Nothing}]
        /\ node' \in [Threads -> Nodes \cup {NULL}]
    BY <1>1, <1>3, <1>5 DEF IInv, Types, Took, Words
  <2>2. \A u \in Threads : pc'[u] \in Pushing \/ Popper(u)' => node'[u] \in Nodes
    <3>1. \A u \in Threads \ {t} : pc[u] \in Pushing \/ Popper(u) => node[u] \in Nodes
      BY DEF IInv, Types
    <3> QED BY <1>2, <1>3, <1>4, <3>1
  <2> QED BY <1>1, <1>3, <1>4, <1>6, <2>1, <2>2 DEF IInv, Types, Took, Places
<1>8. Apart'
  <2>1. Apart
    BY DEF IInv
  <2>2. /\ Free' \cap unused' = {} /\ Queue' \cap Free' = {} /\ Queue' \cap unused' = {}
    BY <1>2, <1>3, <2>1 DEF Apart
  <2>3. \A u \in Threads :
          Held(u)' \cap Queue' = {} /\ Held(u)' \cap Free' = {} /\ Held(u)' \cap unused' = {}
    BY <1>2, <1>3, <2>1 DEF Apart
  <2>4. \A u, v \in Threads : u # v => Held(u)' \cap Held(v)' = {}
    BY <1>2, <2>1 DEF Apart
  <2> QED BY <1>3, <2>2, <2>3, <2>4 DEF Apart
<1>9. Covered'
  BY <1>2, <1>3 DEF IInv, Covered
<1>10. Linked'
  <2>1. Linked
    BY DEF IInv
  <2>2. ASSUME NEW m \in Nodes, Listed(m)'
        PROVE  pNext'[m] \in Nodes \cup {End}
               /\ (pNext'[m] \in Nodes => m \notin Reach(pNext', pNext'[m]))
    <3>1. CASE m = n
      BY <1>2, <3>1, QueueAssumption
    <3>2. CASE m # n
      <4>1. Listed(m) /\ pNext'[m] = pNext[m]
        BY <1>2, <2>2, <3>2
      <4>2. ASSUME pNext[m] \in Nodes PROVE Reach(pNext', pNext[m]) = Reach(pNext, pNext[m])
        <5>1. n \notin Reach(pNext, pNext[m])
          BY <1>2, <4>1, <4>2, BehindListed DEF IInv
        <5> QED BY <1>2, <1>3, <4>2, <5>1, ListsWritten
      <4> QED BY <2>1, <4>1, <4>2 DEF Linked
    <3> QED BY <3>1, <3>2
  <2>3. \A m \in Free' \cup unused' : pNext'[m] # End
    <3>1. Free \cup unused \subseteq Nodes
      BY RangeOfSeq DEF IInv, Types, Free
    <3> QED BY <1>2, <1>3, <2>1, <3>1 DEF Linked
  <2>4. ASSUME NEW u \in Threads, Popper(u)' PROVE pNext'[node'[u]] # End
    <3>1. u # t /\ Popper(u) /\ node'[u] = node[u] /\ node[u] \in Nodes /\ node[u] # n
      BY <1>2, <2>4, QueueNodes DEF IInv
    <3> QED BY <1>2, <2>1, <3>1 DEF Linked
  <2> QED BY <2>2, <2>3, <2>4 DEF Linked
<1>11. Forest'
  <2>1. PICK R \in SUBSET (Threads \X Threads) : Earlier(R)
    BY DEF IInv, Forest
  <2> DEFINE S == {p \in Threads \X Threads : p[1] # t /\ (p[2] = t \/ p \in R)}
  <2>2. \A u, v \in Threads : <<u, v>> \in S <=> u # t /\ (v = t \/ <<u, v>> \in R)
    OBVIOUS
  <2>3. S \in SUBSET (Threads \X Threads)
    OBVIOUS
  <2> HIDE DEF S
  <2>4. \A u \in Threads : <<u, u>> \notin S
    BY <2>1, <2>2 DEF Earlier
  <2>5. \A u, v, w \in Threads : <<u, v>> \in S /\ <<v, w>> \in S => <<u, w>> \in S
    BY <2>1, <2>2 DEF Earlier
  <2>6. ASSUME NEW u \in Threads, NEW v \in Threads, pc'[u] = "link", Unlinked(v)',
               link'[u].pNode \in Reach(pNext', node'[v])
        PROVE  <<u, v>> \in S
    <3>1. u # t /\ pc[u] = "link" /\ link'[u] = link[u]
      BY <1>4, <2>6
    <3>2. CASE v = t
      BY <2>2, <3>1, <3>2
    <3>3. CASE v # t
      <4>1. Unlinked(v) /\ Held(v)' = Held(v)
        BY <1>2, <2>6, <3>3
      <4>2. link[u].pNode \in Reach(pNext, node[v])
        BY <2>6, <3>1, <4>1 DEF Held
      <4> QED BY <2>1, <2>2, <3>1, <4>1, <4>2 DEF Earlier
    <3> QED BY <3>2, <3>3
  <2> QED BY <2>3, <2>4, <2>5, <2>6 DEF Forest, Earlier
<1>12. Ends'
  <2>1. m_Tail.pNode \in Queue /\ m_Tail.pNode # n
    BY <1>2 DEF IInv, Ends
  <2>2. Others(t) /\ TailKept /\ HeadKept
    BY <1>1, <1>2, <1>4 DEF Others, TailKept, HeadKept, Took
  <2>3. \A m \in {m_Head.pNode, m_Tail.pNode} : pNext'[m] = pNext[m]
    BY <1>2, <2>1, InSpots DEF IInv
  <2>4. pNext[m_Head.pNode] \in Nodes => elem'[pNext[m_Head.pNode]] = elem[pNext[m_Head.pNode]]
    <3>1. pNext[m_Head.pNode] \in Nodes => pNext[m_Head.pNode] \in Queue
      BY QueueNodes DEF IInv, Shut
    <3> QED BY <1>2, <3>1
  <2>5. \A u \in Threads \ {t} : TailRead(u)' /\ HeadRead(u)'
    BY <1>4, <1>7, <2>2, <2>3, <2>4, OthersEnds DEF IInv
  <2>6. TailRead(t)' /\ HeadRead(t)'
    BY <1>4 DEF TailRead, HeadRead, Linking, Popping
  <2> QED BY <1>2, <1>4, <2>1, <2>5, <2>6 DEF Ends
<1>13. Elements'
  <2>1. \A m : Full(m)' <=> Full(m) \/ m = n
    BY <1>2, <1>4 DEF Full
  <2>2. /\ \A x \in Items : Pushed(npush, x) => Pushed(npush', x)
        /\ ~Pushed(npush, <<t, npush[t] + 1>>) /\ Pushed(npush', <<t, npush[t] + 1>>)
        /\ Range(popped) \subseteq Items
    <3>1. Range(popped) \subseteq Items
      BY RangeOfSeq DEF IInv, Types
    <3>2. ASSUME NEW x \in Items, Pushed(npush, x) PROVE Pushed(npush', x)
      <4>1. x[1] \in Threads /\ x[2] \in Nat /\ x[2] <= npush[x[1]]
        BY <3>2 DEF Pushed, Items
      <4>2. npush[x[1]] \in Nat /\ npush'[x[1]] \in Nat /\ npush[x[1]] <= npush'[x[1]]
        BY <1>5, <1>6, <4>1
      <4> QED BY <4>1, <4>2 DEF Pushed
    <3>3. ~Pushed(npush, <<t, npush[t] + 1>>) /\ Pushed(npush', <<t, npush[t] + 1>>)
      BY <1>5, <1>6 DEF Pushed
    <3> QED BY <3>1, <3>2, <3>3
  <2>3. Elements /\ ~Full(n)
    BY <1>2 DEF IInv, Full
  <2>4. <<t, npush[t] + 1>> \notin Range(popped)
    BY <2>2, <2>3 DEF Elements
  <2>5. ASSUME NEW m \in Nodes, Full(m)'
        PROVE  elem'[m] \in Items /\ Pushed(npush', elem'[m]) /\ elem'[m] \notin Range(popped)
    <3>1. CASE m = n
      BY <1>2, <1>5, <2>2, <2>4, <3>1
    <3>2. CASE m # n
      <4>1. Full(m) /\ elem'[m] = elem[m]
        BY <1>2, <2>1, <2>5, <3>2
      <4>2. elem[m] \in Items /\ Pushed(npush, elem[m]) /\ elem[m] \notin Range(popped)
        BY <2>3, <4>1 DEF Elements
      <4> QED BY <2>2, <4>1, <4>2
    <3> QED BY <3>1, <3>2
  <2>6. ASSUME NEW l \in Nodes, NEW m \in Nodes, Full(l)', Full(m)', elem'[l] = elem'[m]
        PROVE  l = m
    <3>1. \A k \in Nodes \ {n} : Full(k)' => Full(k) /\ elem'[k] = elem[k] /\ elem'[k] # elem'[n]
      BY <1>2, <2>1, <2>2, <2>3 DEF Elements
    <3> QED BY <2>3, <2>6, <3>1 DEF Elements
  <2>7. ASSUME NEW u \in Threads, Unlinked(u)' PROVE elem'[node'[u]] = <<u, npush'[u]>>
    <3>1. CASE u = t
      BY <1>2, <1>6, <3>1
    <3>2. CASE u # t
      <4>1. Unlinked(u) /\ node'[u] = node[u] /\ node[u] \in Nodes /\ node[u] # n
        BY <1>2, <2>7, <3>2, QueueNodes DEF IInv
      <4> QED BY SMTT(30), <1>2, <1>6, <2>3, <3>2, <4>1 DEF Elements
    <3> QED BY <3>1, <3>2
  <2>8. \A u \in Threads : pc'[u] \in {"finish", "count"} => <<u, npush'[u]>> \in Range(order)
    BY <1>4, <1>6, <2>3 DEF Elements
  <2>9. ASSUME NEW x \in Items
        PROVE  x \in Range(order) <=>
                 \/ x \in Range(popped)
                 \/ \E m \in Nodes : /\ Full(m)' /\ elem'[m] = x
                                     /\ \A u \in Threads : Unlinked(u)' => m # node'[u]
    <3>1. ASSUME NEW m \in Nodes
          PROVE  (/\ Full(m)' /\ elem'[m] = x
                  /\ \A u \in Threads : Unlinked(u)' => m # node'[u])
                 <=> (/\ Full(m) /\ elem[m] = x
                      /\ \A u \in Threads : Unlinked(u) => m # node[u])
      <4>1. CASE m = n
        BY <1>2, <2>3, <4>1
      <4>2. CASE m # n
        BY <1>2, <2>1, <4>2
      <4> QED BY <4>1, <4>2
    <3> QED BY <2>3, <3>1 DEF Elements
  <2>10. (\A x \in Range(popped) : Pushed(npush', x)) /\ IsInjective(popped) /\ returned \in SUBSET Range(order)
    BY <2>2, <2>3 DEF Elements
  <2> QED BY <1>4, <2>5, <2>6, <2>7, <2>8, <2>9, <2>10 DEF Elements
<1>14. Straight'
  <2> SUFFICES ASSUME ~stray PROVE Straight'
    BY <1>4 DEF Straight
  <2>1. PICK len \in 0 .. Len(order) : \E path \in [0 .. len -> Queue] : InOrder(path, len)
    BY DEF IInv, Straight
  <2>2. PICK path \in [0 .. len -> Queue] : InOrder(path, len)
    BY <2>1
  <2>3. \A i \in 0 .. len : path[i] \in Nodes /\ pNext'[path[i]] = pNext[path[i]] /\ elem'[path[i]] = elem[path[i]]
    BY <1>2, <2>2, QueueNodes DEF IInv
  <2>4. \A i \in 0 .. len - 1 : i \in 0 .. len /\ i + 1 \in 0 .. len
    BY <2>1
  <2>5. InOrder(path, len)'
    <3>1. path[0] = m_Head'.pNode /\ pNext'[path[len]] = End
      BY <1>4, <2>1, <2>2, <2>3 DEF InOrder
    <3>2. \A i \in 0 .. len - 1 : pNext'[path[i]] = path[i + 1] /\ elem'[path[i + 1]] = order'[Len(popped') + i + 1]
      BY <1>4, <2>2, <2>3, <2>4 DEF InOrder
    <3>3. /\ len \in Nat /\ Len(order') = Len(popped') + len
          /\ \A i \in 1 .. Len(popped') : popped'[i] = order'[i]
          /\ path \in [0 .. len -> Queue']
      BY <1>2, <1>4, <2>2 DEF InOrder
    <3> QED BY <3>1, <3>2, <3>3 DEF InOrder
  <2>6. \A u \in Threads : Unlinked(u)' => pNext'[node'[u]] = End
    <3>1. \A u \in Threads : Unlinked(u) => pNext[node[u]] = End /\ node[u] \in Nodes /\ node[u] # n
      BY <1>2, QueueNodes DEF IInv, Straight
    <3> QED BY <1>2, <3>1
  <2> QED BY <1>2, <1>4, <2>5, <2>6 DEF Straight
<1>15. SeenEmpty'
  <2>1. Others(t) /\ HeadKept
    BY <1>1, <1>2, <1>4 DEF Others, HeadKept, Took
  <2>2. \A u \in Threads \ {t} : SeenNothing(u)'
    BY <1>4, <1>7, <2>1, OthersSeen DEF IInv
  <2>3. SeenNothing(t)'
    BY <1>4 DEF SeenNothing
  <2> QED BY <2>2, <2>3 DEF SeenEmpty
<1> QED BY <1>7, <1>8, <1>9, <1>10, <1>11, <1>12, <1>13, <1>14, <1>15 DEF IInv

-----------------------------------------------------------------------------
(* LinkNode puts the list of a thread behind the end of another *)

LEMMA LinkLists ==
  ASSUME IInv, NEW t \in Threads, LinkNode(t), NEW last, last = link[t].pNode,
         NEW k, k = node[t]
  PROVE  /\ last \in Nodes /\ pNext[last] = End /\ pNext'[last] = k
         /\ \A m \in Nodes \ {last} : pNext'[m] = pNext[m]
         /\ k \in Nodes /\ k \in Held(t) /\ last \notin Held(t) /\ Unlinked(t)
         /\ ~Unlinked(t)' /\ ~Popper(t)' /\ Held(t)' = {}
         /\ \A u \in Threads \ {t} :
              /\ Unlinked(u)' <=> Unlinked(u)
              /\ Popper(u)' <=> Popper(u)
              /\ Popper(u) => node[u] # last
              /\ Held(u)' = IF Unlinked(u) /\ last \in Held(u) THEN Held(u) \cup Held(t) ELSE Held(u)
         /\ last \notin Free /\ last \notin unused
         /\ Queue' = IF last \in Queue THEN Queue \cup Held(t) ELSE Queue
         /\ \A m : Listed(m)' <=> Listed(m)
         /\ pc[t] = "link" /\ pc'[t] = "finish" /\ pc' \in [Threads -> Places]
         /\ \A u \in Threads \ {t} : pc'[u] = pc[u]
<1>1. /\ pc[t] = "link" /\ pc'[t] = "finish" /\ pc' \in [Threads -> Places]
      /\ \A u \in Threads \ {t} : pc'[u] = pc[u]
  BY Stepped DEF LinkNode, IInv, Places, Pushing, Linking
<1>2. /\ pNext[last] = End /\ pNext' = [pNext EXCEPT ![last] = k]
      /\ UNCHANGED <<m_Head, node, link>>
  BY DEF LinkNode
<1>3. last \in Nodes /\ pNext \in [Nodes -> Words]
  BY InSpots DEF IInv, Types
<1>4. pNext'[last] = k /\ \A m \in Nodes \ {last} : pNext'[m] = pNext[m]
  BY <1>2, <1>3
<1>5. Unlinked(t) /\ ~Unlinked(t)' /\ ~Popper(t)' /\ Held(t)' = {}
  BY <1>1 DEF Unlinked, Popper, Held
<1>6. /\ k \in Nodes /\ k \in Held(t) /\ Held(t) = Reach(pNext, k) /\ Held(t) \in SUBSET Nodes
      /\ pNext[last] \notin Nodes /\ pNext'[last] \in Nodes
  BY <1>2, <1>4, <1>5, QueueNodes, QueueAssumption DEF IInv, Held
<1>7. last \notin Held(t)
  <2>1. PICK R \in SUBSET (Threads \X Threads) : Earlier(R)
    BY DEF IInv, Forest
  <2>2. last \in Reach(pNext, node[t]) => <<t, t>> \in R
    BY <1>1, <1>5, <2>1 DEF Earlier
  <2> QED BY <1>6, <2>1, <2>2 DEF Earlier
<1>8. last \notin Free /\ last \notin unused /\ \A u \in Threads : Popper(u) => node[u] # last
  BY <1>2 DEF IInv, Linked
<1>9. Queue' = IF last \in Queue THEN Queue \cup Held(t) ELSE Queue
  <2>1. /\ Queue = Reach(pNext, m_Head.pNode) /\ Queue' = Reach(pNext', m_Head.pNode)
        /\ m_Head.pNode \in Nodes
    BY <1>2, InSpots DEF Queue, IInv
  <2> QED BY SMTT(30), <1>3, <1>4, <1>6, <2>1, ListsWritten
<1>10. ASSUME NEW u \in Threads \ {t}
       PROVE  /\ Unlinked(u)' <=> Unlinked(u)
              /\ Popper(u)' <=> Popper(u)
              /\ Held(u)' = IF Unlinked(u) /\ last \in Held(u) THEN Held(u) \cup Held(t) ELSE Held(u)
  <2>1. (Unlinked(u)' <=> Unlinked(u)) /\ (Popper(u)' <=> Popper(u)) /\ node'[u] = node[u]
    BY <1>1, <1>2 DEF Unlinked, Popper
  <2>2. CASE Unlinked(u)
    <3>1. node[u] \in Nodes /\ Held(u) = Reach(pNext, node[u]) /\ Held(u)' = Reach(pNext', node[u])
      BY <2>1, <2>2, QueueNodes DEF IInv, Held
    <3> QED BY <1>3, <1>4, <1>6, <2>1, <2>2, <3>1, ListsWritten
  <2>3. CASE ~Unlinked(u)
    BY <2>1, <2>3 DEF Held
  <2> QED BY <2>1, <2>2, <2>3
<1>11. ASSUME NEW m PROVE Listed(m)' <=> Listed(m)
  <2>1. Listed(m)' <=> m \in Queue' \/ \E u \in Threads : Unlinked(u)' /\ m \in Held(u)'
    BY DEF Listed, Held
  <2>2. last \in Queue \/ \E u \in Threads \ {t} : Unlinked(u) /\ last \in Held(u)
    <3>1. last \in Queue \/ \E u \in Threads : last \in Held(u)
      BY <1>3, <1>8 DEF IInv, Covered
    <3>2. ASSUME NEW u \in Threads, last \in Held(u) PROVE Unlinked(u) /\ u # t
      BY <1>7, <1>8, <3>2 DEF Held
    <3> QED BY <3>1, <3>2
  <2>3. m \in Held(t) => Listed(m)'
    BY <1>9, <1>10, <2>1, <2>2
  <2>4. Listed(m) => Listed(m)'
    BY <1>9, <1>10, <2>1, <2>3, ListedHeld
  <2>5. Listed(m)' => Listed(m)
    <3>1. CASE m \in Queue'
      BY <1>5, <1>9, <3>1, ListedHeld
    <3>2. CASE \E u \in Threads : Unlinked(u)' /\ m \in Held(u)'
      <4>1. PICK u \in Threads \ {t} : Unlinked(u)' /\ m \in Held(u)'
        BY <1>5, <3>2
      <4>2. Unlinked(u) /\ (m \in Held(u) \/ m \in Held(t))
        BY <1>10, <4>1
      <4> QED BY <1>5, <4>2, ListedHeld
    <3> QED BY <2>1, <3>1, <3>2
  <2> QED BY <2>4, <2>5
<1> QED BY <1>1, <1>2, <1>3, <1>4, <1>5, <1>6, <1>7, <1>8, <1>9, <1>10, <1>11

\* The nodes of the queue are those in order, and only the last one ends it.
LEMMA PathIsQueue ==
  ASSUME Types, NEW len \in Nat, NEW path \in [0 .. len -> Queue], InOrder(path, len)
  PROVE  /\ \A m \in Queue : \E i \in 0 .. len : m = path[i]
         /\ \A m \in Queue : pNext[m] = End => m = path[len]
<1>1. Queue \in SUBSET Nodes
  BY QueueNodes
<1> DEFINE S == {path[i] : i \in 0 .. len}
<1>2. S \in SUBSET Nodes
  BY <1>1
<1>3. m_Head.pNode \in S
  <2>1. path[0] = m_Head.pNode /\ 0 \in 0 .. len
    BY DEF InOrder
  <2> QED BY <2>1
<1>4. Shut(pNext, S)
  <2> SUFFICES ASSUME NEW i \in 0 .. len, pNext[path[i]] \in Nodes PROVE pNext[path[i]] \in S
    BY DEF Shut
  <2>1. CASE i = len
    BY <2>1, QueueAssumption DEF InOrder
  <2>2. CASE i # len
    <3>1. i \in 0 .. len - 1 /\ i + 1 \in 0 .. len
      BY <2>2
    <3>2. pNext[path[i]] = path[i + 1]
      BY <3>1 DEF InOrder
    <3> QED BY <3>1, <3>2
  <2> QED BY <2>1, <2>2
<1>5. Queue \subseteq S
  BY <1>2, <1>3, <1>4, ReachLeast DEF Queue
<1>6. ASSUME NEW i \in 0 .. len, pNext[path[i]] = End PROVE i = len
  <2>1. ASSUME i # len PROVE FALSE
    <3>1. i \in 0 .. len - 1 /\ i + 1 \in 0 .. len
      BY <2>1
    <3>2. pNext[path[i]] = path[i + 1] /\ path[i + 1] \in Nodes
      BY <1>1, <3>1 DEF InOrder
    <3> QED BY <1>6, <3>2, QueueAssumption
  <2> QED BY <2>1
<1> QED BY <1>5, <1>6

LEMMA LinkNodeKeeps ==
  ASSUME IInv, NEW t \in Threads, LinkNode(t) PROVE IInv'
<1> PICK last : last = link[t].pNode
  OBVIOUS
<1> PICK k : k = node[t]
  OBVIOUS
<1>1. /\ last \in Nodes /\ pNext[last] = End /\ pNext'[last] = k
      /\ \A m \in Nodes \ {last} : pNext'[m] = pNext[m]
      /\ k \in Nodes /\ k \in Held(t) /\ last \notin Held(t) /\ Unlinked(t)
      /\ ~Unlinked(t)' /\ ~Popper(t)' /\ Held(t)' = {}
      /\ \A u \in Threads \ {t} :
           /\ Unlinked(u)' <=> Unlinked(u)
           /\ Popper(u)' <=> Popper(u)
           /\ Popper(u) => node[u] # last
           /\ Held(u)' = IF Unlinked(u) /\ last \in Held(u) THEN Held(u) \cup Held(t) ELSE Held(u)
      /\ last \notin Free /\ last \notin unused
      /\ Queue' = IF last \in Queue THEN Queue \cup Held(t) ELSE Queue
      /\ \A m : Listed(m)' <=> Listed(m)
      /\ pc[t] = "link" /\ pc'[t] = "finish" /\ pc' \in [Threads -> Places]
      /\ \A u \in Threads \ {t} : pc'[u] = pc[u]
  BY LinkLists
<1>2. /\ pNext' = [pNext EXCEPT ![last] = k] /\ order' = Append(order, elem[k])
      /\ stray' = (stray \/ last \notin Queue)
      /\ UNCHANGED <<m_Head, m_Tail, elem, m_FreeNodes, m_Count, unused,
                     node, link, tailSequence, next, item, npush, npop, popped, returned, there>>
  BY FromIsReach DEF LinkNode, Queue
<1>3. last = link[t].pNode /\ k = node[t]
  OBVIOUS
<1>4. Free' = Free
  BY <1>2 DEF Free
<1>5. elem[k] = <<t, npush[t]>> /\ elem[k] \in Items /\ Full(k)
  <2>1. k # m_Head.pNode
    BY <1>1, QueueNodes DEF IInv, Apart
  <2>2. Full(k)
    BY <1>1, <2>1, ListedHeld DEF Full
  <2> QED BY <1>1, <1>3, <2>2 DEF IInv, Elements
<1>6. /\ order \in Seq(Items) /\ order' \in Seq(Items) /\ Len(order') = Len(order) + 1
      /\ \A i \in 1 .. Len(order) : order'[i] = order[i]
      /\ order'[Len(order) + 1] = elem[k] /\ Range(order') = Range(order) \cup {elem[k]}
  <2>1. order \in Seq(Items) /\ elem[k] \in Items /\ order' = Append(order, elem[k])
    BY <1>2, <1>5 DEF IInv, Types
  <2> QED BY <2>1, WithLast
<1>7. Types'
  <2>1. pNext' \in [Nodes -> Words] /\ stray' \in BOOLEAN
    BY <1>1, <1>2 DEF IInv, Types, Words
  <2>2. \A u \in Threads : pc'[u] \in Pushing \/ Popper(u)' => node'[u] \in Nodes
    <3>1. \A u \in Threads \ {t} : pc[u] \in Pushing \/ Popper(u) => node[u] \in Nodes
      BY DEF IInv, Types
    <3>2. node'[t] \in Nodes /\ \A u \in Threads : node'[u] = node[u]
      BY <1>1, <1>2, <1>3
    <3> QED BY <1>1, <3>1, <3>2
  <2> QED BY <1>1, <1>2, <1>6, <2>1, <2>2 DEF IInv, Types, Places
<1>8. Apart'
  <2>1. Apart
    BY DEF IInv
  <2>2. Queue' \cap Free = {} /\ Queue' \cap unused = {}
    BY <1>1, <2>1 DEF Apart
  <2>3. ASSUME NEW u \in Threads
        PROVE  Held(u)' \cap Queue' = {} /\ Held(u)' \cap Free = {} /\ Held(u)' \cap unused = {}
    <3>1. CASE u = t
      BY <1>1, <3>1
    <3>2. CASE u # t
      <4>1. /\ Held(u) \cap Queue = {} /\ Held(u) \cap Free = {} /\ Held(u) \cap unused = {}
            /\ Held(t) \cap Queue = {} /\ Held(t) \cap Free = {} /\ Held(t) \cap unused = {}
            /\ Held(t) \cap Held(u) = {}
        BY <2>1, <3>2 DEF Apart
      <4> QED BY <1>1, <3>2, <4>1
    <3> QED BY <3>1, <3>2
  <2>4. ASSUME NEW u \in Threads, NEW v \in Threads, u # v PROVE Held(u)' \cap Held(v)' = {}
    <3>1. CASE u = t \/ v = t
      BY <1>1, <3>1
    <3>2. CASE u # t /\ v # t
      <4>1. Held(u) \cap Held(v) = {} /\ Held(u) \cap Held(t) = {} /\ Held(v) \cap Held(t) = {}
        BY <2>1, <2>4, <3>2 DEF Apart
      <4> QED BY <1>1, <3>2, <4>1
    <3> QED BY <3>1, <3>2
  <2> QED BY <1>2, <1>4, <2>1, <2>2, <2>3, <2>4 DEF Apart
<1>9. Covered'
  <2> SUFFICES ASSUME NEW n \in Nodes
               PROVE  n \in Queue' \/ n \in Free \/ n \in unused \/ \E u \in Threads : n \in Held(u)'
    BY <1>2, <1>4 DEF Covered
  <2>1. CASE n \in Queue \/ n \in Free \/ n \in unused
    BY <1>1, <2>1
  <2>2. CASE \E u \in Threads \ {t} : n \in Held(u)
    BY <1>1, <2>2
  <2>3. CASE n \in Held(t)
    <3>1. Listed(n)'
      BY <1>1, <2>3, ListedHeld
    <3> QED BY <3>1 DEF Listed, Held
  <2> QED BY <2>1, <2>2, <2>3 DEF IInv, Covered
<1>10. Linked'
  <2>1. Linked
    BY DEF IInv
  <2>2. ASSUME NEW m \in Nodes, Listed(m)'
        PROVE  pNext'[m] \in Nodes \cup {End}
               /\ (pNext'[m] \in Nodes => m \notin Reach(pNext', pNext'[m]))
    <3>1. Held(t) = Reach(pNext, k) /\ Reach(pNext', k) = Reach(pNext, k)
      <4>1. Held(t) = Reach(pNext, k)
        BY <1>1, <1>3 DEF Held
      <4> QED BY <1>1, <4>1, ListsWritten
    <3>2. CASE m = last
      BY <1>1, <3>1, <3>2
    <3>3. CASE m # last
      <4>1. Listed(m) /\ pNext'[m] = pNext[m]
        BY <1>1, <2>2, <3>3
      <4>2. /\ pNext[m] \in Nodes \cup {End}
            /\ pNext[m] \in Nodes => m \notin Reach(pNext, pNext[m])
        BY <2>1, <4>1 DEF Linked
      <4>3. ASSUME pNext[m] \in Nodes PROVE m \notin Reach(pNext', pNext[m])
        <5>1. CASE last \notin Reach(pNext, pNext[m])
          BY <1>1, <4>2, <4>3, <5>1, ListsWritten
        <5>2. CASE last \in Reach(pNext, pNext[m])
          <6>1. Reach(pNext', pNext[m]) = Reach(pNext, pNext[m]) \cup Held(t)
            BY <1>1, <3>1, <4>3, <5>2, ListsWritten, QueueAssumption
          <6>2. ASSUME m \in Held(t) PROVE FALSE
            <7>1. pNext[m] \in Reach(pNext, k)
              BY <1>1, <3>1, <4>3, <6>2, QueueNodes DEF IInv, Shut
            <7> QED BY <1>1, <3>1, <5>2, <7>1, ReachWithin
          <6> QED BY <4>2, <4>3, <6>1, <6>2
        <5> QED BY <5>1, <5>2
      <4> QED BY <4>1, <4>2, <4>3
    <3> QED BY <3>2, <3>3
  <2>3. \A m \in Free \cup unused : pNext'[m] # End
    <3>1. Free \cup unused \subseteq Nodes
      BY RangeOfSeq DEF IInv, Types, Free
    <3> QED BY <1>1, <2>1, <3>1 DEF Linked
  <2>4. ASSUME NEW u \in Threads, Popper(u)' PROVE pNext'[node[u]] # End
    <3>1. u # t /\ Popper(u) /\ node[u] \in Nodes /\ node[u] # last
      BY <1>1, <2>4, QueueNodes DEF IInv
    <3> QED BY <1>1, <2>1, <3>1 DEF Linked
  <2> QED BY <1>2, <1>4, <2>2, <2>3, <2>4 DEF Linked
<1>11. Forest'
  <2>1. PICK R \in SUBSET (Threads \X Threads) : Earlier(R)
    BY DEF IInv, Forest
  <2>2. ASSUME NEW u \in Threads, NEW v \in Threads, pc'[u] = "link", Unlinked(v)',
               link'[u].pNode \in Reach(pNext', node'[v])
        PROVE  <<u, v>> \in R
    <3>1. u # t /\ pc[u] = "link" /\ link'[u] = link[u] /\ v # t /\ Unlinked(v)
      BY <1>1, <1>2, <2>2
    <3>2. link[u].pNode \in Held(v)'
      BY <2>2, <3>1 DEF Held
    <3>3. \A x, y \in Threads : pc[x] = "link" /\ Unlinked(y) /\ link[x].pNode \in Held(y) => <<x, y>> \in R
      BY <2>1 DEF Earlier, Held
    <3>4. CASE link[u].pNode \in Held(v)
      BY <3>1, <3>3, <3>4
    <3>5. CASE link[u].pNode \notin Held(v)
      <4>1. last \in Held(v) /\ link[u].pNode \in Held(t)
        BY <1>1, <3>1, <3>2, <3>5
      <4>2. <<u, t>> \in R /\ <<t, v>> \in R
        BY <1>1, <1>3, <3>1, <3>3, <4>1
      <4> QED BY <2>1, <4>2 DEF Earlier
    <3> QED BY <3>4, <3>5
  <2> QED BY <2>1, <2>2 DEF Forest, Earlier
<1>12. Ends'
  <2>1. Others(t) /\ TailKept /\ HeadKept
    BY <1>1, <1>2 DEF Others, TailKept, HeadKept
  <2>2. \A m \in {m_Head.pNode, m_Tail.pNode} : pNext[m] # End => pNext'[m] = pNext[m]
    BY <1>1, InSpots DEF IInv
  <2>3. \A u \in Threads \ {t} : TailRead(u)' /\ HeadRead(u)'
    BY <1>2, <1>7, <2>1, <2>2, OthersEnds DEF IInv
  <2>4. TailRead(t)
    BY DEF IInv, Ends
  <2>5. TailRead(t)' /\ HeadRead(t)'
    BY <1>1, <1>2, <1>3, <2>4 DEF TailRead, HeadRead, Linking, Popping
  <2> QED BY <1>1, <1>2, <2>3, <2>5 DEF IInv, Ends
<1>13. Elements'
  <2>1. \A m : Full(m)' <=> Full(m)
    BY <1>1, <1>2 DEF Full
  <2>2. Elements
    BY DEF IInv
  <2>3. \A u \in Threads : pc'[u] \in {"finish", "count"} => <<u, npush[u]>> \in Range(order')
    BY <1>1, <1>5, <1>6, <2>2 DEF Elements
  <2>4. \A u \in Threads \ {t} : Unlinked(u) => k # node[u]
    <3>1. ASSUME NEW u \in Threads \ {t}, Unlinked(u) PROVE k # node[u]
      <4>1. node[u] \in Held(u) /\ Held(u) \cap Held(t) = {}
        BY <3>1, QueueNodes DEF IInv, Apart
      <4> QED BY <1>1, <4>1
    <3> QED BY <3>1
  <2>5. ASSUME NEW x \in Items
        PROVE  x \in Range(order') <=>
                 \/ x \in Range(popped)
                 \/ \E m \in Nodes : /\ Full(m)' /\ elem[m] = x
                                     /\ \A u \in Threads : Unlinked(u)' => m # node[u]
    <3>1. x \in Range(order') <=> x \in Range(order) \/ x = elem[k]
      BY <1>6
    <3>2. ASSUME NEW m \in Nodes
          PROVE  (/\ Full(m)' /\ elem[m] = x
                  /\ \A u \in Threads : Unlinked(u)' => m # node[u])
                 <=> \/ /\ Full(m) /\ elem[m] = x
                        /\ \A u \in Threads : Unlinked(u) => m # node[u]
                     \/ m = k /\ x = elem[k]
      <4>1. CASE m = k
        BY <1>1, <1>5, <2>1, <2>4, <4>1
      <4>2. CASE m # k
        BY <1>1, <1>3, <2>1, <4>2
      <4> QED BY <4>1, <4>2
    <3>3. x \in Range(order) <=>
            \/ x \in Range(popped)
            \/ \E m \in Nodes : /\ Full(m) /\ elem[m] = x
                                /\ \A u \in Threads : Unlinked(u) => m # node[u]
      BY <2>2 DEF Elements
    <3> QED BY <1>1, <3>1, <3>2, <3>3
  <2>6. \A u \in Threads : Unlinked(u)' => elem[node[u]] = <<u, npush[u]>>
    BY <1>1, <2>2 DEF Elements
  <2>7. \A n \in Nodes : Full(n)' => /\ elem'[n] \in Items /\ Pushed(npush', elem'[n])
                                   /\ elem'[n] \notin Range(popped')
    BY <1>2, <2>1, <2>2 DEF Elements
  <2>8. \A m, n \in Nodes : Full(m)' /\ Full(n)' /\ elem'[m] = elem'[n] => m = n
    BY <1>2, <2>1, <2>2 DEF Elements
  <2>9. /\ \A x \in Range(popped') : Pushed(npush', x)
        /\ IsInjective(popped') /\ returned' \in SUBSET Range(order')
    BY <1>2, <1>6, <2>2 DEF Elements
  <2>10. /\ elem' = elem /\ node' = node /\ npush' = npush /\ popped' = popped
    BY <1>2
  <2> QED BY <2>3, <2>5, <2>6, <2>7, <2>8, <2>9, <2>10 DEF Elements
<1>14. Straight'
  <2> SUFFICES ASSUME ~stray, last \in Queue PROVE Straight'
    BY <1>2 DEF Straight
  <2>1. PICK len \in 0 .. Len(order) : \E path \in [0 .. len -> Queue] : InOrder(path, len)
    BY DEF IInv, Straight
  <2>2. PICK path \in [0 .. len -> Queue] : InOrder(path, len)
    BY <2>1
  <2>3. len \in Nat /\ Len(order) \in Nat /\ Len(popped) \in Nat /\ Len(order) = Len(popped) + len
    BY <2>1, <2>2, LenProperties DEF InOrder, IInv, Types
  <2>4. last = path[len]
    BY <1>1, <2>2, <2>3, PathIsQueue DEF IInv
  <2>5. Queue' = Queue \cup Held(t)
    BY <1>1
  <2>6. \A u \in Threads : Unlinked(u) => pNext[node[u]] = End /\ node[u] \in Nodes /\ node[u] # last
    BY QueueNodes DEF IInv, Straight, Apart
  <2> PICK longer : longer = [i \in 0 .. len + 1 |-> IF i = len + 1 THEN k ELSE path[i]]
    OBVIOUS
  <2>7. /\ longer \in [0 .. len + 1 -> Queue'] /\ longer[len + 1] = k
        /\ \A i \in 0 .. len : longer[i] = path[i] /\ longer[i] \in Queue
    <3>1. \A i \in 0 .. len + 1 : i = len + 1 \/ i \in 0 .. len
      BY <2>3
    <3>2. \A i \in 0 .. len : i # len + 1 /\ i \in 0 .. len + 1
      BY <2>3
    <3>3. len + 1 \in 0 .. len + 1
      BY <2>3
    <3> QED BY <1>1, <2>5, <3>1, <3>2, <3>3
  <2>8. \A i \in 0 .. len - 1 : /\ i \in 0 .. len /\ i + 1 \in 0 .. len
                              /\ pNext[path[i]] = path[i + 1]
                              /\ elem[path[i + 1]] = order[Len(popped) + i + 1]
                              /\ Len(popped) + i + 1 \in 1 .. Len(order)
    BY <2>2, <2>3 DEF InOrder
  <2>9. \A i \in 0 .. len - 1 : path[i] # last /\ path[i] \in Nodes
    <3>1. ASSUME NEW i \in 0 .. len - 1 PROVE path[i] # last /\ path[i] \in Nodes
      <4>1. path[i] \in Nodes /\ path[i + 1] \in Nodes /\ pNext[path[i]] = path[i + 1]
        BY <2>8, QueueNodes DEF IInv
      <4> QED BY <1>1, <4>1, QueueAssumption
    <3> QED BY <3>1
  <2>10. ASSUME NEW i \in 0 .. len
         PROVE  pNext'[longer[i]] = longer[i + 1] /\ elem[longer[i + 1]] = order'[Len(popped) + i + 1]
    <3>1. CASE i = len
      <4>1. longer[i] = last /\ longer[i + 1] = k
        BY <2>4, <2>7, <3>1
      <4>2. Len(popped) + i + 1 = Len(order) + 1
        BY <2>3, <3>1
      <4> QED BY <1>1, <1>6, <4>1, <4>2
    <3>2. CASE i # len
      <4>1. i \in 0 .. len - 1
        BY <2>3, <3>2
      <4>2. longer[i] = path[i] /\ longer[i + 1] = path[i + 1]
        BY <2>7, <2>8, <4>1
      <4>3. pNext'[path[i]] = pNext[path[i]]
        BY <1>1, <2>9, <4>1
      <4> QED BY <1>6, <2>8, <4>1, <4>2, <4>3
    <3> QED BY <3>1, <3>2
  <2>11. InOrder(longer, len + 1)'
    <3>1. longer[0] = m_Head'.pNode /\ pNext'[longer[len + 1]] = End
      <4>1. longer[0] = path[0] /\ path[0] = m_Head.pNode
        BY <2>2, <2>3, <2>7 DEF InOrder
      <4>2. pNext'[k] = End
        BY <1>1, <1>3, <2>6
      <4> QED BY <1>2, <2>7, <4>1, <4>2
    <3>2. /\ len + 1 \in Nat /\ Len(order') = Len(popped) + (len + 1)
          /\ \A i \in 1 .. Len(popped) : popped[i] = order'[i]
      <4>1. \A i \in 1 .. Len(popped) : popped[i] = order[i] /\ i \in 1 .. Len(order)
        BY <2>2, <2>3 DEF InOrder
      <4> QED BY <1>6, <2>3, <4>1
    <3>3. \A i \in 0 .. (len + 1) - 1 :
            /\ pNext'[longer[i]] = longer[i + 1]
            /\ elem'[longer[i + 1]] = order'[Len(popped') + i + 1]
      <4>1. 0 .. (len + 1) - 1 = 0 .. len
        BY <2>3
      <4>2. elem' = elem /\ popped' = popped
        BY <1>2
      <4> QED BY <2>10, <4>1, <4>2
    <3> QED BY <1>2, <2>7, <3>1, <3>2, <3>3 DEF InOrder
  <2>12. len + 1 \in 0 .. Len(order')
    BY <1>6, <2>3
  <2>13. \A u \in Threads : Unlinked(u)' => pNext'[node[u]] = End
    BY <1>1, <2>6
  <2> QED BY <1>2, <2>7, <2>11, <2>12, <2>13 DEF Straight
<1>15. SeenEmpty'
  <2>1. Others(t) /\ HeadKept
    BY <1>1, <1>2 DEF Others, HeadKept
  <2>2. \A u \in Threads \ {t} : SeenNothing(u)'
    BY <1>2, <1>7, <2>1, OthersSeen DEF IInv
  <2>3. SeenNothing(t)'
    BY <1>1 DEF SeenNothing
  <2> QED BY <2>2, <2>3 DEF SeenEmpty
<1> QED BY <1>7, <1>8, <1>9, <1>10, <1>11, <1>12, <1>13, <1>14, <1>15 DEF IInv

-----------------------------------------------------------------------------
(* PopHead takes the head out of the queue *)

LEMMA PopLists ==
  ASSUME IInv, NEW t \in Threads, PopHead(t), NEW h, h = m_Head.pNode, NEW nx, nx = next[t]
  PROVE  /\ h \in Nodes /\ h \in Queue /\ nx \in Nodes /\ nx \in Queue /\ nx # h /\ pNext[h] = nx
         /\ m_Head' = [pNode |-> nx, sequence |-> m_Head.sequence + 1]
         /\ Queue' = Queue \ {h} /\ m_Tail.pNode # h /\ item[t] = elem[nx]
         /\ ~Unlinked(t) /\ ~Unlinked(t)' /\ Popper(t)' /\ Held(t) = {} /\ Held(t)' = {h}
         /\ \A u \in Threads \ {t} :
              /\ Unlinked(u)' <=> Unlinked(u)
              /\ Popper(u)' <=> Popper(u)
              /\ node'[u] = node[u] /\ Held(u)' = Held(u)
         /\ \A m : Listed(m)' <=> Listed(m) /\ m # h
         /\ \A m : Full(m)' <=> Full(m) /\ m # nx
         /\ Full(nx)
         /\ pc[t] = "pop" /\ pc'[t] = "popCount" /\ pc' \in [Threads -> Places]
         /\ \A u \in Threads \ {t} : pc'[u] = pc[u]
         /\ node' = [node EXCEPT ![t] = h]
<1>1. /\ pc[t] = "pop" /\ pc'[t] = "popCount" /\ pc' \in [Threads -> Places]
      /\ \A u \in Threads \ {t} : pc'[u] = pc[u]
  BY Stepped DEF PopHead, IInv, Places, Popping
<1>2. /\ m_Head = link[t] /\ pNext' = pNext
      /\ m_Head' = [pNode |-> nx, sequence |-> m_Head.sequence + 1]
      /\ node' = [node EXCEPT ![t] = h]
  BY DEF PopHead, HeadIs
<1>3. h \in Nodes /\ h \in Queue /\ Queue = Reach(pNext, h) /\ Listed(h)
  BY InSpots, QueueNodes DEF Queue, IInv, Listed
<1>4. /\ nx \in Nodes /\ m_Tail.pNode # h /\ item[t] = elem[nx] /\ pNext[h] = nx
  BY <1>1, <1>2, QueueAssumption DEF IInv, Ends, HeadRead
<1>5. h \notin Reach(pNext, nx) /\ Queue = {h} \cup Reach(pNext, nx) /\ nx \in Reach(pNext, nx)
  BY <1>3, <1>4, ReachNext, ReachShut DEF IInv, Linked
<1>6. Queue' = Reach(pNext, nx)
  BY <1>2 DEF Queue
<1>7. ~Unlinked(t) /\ ~Unlinked(t)' /\ Popper(t)' /\ Held(t) = {} /\ Held(t)' = {h}
  <2>1. node'[t] = h
    BY <1>2 DEF IInv, Types
  <2> QED BY <1>1, <2>1 DEF Unlinked, Popper, Held
<1>8. \A u \in Threads \ {t} :
        /\ Unlinked(u)' <=> Unlinked(u)
        /\ Popper(u)' <=> Popper(u)
        /\ node'[u] = node[u] /\ Held(u)' = Held(u)
  <2>1. node \in [Threads -> Nodes \cup {NULL}]
    BY DEF IInv, Types
  <2>2. \A u \in Threads \ {t} :
          (Unlinked(u)' <=> Unlinked(u)) /\ (Popper(u)' <=> Popper(u)) /\ node'[u] = node[u]
    BY <1>1, <1>2, <2>1 DEF Unlinked, Popper
  <2> QED BY <1>2, <2>2 DEF Held
<1>9. ASSUME NEW m PROVE Listed(m)' <=> Listed(m) /\ m # h
  <2>1. Listed(m)' <=> m \in Queue' \/ \E u \in Threads : Unlinked(u)' /\ m \in Held(u)'
    BY DEF Listed, Held
  <2>2. \A u \in Threads : h \notin Held(u)
    BY <1>3 DEF IInv, Apart
  <2> QED BY <1>5, <1>6, <1>7, <1>8, <2>1, <2>2, ListedHeld
<1>10. m_Head'.pNode = nx
  BY <1>2
<1>11. ASSUME NEW m PROVE Full(m)' <=> Full(m) /\ m # nx
  BY <1>3, <1>9, <1>10 DEF Full
<1>12. Full(nx) /\ nx # h /\ nx \in Queue
  BY <1>3, <1>5 DEF Full, Listed
<1> QED BY <1>1, <1>2, <1>3, <1>4, <1>5, <1>6, <1>7, <1>8, <1>9, <1>11, <1>12

LEMMA PopHeadKeeps ==
  ASSUME IInv, NEW t \in Threads, PopHead(t) PROVE IInv'
<1> PICK h : h = m_Head.pNode
  OBVIOUS
<1> PICK nx : nx = next[t]
  OBVIOUS
<1>1. /\ h \in Nodes /\ h \in Queue /\ nx \in Nodes /\ nx \in Queue /\ nx # h /\ pNext[h] = nx
      /\ m_Head' = [pNode |-> nx, sequence |-> m_Head.sequence + 1]
      /\ Queue' = Queue \ {h} /\ m_Tail.pNode # h /\ item[t] = elem[nx]
      /\ ~Unlinked(t) /\ ~Unlinked(t)' /\ Popper(t)' /\ Held(t) = {} /\ Held(t)' = {h}
      /\ \A u \in Threads \ {t} :
           /\ Unlinked(u)' <=> Unlinked(u)
           /\ Popper(u)' <=> Popper(u)
           /\ node'[u] = node[u] /\ Held(u)' = Held(u)
      /\ \A m : Listed(m)' <=> Listed(m) /\ m # h
      /\ \A m : Full(m)' <=> Full(m) /\ m # nx
      /\ Full(nx)
      /\ pc[t] = "pop" /\ pc'[t] = "popCount" /\ pc' \in [Threads -> Places]
      /\ \A u \in Threads \ {t} : pc'[u] = pc[u]
      /\ node' = [node EXCEPT ![t] = h]
  BY PopLists
<1>2. /\ popped' = Append(popped, elem[nx]) /\ there' = [there EXCEPT ![t] = {}]
      /\ UNCHANGED <<pNext, m_FreeNodes, m_Tail, elem, m_Count, unused, link, tailSequence, next,
                     item, npush, npop, order, returned, stray>>
  BY <1>1 DEF PopHead
<1>3. Free' = Free /\ h = m_Head.pNode
  BY <1>2 DEF Free
<1>4. elem[nx] \in Items /\ Pushed(npush, elem[nx]) /\ elem[nx] \notin Range(popped)
  BY <1>1 DEF IInv, Elements
<1>5. /\ popped \in Seq(Items) /\ popped' \in Seq(Items) /\ Len(popped') = Len(popped) + 1
      /\ \A i \in 1 .. Len(popped) : popped'[i] = popped[i]
      /\ popped'[Len(popped) + 1] = elem[nx] /\ Range(popped') = Range(popped) \cup {elem[nx]}
      /\ IsInjective(popped')
  <2>1. popped \in Seq(Items) /\ popped' = Append(popped, elem[nx]) /\ IsInjective(popped)
    BY <1>2 DEF IInv, Types, Elements
  <2> QED BY <1>4, <2>1, WithLast
<1>6. /\ m_Head' \in Spots /\ m_Head'.pNode = nx /\ m_Head'.sequence > m_Head.sequence
      /\ m_Head'.sequence \in Nat
  BY <1>1, InSpots DEF IInv, Spots
<1>7. Types'
  <2>1. there' \in [Threads -> SUBSET returned] /\ node' \in [Threads -> Nodes \cup {NULL}]
    BY <1>1, <1>2 DEF IInv, Types
  <2>2. \A u \in Threads : pc'[u] \in Pushing \/ Popper(u)' => node'[u] \in Nodes
    <3>1. \A u \in Threads \ {t} : pc[u] \in Pushing \/ Popper(u) => node[u] \in Nodes
      BY DEF IInv, Types
    <3>2. node'[t] = h
      BY <1>1 DEF IInv, Types
    <3> QED BY <1>1, <3>1, <3>2
  <2> QED BY <1>1, <1>2, <1>5, <1>6, <2>1, <2>2 DEF IInv, Types, Places
<1>8. Apart'
  <2>1. Apart
    BY DEF IInv
  <2>2. /\ Queue' \cap Free = {} /\ Queue' \cap unused = {} /\ h \notin Free /\ h \notin unused
    BY <1>1, <2>1 DEF Apart
  <2>3. \A u \in Threads :
          Held(u)' \cap Queue' = {} /\ Held(u)' \cap Free = {} /\ Held(u)' \cap unused = {}
    BY <1>1, <2>1, <2>2 DEF Apart
  <2>4. \A u, v \in Threads : u # v => Held(u)' \cap Held(v)' = {}
    <3>1. \A u \in Threads : h \notin Held(u)
      BY <1>1, <2>1 DEF Apart
    <3> QED BY <1>1, <2>1, <3>1 DEF Apart
  <2> QED BY <1>2, <1>3, <2>1, <2>2, <2>3, <2>4 DEF Apart
<1>9. Covered'
  BY <1>1, <1>2, <1>3 DEF IInv, Covered
<1>10. Linked'
  <2>1. Linked
    BY DEF IInv
  <2>2. ASSUME NEW u \in Threads, Popper(u)' PROVE pNext[node'[u]] # End
    <3>1. CASE u = t
      <4>1. node'[t] = h
        BY <1>1 DEF IInv, Types
      <4> QED BY <1>1, <3>1, <4>1, QueueAssumption
    <3>2. CASE u # t
      BY <1>1, <2>1, <2>2, <3>2 DEF Linked
    <3> QED BY <3>1, <3>2
  <2> QED BY <1>1, <1>2, <1>3, <2>1, <2>2 DEF Linked
<1>11. Forest'
  <2>1. PICK R \in SUBSET (Threads \X Threads) : Earlier(R)
    BY DEF IInv, Forest
  <2>2. ASSUME NEW u \in Threads, NEW v \in Threads, pc'[u] = "link", Unlinked(v)',
               link'[u].pNode \in Reach(pNext', node'[v])
        PROVE  <<u, v>> \in R
    BY <1>1, <1>2, <2>1, <2>2 DEF Earlier
  <2> QED BY <2>1, <2>2 DEF Forest, Earlier
<1>12. Ends'
  <2>1. Others(t)
    BY <1>1, <1>2 DEF Others, IInv, Types
  <2>2. TailKept /\ HeadKept /\ m_Tail' = m_Tail
    BY <1>2, <1>6 DEF TailKept, HeadKept
  <2>3. \A u \in Threads \ {t} : TailRead(u)' /\ HeadRead(u)'
    BY <1>2, <1>7, <2>1, <2>2, OthersEnds DEF IInv
  <2>4. TailRead(t)' /\ HeadRead(t)'
    BY <1>1 DEF TailRead, HeadRead, Linking, Popping
  <2> QED BY <1>1, <1>2, <2>3, <2>4 DEF IInv, Ends
<1>13. Elements'
  <2>1. Elements
    BY DEF IInv
  <2>2. \A n \in Nodes : Full(n)' => /\ elem'[n] \in Items /\ Pushed(npush', elem'[n])
                                   /\ elem'[n] \notin Range(popped')
    <3>1. ASSUME NEW n \in Nodes, Full(n)' PROVE elem[n] # elem[nx]
      BY <1>1, <2>1, <3>1 DEF Elements
    <3> QED BY <1>1, <1>2, <1>5, <2>1, <3>1 DEF Elements
  <2>3. \A m, n \in Nodes : Full(m)' /\ Full(n)' /\ elem'[m] = elem'[n] => m = n
    BY <1>1, <1>2, <2>1 DEF Elements
  <2>4. \A u \in Threads : Unlinked(u)' => elem'[node'[u]] = <<u, npush'[u]>>
    BY <1>1, <1>2, <2>1 DEF Elements
  <2>5. \A u \in Threads : pc'[u] \in {"finish", "count"} => <<u, npush'[u]>> \in Range(order')
    BY <1>1, <1>2, <2>1 DEF Elements
  <2>6. /\ \A x \in Range(popped') : Pushed(npush', x)
        /\ IsInjective(popped') /\ returned' \in SUBSET Range(order')
    BY <1>2, <1>4, <1>5, <2>1 DEF Elements
  <2>7. ASSUME NEW x \in Items
        PROVE  x \in Range(order') <=>
                 \/ x \in Range(popped')
                 \/ \E m \in Nodes : /\ Full(m)' /\ elem'[m] = x
                                     /\ \A u \in Threads : Unlinked(u)' => m # node'[u]
    <3>1. \A u \in Threads : Unlinked(u) => nx # node[u]
      <4>1. ASSUME NEW u \in Threads, Unlinked(u) PROVE nx # node[u]
        <5>1. node[u] \in Held(u) /\ Held(u) \cap Queue = {}
          BY <4>1, QueueNodes DEF IInv, Apart
        <5> QED BY <1>1, <5>1
      <4> QED BY <4>1
    <3>2. x \in Range(popped') <=> x \in Range(popped) \/ x = elem[nx]
      BY <1>5
    <3>3. ASSUME NEW m \in Nodes
          PROVE  (/\ Full(m) /\ elem[m] = x
                  /\ \A u \in Threads : Unlinked(u) => m # node[u])
                 <=> \/ /\ Full(m)' /\ elem'[m] = x
                        /\ \A u \in Threads : Unlinked(u)' => m # node'[u]
                     \/ m = nx /\ x = elem[nx]
      <4>1. CASE m = nx
        BY <1>1, <3>1, <4>1
      <4>2. CASE m # nx
        BY <1>1, <1>2, <4>2
      <4> QED BY <4>1, <4>2
    <3>4. x \in Range(order) <=>
            \/ x \in Range(popped)
            \/ \E m \in Nodes : /\ Full(m) /\ elem[m] = x
                                /\ \A u \in Threads : Unlinked(u) => m # node[u]
      BY <2>1 DEF Elements
    <3>5. order' = order
      BY <1>2
    <3> QED BY <1>1, <3>2, <3>3, <3>4, <3>5
  <2> QED BY <2>2, <2>3, <2>4, <2>5, <2>6, <2>7 DEF Elements
<1>14. Straight'
  <2> SUFFICES ASSUME ~stray PROVE Straight'
    BY <1>2 DEF Straight
  <2>1. PICK len \in 0 .. Len(order) : \E path \in [0 .. len -> Queue] : InOrder(path, len)
    BY DEF IInv, Straight
  <2>2. PICK path \in [0 .. len -> Queue] : InOrder(path, len)
    BY <2>1
  <2>3. len \in Nat /\ Len(order) \in Nat /\ Len(popped) \in Nat /\ Len(order) = Len(popped) + len
    BY <2>1, <2>2, LenProperties DEF InOrder, IInv, Types
  <2>4. path[0] = h /\ pNext[path[len]] = End
    BY <1>3, <2>2 DEF InOrder
  <2>5. len # 0
    BY <1>1, <2>4, QueueAssumption
  <2>6. \A i \in 0 .. len - 1 : /\ i \in 0 .. len /\ i + 1 \in 0 .. len
                              /\ pNext[path[i]] = path[i + 1]
                              /\ elem[path[i + 1]] = order[Len(popped) + i + 1]
    BY <2>2, <2>3 DEF InOrder
  <2>7. path[1] = nx /\ elem[nx] = order[Len(popped) + 1]
    <3>1. 0 \in 0 .. len - 1 /\ 0 + 1 = 1 /\ Len(popped) + 0 + 1 = Len(popped) + 1
      BY <2>3, <2>5
    <3> QED BY <1>1, <2>4, <2>6, <3>1
  <2>8. \A i \in 1 .. len : path[i] \in Queue /\ path[i] # h
    <3>1. ASSUME NEW i \in 1 .. len PROVE path[i] \in Queue /\ path[i] # h
      <4>1. i - 1 \in 0 .. len - 1 /\ (i - 1) + 1 = i
        BY <2>3
      <4>2. pNext[path[i - 1]] = path[i] /\ path[i - 1] \in Queue /\ path[i] \in Queue
        BY <2>2, <2>6, <4>1
      <4>3. path[i - 1] \in Nodes /\ path[i] \in Nodes /\ Listed(path[i - 1])
        BY <4>2, QueueNodes DEF IInv, Listed
      <4>4. path[i - 1] \notin Reach(pNext, path[i])
        BY <4>2, <4>3 DEF IInv, Linked
      <4> QED BY <1>3, <4>2, <4>4 DEF Queue
    <3> QED BY <3>1
  <2> PICK shorter : shorter = [i \in 0 .. len - 1 |-> path[i + 1]]
    OBVIOUS
  <2>9. /\ \A i \in 0 .. len - 1 : shorter[i] = path[i + 1] /\ i + 1 \in 1 .. len
        /\ shorter \in [0 .. len - 1 -> Queue']
    <3>1. \A i \in 0 .. len - 1 : i + 1 \in 1 .. len
      BY <2>3
    <3> QED BY <1>1, <2>8, <3>1
  <2>10. InOrder(shorter, len - 1)'
    <3>1. shorter[0] = m_Head'.pNode /\ pNext'[shorter[len - 1]] = End
      <4>1. 0 \in 0 .. len - 1 /\ len - 1 \in 0 .. len - 1 /\ 0 + 1 = 1 /\ (len - 1) + 1 = len
        BY <2>3, <2>5
      <4> QED BY <1>2, <1>6, <2>4, <2>7, <2>9, <4>1
    <3>2. len - 1 \in Nat /\ Len(order') = Len(popped') + (len - 1)
      BY <1>2, <1>5, <2>3, <2>5
    <3>3. \A i \in 1 .. Len(popped') : popped'[i] = order'[i]
      <4>1. \A i \in 1 .. Len(popped) : popped[i] = order[i]
        BY <2>2 DEF InOrder
      <4>2. \A i \in 1 .. Len(popped) + 1 : i \in 1 .. Len(popped) \/ i = Len(popped) + 1
        BY <2>3
      <4> QED BY <1>2, <1>5, <2>7, <4>1, <4>2
    <3>4. \A i \in 0 .. (len - 1) - 1 :
            /\ pNext'[shorter[i]] = shorter[i + 1]
            /\ elem'[shorter[i + 1]] = order'[Len(popped') + i + 1]
      <4> SUFFICES ASSUME NEW i \in 0 .. (len - 1) - 1
                   PROVE  /\ pNext[shorter[i]] = shorter[i + 1]
                          /\ elem[shorter[i + 1]] = order[Len(popped') + i + 1]
        BY <1>2
      <4>1. /\ i \in 0 .. len - 1 /\ i + 1 \in 0 .. len - 1
            /\ Len(popped') + i + 1 = Len(popped) + (i + 1) + 1
        BY <1>5, <2>3
      <4>2. shorter[i] = path[i + 1] /\ shorter[i + 1] = path[(i + 1) + 1]
        BY <2>9, <4>1
      <4>3. /\ pNext[path[i + 1]] = path[(i + 1) + 1]
            /\ elem[path[(i + 1) + 1]] = order[Len(popped) + (i + 1) + 1]
        BY <2>6, <4>1
      <4> QED BY <4>1, <4>2, <4>3
    <3> QED BY <2>9, <3>1, <3>2, <3>3, <3>4 DEF InOrder
  <2>11. len - 1 \in 0 .. Len(order')
    BY <1>2, <2>3, <2>5
  <2>12. \A u \in Threads : Unlinked(u)' => pNext'[node'[u]] = End
    BY <1>1, <1>2 DEF IInv, Straight
  <2> QED BY <2>9, <2>10, <2>11, <2>12 DEF Straight
<1>15. SeenEmpty'
  <2>1. Others(t)
    BY <1>1, <1>2 DEF Others, IInv, Types
  <2>2. HeadKept /\ Range(popped) \subseteq Range(popped')
    BY <1>5, <1>6 DEF HeadKept
  <2>3. \A u \in Threads \ {t} : SeenNothing(u)'
    BY <1>2, <1>7, <2>1, <2>2, OthersSeen DEF IInv
  <2>4. SeenNothing(t)'
    BY <1>1 DEF SeenNothing
  <2> QED BY <2>3, <2>4 DEF SeenEmpty
<1> QED BY <1>7, <1>8, <1>9, <1>10, <1>11, <1>12, <1>13, <1>14, <1>15 DEF IInv

-----------------------------------------------------------------------------
(* FreeNode gives a node to the free list *)

LEMMA FreeLists ==
  ASSUME IInv, NEW t \in Threads, FreeNode(t), NEW n, n = node[t]
  PROVE  /\ n \in Nodes /\ n \notin Queue /\ n \notin Free /\ n \notin unused /\ ~Listed(n)
         /\ pNext'[n] # End /\ pNext' \in [Nodes -> Words]
         /\ \A m \in Nodes \ {n} : pNext'[m] = pNext[m] /\ elem'[m] = elem[m]
         /\ Queue' = Queue /\ Free' = Free \cup {n}
         /\ m_FreeNodes' \in Seq(Nodes) /\ IsInjective(m_FreeNodes')
         /\ ~Unlinked(t) /\ ~Unlinked(t)' /\ ~Popper(t)' /\ Held(t) = {n} /\ Held(t)' = {}
         /\ \A u \in Threads \ {t} :
              /\ Unlinked(u)' <=> Unlinked(u)
              /\ Popper(u)' <=> Popper(u)
              /\ Unlinked(u) \/ Popper(u) => node[u] \in Nodes \ {n}
              /\ node'[u] = node[u] /\ n \notin Held(u) /\ Held(u)' = Held(u)
         /\ \A m : Listed(m)' <=> Listed(m)
<1>1. /\ pc[t] = "free" /\ pc'[t] = "idle"
      /\ \A u \in Threads \ {t} : pc'[u] = pc[u] /\ node'[u] = node[u]
  BY ReturnsFrom DEF FreeNode, IInv
<1>2. /\ elem' = [elem EXCEPT ![n] = item[t]]
      /\ pNext' = [pNext EXCEPT ![n] = IF m_FreeNodes = <<>> THEN NULL ELSE Head(m_FreeNodes)]
      /\ m_FreeNodes' = <<n>> \o m_FreeNodes
      /\ UNCHANGED m_Head
  BY DEF FreeNode
<1>3. ~Unlinked(t) /\ Popper(t) /\ ~Unlinked(t)' /\ ~Popper(t)' /\ Held(t) = {n} /\ Held(t)' = {}
  BY <1>1 DEF Unlinked, Popper, Held
<1>4. n \in Nodes
  BY <1>3 DEF IInv, Types
<1>5. /\ n \notin Queue /\ n \notin Free /\ n \notin unused
      /\ \A u \in Threads \ {t} : n \notin Held(u)
  BY <1>3 DEF IInv, Apart
<1>6. ~Listed(n)
  BY <1>3, <1>5, ListedHeld
<1>7. /\ pNext \in [Nodes -> Words] /\ elem \in [Nodes -> Items \cup {Nothing}]
      /\ m_FreeNodes \in Seq(Nodes) /\ IsInjective(m_FreeNodes)
  BY DEF IInv, Types, Apart
<1>8. /\ m_FreeNodes' \in Seq(Nodes) /\ IsInjective(m_FreeNodes') /\ Free' = Free \cup {n}
  BY <1>2, <1>4, <1>5, <1>7, WithFirst DEF Free
<1>9. \A m \in Nodes \ {n} : pNext'[m] = pNext[m] /\ elem'[m] = elem[m]
  BY <1>2, <1>4, <1>7
<1>10. pNext'[n] # End /\ pNext' \in [Nodes -> Words]
  <2>1. m_FreeNodes # <<>> => Head(m_FreeNodes) \in Nodes
    BY <1>7, HeadTailProperties
  <2> QED BY <1>2, <1>4, <1>7, <2>1, QueueAssumption DEF Words
<1>11. Queue' = Queue
  <2>1. /\ Queue = Reach(pNext, m_Head.pNode) /\ Queue' = Reach(pNext', m_Head.pNode)
        /\ m_Head.pNode \in Nodes
    BY <1>2, InSpots DEF Queue, IInv
  <2> QED BY <1>4, <1>5, <1>9, <2>1, ListsWritten
<1>12. ASSUME NEW u \in Threads \ {t}
       PROVE  /\ Unlinked(u)' <=> Unlinked(u)
              /\ Popper(u)' <=> Popper(u)
              /\ Unlinked(u) \/ Popper(u) => node[u] \in Nodes \ {n}
              /\ node'[u] = node[u] /\ n \notin Held(u) /\ Held(u)' = Held(u)
  <2>1. (Unlinked(u)' <=> Unlinked(u)) /\ (Popper(u)' <=> Popper(u)) /\ node'[u] = node[u]
    BY <1>1 DEF Unlinked, Popper
  <2>2. Unlinked(u) \/ Popper(u) => node[u] \in Nodes \ {n}
    BY <1>5, QueueNodes DEF IInv
  <2>3. CASE Unlinked(u)
    <3>1. node[u] \in Nodes /\ Held(u) = Reach(pNext, node[u]) /\ Held(u)' = Reach(pNext', node[u])
      BY <2>1, <2>2, <2>3 DEF Held
    <3> QED BY <1>4, <1>5, <1>9, <2>1, <2>2, <3>1, ListsWritten
  <2>4. CASE ~Unlinked(u)
    BY <1>5, <2>1, <2>2, <2>4 DEF Held
  <2> QED BY <2>3, <2>4
<1>13. ASSUME NEW m PROVE Listed(m)' <=> Listed(m)
  <2>1. Listed(m)' <=> m \in Queue' \/ \E u \in Threads : Unlinked(u)' /\ m \in Held(u)'
    BY DEF Listed, Held
  <2> QED BY <1>3, <1>11, <1>12, <2>1, ListedHeld
<1> QED BY <1>3, <1>4, <1>5, <1>6, <1>8, <1>9, <1>10, <1>11, <1>12, <1>13

LEMMA FreeNodeKeeps ==
  ASSUME IInv, NEW t \in Threads, FreeNode(t) PROVE IInv'
<1> PICK n : n = node[t]
  OBVIOUS
<1>1. /\ n \in Nodes /\ n \notin Queue /\ n \notin Free /\ n \notin unused /\ ~Listed(n)
      /\ pNext'[n] # End /\ pNext' \in [Nodes -> Words]
      /\ \A m \in Nodes \ {n} : pNext'[m] = pNext[m] /\ elem'[m] = elem[m]
      /\ Queue' = Queue /\ Free' = Free \cup {n}
      /\ m_FreeNodes' \in Seq(Nodes) /\ IsInjective(m_FreeNodes')
      /\ ~Unlinked(t) /\ ~Unlinked(t)' /\ ~Popper(t)' /\ Held(t) = {n} /\ Held(t)' = {}
      /\ \A u \in Threads \ {t} :
           /\ Unlinked(u)' <=> Unlinked(u)
           /\ Popper(u)' <=> Popper(u)
           /\ Unlinked(u) \/ Popper(u) => node[u] \in Nodes \ {n}
           /\ node'[u] = node[u] /\ n \notin Held(u) /\ Held(u)' = Held(u)
      /\ \A m : Listed(m)' <=> Listed(m)
  BY FreeLists
<1>2. /\ pc[t] = "free" /\ pc'[t] = "idle" /\ pc' \in [Threads -> Places]
      /\ node' \in [Threads -> Nodes \cup {NULL}] /\ link' \in [Threads -> Spots]
      /\ tailSequence' \in [Threads -> Nat] /\ next' \in [Threads -> Words]
      /\ item' \in [Threads -> Items \cup {Nothing}]
      /\ \A u \in Threads \ {t} :
           /\ pc'[u] = pc[u] /\ node'[u] = node[u] /\ link'[u] = link[u] /\ next'[u] = next[u]
           /\ tailSequence'[u] = tailSequence[u] /\ item'[u] = item[u]
  BY ReturnsFrom DEF FreeNode, IInv
<1>3. /\ elem' = [elem EXCEPT ![n] = item[t]]
      /\ UNCHANGED <<m_Head, m_Tail, m_Count, unused, npush, npop, order, popped, returned,
                     there, stray>>
  BY DEF FreeNode, history
<1>4. Types'
  <2>1. elem' \in [Nodes -> Items \cup {Nothing}]
    BY <1>3 DEF IInv, Types
  <2>2. \A u \in Threads : pc'[u] \in Pushing \/ Popper(u)' => node'[u] \in Nodes
    <3>1. \A u \in Threads \ {t} : pc[u] \in Pushing \/ Popper(u) => node[u] \in Nodes
      BY DEF IInv, Types
    <3>2. pc'[t] \notin Pushing
      BY <1>2 DEF Pushing, Linking
    <3>3. ASSUME NEW u \in Threads, pc'[u] \in Pushing \/ Popper(u)' PROVE node'[u] \in Nodes
      <4>1. u # t
        BY <1>1, <3>2, <3>3
      <4>2. pc[u] \in Pushing \/ Popper(u)
        BY <1>1, <1>2, <3>3, <4>1
      <4> QED BY <1>1, <3>1, <4>1, <4>2
    <3> QED BY <3>3
  <2> QED BY <1>1, <1>2, <1>3, <2>1, <2>2 DEF IInv, Types, Places
<1>5. Apart'
  <2>1. Apart
    BY DEF IInv
  <2>2. \A u, v \in Threads : u # v => Held(u)' \cap Held(v)' = {}
    BY <1>1, <2>1 DEF Apart
  <2>3. \A u \in Threads :
          Held(u)' \cap Queue' = {} /\ Held(u)' \cap Free' = {} /\ Held(u)' \cap unused = {}
    BY <1>1, <2>1 DEF Apart
  <2> QED BY <1>1, <1>3, <2>1, <2>2, <2>3 DEF Apart
<1>6. Covered'
  BY <1>1, <1>3 DEF IInv, Covered
<1>7. Linked'
  <2>1. Linked
    BY DEF IInv
  <2>2. ASSUME NEW m \in Nodes, Listed(m)'
        PROVE  pNext'[m] \in Nodes \cup {End}
               /\ (pNext'[m] \in Nodes => m \notin Reach(pNext', pNext'[m]))
    <3>1. Listed(m) /\ m # n /\ pNext'[m] = pNext[m]
      BY <1>1, <2>2
    <3>2. ASSUME pNext[m] \in Nodes PROVE Reach(pNext', pNext[m]) = Reach(pNext, pNext[m])
      <4>1. n \notin Reach(pNext, pNext[m])
        BY <1>1, <3>1, <3>2, BehindListed DEF IInv
      <4> QED BY <1>1, <3>2, <4>1, ListsWritten
    <3> QED BY <2>1, <3>1, <3>2 DEF Linked
  <2>3. \A m \in Free' \cup unused' : pNext'[m] # End
    <3>1. Free \cup unused \subseteq Nodes
      BY RangeOfSeq DEF IInv, Types, Free
    <3> QED BY <1>1, <1>3, <2>1, <3>1 DEF Linked
  <2>4. \A u \in Threads : Popper(u)' => pNext'[node'[u]] # End
    BY <1>1, <2>1 DEF Linked
  <2> QED BY <2>2, <2>3, <2>4 DEF Linked
<1>8. Forest'
  <2>1. PICK R \in SUBSET (Threads \X Threads) : Earlier(R)
    BY DEF IInv, Forest
  <2>2. ASSUME NEW u \in Threads, NEW v \in Threads, pc'[u] = "link", Unlinked(v)',
               link'[u].pNode \in Reach(pNext', node'[v])
        PROVE  <<u, v>> \in R
    <3>1. u # t /\ pc[u] = "link" /\ link'[u] = link[u] /\ v # t /\ Unlinked(v) /\ Held(v)' = Held(v)
      BY <1>1, <1>2, <2>2
    <3>2. link[u].pNode \in Reach(pNext, node[v])
      BY <2>2, <3>1 DEF Held
    <3> QED BY <2>1, <3>1, <3>2 DEF Earlier
  <2> QED BY <2>1, <2>2 DEF Forest, Earlier
<1>9. Ends'
  <2>1. m_Tail.pNode \in Queue /\ m_Tail.pNode # n /\ m_Head.pNode # n
    BY <1>1, QueueNodes DEF IInv, Ends
  <2>2. Others(t) /\ TailKept /\ HeadKept
    BY <1>2, <1>3 DEF Others, TailKept, HeadKept
  <2>3. \A m \in {m_Head.pNode, m_Tail.pNode} : pNext'[m] = pNext[m]
    BY <1>1, <2>1, InSpots DEF IInv
  <2>4. pNext[m_Head.pNode] \in Nodes => elem'[pNext[m_Head.pNode]] = elem[pNext[m_Head.pNode]]
    <3>1. pNext[m_Head.pNode] \in Nodes => pNext[m_Head.pNode] \in Queue
      BY QueueNodes DEF IInv, Shut
    <3> QED BY <1>1, <3>1
  <2>5. \A u \in Threads \ {t} : TailRead(u)' /\ HeadRead(u)'
    BY <1>3, <1>4, <2>2, <2>3, <2>4, OthersEnds DEF IInv
  <2>6. TailRead(t)' /\ HeadRead(t)'
    BY <1>2 DEF TailRead, HeadRead, Linking, Popping
  <2> QED BY <1>1, <1>3, <2>1, <2>5, <2>6 DEF Ends
<1>10. Elements'
  <2>1. \A m : Full(m)' <=> Full(m)
    BY <1>1, <1>3 DEF Full
  <2>2. Elements /\ ~Full(n)
    BY <1>1 DEF IInv, Full
  <2>3. \A m \in Nodes : Full(m)' => /\ elem'[m] \in Items /\ Pushed(npush', elem'[m])
                                   /\ elem'[m] \notin Range(popped')
    BY <1>1, <1>3, <2>1, <2>2 DEF Elements
  <2>4. \A l, m \in Nodes : Full(l)' /\ Full(m)' /\ elem'[l] = elem'[m] => l = m
    <3>1. \A m \in Nodes : Full(m)' => Full(m) /\ elem'[m] = elem[m]
      BY <1>1, <2>1, <2>2
    <3> QED BY <2>2, <3>1 DEF Elements
  <2>5. \A u \in Threads : Unlinked(u)' => elem'[node'[u]] = <<u, npush'[u]>>
    BY ZenonT(30), <1>1, <1>3, <2>2 DEF Elements
  <2>6. \A u \in Threads : pc'[u] \in {"finish", "count"} => <<u, npush'[u]>> \in Range(order')
    BY <1>2, <1>3, <2>2 DEF Elements
  <2>7. /\ \A x \in Range(popped') : Pushed(npush', x)
        /\ IsInjective(popped') /\ returned' \in SUBSET Range(order')
    BY <1>3, <2>2 DEF Elements
  <2>8. ASSUME NEW x \in Items
        PROVE  x \in Range(order') <=>
                 \/ x \in Range(popped')
                 \/ \E m \in Nodes : /\ Full(m)' /\ elem'[m] = x
                                     /\ \A u \in Threads : Unlinked(u)' => m # node'[u]
    <3>1. ASSUME NEW m \in Nodes
          PROVE  (/\ Full(m)' /\ elem'[m] = x
                  /\ \A u \in Threads : Unlinked(u)' => m # node'[u])
                 <=> (/\ Full(m) /\ elem[m] = x
                      /\ \A u \in Threads : Unlinked(u) => m # node[u])
      <4>1. CASE m = n
        BY <2>1, <2>2, <4>1
      <4>2. CASE m # n
        BY <1>1, <2>1, <4>2
      <4> QED BY <4>1, <4>2
    <3>2. order' = order /\ popped' = popped
      BY <1>3
    <3> QED BY <2>2, <3>1, <3>2 DEF Elements
  <2> QED BY <2>3, <2>4, <2>5, <2>6, <2>7, <2>8 DEF Elements
<1>11. Straight'
  <2> SUFFICES ASSUME ~stray PROVE Straight'
    BY <1>3 DEF Straight
  <2>1. PICK len \in 0 .. Len(order) : \E path \in [0 .. len -> Queue] : InOrder(path, len)
    BY DEF IInv, Straight
  <2>2. PICK path \in [0 .. len -> Queue] : InOrder(path, len)
    BY <2>1
  <2>3. \A i \in 0 .. len : /\ path[i] \in Nodes /\ pNext'[path[i]] = pNext[path[i]]
                          /\ elem'[path[i]] = elem[path[i]]
    BY <1>1, <2>2, QueueNodes DEF IInv
  <2>4. \A i \in 0 .. len - 1 : i \in 0 .. len /\ i + 1 \in 0 .. len
    BY <2>1
  <2>5. InOrder(path, len)'
    <3>1. path[0] = m_Head'.pNode /\ pNext'[path[len]] = End
      BY <1>3, <2>1, <2>2, <2>3 DEF InOrder
    <3>2. \A i \in 0 .. len - 1 : pNext'[path[i]] = path[i + 1] /\ elem'[path[i + 1]] = order'[Len(popped') + i + 1]
      BY <1>3, <2>2, <2>3, <2>4 DEF InOrder
    <3>3. /\ len \in Nat /\ Len(order') = Len(popped') + len
          /\ \A i \in 1 .. Len(popped') : popped'[i] = order'[i]
          /\ path \in [0 .. len -> Queue']
      BY <1>1, <1>3, <2>2 DEF InOrder
    <3> QED BY <3>1, <3>2, <3>3 DEF InOrder
  <2>6. \A u \in Threads : Unlinked(u)' => pNext'[node'[u]] = End
    BY <1>1 DEF IInv, Straight
  <2> QED BY <1>1, <1>3, <2>5, <2>6 DEF Straight
<1>12. SeenEmpty'
  <2>1. Others(t) /\ HeadKept
    BY <1>2, <1>3 DEF Others, HeadKept
  <2>2. \A u \in Threads \ {t} : SeenNothing(u)'
    BY <1>3, <1>4, <2>1, OthersSeen DEF IInv
  <2>3. SeenNothing(t)'
    BY <1>2 DEF SeenNothing
  <2> QED BY <2>2, <2>3 DEF SeenEmpty
<1> QED BY <1>4, <1>5, <1>6, <1>7, <1>8, <1>9, <1>10, <1>11, <1>12 DEF IInv

-----------------------------------------------------------------------------
(* The invariant holds *)

LEMMA InitIInv == Init => IInv
<1> SUFFICES ASSUME Init PROVE IInv
  OBVIOUS
<1>1. /\ m_Head = [pNode |-> Dummy, sequence |-> 0] /\ m_Tail = m_Head /\ m_FreeNodes = <<>>
      /\ pNext = [n \in Nodes |-> IF n = Dummy THEN End ELSE NULL]
      /\ elem = [n \in Nodes |-> Nothing] /\ m_Count = 0 /\ unused = Nodes \ {Dummy}
      /\ pc = [t \in Threads |-> "idle"] /\ node = [t \in Threads |-> NULL]
      /\ link = [t \in Threads |-> m_Head] /\ tailSequence = [t \in Threads |-> 0]
      /\ next = [t \in Threads |-> NULL] /\ item = [t \in Threads |-> Nothing]
      /\ npush = [t \in Threads |-> 0] /\ order = <<>> /\ popped = <<>> /\ returned = {}
      /\ there = [t \in Threads |-> {}] /\ stray = FALSE
  BY DEF Init
<1>2. Dummy \in Nodes /\ End \notin Nodes /\ NULL # End
  BY QueueAssumption
<1>3. pNext[Dummy] = End /\ \A n \in Nodes \ {Dummy} : pNext[n] = NULL
  BY <1>1, <1>2
<1>4. Queue = {Dummy} /\ m_Head.pNode = Dummy
  <2>1. Reach(pNext, Dummy) = {Dummy}
    BY <1>2, <1>3, ReachNext
  <2> QED BY <1>1, <2>1 DEF Queue
<1>5. /\ \A t \in Threads : /\ pc[t] = "idle" /\ ~Unlinked(t) /\ ~Popper(t) /\ Held(t) = {}
                            /\ link[t] = m_Head
      /\ \A n : Listed(n) <=> n = Dummy
  <2>1. \A t \in Threads : pc[t] = "idle" /\ ~Unlinked(t) /\ ~Popper(t) /\ link[t] = m_Head
    BY <1>1 DEF Unlinked, Popper
  <2> QED BY <1>4, <2>1 DEF Held, Listed
<1>6. Range(order) = {} /\ Range(popped) = {} /\ Free = {}
      /\ IsInjective(m_FreeNodes) /\ IsInjective(popped)
  BY <1>1 DEF Range, IsInjective, Free
<1>7. Types
  <2>1. m_Head \in Spots /\ NULL \in Words
    BY <1>1, <1>2 DEF Spots, Words
  <2>2. pNext \in [Nodes -> Words]
    BY <1>1, <1>2 DEF Words
  <2>3. <<>> \in Seq(Items) /\ <<>> \in Seq(Nodes)
    OBVIOUS
  <2>4. \A t \in Threads : ~(pc[t] \in Pushing)
    BY <1>5 DEF Pushing, Linking
  <2>5. /\ elem \in [Nodes -> Items \cup {Nothing}] /\ unused \in SUBSET Nodes /\ m_Count \in Int
        /\ pc \in [Threads -> {"idle"} \cup Pushing \cup Popping]
        /\ node \in [Threads -> Nodes \cup {NULL}]
    BY <1>1
  <2>6. /\ link \in [Threads -> Spots] /\ tailSequence \in [Threads -> Nat]
        /\ next \in [Threads -> Words] /\ npush \in [Threads -> Nat]
    BY <1>1, <2>1
  <2>7. /\ item \in [Threads -> Items \cup {Nothing}] /\ there \in [Threads -> SUBSET returned]
        /\ stray \in BOOLEAN
    BY <1>1
  <2> QED BY <1>1, <1>5, <2>1, <2>2, <2>3, <2>4, <2>5, <2>6, <2>7 DEF Types
<1>8. Apart /\ Covered
  BY <1>1, <1>2, <1>4, <1>5, <1>6 DEF Apart, Covered
<1>9. Linked
  BY <1>1, <1>2, <1>3, <1>5, <1>6 DEF Linked
<1>10. Forest
  <2>1. Earlier({})
    BY <1>5 DEF Earlier
  <2> QED BY <2>1 DEF Forest
<1>11. Ends
  BY <1>1, <1>4, <1>5 DEF Ends, TailRead, HeadRead, Linking, Popping
<1>12. Elements
  <2>1. \A n : ~Full(n)
    BY <1>4, <1>5 DEF Full
  <2> QED BY <1>1, <1>5, <1>6, <2>1 DEF Elements
<1>13. Straight
  <2> PICK path : path = [i \in 0 .. 0 |-> Dummy]
    OBVIOUS
  <2>1. path \in [0 .. 0 -> Queue] /\ path[0] = Dummy
    BY <1>4
  <2>2. Len(order) = 0 /\ Len(popped) = 0
    BY <1>1
  <2>3. InOrder(path, 0)
    BY <1>3, <1>4, <2>1, <2>2 DEF InOrder
  <2>4. 0 \in 0 .. Len(order)
    BY <2>2
  <2> QED BY <1>5, <2>1, <2>3, <2>4 DEF Straight
<1>14. SeenEmpty
  BY <1>5 DEF SeenEmpty, SeenNothing
<1> QED BY <1>7, <1>8, <1>9, <1>10, <1>11, <1>12, <1>13, <1>14 DEF IInv

LEMMA NextIInv == IInv /\ [Next]_vars => IInv'
<1> SUFFICES ASSUME IInv, [Next]_vars PROVE IInv'
  OBVIOUS
<1>1. CASE UNCHANGED vars
  <2>1. Types' /\ Apart' /\ Covered'
    BY <1>1 DEF IInv, vars, shared, locals, history, Types, Popper, Apart, Free, Queue, Held, Unlinked,
                Covered
  <2>4. Linked' /\ Forest'
    BY <1>1 DEF IInv, vars, shared, locals, history, Popper, Free, Queue, Held, Unlinked, Linked, Listed,
                Forest, Earlier
  <2>2. Ends' /\ Elements' /\ SeenEmpty'
    BY <1>1 DEF IInv, vars, shared, locals, history, Ends, Queue, TailRead, HeadRead, Elements, Full,
                Listed, Unlinked, SeenEmpty, SeenNothing
  <2>3. Straight'
    <3>1. Queue' = Queue /\ \A t \in Threads : Unlinked(t)' <=> Unlinked(t)
      BY <1>1 DEF vars, shared, locals, Unlinked, Queue
    <3>2. \A path, len : InOrder(path, len) => InOrder(path, len)'
      BY <1>1, <3>1 DEF vars, shared, history, InOrder
    <3> QED BY <1>1, <3>1, <3>2 DEF IInv, vars, shared, locals, history, Straight
  <2> QED BY <2>1, <2>2, <2>3, <2>4 DEF IInv
<1>2. ASSUME NEW t \in Threads, PushStep(t) PROVE IInv'
  BY <1>2, ReadTailSequenceKeeps, ReadTailNodeKeeps, LinkNodeKeeps, LinkFailsKeeps, HelpReadNextKeeps,
     HelpPushKeeps, FinishesKeep, CountPushKeeps DEF PushStep
<1>3. ASSUME NEW t \in Threads, PopStep(t) PROVE IInv'
  BY <1>3, ReadHeadSequenceKeeps, ReadHeadNodeKeeps, PopReadTailSequenceKeeps, PopReadNextKeeps,
     CheckHeadKeeps, PopNothingKeeps, TailBehindKeeps, HasNextKeeps, PopHelpKeeps, ReadElementKeeps,
     PopHeadKeeps, PopFailsKeeps, CountPopKeeps, FreeNodeKeeps DEF PopStep
<1>4. ASSUME NEW t \in Threads, PushItem(t) \/ PopItem(t) PROVE IInv'
  BY <1>4, PushItemKeeps, PopItemKeeps
<1> QED BY <1>1, <1>2, <1>3, <1>4 DEF Next, Inside

LEMMA IInvHolds == Spec => []IInv
  BY InitIInv, NextIInv, PTL DEF Spec

\* All that the queue and its threads hold has its type.
THEOREM QueueTypes == Spec => []TypeOK
<1>1. IInv => TypeOK
  BY DEF IInv, Types, TypeOK, Spots, Links, Words
<1> QED BY <1>1, IInvHolds, PTL

\* However pushes and pops, half-finished ones and late exchanges interleave, the tail
\* stays in the queue that begins at the head, the queue ends with End(), and no node of
\* the free list hangs in it.
THEOREM TailStaysInQueue == Spec => []TailInQueue
<1>1. IInv => TailInQueue
  BY FromIsReach, QueueNodes DEF IInv, Ends, Linked, Listed, Apart, Queue, Free, TailInQueue
<1> QED BY <1>1, IInvHolds, PTL

\* Every item that was linked is in one place: taken once, in the queue, or behind a node
\* that a thread has not linked yet.
THEOREM NothingIsLost == Spec => []NothingLost
<1> SUFFICES ASSUME IInv PROVE NothingLost
  BY IInvHolds, PTL
<1> DEFINE queue == InQueue
           waiting == UNION {ItemsBehind(node[t]) : t \in {u \in Threads : Unlinked(u)}}
           taken == Range(popped)
<1>1. \A x : x \in queue <=> \E m \in Queue : m # m_Head.pNode /\ elem[m] = x
  BY FromIsReach DEF InQueue, ItemsBehind, Queue
<1>2. \A x : x \in waiting <=>
        \E t \in Threads : Unlinked(t) /\ \E m \in Held(t) : m # node[t] /\ elem[m] = x
  BY FromIsReach DEF ItemsBehind, Held
<1> HIDE DEF queue, waiting, taken
<1>3. /\ Elements /\ Queue \in SUBSET Nodes /\ m_Head.pNode \in Queue
      /\ \A t \in Threads : Held(t) \in SUBSET Nodes /\ Held(t) \cap Queue = {}
      /\ \A t \in Threads : Unlinked(t) => node[t] \in Held(t)
      /\ \A t, u \in Threads : t # u => Held(t) \cap Held(u) = {}
  BY QueueNodes DEF IInv, Apart
<1>4. \A m : Full(m) <=> \/ m \in Queue /\ m # m_Head.pNode
                        \/ \E t \in Threads : Unlinked(t) /\ m \in Held(t)
  BY <1>3, ListedHeld DEF Full
<1>5. \A x \in queue : \E m \in Nodes : Full(m) /\ elem[m] = x /\ m \in Queue
  BY <1>1, <1>3, <1>4
<1>6. \A x \in waiting : \E m \in Nodes : Full(m) /\ elem[m] = x /\ m \notin Queue
  BY <1>2, <1>3, <1>4
<1>7. taken \cap queue = {} /\ taken \cap waiting = {}
  BY <1>3, <1>5, <1>6 DEF Elements, taken
<1>8. queue \cap waiting = {}
  <2> SUFFICES ASSUME NEW x \in queue, x \in waiting PROVE FALSE
    OBVIOUS
  <2>1. PICK m \in Nodes : Full(m) /\ elem[m] = x /\ m \in Queue
    BY <1>5
  <2>2. PICK n \in Nodes : Full(n) /\ elem[n] = x /\ n \notin Queue
    BY <1>6
  <2>3. m = n
    BY <1>3, <2>1, <2>2 DEF Elements
  <2> QED BY <2>1, <2>2, <2>3
<1>9. \A m \in Nodes :
        Full(m) /\ (\A t \in Threads : Unlinked(t) => m # node[t])
        <=> \/ m \in Queue /\ m # m_Head.pNode
            \/ \E t \in Threads : Unlinked(t) /\ m \in Held(t) /\ m # node[t]
  <2> SUFFICES ASSUME NEW m \in Nodes
               PROVE  Full(m) /\ (\A t \in Threads : Unlinked(t) => m # node[t])
                      <=> \/ m \in Queue /\ m # m_Head.pNode
                          \/ \E t \in Threads : Unlinked(t) /\ m \in Held(t) /\ m # node[t]
    OBVIOUS
  <2>1. CASE m \in Queue
    BY <1>3, <1>4, <2>1
  <2>2. CASE m \notin Queue
    <3>1. ASSUME NEW t \in Threads, Unlinked(t), m \in Held(t), m # node[t],
                 NEW u \in Threads, Unlinked(u)
          PROVE  m # node[u]
      BY <1>3, <3>1
    <3> QED BY <1>4, <2>2, <3>1
  <2> QED BY <2>1, <2>2
<1>10. \A x \in Items : x \in Range(order) <=> x \in taken \/ x \in queue \/ x \in waiting
  <2> SUFFICES ASSUME NEW x \in Items
               PROVE  x \in Range(order) <=> x \in taken \/ x \in queue \/ x \in waiting
    OBVIOUS
  <2>1. x \in Range(order) <=>
          \/ x \in taken
          \/ \E m \in Nodes : elem[m] = x /\ Full(m) /\ \A t \in Threads : Unlinked(t) => m # node[t]
    BY <1>3 DEF Elements, taken
  <2>2. x \in queue \/ x \in waiting <=>
          \E m \in Nodes :
            /\ elem[m] = x
            /\ \/ m \in Queue /\ m # m_Head.pNode
               \/ \E t \in Threads : Unlinked(t) /\ m \in Held(t) /\ m # node[t]
    BY <1>1, <1>2, <1>3
  <2> QED BY <1>9, <2>1, <2>2
<1>11. Range(order) \subseteq Items /\ taken \subseteq Items /\ queue \subseteq Items /\ waiting \subseteq Items
  <2>1. Range(order) \subseteq Items /\ Range(popped) \subseteq Items
    BY RangeOfSeq DEF IInv, Types
  <2> QED BY <1>3, <1>5, <1>6, <2>1 DEF Elements, taken
<1>12. Range(order) = taken \cup queue \cup waiting
  BY <1>10, <1>11
<1> QED BY <1>3, <1>7, <1>8, <1>12 DEF NothingLost, Elements, queue, waiting, taken

\* As long as no node was linked to one outside the queue, items leave in the order in
\* which they were linked.
THEOREM OrderIsKept == Spec => []OrderKept
<1> SUFFICES ASSUME IInv, ~stray PROVE IsPrefix(popped, order)
  BY IInvHolds, PTL DEF OrderKept
<1>1. PICK len \in 0 .. Len(order) : \E path \in [0 .. len -> Queue] : InOrder(path, len)
  BY DEF IInv, Straight
<1>2. PICK path \in [0 .. len -> Queue] : InOrder(path, len)
  BY <1>1
<1>3. /\ order \in Seq(Items) /\ popped \in Seq(Items)
      /\ Len(order) \in Nat /\ Len(popped) \in Nat /\ len \in Nat
  BY <1>1, LenProperties DEF IInv, Types
<1>4. Len(popped) <= Len(order) /\ \A i \in 1 .. Len(popped) : popped[i] = order[i]
  BY <1>2, <1>3 DEF InOrder
<1>5. \A i \in 1 .. Len(popped) : order[i] \in Items
  BY <1>3, <1>4, ElementOfSeq
<1> DEFINE r == SubSeq(order, 1, Len(popped))
<1>6. r \in Seq(Items) /\ Len(r) = Len(popped) /\ \A i \in 1 .. Len(popped) : r[i] = order[i]
  <2>1. /\ r \in Seq(Items) /\ Len(r) = IF 1 <= Len(popped) THEN Len(popped) - 1 + 1 ELSE 0
        /\ \A i \in 1 .. Len(popped) - 1 + 1 : r[i] = order[1 + i - 1]
    BY <1>3, <1>5, SubSeqProperties
  <2> HIDE DEF r
  <2>2. Len(popped) - 1 + 1 = Len(popped) /\ \A i \in 1 .. Len(popped) : 1 + i - 1 = i
    BY <1>3
  <2> QED BY <1>3, <2>1, <2>2
<1> HIDE DEF r
<1>7. r = popped
  BY <1>3, <1>4, <1>6, SeqEqual
<1>8. SubSeq(popped, 1, Len(popped)) = popped
  BY <1>3, SubSeqFull
<1> QED BY <1>4, <1>7, <1>8 DEF IsPrefix, r

\* The queue frees a node once, and writes to no node that is in the free list, even
\* where a late exchange hits a node that has left the queue.
THEOREM FreeListIsRespected == Spec => FreeListRespected
<1> DEFINE A == /\ IsInjective(m_FreeNodes')
                /\ \A n \in Range(m_FreeNodes) \cap Range(m_FreeNodes') : pNext'[n] = pNext[n]
<1>1. ASSUME IInv, IInv', [Next]_vars PROVE A
  <2>1. IsInjective(m_FreeNodes') /\ Free \subseteq Nodes
    BY <1>1, RangeOfSeq DEF IInv, Apart, Types, Free
  <2>2. ASSUME UNCHANGED pNext PROVE A
    BY <2>1, <2>2
  <2>3. ASSUME NEW t \in Threads, PushItem(t) PROVE A
    <3>1. PICK n : Took(t, n)
      BY <1>1, <2>3, PushItemTakes
    <3>2. Free' = Free \ {n} /\ \A m \in Nodes \ {n} : pNext'[m] = pNext[m]
      BY <1>1, <3>1, TookLists DEF Took
    <3> QED BY <2>1, <3>2 DEF Free
  <2>4. ASSUME NEW t \in Threads, LinkNode(t) PROVE A
    <3>1. /\ link[t].pNode \notin Free
          /\ \A m \in Nodes \ {link[t].pNode} : pNext'[m] = pNext[m]
      BY <1>1, <2>4, LinkLists
    <3> QED BY <2>1, <3>1 DEF Free
  <2>5. ASSUME NEW t \in Threads, FreeNode(t) PROVE A
    <3>1. node[t] \notin Free /\ \A m \in Nodes \ {node[t]} : pNext'[m] = pNext[m]
      BY <1>1, <2>5, FreeLists
    <3> QED BY <2>1, <3>1 DEF Free
  <2>6. ASSUME NEW t \in Threads, PushStep(t), ~LinkNode(t) PROVE UNCHANGED pNext
    BY <2>6 DEF PushStep, ReadTailSequence, ReadTailNode, LinkFails, HelpReadNext, HelpPush, Finish,
                CountPush, shared
  <2>7. ASSUME NEW t \in Threads, PopStep(t), ~FreeNode(t) PROVE UNCHANGED pNext
    BY <2>7 DEF PopStep, ReadHeadSequence, ReadHeadNode, PopReadTailSequence, PopReadNext, CheckHead,
                PopNothing, TailBehind, HasNext, PopHelp, ReadElement, PopHead, PopFails, CountPop, shared
  <2>8. ASSUME NEW t \in Threads, PopItem(t) PROVE UNCHANGED pNext
    BY <2>8 DEF PopItem, shared
  <2>9. UNCHANGED vars => UNCHANGED pNext
    BY DEF vars, shared
  <2> HIDE DEF A
  <2> QED BY <1>1, <2>2, <2>3, <2>4, <2>5, <2>6, <2>7, <2>8, <2>9 DEF Next, Inside
<1> QED BY <1>1, IInvHolds, PTL DEF Spec, FreeListRespected

\* As long as no node was linked to one outside the queue, a Pop that returns nothing has
\* seen the queue empty: all that was there when it began is taken by now.
THEOREM EmptyIsEmpty == Spec => EmptyMeansEmpty
<1>1. ASSUME IInv, NEW t \in Threads, PopNothing(t), ~stray PROVE there[t] \subseteq Range(popped)
  <2>1. pc[t] = "checkTail" /\ next[t] = End
    BY <1>1 DEF PopNothing, ReturnFrom, Step
  <2> QED BY <1>1, <2>1 DEF IInv, SeenEmpty, SeenNothing
<1>2. IInv => \A t \in Threads : PopNothing(t) /\ ~stray => there[t] \subseteq Range(popped)
  BY <1>1
<1> QED BY <1>2, IInvHolds, PTL DEF EmptyMeansEmpty

-----------------------------------------------------------------------------
(* One thread that pushes *)

\* What ends with End() outside the queue hangs behind a node another thread pushes.
LEMMA OnePusherLinks ==
  ASSUME IInv, OnePusher, NEW t \in Threads, LinkNode(t)
  PROVE  link[t].pNode \in Queue
<1> PICK last : last = link[t].pNode
  OBVIOUS
<1>1. pc[t] = "link" /\ Unlinked(t) /\ pNext[last] = End
  BY DEF LinkNode, Step, Unlinked
<1>2. last \in Nodes
  BY InSpots DEF IInv, Types
<1>3. ASSUME NEW u \in Threads, Unlinked(u) PROVE npush[u] > 0
  <2>1. node[u] \in Nodes /\ node[u] \in Held(u)
    BY <1>3, QueueNodes DEF IInv
  <2>2. node[u] # m_Head.pNode
    BY <2>1, QueueNodes DEF IInv, Apart
  <2>3. elem[node[u]] \in Items
    BY <1>3, <2>1, <2>2, ListedHeld DEF IInv, Elements, Full
  <2>4. elem[node[u]] = <<u, npush[u]>>
    BY <1>3 DEF IInv, Elements
  <2>5. <<u, npush[u]>> \in Threads \X (Nat \ {0})
    BY <2>3, <2>4 DEF Items
  <2>6. npush[u] \in Nat \ {0}
    BY <2>5
  <2> QED BY <2>6
<1>4. ASSUME NEW u \in Threads, last \in Held(u) PROVE FALSE
  <2>1. Unlinked(u) /\ Held(u) = Reach(pNext, node[u])
    BY <1>1, <1>4 DEF Held, IInv, Linked
  <2>2. u = t
    BY <1>1, <1>3, <2>1 DEF OnePusher
  <2>3. PICK R \in SUBSET (Threads \X Threads) : Earlier(R)
    BY DEF IInv, Forest
  <2>4. <<t, t>> \in R
    BY <1>1, <1>4, <2>1, <2>2, <2>3 DEF Earlier
  <2> QED BY <2>3, <2>4 DEF Earlier
<1>5. last \notin Free /\ last \notin unused
  BY <1>1 DEF IInv, Linked
<1> QED BY <1>2, <1>4, <1>5 DEF IInv, Covered

\* As long as only one thread has pushed, no node is linked to one outside the queue.
THEOREM OnePusherIsEnough == Spec => []OnePusherNeverStrays
<1>1. Init => OnePusherNeverStrays
  BY DEF Init, OnePusherNeverStrays
<1>2. ASSUME IInv, OnePusherNeverStrays, [Next]_vars, OnePusher' PROVE ~stray'
  <2>1. OnePusher
    <3>1. \A u \in Threads : npush[u] \in Nat
      BY <1>2 DEF IInv, Types
    <3>2. \A u \in Threads : npush[u] > 0 => npush'[u] > 0
      <4>1. CASE UNCHANGED npush
        BY <4>1
      <4>2. CASE \E t \in Threads : PushItem(t)
        <5>1. PICK t \in Threads : npush' = [npush EXCEPT ![t] = npush[t] + 1]
          BY <1>2, <4>2, PushItemTakes DEF Took
        <5>2. npush \in [Threads -> Nat]
          BY <1>2 DEF IInv, Types
        <5> QED BY <3>1, <5>1, <5>2
      <4>3. ASSUME NEW t \in Threads, PushStep(t) PROVE UNCHANGED npush
        BY <4>3 DEF PushStep, ReadTailSequence, ReadTailNode, LinkNode, LinkFails, HelpReadNext,
                    HelpPush, Finish, CountPush, history
      <4>4. ASSUME NEW t \in Threads, PopStep(t) PROVE UNCHANGED npush
        BY <4>4 DEF PopStep, ReadHeadSequence, ReadHeadNode, PopReadTailSequence, PopReadNext, CheckHead,
                    PopNothing, TailBehind, HasNext, PopHelp, ReadElement, PopHead, PopFails, CountPop,
                    FreeNode, history
      <4>5. ASSUME NEW t \in Threads, PopItem(t) PROVE UNCHANGED npush
        BY <4>5 DEF PopItem
      <4>6. UNCHANGED vars => UNCHANGED npush
        BY DEF vars, history
      <4> QED BY <1>2, <4>1, <4>2, <4>3, <4>4, <4>5, <4>6 DEF Next, Inside
    <3> QED BY <1>2, <3>2 DEF OnePusher
  <2>2. ~stray
    BY <1>2, <2>1 DEF OnePusherNeverStrays
  <2>3. ASSUME NEW t \in Threads, LinkNode(t) PROVE ~stray'
    <3>1. link[t].pNode \in From(m_Head.pNode)
      BY <1>2, <2>1, <2>3, OnePusherLinks, FromIsReach DEF Queue
    <3> QED BY <2>2, <2>3, <3>1 DEF LinkNode
  <2>4. ASSUME NEW t \in Threads, PushStep(t), ~LinkNode(t) PROVE UNCHANGED stray
    BY <2>4 DEF PushStep, ReadTailSequence, ReadTailNode, LinkFails, HelpReadNext,
                HelpPush, Finish, CountPush, history
  <2>5. ASSUME NEW t \in Threads, PopStep(t) PROVE UNCHANGED stray
    BY <2>5 DEF PopStep, ReadHeadSequence, ReadHeadNode, PopReadTailSequence, PopReadNext, CheckHead,
                PopNothing, TailBehind, HasNext, PopHelp, ReadElement, PopHead, PopFails, CountPop,
                FreeNode, history
  <2>6. ASSUME NEW t \in Threads, PushItem(t) \/ PopItem(t) PROVE UNCHANGED stray
    BY <1>2, <2>6, PushItemTakes DEF Took, PopItem
  <2>7. UNCHANGED vars => UNCHANGED stray
    BY DEF vars, history
  <2> QED BY <1>2, <2>2, <2>3, <2>4, <2>5, <2>6, <2>7 DEF Next, Inside
<1>3. IInv /\ OnePusherNeverStrays /\ [Next]_vars => OnePusherNeverStrays'
  BY <1>2 DEF OnePusherNeverStrays
<1> QED BY <1>1, <1>3, IInvHolds, PTL DEF Spec

-----------------------------------------------------------------------------
(* The count *)

\* The threads that have taken an item and not counted it yet.
Taking == {t \in Threads : pc[t] = "popCount"}
\* m_Count is what was returned by pushes, less what was taken and counted; an item that is
\* linked is returned, or its push is about to.
Counted ==
  /\ IsFiniteSet(returned) /\ IsFiniteSet(Taking)
  /\ m_Count = Cardinality(returned) + Cardinality(Taking) - Len(popped)
  /\ \A x \in Range(order) :
       x \in returned \/ \E t \in Threads : pc[t] \in {"finish", "count"} /\ x = <<t, npush[t]>>
  /\ \A t \in Threads : pc[t] \in {"finish", "count"} => <<t, npush[t]>> \notin returned

\* A step that neither links, nor counts, nor takes an item.
Uncounting(t) ==
  /\ UNCHANGED <<m_Count, returned, popped, order>>
  /\ \A u \in Threads \ {t} : pc'[u] = pc[u] /\ npush'[u] = npush[u]
  /\ pc[t] = "popCount" <=> pc'[t] = "popCount"
  /\ pc[t] \in {"finish", "count"} <=> pc'[t] \in {"finish", "count"}
  /\ pc[t] \in {"finish", "count"} => npush'[t] = npush[t]

LEMMA UncountingKeeps ==
  ASSUME Counted, NEW t \in Threads, Uncounting(t) PROVE Counted'
<1>1. Taking' = Taking
  BY DEF Taking, Uncounting
<1>2. /\ UNCHANGED <<m_Count, returned, popped, order>>
      /\ \A u \in Threads : pc[u] \in {"finish", "count"} <=> pc'[u] \in {"finish", "count"}
      /\ \A u \in Threads : pc[u] \in {"finish", "count"} => npush'[u] = npush[u]
  BY DEF Uncounting
<1> QED BY <1>1, <1>2 DEF Counted

LEMMA LinkNodeCounts ==
  ASSUME IInv, Counted, NEW t \in Threads, LinkNode(t) PROVE Counted'
<1>1. /\ Unlinked(t) /\ node[t] \in Nodes /\ node[t] \in Held(t) /\ Held(t) \cap Queue = {}
      /\ pc[t] = "link" /\ pc'[t] = "finish" /\ \A u \in Threads \ {t} : pc'[u] = pc[u]
  BY LinkLists DEF IInv, Apart
<1>2. /\ order' = Append(order, elem[node[t]])
      /\ UNCHANGED <<m_Count, npush, popped, returned>>
  BY DEF LinkNode
<1> DEFINE x == <<t, npush[t]>>
<1>3. elem[node[t]] = x /\ x \in Items /\ Full(node[t])
  <2>1. node[t] # m_Head.pNode
    BY <1>1, QueueNodes DEF IInv
  <2>2. Full(node[t])
    BY <1>1, <2>1, ListedHeld DEF Full
  <2> QED BY <1>1, <2>2 DEF IInv, Elements
<1>4. x \notin Range(order)
  BY <1>1, <1>3 DEF IInv, Elements
<1>5. x \notin returned
  BY <1>4 DEF IInv, Elements
<1> HIDE DEF x
<1>6. Range(order') = Range(order) \cup {x}
  BY <1>2, <1>3, WithLast DEF IInv, Types
<1>7. Taking' = Taking
  BY <1>1 DEF Taking
<1>8. \A u \in Threads : pc'[u] \in {"finish", "count"} => <<u, npush[u]>> \notin returned
  BY <1>1, <1>5 DEF Counted, x
<1>9. ASSUME NEW y \in Range(order')
      PROVE  y \in returned \/ \E u \in Threads : pc'[u] \in {"finish", "count"} /\ y = <<u, npush[u]>>
  BY <1>1, <1>6, <1>9 DEF Counted, x
<1> QED BY <1>2, <1>7, <1>8, <1>9 DEF Counted

LEMMA CountPushCounts ==
  ASSUME IInv, Counted, NEW t \in Threads, CountPush(t) PROVE Counted'
<1> DEFINE x == <<t, npush[t]>>
<1>1. /\ pc[t] = "count" /\ pc'[t] = "idle" /\ \A u \in Threads \ {t} : pc'[u] = pc[u]
  BY Stepped DEF CountPush, ReturnFrom, Places, IInv
<1>2. /\ m_Count' = m_Count + 1 /\ returned' = returned \cup {x}
      /\ UNCHANGED <<npush, order, popped>>
  BY DEF CountPush
<1>3. x \notin returned
  BY <1>1 DEF Counted
<1>4. Taking' = Taking
  BY <1>1 DEF Taking
<1>5. \A u \in Threads \ {t} : <<u, npush[u]>> # x
  OBVIOUS
<1> HIDE DEF x
<1>6. IsFiniteSet(returned') /\ Cardinality(returned') = Cardinality(returned) + 1
  BY <1>2, <1>3, FS_AddElement DEF Counted
<1>7. Cardinality(returned) \in Nat /\ Cardinality(Taking) \in Nat /\ Len(popped) \in Nat
  BY FS_CardinalityType, LenProperties DEF Counted, IInv, Types
<1>8. m_Count' = Cardinality(returned') + Cardinality(Taking') - Len(popped')
  BY <1>2, <1>4, <1>6, <1>7 DEF Counted
<1>9. \A u \in Threads : pc'[u] \in {"finish", "count"} => <<u, npush'[u]>> \notin returned'
  BY <1>1, <1>2, <1>5 DEF Counted
<1>10. ASSUME NEW y \in Range(order')
       PROVE  y \in returned' \/ \E u \in Threads : pc'[u] \in {"finish", "count"} /\ y = <<u, npush'[u]>>
  BY <1>1, <1>2, <1>10 DEF Counted, x
<1> QED BY <1>4, <1>6, <1>8, <1>9, <1>10 DEF Counted

LEMMA PopHeadCounts ==
  ASSUME IInv, Counted, NEW t \in Threads, PopHead(t) PROVE Counted'
<1>1. /\ pc[t] = "pop" /\ pc'[t] = "popCount" /\ \A u \in Threads \ {t} : pc'[u] = pc[u]
  BY Stepped DEF PopHead, Places, Popping, IInv
<1>2. popped' = Append(popped, item[t]) /\ UNCHANGED <<m_Count, npush, order, returned>>
  BY DEF PopHead
<1>3. Taking' = Taking \cup {t} /\ t \notin Taking
  BY <1>1 DEF Taking
<1>4. IsFiniteSet(Taking') /\ Cardinality(Taking') = Cardinality(Taking) + 1
  BY <1>3, FS_AddElement DEF Counted
<1>5. Len(popped') = Len(popped) + 1
  BY <1>2 DEF IInv, Types
<1>6. Cardinality(returned) \in Nat /\ Cardinality(Taking) \in Nat /\ Len(popped) \in Nat
  BY FS_CardinalityType, LenProperties DEF Counted, IInv, Types
<1>7. m_Count' = Cardinality(returned') + Cardinality(Taking') - Len(popped')
  BY <1>2, <1>4, <1>5, <1>6 DEF Counted
<1>8. \A u \in Threads : pc'[u] \in {"finish", "count"} <=> pc[u] \in {"finish", "count"}
  BY <1>1
<1> QED BY <1>2, <1>4, <1>7, <1>8 DEF Counted

LEMMA CountPopCounts ==
  ASSUME IInv, Counted, NEW t \in Threads, CountPop(t) PROVE Counted'
<1>1. /\ pc[t] = "popCount" /\ pc'[t] = "free" /\ \A u \in Threads \ {t} : pc'[u] = pc[u]
  BY Stepped DEF CountPop, Places, Popping, IInv
<1>2. m_Count' = m_Count - 1 /\ UNCHANGED <<popped, npush, order, returned>>
  BY DEF CountPop, history
<1>3. Taking' = Taking \ {t} /\ t \in Taking
  BY <1>1 DEF Taking
<1>4. IsFiniteSet(Taking') /\ Cardinality(Taking') = Cardinality(Taking) - 1
  BY <1>3, FS_RemoveElement DEF Counted
<1>5. Cardinality(returned) \in Nat /\ Cardinality(Taking) \in Nat /\ Len(popped) \in Nat
  BY FS_CardinalityType, LenProperties DEF Counted, IInv, Types
<1>6. m_Count' = Cardinality(returned') + Cardinality(Taking') - Len(popped')
  BY <1>2, <1>4, <1>5 DEF Counted
<1>7. \A u \in Threads : pc'[u] \in {"finish", "count"} <=> pc[u] \in {"finish", "count"}
  BY <1>1
<1> QED BY <1>2, <1>4, <1>6, <1>7 DEF Counted

LEMMA NextCounted == IInv /\ Counted /\ [Next]_vars => Counted'
<1> SUFFICES ASSUME IInv, Counted, [Next]_vars PROVE Counted'
  OBVIOUS
<1>1. CASE UNCHANGED vars
  BY <1>1 DEF vars, shared, locals, history, Counted, Taking
<1>2. ASSUME NEW t \in Threads, PushItem(t) \/ PopItem(t) PROVE Uncounting(t)
  <2>1. pc[t] = "idle" /\ pc'[t] \in {"tailSequence", "headSequence"}
        /\ \A u \in Threads \ {t} : pc'[u] = pc[u]
    BY <1>2, Stepped DEF PushItem, PopItem, Places, Pushing, Popping, IInv
  <2>2. \A u \in Threads \ {t} : npush'[u] = npush[u]
    BY <1>2 DEF PushItem, PopItem, IInv, Types
  <2> QED BY <1>2, <2>1, <2>2 DEF Uncounting, PushItem, PopItem, shared
<1>3. ASSUME NEW t \in Threads, PushStep(t), ~LinkNode(t), ~CountPush(t) PROVE Uncounting(t)
  <2>1. UNCHANGED <<m_Count, returned, popped, order, npush>>
    BY <1>3 DEF PushStep, ReadTailSequence, ReadTailNode, LinkFails, HelpReadNext, HelpPush, Finish,
                shared, history
  <2>2. /\ \A u \in Threads \ {t} : pc'[u] = pc[u]
        /\ \/ pc[t] = "finish" /\ pc'[t] = "count"
           \/ /\ pc[t] \in {"tailSequence", "tailNode", "link", "helpNext", "helpPush"}
              /\ pc'[t] \in {"tailSequence", "tailNode", "link", "helpNext", "helpPush"}
    BY <1>3, Stepped DEF PushStep, ReadTailSequence, ReadTailNode, LinkFails, HelpReadNext, HelpPush, Finish,
                Places, Pushing, Linking, IInv
  <2> QED BY <2>1, <2>2 DEF Uncounting
<1>4. ASSUME NEW t \in Threads, PopStep(t), ~PopHead(t), ~CountPop(t) PROVE Uncounting(t)
  <2>1. UNCHANGED <<m_Count, returned, popped, order, npush>>
    BY <1>4 DEF PopStep, ReadHeadSequence, ReadHeadNode, PopReadTailSequence, PopReadNext, CheckHead,
                PopNothing, TailBehind, HasNext, PopHelp, ReadElement, PopFails, FreeNode, shared, history
  <2>2. /\ \A u \in Threads \ {t} : pc'[u] = pc[u]
        /\ pc[t] \in Popping \ {"popCount"} /\ pc'[t] \in ({"idle"} \cup Popping) \ {"popCount"}
    BY <1>4, Stepped DEF PopStep, ReadHeadSequence, ReadHeadNode, PopReadTailSequence, PopReadNext, CheckHead,
                PopNothing, TailBehind, HasNext, PopHelp, ReadElement, PopFails, FreeNode, ReturnFrom,
                Places, Popping, IInv
  <2> QED BY <2>1, <2>2 DEF Uncounting, Popping
<1> QED BY <1>1, <1>2, <1>3, <1>4, UncountingKeeps, LinkNodeCounts, CountPushCounts, PopHeadCounts,
           CountPopCounts DEF Next, Inside

LEMMA CountedHolds == Spec => []Counted
<1>1. Init => Counted
  <2> SUFFICES ASSUME Init PROVE Counted
    OBVIOUS
  <2>1. pc = [t \in Threads |-> "idle"] /\ m_Count = 0 /\ order = <<>> /\ popped = <<>> /\ returned = {}
    BY DEF Init
  <2>2. Taking = {} /\ Range(order) = {} /\ Len(popped) = 0
    BY <2>1 DEF Taking, Range
  <2> QED BY <2>1, <2>2, FS_EmptySet DEF Counted
<1> QED BY <1>1, NextCounted, IInvHolds, PTL DEF Spec

\* When no thread is inside a call, the queue holds exactly what was pushed and not popped,
\* and m_Count is their number: late exchanges and half-finished pushes and pops have left
\* nothing behind, and no count was lost.
THEOREM QuietIsComplete == Spec => []QuietMeansComplete
<1> SUFFICES ASSUME IInv, Counted, NothingLost, \A t \in Threads : pc[t] = "idle"
             PROVE  InQueue = returned \ Range(popped) /\ m_Count = Cardinality(InQueue)
  BY IInvHolds, CountedHolds, NothingIsLost, PTL DEF QuietMeansComplete
<1>1. Taking = {} /\ {u \in Threads : Unlinked(u)} = {}
  BY DEF Taking, Unlinked
<1>2. Range(order) = Range(popped) \cup InQueue /\ Range(popped) \cap InQueue = {} /\ IsInjective(popped)
  BY <1>1 DEF NothingLost
<1>3. Range(order) = returned
  BY DEF Counted, IInv, Elements
<1>4. InQueue = returned \ Range(popped) /\ Range(popped) \subseteq returned
  BY <1>2, <1>3
<1>5. IsFiniteSet(Range(popped)) /\ Cardinality(Range(popped)) = Len(popped)
  <2>1. popped \in Seq(Items) /\ Len(popped) \in Nat /\ DOMAIN popped = 1 .. Len(popped)
    BY LenProperties DEF IInv, Types
  <2>2. popped \in Bijection(1 .. Len(popped), Range(popped))
    BY <1>2, <2>1 DEF IsInjective, Range, Bijection, Injection, Surjection
  <2>3. IsFiniteSet(1 .. Len(popped)) /\ Cardinality(1 .. Len(popped)) = Len(popped)
    BY <2>1, FS_Interval
  <2> QED BY <2>2, <2>3, FS_Bijection DEF ExistsBijection
<1>6. Cardinality(InQueue) = Cardinality(returned) - Cardinality(Range(popped))
  <2>1. IsFiniteSet(returned)
    BY DEF Counted
  <2>2. IsFiniteSet(InQueue)
    BY <1>4, <2>1, FS_Subset
  <2>3. /\ returned = InQueue \cup Range(popped) /\ InQueue \cap Range(popped) = {}
    BY <1>4
  <2>4. Cardinality(returned) = Cardinality(InQueue) + Cardinality(Range(popped)) - Cardinality({})
    BY <1>5, <2>2, <2>3, FS_Union
  <2> QED BY <1>5, <2>2, <2>4, FS_EmptySet, FS_CardinalityType
<1>7. Cardinality(Taking) = 0
  BY <1>1, FS_EmptySet
<1>8. m_Count = Cardinality(InQueue)
  BY <1>5, <1>6, <1>7, FS_CardinalityType DEF Counted
<1> QED BY <1>4, <1>8

=============================================================================
