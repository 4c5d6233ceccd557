------------------------------ MODULE TSQueue -------------------------------
(***************************************************************************)
(* CTSQueue, the lock-free queue of public/tier0/tslist.h, with PushItem   *)
(* and PopItem.  One action is one access to memory that other threads     *)
(* use; an operation of its free list is one action too (AtomicStack,      *)
(* which TSList implements).                                               *)
(***************************************************************************)
EXTENDS Integers, Sequences, SequencesExt, FiniteSets

CONSTANTS
  Threads,
  Nodes,      \* addresses of nodes
  NULL,
  End,        \* End(): the address of the queue itself, the end of its list
  Dummy,      \* the node the constructor makes
  MaxPush,    \* bound: calls of PushItem by all threads
  MaxPop      \* bound: calls of PopItem by all threads

ASSUME QueueAssumption ==
  /\ Dummy \in Nodes /\ IsFiniteSet(Nodes)
  /\ NULL \notin Nodes /\ End \notin Nodes /\ NULL # End
  /\ MaxPush \in Nat /\ MaxPop \in Nat

VARIABLES
  m_Head, m_Tail, \* [pNode, sequence]
  pNext,      \* pNext of each node; for a node in the free list, its link there
  elem,       \* elem of each node
  m_FreeNodes, \* the nodes of the free list, the first one first
  m_Count,
  unused,     \* nodes that were not allocated yet
  pc,         \* per thread: where it is
  node,       \* per thread: the node it pushes or popped
  link,       \* per thread: oldTail of Push, head of Pop
  tailSequence, next, item,   \* per thread: locals of Pop
  npush,      \* history, per thread: calls of PushItem begun
  npop,       \* history: calls of PopItem begun
  order,      \* history: items in the order they were linked
  popped,     \* history: items in the order they were taken
  returned,   \* history: items whose PushItem has returned
  there,      \* history, per thread: what had to be in the queue when its Pop began
  stray       \* history: a node was linked to one that is not in the queue

locals == <<pc, node, link, tailSequence, next, item>>
history == <<npush, npop, order, popped, returned, there, stray>>
shared == <<m_Head, m_Tail, pNext, elem, m_FreeNodes, m_Count, unused>>
vars == <<shared, locals, history>>

Words == Nodes \cup {NULL, End}
Links == [pNode : Nodes, sequence : Nat]
Items == Threads \X (Nat \ {0})
Nothing == <<>>

(* What can be reached from a node along pNext, the node included: the nodes in
   every set that has it and that pNext does not leave. *)
From(n) ==
  LET closed == {S \in SUBSET Nodes :
                   n \in S /\ \A m \in S : pNext[m] \in Nodes => pNext[m] \in S}
  IN  {m \in Nodes : \A S \in closed : m \in S}
ItemsBehind(n) == {elem[m] : m \in From(n) \ {n}}
InQueue == ItemsBehind(m_Head.pNode)

(* A thread that has a node and has not linked it yet. *)
Unlinked(t) == pc[t] \in {"tailSequence", "tailNode", "link", "helpNext", "helpPush"}

Init ==
  /\ m_FreeNodes = <<>>
  /\ pNext = [n \in Nodes |-> IF n = Dummy THEN End ELSE NULL]
  /\ m_Head = [pNode |-> Dummy, sequence |-> 0]
  /\ m_Tail = m_Head
  /\ elem = [n \in Nodes |-> Nothing]
  /\ m_Count = 0
  /\ unused = Nodes \ {Dummy}
  /\ pc = [t \in Threads |-> "idle"]
  /\ node = [t \in Threads |-> NULL]
  /\ link = [t \in Threads |-> m_Head]
  /\ tailSequence = [t \in Threads |-> 0]
  /\ next = [t \in Threads |-> NULL]
  /\ item = [t \in Threads |-> Nothing]
  /\ npush = [t \in Threads |-> 0] /\ npop = 0
  /\ order = <<>> /\ popped = <<>> /\ returned = {}
  /\ there = [t \in Threads |-> {}]
  /\ stray = FALSE

Step(t, from, to) == pc[t] = from /\ pc' = [pc EXCEPT ![t] = to]

NoLink == [pNode |-> Dummy, sequence |-> 0]
(* The call returns, and its locals are gone. *)
ReturnFrom(t, from) ==
  /\ Step(t, from, "idle")
  /\ node' = [node EXCEPT ![t] = NULL]
  /\ link' = [link EXCEPT ![t] = NoLink]
  /\ tailSequence' = [tailSequence EXCEPT ![t] = 0]
  /\ next' = [next EXCEPT ![t] = NULL]
  /\ item' = [item EXCEPT ![t] = Nothing]

(* FinishPush: the tail moves to node n if it is still what the caller read. *)
FinishPush(n, oldTail) ==
  m_Tail' = IF m_Tail = oldTail
            THEN [pNode |-> n, sequence |-> oldTail.sequence + 1]
            ELSE m_Tail

(* PushItem: m_FreeNodes.Pop(), or a new node; the node gets its element, and Push
   begins with pNode->pNext = End().  The bound Nodes: no push begins when the free
   list is empty and all nodes are made. *)
FreeOrNew ==
  IF m_FreeNodes # <<>> THEN {Head(m_FreeNodes)}
  ELSE {n \in unused : n = CHOOSE m \in unused : TRUE}

PushItem(t) ==
  /\ FoldFunction(LAMBDA a, b : a + b, 0, npush) < MaxPush
  /\ Step(t, "idle", "tailSequence")
  /\ npush' = [npush EXCEPT ![t] = @ + 1]
  /\ \E n \in FreeOrNew :
       /\ node' = [node EXCEPT ![t] = n]
       /\ elem' = [elem EXCEPT ![n] = <<t, npush[t] + 1>>]
       /\ pNext' = [pNext EXCEPT ![n] = End]
       /\ unused' = unused \ {n}
  /\ m_FreeNodes' = IF m_FreeNodes = <<>> THEN <<>> ELSE Tail(m_FreeNodes)
  /\ UNCHANGED <<m_Head, m_Tail, m_Count, link, tailSequence, next, item,
                 npop, order, popped, returned, there, stray>>

(* oldTail.value.sequence = m_Tail.value.sequence, then the node. *)
ReadTailSequence(t) ==
  /\ Step(t, "tailSequence", "tailNode")
  /\ link' = [link EXCEPT ![t].sequence = m_Tail.sequence]
  /\ UNCHANGED <<shared, node, tailSequence, next, item, history>>

ReadTailNode(t) ==
  /\ Step(t, "tailNode", "link")
  /\ link' = [link EXCEPT ![t].pNode = m_Tail.pNode]
  /\ UNCHANGED <<shared, node, tailSequence, next, item, history>>

(* InterlockedCompareExchangeNode( &(oldTail.value.pNode->pNext), pNode, End() ):
   the node may have left the queue since it was read. *)
LinkNode(t) ==
  LET last == link[t].pNode IN
  /\ pNext[last] = End
  /\ Step(t, "link", "finish")
  /\ pNext' = [pNext EXCEPT ![last] = node[t]]
  /\ order' = Append(order, elem[node[t]])
  /\ stray' = (stray \/ last \notin From(m_Head.pNode))
  /\ UNCHANGED <<m_Head, m_Tail, elem, m_FreeNodes, m_Count, unused,
                 node, link, tailSequence, next, item, npush, npop, popped, returned, there>>

LinkFails(t) ==
  /\ pNext[link[t].pNode] # End
  /\ Step(t, "link", "helpNext")
  /\ UNCHANGED <<shared, node, link, tailSequence, next, item, history>>

(* FinishPush( oldTail.value.pNode->pNext, oldTail ) for the thread that was faster. *)
HelpReadNext(t) ==
  /\ Step(t, "helpNext", "helpPush")
  /\ next' = [next EXCEPT ![t] = pNext[link[t].pNode]]
  /\ UNCHANGED <<shared, node, link, tailSequence, item, history>>

\* Mutant: the thread waits for the other one without helping.
HelpPushWaits(t) ==
  /\ Step(t, "helpPush", "tailSequence")
  /\ UNCHANGED <<shared, node, link, tailSequence, next, item, history>>
HelpPush(t) ==
  /\ Step(t, "helpPush", "tailSequence")
  /\ FinishPush(next[t], link[t])
  /\ UNCHANGED <<pNext, m_FreeNodes, m_Head, elem, m_Count, unused, node, link, tailSequence, next,
                 item, history>>

(* FinishPush( pNode, oldTail ): may fail. *)
Finish(t) ==
  /\ Step(t, "finish", "count")
  /\ FinishPush(node[t], link[t])
  /\ UNCHANGED <<pNext, m_FreeNodes, m_Head, elem, m_Count, unused, node, link, tailSequence, next,
                 item, history>>

CountPush(t) ==
  /\ ReturnFrom(t, "count")
  /\ m_Count' = m_Count + 1
  /\ returned' = returned \cup {<<t, npush[t]>>}
  /\ UNCHANGED <<pNext, m_FreeNodes, m_Head, m_Tail, elem, unused,
                 npush, npop, order, popped, there, stray>>

(* PopItem *)
PopItem(t) ==
  /\ npop < MaxPop
  /\ Step(t, "idle", "headSequence")
  /\ npop' = npop + 1
  /\ there' = [there EXCEPT ![t] = returned \ Range(popped)]
  /\ UNCHANGED <<shared, node, link, tailSequence, next, item,
                 npush, order, popped, returned, stray>>

ReadHeadSequence(t) ==
  /\ Step(t, "headSequence", "headNode")
  /\ link' = [link EXCEPT ![t].sequence = m_Head.sequence]
  /\ UNCHANGED <<shared, node, tailSequence, next, item, history>>

ReadHeadNode(t) ==
  /\ Step(t, "headNode", "popTailSequence")
  /\ link' = [link EXCEPT ![t].pNode = m_Head.pNode]
  /\ UNCHANGED <<shared, node, tailSequence, next, item, history>>

PopReadTailSequence(t) ==
  /\ Step(t, "popTailSequence", "popNext")
  /\ tailSequence' = [tailSequence EXCEPT ![t] = m_Tail.sequence]
  /\ UNCHANGED <<shared, node, link, next, item, history>>

PopReadNext(t) ==
  /\ Step(t, "popNext", "checkHead")
  /\ next' = [next EXCEPT ![t] = pNext[link[t].pNode]]
  /\ UNCHANGED <<shared, node, link, tailSequence, item, history>>

\* Mutant: the head's sequence number is not looked at again.
HeadMovedUnchecked(t) == next[t] = NULL
HeadMoved(t) == next[t] = NULL \/ link[t].sequence # m_Head.sequence

(* if ( !pNext || head.value.sequence != *pHeadSequence ) continue *)
CheckHead(t) ==
  /\ IF HeadMoved(t) THEN Step(t, "checkHead", "headSequence")
                     ELSE Step(t, "checkHead", "checkTail")
  /\ UNCHANGED <<shared, node, link, tailSequence, next, item, history>>

(* if ( head.value.pNode == *pTailNode ): nothing in the queue, or a push to help
   along; otherwise on to the element, or from the start. *)
PopNothing(t) ==
  /\ link[t].pNode = m_Tail.pNode /\ next[t] = End
  /\ ReturnFrom(t, "checkTail")
  /\ there' = [there EXCEPT ![t] = {}]
  /\ UNCHANGED <<shared, npush, npop, order, popped, returned, stray>>

TailBehind(t) ==
  /\ link[t].pNode = m_Tail.pNode /\ next[t] # End
  /\ Step(t, "checkTail", "popHelp")
  /\ UNCHANGED <<shared, node, link, tailSequence, next, item, history>>

HasNext(t) ==
  /\ link[t].pNode # m_Tail.pNode
  /\ IF next[t] # End THEN Step(t, "checkTail", "element")
                      ELSE Step(t, "checkTail", "headSequence")
  /\ UNCHANGED <<shared, node, link, tailSequence, next, item, history>>

PopHelp(t) ==
  /\ Step(t, "popHelp", "headSequence")
  /\ FinishPush(next[t], [pNode |-> link[t].pNode, sequence |-> tailSequence[t]])
  /\ UNCHANGED <<pNext, m_FreeNodes, m_Head, elem, m_Count, unused, node, link, tailSequence, next,
                 item, history>>

(* elem = pNext->elem: the node may be freed or in use again. *)
ReadElement(t) ==
  /\ Step(t, "element", "pop")
  /\ item' = [item EXCEPT ![t] = elem[next[t]]]
  /\ UNCHANGED <<shared, node, link, tailSequence, next, history>>

\* Mutant: the exchange compares the node only.
HeadIsNode(t) == m_Head.pNode = link[t].pNode
HeadIs(t) == m_Head = link[t]

(* InterlockedCompareExchangeNodeLink( pHead, newHead, head ) *)
PopHead(t) ==
  /\ HeadIs(t)
  /\ Step(t, "pop", "popCount")
  /\ m_Head' = [pNode |-> next[t], sequence |-> link[t].sequence + 1]
  /\ node' = [node EXCEPT ![t] = link[t].pNode]
  /\ popped' = Append(popped, item[t])
  /\ there' = [there EXCEPT ![t] = {}]
  /\ UNCHANGED <<pNext, m_FreeNodes, m_Tail, elem, m_Count, unused, link, tailSequence, next, item,
                 npush, npop, order, returned, stray>>

PopFails(t) ==
  /\ ~HeadIs(t)
  /\ Step(t, "pop", "headSequence")
  /\ UNCHANGED <<shared, node, link, tailSequence, next, item, history>>

CountPop(t) ==
  /\ Step(t, "popCount", "free")
  /\ m_Count' = m_Count - 1
  /\ UNCHANGED <<m_Head, m_Tail, pNext, elem, m_FreeNodes, unused, node, link, tailSequence, next, item, history>>

(* The element goes into the node that is returned, and PopItem gives the node to the
   free list, whose link lies where pNext was. *)
\* Mutant: PopItem resets the node before it frees it.
FreeNodeReset(t) ==
  /\ ReturnFrom(t, "free")
  /\ elem' = [elem EXCEPT ![node[t]] = item[t]]
  /\ pNext' = [pNext EXCEPT ![node[t]] = End]
  /\ m_FreeNodes' = <<node[t]>> \o m_FreeNodes
  /\ UNCHANGED <<m_Head, m_Tail, m_Count, unused, history>>
FreeNode(t) ==
  /\ ReturnFrom(t, "free")
  /\ elem' = [elem EXCEPT ![node[t]] = item[t]]
  /\ pNext' = [pNext EXCEPT ![node[t]] = IF m_FreeNodes = <<>> THEN NULL ELSE Head(m_FreeNodes)]
  /\ m_FreeNodes' = <<node[t]>> \o m_FreeNodes
  /\ UNCHANGED <<m_Head, m_Tail, m_Count, unused, history>>

PushStep(t) ==
  \/ ReadTailSequence(t) \/ ReadTailNode(t)
  \/ LinkNode(t) \/ LinkFails(t) \/ HelpReadNext(t) \/ HelpPush(t)
  \/ Finish(t) \/ CountPush(t)

PopStep(t) ==
  \/ ReadHeadSequence(t) \/ ReadHeadNode(t) \/ PopReadTailSequence(t) \/ PopReadNext(t)
  \/ CheckHead(t) \/ PopNothing(t) \/ TailBehind(t) \/ HasNext(t) \/ PopHelp(t)
  \/ ReadElement(t) \/ PopHead(t) \/ PopFails(t) \/ CountPop(t) \/ FreeNode(t)

Inside(t) == PushStep(t) \/ PopStep(t)

Next == \E t \in Threads : PushItem(t) \/ PopItem(t) \/ Inside(t)

Spec == Init /\ [][Next]_vars

(* A thread inside a call is scheduled now and then. *)
FairSpec == Spec /\ \A t \in Threads : WF_vars(Inside(t))

-----------------------------------------------------------------------------
(* Properties *)

TypeOK ==
  /\ pNext \in [Nodes -> Words] /\ m_FreeNodes \in Seq(Nodes)
  /\ m_Head \in Links /\ m_Tail \in Links
  /\ elem \in [Nodes -> Items \cup {Nothing}] /\ m_Count \in Int
  /\ node \in [Threads -> Nodes \cup {NULL}] /\ link \in [Threads -> Links]
  /\ next \in [Threads -> Words] /\ item \in [Threads -> Items \cup {Nothing}]
  /\ popped \in Seq(Items) /\ order \in Seq(Items)

(* The queue keeps to the rules of its free list: it frees a node once, and writes to
   no node that is in it, even where a late exchange hits a node that has left the
   queue. *)
FreeListRespected ==
  [][/\ IsInjective(m_FreeNodes')
     /\ \A n \in Range(m_FreeNodes) \cap Range(m_FreeNodes') : pNext'[n] = pNext[n]]_vars

(* The nodes from the head on end with End() and hold the tail: the head never
   overtakes the tail, and no freed node hangs in the queue. *)
TailInQueue ==
  /\ m_Tail.pNode \in From(m_Head.pNode)
  /\ \A n \in From(m_Head.pNode) : pNext[n] \in Nodes \cup {End} /\ n \notin Range(m_FreeNodes)

(* Every item that was linked is in one place: taken once, in the queue, or behind
   a node that a thread has not linked yet. *)
NothingLost ==
  LET queue == InQueue
      waiting == UNION {ItemsBehind(node[t]) : t \in {u \in Threads : Unlinked(u)}}
      taken == Range(popped)
  IN  /\ Range(order) = taken \cup queue \cup waiting
      /\ IsInjective(popped)
      /\ taken \cap queue = {} /\ taken \cap waiting = {} /\ queue \cap waiting = {}

(* As long as no node was linked to one outside the queue, items leave in the order
   in which they were linked. *)
OrderKept == ~stray => IsPrefix(popped, order)

(* As long as no node was linked to one outside the queue, a Pop that returns nothing
   has seen the queue empty: all that was there when it began is taken by now. *)
EmptyMeansEmpty ==
  [][\A t \in Threads :
       PopNothing(t) /\ ~stray => there[t] \subseteq Range(popped)]_vars

(* As long as only one thread has pushed, no node is linked to one outside the queue:
   what OrderKept and EmptyMeansEmpty say holds of it without their condition, and
   CJobQueue, whose one pushing thread is the main thread, may take it for a sequence. *)
OnePusher == \A t, u \in Threads : npush[t] > 0 /\ npush[u] > 0 => t = u
OnePusherNeverStrays == OnePusher => ~stray

(* When no thread is inside a call, the queue holds all that was pushed and not
   popped, and m_Count is their number. *)
QuietMeansComplete ==
  (\A t \in Threads : pc[t] = "idle") =>
    /\ InQueue = returned \ Range(popped)
    /\ m_Count = Cardinality(InQueue)

(* Every call returns: threads that meet a half-finished push help it along or get
   round it, and do not wait for each other for ever. *)
CallsReturn == <>[](\A t \in Threads : pc[t] = "idle")

(* Items of one thread leave in the order in which it pushed them. *)
Fifo ==
  \A j \in 1..Len(popped) : \A k \in 1..(popped[j][2] - 1) :
    \E i \in 1..(j - 1) : popped[i] = <<popped[j][1], k>>
=============================================================================
