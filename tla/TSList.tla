------------------------------- MODULE TSList -------------------------------
(***************************************************************************)
(* CTSListBase, the lock-free stack of public/tier0/tslist.h: a word with  *)
(* the address of the first node, the number of nodes and a count of the   *)
(* pushes, exchanged as a whole.  One action is one access to memory that  *)
(* other threads use.                                                      *)
(***************************************************************************)
EXTENDS Integers, Sequences, SequencesExt

CONSTANTS
  Threads,
  Nodes,      \* addresses of nodes
  NULL,
  Others,     \* what the owner of a node may store where Next lies
  HALF,       \* 2^16: Depth and Sequence are halves of one word of 32 bits
  MaxNodes,   \* bound: nodes in the list at a time
  MaxSince    \* bound: pushes between a thread's read of Sequence and its exchange

ASSUME ListAssumption ==
  /\ NULL \notin Nodes
  /\ HALF \in Nat /\ MaxNodes \in Nat /\ MaxSince \in Nat
  \* Depth does not carry, and Sequence, which wraps, does not come round while
  \* a thread relies on it: see the README.
  /\ MaxNodes < HALF /\ MaxSince < HALF

VARIABLES
  m_Head, \* m_Head: [Next, Depth, Sequence]
  pNext,      \* the first word of each node: TSLNodeBase_t::Next
  listOp,     \* per thread: the operation it does or did last
  listPc,     \* per thread: where it is in it
  listNode,   \* per thread: the node it pushes, or what its Pop returned
  oldHead,    \* per thread: oldHead
  newNext,    \* per thread: newHead.value.Next of Pop
  stack,      \* history: the nodes in the list, the first one first
  since       \* history: per thread, the pushes since it read Sequence

calls == <<listOp, listPc, listNode, oldHead, newNext>>
vars == <<m_Head, pNext, calls, stack, since>>

Heads == [Next : Nodes \cup {NULL}, Depth : 0..(HALF - 1), Sequence : 0..(HALF - 1)]
Words == Nodes \cup {NULL} \cup Others

(* DepthAndSequence + 0x10001: one more in each half; a carry of the lower half
   goes into the upper one. *)
\* Mutant: Push does not count in the upper half.
PushedUncounted(head, n) == [head EXCEPT !.Next = n, !.Depth = @ + 1]
Pushed(head, n) ==
  [Next |-> n, Depth |-> (head.Depth + 1) % HALF,
   Sequence |-> (head.Sequence + (IF head.Depth = HALF - 1 THEN 2 ELSE 1)) % HALF]
(* DepthAndSequence - 1. *)
Popped(head, n) ==
  [Next |-> n, Depth |-> (head.Depth - 1) % HALF,
   Sequence |-> (head.Sequence - (IF head.Depth = 0 THEN 1 ELSE 0)) % HALF]
(* DepthAndSequence & 0xffff0000. *)
Detached(head) == [head EXCEPT !.Next = NULL, !.Depth = 0]

Pushing(t) == listOp[t] = "push" /\ listPc[t] # "idle"

NoHead == [Next |-> NULL, Depth |-> 0, Sequence |-> 0]

Init ==
  /\ m_Head = NoHead
  /\ pNext \in [Nodes -> Others]
  /\ listOp = [t \in Threads |-> "none"]
  /\ listPc = [t \in Threads |-> "idle"]
  /\ listNode = [t \in Threads |-> NULL]
  /\ oldHead = [t \in Threads |-> NoHead]
  /\ newNext = [t \in Threads |-> NULL]
  /\ stack = <<>>
  /\ since = [t \in Threads |-> 0]

(* A node is pushed by the thread that owns it: it is not in the list, and
   nobody else pushes it. *)
Owned(n) == n \notin Range(stack) /\ \A t \in Threads : ~(Pushing(t) /\ listNode[t] = n)

Call(t, op, n) ==
  /\ listPc[t] = "idle"
  /\ listOp' = [listOp EXCEPT ![t] = op]
  /\ listPc' = [listPc EXCEPT ![t] = "read"]
  /\ listNode' = [listNode EXCEPT ![t] = n]
  /\ UNCHANGED <<m_Head, pNext, oldHead, newNext, stack, since>>

CallPush(t, n) == Owned(n) /\ Call(t, "push", n)
CallPop(t) == Call(t, "pop", NULL)
CallDetach(t) == Call(t, "detach", NULL)

Goto(t, pc) == listPc' = [listPc EXCEPT ![t] = pc]

HasSequence(t) == listPc[t] \in {"readNext", "loaded", "cas"}

(* What the thread read of the head is not used any more. *)
Forget(t) ==
  /\ oldHead' = [oldHead EXCEPT ![t] = NoHead]
  /\ newNext' = [newNext EXCEPT ![t] = NULL]

(* The call returns, and its locals are gone. *)
Return(t, n) ==
  /\ Goto(t, "idle")
  /\ listNode' = [listNode EXCEPT ![t] = n]
  /\ Forget(t)

(* oldHead.value64x128 = m_Head.value64x128: an ordinary load, which may take two
   accesses, in either order. *)
ReadNext(t) ==
  /\ \/ listPc[t] = "read" /\ Goto(t, "readRest")
     \/ listPc[t] = "readNext" /\ Goto(t, "loaded")
  /\ oldHead' = [oldHead EXCEPT ![t].Next = m_Head.Next]
  /\ UNCHANGED <<m_Head, pNext, listOp, listNode, newNext, stack, since>>

ReadDepthAndSequence(t) ==
  /\ \/ listPc[t] = "read" /\ Goto(t, "readNext")
     \/ listPc[t] = "readRest" /\ Goto(t, "loaded")
  /\ oldHead' = [oldHead EXCEPT ![t].Depth = m_Head.Depth,
                                ![t].Sequence = m_Head.Sequence]
  /\ UNCHANGED <<m_Head, pNext, listOp, listNode, newNext, stack, since>>

(* Push: pNode->Next = oldHead.value.Next. *)
LinkToOldHead(t) ==
  /\ listOp[t] = "push" /\ listPc[t] = "loaded"
  /\ pNext' = [pNext EXCEPT ![listNode[t]] = oldHead[t].Next]
  /\ Goto(t, "cas")
  /\ UNCHANGED <<m_Head, listOp, listNode, oldHead, newNext, stack, since>>

(* Pop and Detach: if ( !oldHead.value.Next ) return NULL. *)
ReturnNull(t) ==
  /\ listOp[t] \in {"pop", "detach"} /\ listPc[t] = "loaded"
  /\ oldHead[t].Next = NULL
  /\ Return(t, NULL)
  /\ since' = [since EXCEPT ![t] = 0]
  /\ UNCHANGED <<m_Head, pNext, listOp, stack>>

(* Pop: newHead.value.Next = oldHead.value.Next->Next.  The node may have left
   the list in the meantime; its memory is never given back while threads pop. *)
ReadSecond(t) ==
  /\ listOp[t] = "pop" /\ listPc[t] = "loaded"
  /\ oldHead[t].Next # NULL
  /\ newNext' = [newNext EXCEPT ![t] = pNext[oldHead[t].Next]]
  /\ Goto(t, "cas")
  /\ UNCHANGED <<m_Head, pNext, listOp, listNode, oldHead, stack, since>>

DetachLoaded(t) ==
  /\ listOp[t] = "detach" /\ listPc[t] = "loaded"
  /\ oldHead[t].Next # NULL
  /\ Goto(t, "cas")
  /\ UNCHANGED <<m_Head, pNext, listOp, listNode, oldHead, newNext, stack, since>>

(* ThreadInterlockedAssignIf64x128 succeeds when the word is still oldHead. *)
AtCas(t, op) == listOp[t] = op /\ listPc[t] = "cas" /\ m_Head = oldHead[t]

CasPush(t) ==
  /\ AtCas(t, "push")
  /\ Len(stack) < MaxNodes /\ \A u \in Threads : since[u] < MaxSince
  /\ m_Head' = Pushed(oldHead[t], listNode[t])
  /\ stack' = <<listNode[t]>> \o stack
  /\ since' = [u \in Threads |-> IF u # t /\ HasSequence(u) THEN since[u] + 1 ELSE 0]
  /\ Return(t, NULL)
  /\ UNCHANGED <<pNext, listOp>>

CasPop(t) ==
  /\ AtCas(t, "pop")
  /\ m_Head' = Popped(oldHead[t], newNext[t])
  /\ stack' = Tail(stack)
  /\ since' = [since EXCEPT ![t] = 0]
  /\ Return(t, oldHead[t].Next)
  /\ UNCHANGED <<pNext, listOp>>

CasDetach(t) ==
  /\ AtCas(t, "detach")
  /\ m_Head' = Detached(oldHead[t])
  /\ stack' = <<>>
  /\ since' = [since EXCEPT ![t] = 0]
  /\ Return(t, oldHead[t].Next)
  /\ UNCHANGED <<pNext, listOp>>

\* Mutant: an exchange that fails is not repeated.
CasGivesUp(t) ==
  /\ listPc[t] = "cas" /\ m_Head # oldHead[t]
  /\ Return(t, NULL)
  /\ since' = [since EXCEPT ![t] = 0]
  /\ UNCHANGED <<m_Head, pNext, listOp, stack>>
CasFails(t) ==
  /\ listPc[t] = "cas" /\ m_Head # oldHead[t]
  /\ Goto(t, "read") /\ Forget(t)
  /\ since' = [since EXCEPT ![t] = 0]
  /\ UNCHANGED <<m_Head, pNext, listOp, listNode, stack>>

(* What a thread does on its own inside a call. *)
Inside(t) ==
  \/ ReadNext(t) \/ ReadDepthAndSequence(t) \/ LinkToOldHead(t) \/ ReturnNull(t)
  \/ ReadSecond(t) \/ DetachLoaded(t)
  \/ CasPush(t) \/ CasPop(t) \/ CasDetach(t) \/ CasFails(t)

(* The owner of a node uses its memory as it likes. *)
Use(n) ==
  /\ Owned(n)
  /\ pNext' \in {[pNext EXCEPT ![n] = w] : w \in Others}
  /\ UNCHANGED <<m_Head, calls, stack, since>>

Next ==
  \/ \E t \in Threads :
       \/ \E n \in Nodes : CallPush(t, n)
       \/ CallPop(t) \/ CallDetach(t) \/ Inside(t)
  \/ \E n \in Nodes : Use(n)

Spec == Init /\ [][Next]_vars

-----------------------------------------------------------------------------
(* Properties *)

TypeOK ==
  /\ m_Head \in Heads /\ pNext \in [Nodes -> Words]
  /\ listOp \in [Threads -> {"none", "push", "pop", "detach"}]
  /\ listPc \in [Threads -> {"idle", "read", "readRest", "readNext", "loaded", "cas"}]
  /\ listNode \in [Threads -> Nodes \cup {NULL}]
  /\ oldHead \in [Threads -> Heads] /\ newNext \in [Threads -> Words]
  /\ stack \in Seq(Nodes) /\ since \in [Threads -> 0..MaxSince]

(* The head's address and the links of the nodes are the list, Depth is its
   length, and no node is in it twice: whatever a thread read before it was
   suspended, its exchange does not succeed with an address that is stale. *)
ListIntact ==
  /\ m_Head.Next = (IF stack = <<>> THEN NULL ELSE Head(stack))
  /\ m_Head.Depth = Len(stack)
  /\ \A i \in 1..Len(stack) :
       pNext[stack[i]] = (IF i = Len(stack) THEN NULL ELSE stack[i + 1])
  /\ \A i, j \in 1..Len(stack) : stack[i] = stack[j] => i = j

(* Calls of Push, Pop and Detach do what they do in one step somewhere between call and
   return.  A Pop or Detach that finds NULL does it when it reads the head. *)
FoundNull(t) ==
  /\ listOp[t] \in {"pop", "detach"} /\ listPc[t] \in {"readRest", "loaded"}
  /\ oldHead[t].Next = NULL
Pending ==
  [t \in Threads |-> IF listPc[t] = "idle" \/ FoundNull(t) THEN "none" ELSE listOp[t]]
Abstract == INSTANCE AtomicStack WITH pending <- Pending, node <- listNode
StackImplemented == Abstract!Spec
=============================================================================
