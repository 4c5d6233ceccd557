---------------------------- MODULE TSListProofs ----------------------------
(***************************************************************************)
(* The inductive invariant of TSList, and that it implements AtomicStack,  *)
(* for any threads and nodes and any number of pushes, as long as a list   *)
(* has fewer than 2^16 nodes and fewer are pushed while a thread relies on *)
(* the Sequence it read.                                                   *)
(***************************************************************************)
EXTENDS TSList, SequenceTheorems, TLAPS

(* The list is no longer than Depth can tell. *)
Short == Len(stack) <= MaxNodes

(* Sequence after n more pushes. *)
Ahead(sequence, n) == IF sequence + n < HALF THEN sequence + n ELSE sequence + n - HALF

(* What a thread pushes is outside the list and pushed by nobody else; it is linked
   to what the thread read. *)
PushedApart ==
  \A t \in Threads : Pushing(t) =>
    /\ listNode[t] \in Nodes /\ listNode[t] \notin Range(stack)
    /\ \A u \in Threads : Pushing(u) /\ u # t => listNode[u] # listNode[t]
    /\ listPc[t] = "cas" => pNext[listNode[t]] = oldHead[t].Next

(* What a thread read lies in the past: Sequence has gone on by the pushes since
   then, and with no push the list has become no longer. *)
ReadsOld ==
  \A t \in Threads :
    IF HasSequence(t)
      THEN /\ m_Head.Sequence = Ahead(oldHead[t].Sequence, since[t])
           /\ since[t] = 0 => Len(stack) <= oldHead[t].Depth
      ELSE since[t] = 0

(* A thread about to take nodes out read one, and if the head is still what it read,
   the second node is what it read too. *)
ReadsCurrent ==
  \A t \in Threads : listOp[t] \in {"pop", "detach"} /\ listPc[t] = "cas" =>
    /\ oldHead[t].Next \in Nodes
    /\ listOp[t] = "pop" /\ m_Head = oldHead[t] => newNext[t] = pNext[oldHead[t].Next]

IInv == TypeOK /\ ListIntact /\ Short /\ PushedApart /\ ReadsOld /\ ReadsCurrent

-----------------------------------------------------------------------------
(* Sequences and halves of the word *)

(* A half holds a count that is less than 2^16, and begins again there. *)
LEMMA HalfHolds == ASSUME NEW x \in Nat, NEW h \in Nat, x < h PROVE x % h = x
  OBVIOUS

LEMMA HalfWraps == ASSUME NEW h \in Nat, 0 < h PROVE h % h = 0
  OBVIOUS

(* Fewer pushes than a half can count do not lead back to the same Sequence. *)
LEMMA AheadIsNot ==
  ASSUME NEW s \in 0..(HALF - 1), NEW n \in Nat, n < HALF
  PROVE  /\ Ahead(s, n) \in 0..(HALF - 1) /\ Ahead(s, 0) = s
         /\ n # 0 => Ahead(s, n) # s
         /\ n + 1 < HALF => Ahead(Ahead(s, n), 1) = Ahead(s, n + 1)
  BY ListAssumption DEF Ahead

(* A node put in front of a list. *)
LEMMA InFront ==
  ASSUME NEW S, NEW s \in Seq(S), NEW n \in S
  PROVE  LET r == <<n>> \o s IN
         /\ r \in Seq(S) /\ Len(r) = Len(s) + 1 /\ r # <<>> /\ Head(r) = n /\ r[1] = n
         /\ \A i \in 1..Len(s) : r[i + 1] = s[i]
         /\ \A i \in 2..Len(r) : r[i] = s[i - 1]
         /\ Tail(r) = s
  OBVIOUS

(* A list without its first node. *)
LEMMA WithoutFirst ==
  ASSUME NEW S, NEW s \in Seq(S), s # <<>>
  PROVE  /\ Tail(s) \in Seq(S) /\ Len(Tail(s)) = Len(s) - 1 /\ Len(s) \in Nat /\ Len(s) >= 1
         /\ Head(s) = s[1] /\ s[1] \in S
         /\ \A i \in 1..(Len(s) - 1) : Tail(s)[i] = s[i + 1]
         /\ Tail(s) # <<>> => Len(s) >= 2 /\ Head(Tail(s)) = s[2]
         /\ Tail(s) = <<>> => Len(s) = 1
<1>1. /\ Tail(s) \in Seq(S) /\ Len(Tail(s)) = Len(s) - 1
      /\ \A i \in 1..Len(Tail(s)) : Tail(s)[i] = s[i + 1]
  BY HeadTailProperties
<1>2. Len(s) \in Nat /\ Len(s) >= 1 /\ Head(s) = s[1] /\ s[1] \in S
  OBVIOUS
<1>3. \A r \in Seq(S) : (r = <<>> <=> Len(r) = 0) /\ (r # <<>> => Head(r) = r[1] /\ Len(r) \in Nat)
  OBVIOUS
<1> DEFINE r == Tail(s)
<1>4. r \in Seq(S) /\ Len(r) = Len(s) - 1 /\ \A i \in 1..Len(r) : r[i] = s[i + 1]
  BY <1>1
<1> HIDE DEF r
<1>5. (r # <<>> => Len(s) >= 2 /\ Head(r) = s[2]) /\ (r = <<>> => Len(s) = 1)
  BY <1>2, <1>3, <1>4
<1> QED BY <1>1, <1>2, <1>5 DEF r

(* The elements of a list. *)
LEMMA Elements ==
  ASSUME NEW S, NEW s \in Seq(S)
  PROVE  /\ \A x : x \in Range(s) <=> \E i \in 1..Len(s) : x = s[i]
         /\ Range(s) \subseteq S
  BY DEF Range

-----------------------------------------------------------------------------
(* The steps *)

LEMMA InitInv == Init => IInv
<1> SUFFICES ASSUME Init PROVE IInv
  OBVIOUS
<1>1. TypeOK
  <2>1. HALF \in Nat /\ 0 < HALF /\ 0 \in 0..(HALF - 1) /\ 0 \in 0..MaxSince /\ 0 <= MaxNodes
    BY ListAssumption
  <2>2. NoHead \in Heads
    BY <2>1 DEF NoHead, Heads
  <2> QED BY <2>1, <2>2 DEF Init, TypeOK, Words
<1>2. ListIntact
  BY DEF Init, ListIntact, NoHead
<1>3. Short /\ PushedApart /\ ReadsOld /\ ReadsCurrent
  BY ListAssumption DEF Init, Short, PushedApart, ReadsOld, ReadsCurrent, NoHead, Pushing, HasSequence
<1> QED BY <1>1, <1>2, <1>3 DEF IInv

(* A thread that moves on inside a call, reading or giving up: the list stays. *)
LEMMA ReadStep ==
  ASSUME IInv, NEW t \in Threads,
         \/ ReadNext(t) \/ ReadDepthAndSequence(t) \/ ReturnNull(t) \/ ReadSecond(t)
         \/ DetachLoaded(t) \/ CasFails(t)
  PROVE  IInv'
<1> USE DEF IInv, Goto, Return, Forget
<1>1. UNCHANGED <<m_Head, pNext, listOp, stack>>
  BY DEF ReadNext, ReadDepthAndSequence, ReturnNull, ReadSecond, DetachLoaded, CasFails
<1>2. oldHead'[t] \in Heads /\ newNext'[t] \in Words /\ listNode'[t] \in Nodes \cup {NULL}
  <2>1. NoHead \in Heads
    BY ListAssumption DEF NoHead, Heads
  <2>2. m_Head.Next \in Nodes \cup {NULL} /\ m_Head.Depth \in 0..(HALF - 1) /\ m_Head.Sequence \in 0..(HALF - 1)
    BY DEF TypeOK, Heads
  <2>3. oldHead[t] \in Heads /\ oldHead \in [Threads -> Heads]
    BY DEF TypeOK
  <2>4. CASE ReadNext(t)
    BY <2>2, <2>3, <2>4 DEF ReadNext, TypeOK, Heads
  <2>5. CASE ReadDepthAndSequence(t)
    <3> DEFINE h == [Next |-> oldHead[t].Next, Depth |-> m_Head.Depth, Sequence |-> m_Head.Sequence]
    <3>1. h \in Heads
      BY <2>2, <2>3 DEF Heads
    <3>2. oldHead'[t] = h
      BY <2>3, <2>5 DEF ReadDepthAndSequence, Heads
    <3> QED BY <3>1, <3>2, <2>5 DEF ReadDepthAndSequence, TypeOK
  <2>6. CASE ReadSecond(t)
    BY <2>6 DEF ReadSecond, TypeOK, Heads
  <2>7. CASE ReturnNull(t) \/ DetachLoaded(t) \/ CasFails(t)
    BY <2>1, <2>7 DEF ReturnNull, DetachLoaded, CasFails, TypeOK, Words
  <2> QED BY <2>4, <2>5, <2>6, <2>7
<1>3. /\ \A u \in Threads \ {t} :
           listPc'[u] = listPc[u] /\ listNode'[u] = listNode[u] /\ oldHead'[u] = oldHead[u]
           /\ newNext'[u] = newNext[u]
      /\ listPc' \in [Threads -> {"idle", "read", "readRest", "readNext", "loaded", "cas"}]
      /\ listNode' \in [Threads -> Nodes \cup {NULL}]
      /\ oldHead' \in [Threads -> Heads] /\ newNext' \in [Threads -> Words]
  BY <1>2 DEF TypeOK, ReadNext, ReadDepthAndSequence, ReturnNull, ReadSecond, DetachLoaded, CasFails
<1>4. /\ since' \in [Threads -> 0..MaxSince]
      /\ \A u \in Threads \ {t} : since'[u] = since[u]
      /\ \/ HasSequence(t)' /\ HasSequence(t) /\ since'[t] = since[t]
            /\ oldHead'[t].Depth = oldHead[t].Depth /\ oldHead'[t].Sequence = oldHead[t].Sequence
         \/ HasSequence(t)' /\ ~HasSequence(t) /\ since'[t] = since[t]
            /\ oldHead'[t].Depth = m_Head.Depth /\ oldHead'[t].Sequence = m_Head.Sequence
         \/ ~HasSequence(t)' /\ ~HasSequence(t) /\ since'[t] = since[t]
         \/ ~HasSequence(t)' /\ since'[t] = 0
  <2>1. since \in [Threads -> 0..MaxSince] /\ 0 \in 0..MaxSince
    BY ListAssumption DEF TypeOK
  <2>2. CASE ReadNext(t)
    BY <2>1, <2>2 DEF ReadNext, TypeOK, Heads, HasSequence
  <2>3. CASE ReadDepthAndSequence(t)
    BY <2>1, <2>3 DEF ReadDepthAndSequence, TypeOK, Heads, HasSequence
  <2>4. CASE ReadSecond(t) \/ DetachLoaded(t)
    BY <2>1, <2>4 DEF ReadSecond, DetachLoaded, TypeOK, HasSequence
  <2>5. CASE ReturnNull(t) \/ CasFails(t)
    BY <2>1, <2>5 DEF ReturnNull, CasFails, TypeOK, HasSequence
  <2> QED BY <2>2, <2>3, <2>4, <2>5
<1>5. TypeOK' /\ ListIntact' /\ Short'
  BY <1>1, <1>3, <1>4 DEF TypeOK, ListIntact, Short
<1>6. /\ listPc[t] # "idle"
      /\ listPc'[t] = "idle" \/ (listNode'[t] = listNode[t] /\ (listOp[t] = "push" => listPc'[t] # "cas"))
  BY DEF TypeOK, ReadNext, ReadDepthAndSequence, ReturnNull, ReadSecond, DetachLoaded, CasFails
<1>7. PushedApart'
  BY <1>1, <1>3, <1>6 DEF PushedApart, Pushing
<1>8. ReadsOld'
  <2>1. /\ m_Head.Sequence \in 0..(HALF - 1) /\ Len(stack) \in Nat /\ m_Head.Depth = Len(stack)
        /\ 0 < HALF
    BY ListAssumption DEF TypeOK, Heads, ListIntact
  <2>2. Ahead(m_Head.Sequence, 0) = m_Head.Sequence
    BY <2>1, AheadIsNot
  <2>3. IF HasSequence(t)'
          THEN /\ m_Head.Sequence = Ahead(oldHead'[t].Sequence, since'[t])
               /\ since'[t] = 0 => Len(stack) <= oldHead'[t].Depth
          ELSE since'[t] = 0
    BY <1>4, <2>1, <2>2 DEF ReadsOld
  <2>4. \A u \in Threads \ {t} : HasSequence(u)' = HasSequence(u)
    BY <1>3 DEF HasSequence
  <2> QED BY <1>1, <1>3, <1>4, <2>3, <2>4 DEF ReadsOld
<1>9. ReadsCurrent'
  <2>1. ASSUME listOp[t] \in {"pop", "detach"}, listPc'[t] = "cas"
        PROVE  /\ oldHead'[t] = oldHead[t] /\ oldHead[t].Next \in Nodes
               /\ listOp[t] = "pop" => newNext'[t] = pNext[oldHead[t].Next]
    BY <2>1 DEF TypeOK, Heads, ReadNext, ReadDepthAndSequence, ReturnNull, ReadSecond, DetachLoaded, CasFails
  <2> QED BY <1>1, <1>3, <2>1 DEF ReadsCurrent
<1> QED BY <1>5, <1>7, <1>8, <1>9

(* The word after a push or a pop, without the carries. *)
LEMMA Halves ==
  ASSUME IInv, NEW n
  PROVE  /\ Len(stack) < MaxNodes => Pushed(m_Head, n) =
              [Next |-> n, Depth |-> m_Head.Depth + 1, Sequence |-> Ahead(m_Head.Sequence, 1)]
         /\ m_Head.Depth # 0 => Popped(m_Head, n) =
              [Next |-> n, Depth |-> m_Head.Depth - 1, Sequence |-> m_Head.Sequence]
<1> USE DEF IInv
<1>1. /\ HALF \in Nat /\ m_Head.Depth \in Nat /\ m_Head.Sequence \in Nat
      /\ m_Head.Depth < HALF /\ m_Head.Sequence < HALF
  BY ListAssumption DEF TypeOK, Heads
<1>2. ASSUME Len(stack) < MaxNodes
      PROVE  m_Head.Depth + 1 < HALF
  BY <1>1, <1>2, ListAssumption DEF TypeOK, ListIntact
<1>3. ASSUME Len(stack) < MaxNodes
      PROVE  Pushed(m_Head, n) =
               [Next |-> n, Depth |-> m_Head.Depth + 1, Sequence |-> Ahead(m_Head.Sequence, 1)]
  <2>1. (m_Head.Depth + 1) % HALF = m_Head.Depth + 1
    BY <1>1, <1>2, <1>3, HalfHolds
  <2>2. (m_Head.Sequence + 1) % HALF = Ahead(m_Head.Sequence, 1)
    <3>1. CASE m_Head.Sequence + 1 < HALF
      BY <1>1, <3>1, HalfHolds DEF Ahead
    <3>2. CASE m_Head.Sequence + 1 = HALF
      BY <1>1, <3>2, HalfWraps DEF Ahead
    <3> QED BY <1>1, <3>1, <3>2
  <2>3. m_Head.Depth # HALF - 1
    BY <1>1, <1>2, <1>3
  <2> QED BY <2>1, <2>2, <2>3 DEF Pushed
<1>4. ASSUME m_Head.Depth # 0
      PROVE  Popped(m_Head, n) =
               [Next |-> n, Depth |-> m_Head.Depth - 1, Sequence |-> m_Head.Sequence]
  <2>1. (m_Head.Depth - 1) % HALF = m_Head.Depth - 1
    <3>1. m_Head.Depth - 1 \in Nat /\ m_Head.Depth - 1 < HALF
      BY <1>1, <1>4
    <3> QED BY <1>1, <3>1, HalfHolds
  <2>2. (m_Head.Sequence - 0) % HALF = m_Head.Sequence
    BY <1>1, HalfHolds
  <2> QED BY <1>4, <2>1, <2>2 DEF Popped
<1> QED BY <1>3, <1>4

(* A call begins. *)
LEMMA CallStep ==
  ASSUME IInv, NEW t \in Threads,
         (\E n \in Nodes : CallPush(t, n)) \/ CallPop(t) \/ CallDetach(t)
  PROVE  IInv'
<1> USE DEF IInv
<1>1. PICK op \in {"push", "pop", "detach"}, n \in Nodes \cup {NULL} :
        Call(t, op, n) /\ (op = "push" => n \in Nodes /\ Owned(n))
  BY DEF CallPush, CallPop, CallDetach
<1>2. /\ UNCHANGED <<m_Head, pNext, oldHead, newNext, stack, since>>
      /\ listPc'[t] = "read" /\ listOp'[t] = op /\ listNode'[t] = n
      /\ \A u \in Threads \ {t} :
           listPc'[u] = listPc[u] /\ listNode'[u] = listNode[u] /\ listOp'[u] = listOp[u]
      /\ listPc' \in [Threads -> {"idle", "read", "readRest", "readNext", "loaded", "cas"}]
      /\ listNode' \in [Threads -> Nodes \cup {NULL}]
      /\ listOp' \in [Threads -> {"none", "push", "pop", "detach"}]
  BY <1>1 DEF Call, TypeOK
<1>3. TypeOK' /\ ListIntact' /\ Short'
  BY <1>2 DEF TypeOK, ListIntact, Short
<1>4. PushedApart'
  BY <1>1, <1>2 DEF PushedApart, Pushing, Owned
<1>5. ReadsOld' /\ ReadsCurrent'
  <2>1. ~HasSequence(t) /\ ~HasSequence(t)' /\ \A u \in Threads \ {t} : HasSequence(u)' = HasSequence(u)
    BY <1>1, <1>2 DEF HasSequence, Call
  <2> QED BY <1>2, <2>1 DEF ReadsOld, ReadsCurrent
<1> QED BY <1>3, <1>4, <1>5

(* A word is written that lies outside the list. *)
LEMMA OutsideWrite ==
  ASSUME IInv, NEW n \in Nodes, n \notin Range(stack), NEW w \in Words,
         pNext' = [pNext EXCEPT ![n] = w], UNCHANGED <<m_Head, stack>>
  PROVE  /\ pNext' \in [Nodes -> Words] /\ ListIntact' /\ Short'
         /\ \A u \in Threads : listOp[u] = "pop" /\ listPc[u] = "cas" /\ m_Head = oldHead[u]
                               => pNext'[oldHead[u].Next] = pNext[oldHead[u].Next]
<1> USE DEF IInv
<1>1. stack \in Seq(Nodes) /\ Len(stack) \in Nat /\ pNext \in [Nodes -> Words]
  BY DEF TypeOK
<1>2. \A i \in 1..Len(stack) : stack[i] \in Nodes /\ stack[i] # n /\ pNext'[stack[i]] = pNext[stack[i]]
  BY <1>1, Elements
<1>3. ListIntact'
  BY <1>2 DEF ListIntact
<1>4. ASSUME NEW u \in Threads, listOp[u] = "pop", listPc[u] = "cas", m_Head = oldHead[u]
      PROVE  pNext'[oldHead[u].Next] = pNext[oldHead[u].Next]
  <2>1. oldHead[u].Next \in Nodes /\ stack # <<>>
    BY <1>4, ListAssumption DEF ReadsCurrent, ListIntact
  <2>2. oldHead[u].Next = stack[1] /\ 1 \in 1..Len(stack)
    BY <1>1, <1>4, <2>1, WithoutFirst DEF ListIntact
  <2> QED BY <1>2, <2>2
<1> QED BY <1>1, <1>3, <1>4 DEF Short

LEMMA LinkStep == ASSUME IInv, NEW t \in Threads, LinkToOldHead(t) PROVE IInv'
<1> USE DEF IInv
<1> DEFINE n == listNode[t]
<1>1. /\ n \in Nodes /\ n \notin Range(stack) /\ listOp[t] = "push" /\ oldHead[t].Next \in Words
      /\ \A u \in Threads : Pushing(u) /\ u # t => listNode[u] # n
  BY DEF LinkToOldHead, PushedApart, Pushing, TypeOK, Heads, Words
<1>2. /\ pNext' = [pNext EXCEPT ![n] = oldHead[t].Next]
      /\ UNCHANGED <<m_Head, listOp, listNode, oldHead, newNext, stack, since>>
      /\ listPc' = [listPc EXCEPT ![t] = "cas"]
  BY DEF LinkToOldHead, Goto
<1>3. /\ pNext' \in [Nodes -> Words] /\ ListIntact' /\ Short'
      /\ \A u \in Threads : listOp[u] = "pop" /\ listPc[u] = "cas" /\ m_Head = oldHead[u]
                            => pNext'[oldHead[u].Next] = pNext[oldHead[u].Next]
  BY <1>1, <1>2, OutsideWrite
<1>4. TypeOK'
  BY <1>2, <1>3 DEF TypeOK
<1>5. PushedApart'
  <2>1. pNext'[n] = oldHead[t].Next
    BY <1>1, <1>2 DEF TypeOK
  <2>2. ASSUME NEW u \in Threads, u # t, Pushing(u), listPc[u] = "cas"
        PROVE  pNext'[listNode[u]] = oldHead[u].Next
    <3>1. listNode[u] # n /\ listNode[u] \in Nodes /\ pNext[listNode[u]] = oldHead[u].Next
      BY <1>1, <2>2 DEF PushedApart
    <3> QED BY <1>2, <3>1 DEF TypeOK
  <2>3. \A u \in Threads : Pushing(u)' = Pushing(u) /\ (u # t => listPc'[u] = listPc[u])
    BY <1>2 DEF Pushing, TypeOK, LinkToOldHead
  <2> QED BY <1>2, <2>1, <2>2, <2>3 DEF PushedApart
<1>6. ReadsCurrent'
  <2>1. \A u \in Threads : listOp[u] \in {"pop", "detach"} => listPc'[u] = listPc[u]
    BY <1>1, <1>2 DEF TypeOK
  <2> QED BY <1>2, <1>3, <2>1 DEF ReadsCurrent
<1>7. ReadsOld'
  <2>1. \A u \in Threads : HasSequence(u)' = HasSequence(u)
    BY <1>2 DEF HasSequence, LinkToOldHead, TypeOK
  <2> QED BY <1>2, <2>1 DEF ReadsOld
<1> QED BY <1>3, <1>4, <1>5, <1>6, <1>7

LEMMA UseStep == ASSUME IInv, NEW n \in Nodes, Use(n) PROVE IInv'
<1> USE DEF IInv
<1>1. PICK w \in Words : pNext' = [pNext EXCEPT ![n] = w]
  BY DEF Use, Words
<1>2. /\ UNCHANGED <<m_Head, listOp, listPc, listNode, oldHead, newNext, stack, since>>
      /\ n \notin Range(stack) /\ \A t \in Threads : ~(Pushing(t) /\ listNode[t] = n)
  BY DEF Use, calls, Owned
<1>3. /\ pNext' \in [Nodes -> Words] /\ ListIntact' /\ Short'
      /\ \A u \in Threads : listOp[u] = "pop" /\ listPc[u] = "cas" /\ m_Head = oldHead[u]
                            => pNext'[oldHead[u].Next] = pNext[oldHead[u].Next]
  BY <1>1, <1>2, OutsideWrite
<1>4. TypeOK' /\ ReadsCurrent' /\ ReadsOld'
  BY <1>2, <1>3 DEF TypeOK, ReadsCurrent, ReadsOld, HasSequence
<1>5. PushedApart'
  BY <1>1, <1>2 DEF PushedApart, Pushing, TypeOK
<1> QED BY <1>3, <1>4, <1>5

(* When the head changes, nothing that a thread has read is the head: either there was
   a push since, or the list is shorter than it was. *)
LEMMA HeadMoves ==
  ASSUME IInv, stack' \in Seq(Nodes), m_Head' \in Heads, ListIntact',
         UNCHANGED pNext, NEW t \in Threads,
         \A u \in Threads \ {t} : oldHead'[u] = oldHead[u] /\ newNext'[u] = newNext[u]
                                  /\ listPc'[u] = listPc[u],
         oldHead'[t] = NoHead, listPc'[t] = "idle", UNCHANGED listOp,
         since'[t] = 0,
         \/ /\ m_Head'.Sequence = Ahead(m_Head.Sequence, 1)
            /\ \A u \in Threads \ {t} :
                 since[u] < MaxSince /\ since'[u] = IF HasSequence(u) THEN since[u] + 1 ELSE 0
         \/ /\ m_Head'.Sequence = m_Head.Sequence /\ Len(stack') < Len(stack)
            /\ \A u \in Threads \ {t} : since'[u] = since[u]
  PROVE  ReadsOld' /\ ReadsCurrent'
<1> USE DEF IInv
<1>1. /\ Len(stack) \in Nat /\ Len(stack') \in Nat /\ HALF \in Nat /\ MaxSince < HALF /\ MaxSince \in Nat
      /\ m_Head'.Depth = Len(stack')
      /\ \A u \in Threads : since[u] \in 0..MaxSince
      /\ \A u \in Threads : oldHead[u].Sequence \in 0..(HALF - 1) /\ oldHead[u].Depth \in Nat
  BY SMTT(30), ListAssumption DEF TypeOK, Heads, ListIntact
<1>2. ~HasSequence(t)' /\ \A u \in Threads \ {t} : HasSequence(u)' = HasSequence(u)
  BY DEF HasSequence
<1>3. ASSUME NEW u \in Threads \ {t}, HasSequence(u)
      PROVE  /\ m_Head'.Sequence = Ahead(oldHead[u].Sequence, since'[u])
             /\ since'[u] = 0 => Len(stack') <= oldHead[u].Depth
             /\ m_Head' # oldHead[u]
  <2>1. /\ m_Head.Sequence = Ahead(oldHead[u].Sequence, since[u])
        /\ since[u] = 0 => Len(stack) <= oldHead[u].Depth
    BY <1>3 DEF ReadsOld
  <2> DEFINE s == oldHead[u].Sequence
             k == since[u]
  <2>2. s \in 0..(HALF - 1) /\ k \in Nat /\ k <= MaxSince /\ k < HALF
    BY <1>1
  <2>3. CASE m_Head'.Sequence = Ahead(m_Head.Sequence, 1)
             /\ since[u] < MaxSince /\ since'[u] = IF HasSequence(u) THEN since[u] + 1 ELSE 0
    <3>1. since'[u] = k + 1 /\ k + 1 \in Nat /\ k + 1 < HALF /\ k + 1 # 0
      BY <1>1, <1>3, <2>2, <2>3
    <3> HIDE DEF s, k
    <3>2. Ahead(Ahead(s, k), 1) = Ahead(s, k + 1) /\ Ahead(s, k + 1) # s
      BY <2>2, <3>1, AheadIsNot
    <3>3. m_Head'.Sequence = Ahead(s, k + 1)
      BY <2>1, <2>3, <3>2 DEF s, k
    <3> QED BY <3>1, <3>2, <3>3 DEF s
  <2>4. CASE m_Head'.Sequence = m_Head.Sequence /\ Len(stack') < Len(stack) /\ since'[u] = since[u]
    <3>1. CASE k = 0
      BY <1>1, <2>1, <2>4, <3>1
    <3>2. CASE k # 0
      <4>1. Ahead(s, k) # s
        BY <2>2, <3>2, AheadIsNot
      <4> QED BY <2>1, <2>4, <3>2, <4>1
    <3> QED BY <3>1, <3>2
  <2> QED BY <2>3, <2>4
<1>4. ReadsOld'
  <2>1. ASSUME NEW u \in Threads \ {t}, ~HasSequence(u)
        PROVE  since'[u] = 0
    BY <2>1 DEF ReadsOld
  <2> QED BY <1>2, <1>3, <2>1 DEF ReadsOld
<1>5. ReadsCurrent'
  <2>1. ASSUME NEW u \in Threads, listOp'[u] \in {"pop", "detach"}, listPc'[u] = "cas"
        PROVE  u # t /\ HasSequence(u) /\ oldHead'[u].Next \in Nodes /\ m_Head' # oldHead'[u]
    BY <1>3, <2>1 DEF ReadsCurrent, HasSequence
  <2> QED BY <2>1 DEF ReadsCurrent
<1> QED BY <1>4, <1>5

(* What a successful exchange knows. *)
LEMMA AtExchange ==
  ASSUME IInv, NEW t \in Threads, NEW op \in {"push", "pop", "detach"}, AtCas(t, op)
  PROVE  /\ stack \in Seq(Nodes) /\ Len(stack) \in Nat
         /\ op = "push" =>
              /\ listNode[t] \in Nodes /\ listNode[t] \notin Range(stack)
              /\ pNext[listNode[t]] = (IF stack = <<>> THEN NULL ELSE Head(stack))
         /\ op # "push" =>
              /\ stack # <<>> /\ m_Head.Depth # 0
              /\ oldHead[t].Next = Head(stack) /\ oldHead[t].Next \in Nodes
              /\ Head(stack) = stack[1] /\ Len(stack) >= 1
         /\ op = "pop" => newNext[t] = IF Tail(stack) = <<>> THEN NULL ELSE Head(Tail(stack))
<1> USE DEF IInv, AtCas
<1>1. /\ stack \in Seq(Nodes) /\ Len(stack) \in Nat
      /\ m_Head = oldHead[t] /\ listOp[t] = op /\ listPc[t] = "cas"
  BY DEF TypeOK
<1>2. ASSUME op = "push"
      PROVE  /\ listNode[t] \in Nodes /\ listNode[t] \notin Range(stack)
             /\ pNext[listNode[t]] = (IF stack = <<>> THEN NULL ELSE Head(stack))
  BY <1>1, <1>2 DEF PushedApart, Pushing, ListIntact
<1>3. ASSUME op # "push"
      PROVE  /\ stack # <<>> /\ m_Head.Depth # 0
             /\ oldHead[t].Next = Head(stack) /\ oldHead[t].Next \in Nodes
             /\ Head(stack) = stack[1] /\ Len(stack) >= 1
  <2>1. oldHead[t].Next \in Nodes
    BY <1>1, <1>3 DEF ReadsCurrent
  <2>2. stack # <<>> /\ oldHead[t].Next = Head(stack)
    BY <1>1, <2>1, ListAssumption DEF ListIntact
  <2>3. Len(stack) >= 1 /\ Head(stack) = stack[1]
    BY <1>1, <2>2, WithoutFirst
  <2> QED BY <2>1, <2>2, <2>3 DEF ListIntact
<1>4. ASSUME op = "pop"
      PROVE  newNext[t] = IF Tail(stack) = <<>> THEN NULL ELSE Head(Tail(stack))
  <2>1. newNext[t] = pNext[stack[1]]
    BY <1>1, <1>3, <1>4 DEF ReadsCurrent
  <2>2. newNext[t] = IF 1 = Len(stack) THEN NULL ELSE stack[2]
    <3>1. 1 \in 1..Len(stack)
      BY <1>1, <1>3, <1>4
    <3>2. pNext[stack[1]] = (IF 1 = Len(stack) THEN NULL ELSE stack[1 + 1])
      BY <3>1 DEF ListIntact
    <3> QED BY <2>1, <3>2
  <2>3. /\ Tail(stack) # <<>> => Len(stack) >= 2 /\ Head(Tail(stack)) = stack[2]
        /\ Tail(stack) = <<>> => Len(stack) = 1
    BY <1>1, <1>3, <1>4, WithoutFirst
  <2> QED BY <2>2, <2>3
<1> QED BY <1>1, <1>2, <1>3, <1>4

(* The locals of a call that returns. *)
LEMMA Returned ==
  ASSUME TypeOK, NEW t \in Threads, NEW n \in Nodes \cup {NULL}, Return(t, n)
  PROVE  /\ listPc' \in [Threads -> {"idle", "read", "readRest", "readNext", "loaded", "cas"}]
         /\ listNode' \in [Threads -> Nodes \cup {NULL}]
         /\ oldHead' \in [Threads -> Heads] /\ newNext' \in [Threads -> Words]
         /\ oldHead'[t] = NoHead /\ listPc'[t] = "idle" /\ listNode'[t] = n
         /\ \A u \in Threads \ {t} :
              oldHead'[u] = oldHead[u] /\ newNext'[u] = newNext[u]
              /\ listPc'[u] = listPc[u] /\ listNode'[u] = listNode[u]
<1>1. NoHead \in Heads /\ NULL \in Words
  BY ListAssumption DEF NoHead, Heads, Words
<1> QED BY <1>1 DEF TypeOK, Return, Goto, Forget

LEMMA PushStep == ASSUME IInv, NEW t \in Threads, CasPush(t) PROVE IInv'
<1> USE DEF IInv
<1> DEFINE n == listNode[t]
<1>1. /\ AtCas(t, "push") /\ m_Head = oldHead[t]
      /\ Len(stack) < MaxNodes /\ \A u \in Threads : since[u] < MaxSince
      /\ m_Head' = Pushed(m_Head, n) /\ stack' = <<n>> \o stack
      /\ since' = [u \in Threads |-> IF u # t /\ HasSequence(u) THEN since[u] + 1 ELSE 0]
      /\ Return(t, NULL) /\ UNCHANGED <<pNext, listOp>>
      /\ listOp[t] = "push" /\ listPc[t] = "cas"
  BY DEF CasPush, AtCas
<1>2. /\ stack \in Seq(Nodes) /\ Len(stack) \in Nat
      /\ n \in Nodes /\ n \notin Range(stack)
      /\ pNext[n] = (IF stack = <<>> THEN NULL ELSE Head(stack))
  BY <1>1, AtExchange
<1>3. m_Head' = [Next |-> n, Depth |-> m_Head.Depth + 1, Sequence |-> Ahead(m_Head.Sequence, 1)]
  BY <1>1, Halves
<1>4. /\ stack' \in Seq(Nodes) /\ Len(stack') = Len(stack) + 1 /\ stack' # <<>>
      /\ Head(stack') = n /\ stack'[1] = n
      /\ \A i \in 2..Len(stack') : stack'[i] = stack[i - 1]
  BY <1>1, <1>2, InFront
<1>5. Short' /\ since' \in [Threads -> 0..MaxSince]
  <2>1. Short'
    BY <1>1, <1>2, <1>4, ListAssumption DEF Short
  <2>2. \A u \in Threads : since[u] \in 0..MaxSince /\ since[u] < MaxSince
    BY <1>1 DEF TypeOK
  <2>3. \A u \in Threads : since[u] + 1 \in 0..MaxSince /\ 0 \in 0..MaxSince
    BY <2>2, ListAssumption
  <2> QED BY <1>1, <2>1, <2>3
<1>6. m_Head' \in Heads
  <2>1. m_Head.Sequence \in 0..(HALF - 1) /\ m_Head.Depth = Len(stack) /\ HALF \in Nat
    BY ListAssumption DEF TypeOK, Heads, ListIntact
  <2>2. m_Head.Depth + 1 \in 0..(HALF - 1)
    BY <1>1, <1>2, <2>1, ListAssumption
  <2>3. Ahead(m_Head.Sequence, 1) \in 0..(HALF - 1)
    BY <2>1 DEF Ahead
  <2> QED BY <1>2, <1>3, <2>2, <2>3 DEF Heads
<1>7. ListIntact'
  <2>1. m_Head'.Next = Head(stack') /\ m_Head'.Depth = Len(stack')
    BY <1>3, <1>4 DEF ListIntact
  <2>2. ASSUME NEW i \in 1..Len(stack')
        PROVE  pNext'[stack'[i]] = (IF i = Len(stack') THEN NULL ELSE stack'[i + 1])
    <3>1. CASE i = 1
      <4>1. CASE stack = <<>>
        BY <1>1, <1>2, <1>4, <3>1, <4>1
      <4>2. CASE stack # <<>>
        <5>1. Len(stack) >= 1 /\ Head(stack) = stack[1]
          BY <1>2, <4>2, WithoutFirst
        <5> QED BY <1>1, <1>2, <1>4, <3>1, <4>2, <5>1
      <4> QED BY <4>1, <4>2
    <3>2. CASE i # 1
      <4>1. i \in 2..Len(stack') /\ i - 1 \in 1..Len(stack)
        BY ONLY <1>2, <1>4, <3>2, i \in 1..Len(stack')
      <4> stack'[i] = stack[i - 1]
        BY ONLY <1>4, <4>1
      <4>2. pNext[stack[i - 1]] = (IF i - 1 = Len(stack) THEN NULL ELSE stack[(i - 1) + 1])
        BY <4>1 DEF ListIntact
      <4> QED BY <1>1, <1>2, <1>4, <4>1, <4>2
    <3> QED BY <3>1, <3>2
  <2>3. ASSUME NEW i \in 1..Len(stack'), NEW j \in 1..Len(stack'), stack'[i] = stack'[j]
        PROVE  i = j
    <3>1. \A k \in 1..Len(stack) : stack[k] # n
      BY <1>2, Elements
    <3>2. \A k \in 1..Len(stack') :
            k = 1 \/ (k \in 2..Len(stack') /\ k - 1 \in 1..Len(stack))
      BY ONLY <1>2, <1>4
    <3>3. \A k \in 1..Len(stack') :
            k = 1 \/ (k - 1 \in 1..Len(stack) /\ stack'[k] = stack[k - 1])
      BY ONLY <1>4, <3>2
    <3>4. i = 1 <=> j = 1
      BY ONLY <1>4, <2>3, <3>1, <3>3
    <3>5. \A k, l \in 1..Len(stack) : stack[k] = stack[l] => k = l
      BY DEF ListIntact
    <3>6. i # 1 => i - 1 = j - 1
      BY ONLY <2>3, <3>3, <3>4, <3>5, i \in 1..Len(stack'), j \in 1..Len(stack')
    <3> QED BY ONLY <3>4, <3>6, i \in 1..Len(stack'), j \in 1..Len(stack'), <1>2, <1>4
  <2> QED BY <1>4, <2>1, <2>2, <2>3 DEF ListIntact
<1>8. /\ listPc' \in [Threads -> {"idle", "read", "readRest", "readNext", "loaded", "cas"}]
      /\ listNode' \in [Threads -> Nodes \cup {NULL}]
      /\ oldHead' \in [Threads -> Heads] /\ newNext' \in [Threads -> Words]
      /\ oldHead'[t] = NoHead /\ listPc'[t] = "idle"
      /\ \A u \in Threads \ {t} :
           oldHead'[u] = oldHead[u] /\ newNext'[u] = newNext[u]
           /\ listPc'[u] = listPc[u] /\ listNode'[u] = listNode[u]
  BY <1>1, Returned
<1>9. TypeOK'
  BY <1>1, <1>4, <1>5, <1>6, <1>8 DEF TypeOK
<1>10. ReadsOld' /\ ReadsCurrent'
  <2>1. /\ since'[t] = 0 /\ m_Head'.Sequence = Ahead(m_Head.Sequence, 1)
        /\ \A u \in Threads \ {t} :
             since[u] < MaxSince /\ since'[u] = IF HasSequence(u) THEN since[u] + 1 ELSE 0
    BY <1>1, <1>3
  <2> QED BY <1>1, <1>4, <1>6, <1>7, <1>8, <2>1, HeadMoves
<1>11. PushedApart'
  <2>1. ASSUME NEW u \in Threads, Pushing(u)'
        PROVE  u # t /\ Pushing(u) /\ listNode'[u] = listNode[u] /\ listNode[u] # n
    BY <1>1, <1>8, <2>1 DEF Pushing, PushedApart
  <2>2. \A x : x \in Range(stack') <=> x = n \/ x \in Range(stack)
    <3>1. \A x : x \in Range(stack') <=> \E i \in 1..Len(stack') : x = stack'[i]
      BY <1>4, Elements
    <3>2. \A x : x \in Range(stack) <=> \E i \in 1..Len(stack) : x = stack[i]
      BY <1>2, Elements
    <3>3. \A i \in 1..Len(stack) : i + 1 \in 2..Len(stack') /\ (i + 1) - 1 = i
      BY ONLY <1>2, <1>4
    <3>4. \A i \in 1..Len(stack) : i + 1 \in 1..Len(stack') /\ stack'[i + 1] = stack[i]
      BY ONLY <1>2, <1>4, <3>3
    <3>5. \A i \in 1..Len(stack') :
            i = 1 \/ (i \in 2..Len(stack') /\ i - 1 \in 1..Len(stack))
      BY ONLY <1>2, <1>4
    <3>6. 1 \in 1..Len(stack')
      BY ONLY <1>2, <1>4
    <3>7. \A x : x = n \/ x \in Range(stack) => x \in Range(stack')
      BY ONLY SMTT(30), <1>4, <3>1, <3>2, <3>4, <3>6
    <3>8. \A x : x \in Range(stack') => x = n \/ x \in Range(stack)
      BY ONLY <1>4, <3>1, <3>2, <3>5
    <3> QED BY ONLY <3>7, <3>8
  <2>3. ASSUME NEW u \in Threads, Pushing(u)'
        PROVE  /\ listNode'[u] \in Nodes /\ listNode'[u] \notin Range(stack')
               /\ listPc'[u] = "cas" => pNext'[listNode'[u]] = oldHead'[u].Next
    BY <1>1, <1>8, <2>1, <2>2, <2>3 DEF PushedApart
  <2>4. \A u, v \in Threads : Pushing(u)' /\ Pushing(v)' /\ v # u => listNode'[v] # listNode'[u]
    BY <2>1 DEF PushedApart
  <2> QED BY <2>3, <2>4 DEF PushedApart
<1> QED BY <1>5, <1>7, <1>9, <1>10, <1>11

(* Pop and Detach leave a part of the list. *)
LEMMA TakeStep ==
  ASSUME IInv, NEW t \in Threads, NEW n \in Nodes, Return(t, n),
         listOp[t] # "push", UNCHANGED <<pNext, listOp>>, since' = [since EXCEPT ![t] = 0],
         stack' \in Seq(Nodes), Len(stack') < Len(stack),
         Range(stack') \subseteq Range(stack), m_Head' \in Heads,
         m_Head'.Sequence = m_Head.Sequence, ListIntact'
  PROVE  IInv'
<1> USE DEF IInv
<1>1. /\ listPc' \in [Threads -> {"idle", "read", "readRest", "readNext", "loaded", "cas"}]
      /\ listNode' \in [Threads -> Nodes \cup {NULL}]
      /\ oldHead' \in [Threads -> Heads] /\ newNext' \in [Threads -> Words]
      /\ oldHead'[t] = NoHead /\ listPc'[t] = "idle"
      /\ \A u \in Threads \ {t} :
           oldHead'[u] = oldHead[u] /\ newNext'[u] = newNext[u]
           /\ listPc'[u] = listPc[u] /\ listNode'[u] = listNode[u]
  BY Returned
<1>2. /\ since' \in [Threads -> 0..MaxSince] /\ since'[t] = 0
      /\ \A u \in Threads \ {t} : since'[u] = since[u]
  BY ListAssumption DEF TypeOK
<1>3. TypeOK'
  BY <1>1, <1>2 DEF TypeOK
<1>4. Short'
  <2>1. Len(stack) \in Nat /\ Len(stack') \in Nat /\ MaxNodes \in Nat
    BY ListAssumption DEF TypeOK
  <2> QED BY <2>1 DEF Short
<1>5. ReadsOld' /\ ReadsCurrent'
  BY <1>1, <1>2, HeadMoves
<1>6. PushedApart'
  BY <1>1 DEF PushedApart, Pushing
<1> QED BY <1>3, <1>4, <1>5, <1>6

LEMMA PopStep == ASSUME IInv, NEW t \in Threads, CasPop(t) PROVE IInv'
<1> USE DEF IInv
<1>1. /\ AtCas(t, "pop") /\ m_Head = oldHead[t] /\ listOp[t] = "pop"
      /\ m_Head' = Popped(m_Head, newNext[t]) /\ stack' = Tail(stack)
      /\ Return(t, oldHead[t].Next) /\ UNCHANGED <<pNext, listOp>>
      /\ since' = [since EXCEPT ![t] = 0]
  BY DEF CasPop, AtCas
<1>2. /\ stack \in Seq(Nodes) /\ Len(stack) \in Nat /\ stack # <<>> /\ m_Head.Depth # 0
      /\ oldHead[t].Next \in Nodes
      /\ newNext[t] = IF Tail(stack) = <<>> THEN NULL ELSE Head(Tail(stack))
  BY <1>1, AtExchange
<1>3. m_Head' = [Next |-> newNext[t], Depth |-> m_Head.Depth - 1, Sequence |-> m_Head.Sequence]
  BY <1>1, <1>2, Halves
<1>4. /\ stack' \in Seq(Nodes) /\ Len(stack') = Len(stack) - 1 /\ Len(stack) >= 1
      /\ \A i \in 1..(Len(stack) - 1) : stack'[i] = stack[i + 1]
  BY <1>1, <1>2, WithoutFirst
<1>5. newNext[t] \in Nodes \cup {NULL}
  BY <1>1, <1>2, <1>4, HeadTailProperties
<1>6. m_Head' \in Heads
  BY SMTT(30), <1>2, <1>3, <1>5, ListAssumption DEF TypeOK, Heads
<1>7. ListIntact'
  <2>1. m_Head'.Next = (IF stack' = <<>> THEN NULL ELSE Head(stack')) /\ m_Head'.Depth = Len(stack')
    <3>1. m_Head'.Next = newNext[t] /\ m_Head'.Depth = m_Head.Depth - 1
      BY ONLY <1>3
    <3>2. newNext[t] = (IF stack' = <<>> THEN NULL ELSE Head(stack'))
      BY ONLY <1>1, <1>2
    <3>3. m_Head.Depth = Len(stack)
      BY DEF ListIntact
    <3> QED BY ONLY <1>4, <3>1, <3>2, <3>3
  <2>2. \A i \in 1..Len(stack') :
          i \in 1..(Len(stack) - 1) /\ i + 1 \in 1..Len(stack) /\ stack'[i] = stack[i + 1]
    BY ONLY <1>2, <1>4
  <2>3. ASSUME NEW i \in 1..Len(stack')
        PROVE  pNext'[stack'[i]] = (IF i = Len(stack') THEN NULL ELSE stack'[i + 1])
    <3>1. pNext[stack[i + 1]] = (IF i + 1 = Len(stack) THEN NULL ELSE stack[(i + 1) + 1])
      BY <2>2 DEF ListIntact
    <3>2. i + 1 = Len(stack) <=> i = Len(stack')
      BY ONLY <1>2, <1>4, i \in 1..Len(stack')
    <3>3. i # Len(stack') => i + 1 \in 1..Len(stack')
      BY ONLY <1>2, <1>4, i \in 1..Len(stack')
    <3> QED BY ONLY <1>1, <2>2, <3>1, <3>2, <3>3, i \in 1..Len(stack')
  <2>4. ASSUME NEW i \in 1..Len(stack'), NEW j \in 1..Len(stack'), stack'[i] = stack'[j]
        PROVE  i = j
    <3>1. i + 1 = j + 1
      BY <2>2, <2>4 DEF ListIntact
    <3> QED BY ONLY <3>1, <1>2, <1>4, i \in 1..Len(stack'), j \in 1..Len(stack')
  <2> QED BY <2>1, <2>3, <2>4 DEF ListIntact
<1>8. Range(stack') \subseteq Range(stack)
  <2>1. \A x : x \in Range(stack') <=> \E i \in 1..Len(stack') : x = stack'[i]
    BY <1>4, Elements
  <2>2. \A x : x \in Range(stack) <=> \E i \in 1..Len(stack) : x = stack[i]
    BY <1>2, Elements
  <2>3. \A i \in 1..Len(stack') : i + 1 \in 1..Len(stack) /\ stack'[i] = stack[i + 1]
    BY <1>2, <1>4
  <2> QED BY <2>1, <2>2, <2>3
<1>9. Len(stack') < Len(stack) /\ m_Head'.Sequence = m_Head.Sequence
  BY <1>2, <1>3, <1>4
<1> QED BY <1>1, <1>2, <1>4, <1>6, <1>7, <1>8, <1>9, TakeStep

LEMMA DetachStep == ASSUME IInv, NEW t \in Threads, CasDetach(t) PROVE IInv'
<1> USE DEF IInv
<1>1. /\ AtCas(t, "detach") /\ m_Head = oldHead[t] /\ listOp[t] = "detach"
      /\ m_Head' = Detached(m_Head) /\ stack' = <<>>
      /\ Return(t, oldHead[t].Next) /\ UNCHANGED <<pNext, listOp>>
      /\ since' = [since EXCEPT ![t] = 0]
  BY DEF CasDetach, AtCas
<1>2. /\ Len(stack) \in Nat /\ Len(stack) >= 1 /\ oldHead[t].Next \in Nodes
  BY <1>1, AtExchange
<1>3. m_Head' \in Heads /\ m_Head'.Sequence = m_Head.Sequence
      /\ m_Head'.Next = NULL /\ m_Head'.Depth = 0
  <2>1. m_Head \in Heads /\ HALF \in Nat /\ 0 < HALF
    BY ListAssumption DEF TypeOK
  <2>2. m_Head' = [Next |-> NULL, Depth |-> 0, Sequence |-> m_Head.Sequence]
    BY <1>1, <2>1 DEF Detached, Heads
  <2> QED BY <2>1, <2>2 DEF Heads
<1>4. stack' \in Seq(Nodes) /\ Len(stack') = 0 /\ Range(stack') = {}
  BY <1>1 DEF Range
<1>5. ListIntact'
  BY <1>1, <1>3, <1>4 DEF ListIntact
<1>6. /\ Len(stack') < Len(stack) /\ Range(stack') \subseteq Range(stack)
      /\ listOp[t] # "push"
  BY <1>1, <1>2, <1>4
<1> QED BY <1>1, <1>2, <1>3, <1>4, <1>5, <1>6, TakeStep

LEMMA InvStep == IInv /\ [Next]_vars => IInv'
<1> SUFFICES ASSUME IInv, [Next]_vars PROVE IInv'
  OBVIOUS
<1>1. ASSUME NEW t \in Threads, (\E n \in Nodes : CallPush(t, n)) \/ CallPop(t) \/ CallDetach(t)
      PROVE  IInv'
  BY <1>1, CallStep
<1>2. ASSUME NEW t \in Threads, Inside(t) PROVE IInv'
  BY <1>2, ReadStep, LinkStep, PushStep, PopStep, DetachStep DEF Inside
<1>3. ASSUME NEW n \in Nodes, Use(n) PROVE IInv'
  BY <1>3, UseStep
<1>4. CASE UNCHANGED vars
  BY <1>4 DEF vars, calls, IInv, TypeOK, ListIntact, Short, PushedApart, Pushing, ReadsOld,
              ReadsCurrent, HasSequence
<1> QED BY <1>1, <1>2, <1>3, <1>4 DEF Next

-----------------------------------------------------------------------------
(* The word, the nodes and the locals of the calls keep their types; an address that a
   thread takes from a node's memory gets into the head only if it is one. *)
THEOREM ListTypeCorrect == Spec => []TypeOK
<1> QED BY InitInv, InvStep, PTL DEF Spec, IInv

(* The head and the links are the list: no exchange succeeds with an address that a
   thread read before the list changed, though nodes come back (tslist.h:243, 280). *)
THEOREM ListIsIntact == Spec => []ListIntact
<1> QED BY InitInv, InvStep, PTL DEF Spec, IInv

-----------------------------------------------------------------------------
(* Refinement *)

(* A call of Pop or Detach has nothing to return yet. *)
NothingTaken ==
  \A t \in Threads : listOp[t] \in {"pop", "detach"} /\ listPc[t] # "idle" => listNode[t] = NULL

LEMMA TakenStep == TypeOK /\ NothingTaken /\ [Next]_vars => NothingTaken'
<1> SUFFICES ASSUME TypeOK, NothingTaken, [Next]_vars PROVE NothingTaken'
  OBVIOUS
<1> USE DEF NothingTaken, TypeOK, Goto, Return, Forget
<1>1. ASSUME NEW t \in Threads, NEW op \in {"push", "pop", "detach"}, NEW n \in Nodes \cup {NULL},
             Call(t, op, n), op # "push" => n = NULL
      PROVE  NothingTaken'
  BY <1>1 DEF Call
<1>2. ASSUME NEW t \in Threads, (\E n \in Nodes : CallPush(t, n)) \/ CallPop(t) \/ CallDetach(t)
      PROVE  NothingTaken'
  BY <1>1, <1>2 DEF CallPush, CallPop, CallDetach
<1>3. ASSUME NEW t \in Threads, Inside(t) PROVE NothingTaken'
  <2>1. /\ listOp' = listOp /\ listPc[t] # "idle"
        /\ listPc'[t] = "idle" \/ listNode'[t] = listNode[t]
        /\ \A u \in Threads \ {t} : listPc'[u] = listPc[u] /\ listNode'[u] = listNode[u]
    BY <1>3 DEF Inside, ReadNext, ReadDepthAndSequence, LinkToOldHead, ReturnNull, ReadSecond,
         DetachLoaded, CasPush, CasPop, CasDetach, CasFails, AtCas
  <2> QED BY <2>1
<1>4. CASE (\E n \in Nodes : Use(n)) \/ UNCHANGED vars
  BY <1>4 DEF Use, vars, calls
<1> QED BY <1>2, <1>3, <1>4 DEF Next

(* Where a thread stands in the eyes of the abstract stack. *)
LEMMA PendingOf ==
  /\ \A t \in Threads :
       Pending[t] = IF listPc[t] = "idle" \/ FoundNull(t) THEN "none" ELSE listOp[t]
  /\ \A t \in Threads :
       Pending'[t] = IF listPc'[t] = "idle" \/ FoundNull(t)' THEN "none" ELSE listOp'[t]
BY DEF Pending

(* One thread's step, to the abstract stack. *)
LEMMA PendingStep ==
  ASSUME NEW t \in Threads, NEW p,
         \A u \in Threads \ {t} :
           listPc'[u] = listPc[u] /\ listOp'[u] = listOp[u] /\ oldHead'[u] = oldHead[u],
         p = IF listPc'[t] = "idle" \/ FoundNull(t)' THEN "none" ELSE listOp'[t]
  PROVE  Pending' = [Pending EXCEPT ![t] = p]
<1>1. \A u \in Threads \ {t} : Pending'[u] = Pending[u]
  BY PendingOf DEF FoundNull
<1>2. Pending'[t] = p
  BY PendingOf
<1>3. /\ Pending' = [u \in Threads |-> Pending'[u]]
      /\ [Pending EXCEPT ![t] = p] = [u \in Threads |-> IF u = t THEN p ELSE Pending[u]]
  BY DEF Pending
<1> QED BY <1>1, <1>2, <1>3

LEMMA CallImplements ==
  ASSUME TypeOK, NEW t \in Threads, NEW op \in {"push", "pop", "detach"},
         NEW n \in Nodes \cup {NULL}, Call(t, op, n)
  PROVE  Abstract!Call(t, op, n)
<1>1. Pending[t] = "none"
  BY PendingOf DEF Call
<1>2. /\ \A u \in Threads \ {t} :
           listPc'[u] = listPc[u] /\ listOp'[u] = listOp[u] /\ oldHead'[u] = oldHead[u]
      /\ listPc'[t] = "read" /\ listOp'[t] = op
  BY DEF Call, TypeOK
<1>3. Pending' = [Pending EXCEPT ![t] = op]
  BY <1>2, PendingStep DEF FoundNull
<1> QED BY <1>1, <1>3 DEF Call, Abstract!Call

LEMMA ReadImplements ==
  ASSUME IInv, NothingTaken, NEW t \in Threads,
         \/ ReadNext(t) \/ ReadDepthAndSequence(t) \/ LinkToOldHead(t) \/ ReturnNull(t)
         \/ ReadSecond(t) \/ DetachLoaded(t) \/ CasFails(t)
  PROVE  Abstract!Pop(t) \/ Abstract!Detach(t) \/ UNCHANGED Abstract!vars
<1> USE DEF IInv, Goto, Return, Forget
<1>1. /\ UNCHANGED <<stack, listOp, m_Head>> /\ listPc[t] # "idle" /\ listOp[t] \in {"none", "push", "pop", "detach"}
      /\ \A u \in Threads \ {t} :
           listPc'[u] = listPc[u] /\ listOp'[u] = listOp[u] /\ oldHead'[u] = oldHead[u]
  BY DEF TypeOK, ReadNext, ReadDepthAndSequence, LinkToOldHead, ReturnNull, ReadSecond, DetachLoaded, CasFails
<1>2. listNode' = listNode
  <2>1. CASE ReturnNull(t)
    <3>1. listNode[t] = NULL /\ listNode' = [listNode EXCEPT ![t] = NULL]
      BY <2>1 DEF ReturnNull, NothingTaken
    <3> QED BY <3>1 DEF TypeOK
  <2> QED BY <2>1 DEF ReadNext, ReadDepthAndSequence, LinkToOldHead, ReadSecond, DetachLoaded, CasFails
<1> DEFINE p == IF listPc'[t] = "idle" \/ FoundNull(t)' THEN "none" ELSE listOp'[t]
<1>3. Pending' = [Pending EXCEPT ![t] = p]
  BY <1>1, PendingStep
<1>4. CASE p = Pending[t]
  <2>1. Pending' = Pending
    BY <1>3, <1>4 DEF Pending
  <2> QED BY <1>1, <1>2, <2>1 DEF Abstract!vars
<1>5. CASE p # Pending[t]
  <2>1. ~FoundNull(t) /\ FoundNull(t)' /\ ReadNext(t)
    BY <1>1, <1>5, PendingOf DEF TypeOK, Heads, FoundNull, ReadNext, ReadDepthAndSequence,
         LinkToOldHead, ReturnNull, ReadSecond, DetachLoaded, CasFails
  <2>2. m_Head.Next = NULL /\ listOp[t] \in {"pop", "detach"} /\ listNode[t] = NULL
    BY <1>1, <2>1 DEF FoundNull, ReadNext, TypeOK, Heads, NothingTaken
  <2>3. stack = <<>>
    <3>1. stack # <<>> => Head(stack) \in Nodes
      BY WithoutFirst DEF TypeOK
    <3> QED BY <2>2, <3>1, ListAssumption DEF ListIntact
  <2>4. Pending[t] = listOp[t] /\ p = "none"
    BY <1>1, <2>1, PendingOf
  <2>5. listNode' = [listNode EXCEPT ![t] = NULL]
    BY <1>2, <2>2 DEF TypeOK
  <2> QED BY <1>1, <1>3, <2>2, <2>3, <2>4, <2>5
          DEF Abstract!Pop, Abstract!Detach, Abstract!Done, Abstract!Top
<1> QED BY <1>4, <1>5

LEMMA ExchangeImplements ==
  ASSUME IInv, NEW t \in Threads, CasPush(t) \/ CasPop(t) \/ CasDetach(t)
  PROVE  Abstract!Push(t) \/ Abstract!Pop(t) \/ Abstract!Detach(t)
<1>1. /\ listPc[t] = "cas" /\ listPc'[t] = "idle" /\ UNCHANGED listOp
      /\ \A u \in Threads \ {t} :
           listPc'[u] = listPc[u] /\ listOp'[u] = listOp[u] /\ oldHead'[u] = oldHead[u]
  BY DEF IInv, TypeOK, CasPush, CasPop, CasDetach, AtCas, Return, Goto, Forget
<1>2. Pending[t] = listOp[t] /\ Pending' = [Pending EXCEPT ![t] = "none"]
  BY <1>1, PendingOf, PendingStep DEF FoundNull
<1>3. CASE CasPush(t)
  BY <1>2, <1>3 DEF CasPush, AtCas, Return, Abstract!Push, Abstract!Done
<1>4. CASE CasPop(t)
  <2>1. stack # <<>> /\ oldHead[t].Next = Head(stack)
    BY <1>4, AtExchange DEF CasPop
  <2> QED BY <1>2, <1>4, <2>1 DEF CasPop, AtCas, Return, Abstract!Pop, Abstract!Done, Abstract!Top
<1>5. CASE CasDetach(t)
  <2>1. stack # <<>> /\ oldHead[t].Next = Head(stack)
    BY <1>5, AtExchange DEF CasDetach
  <2> QED BY <1>2, <1>5, <2>1 DEF CasDetach, AtCas, Return, Abstract!Detach, Abstract!Done, Abstract!Top
<1> QED BY <1>3, <1>4, <1>5

LEMMA StepImplements == IInv /\ NothingTaken /\ [Next]_vars => [Abstract!Next]_Abstract!vars
<1> SUFFICES ASSUME IInv, NothingTaken, [Next]_vars
             PROVE  Abstract!Next \/ UNCHANGED Abstract!vars
  OBVIOUS
<1>1. ASSUME NEW t \in Threads, (\E n \in Nodes : CallPush(t, n)) \/ CallPop(t) \/ CallDetach(t)
      PROVE  Abstract!Next
  BY <1>1, CallImplements DEF CallPush, CallPop, CallDetach, Abstract!Next, IInv
<1>2. ASSUME NEW t \in Threads, Inside(t)
      PROVE  Abstract!Next \/ UNCHANGED Abstract!vars
  BY <1>2, ReadImplements, ExchangeImplements DEF Inside, Abstract!Next
<1>3. CASE (\E n \in Nodes : Use(n)) \/ UNCHANGED vars
  <2>1. UNCHANGED <<stack, listOp, listPc, listNode, oldHead>>
    BY <1>3 DEF Use, vars, calls
  <2>2. Pending' = Pending
    BY <2>1 DEF Pending, FoundNull
  <2> QED BY <2>1, <2>2 DEF Abstract!vars
<1> QED BY <1>1, <1>2, <1>3 DEF Next

(* Push, Pop and Detach of any number of threads act as if each happened in one step. *)
THEOREM ListImplementsStack == Spec => StackImplemented
<1>1. Init => Abstract!Init /\ NothingTaken
  BY DEF Init, NothingTaken, Abstract!Init, Pending
<1>2. IInv => TypeOK
  BY DEF IInv
<1> QED BY <1>1, <1>2, InitInv, InvStep, TakenStep, StepImplements, PTL
        DEF Spec, StackImplemented, Abstract!Spec
=============================================================================
