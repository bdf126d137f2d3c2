------------------------ MODULE LockFreeQueueProofs ------------------------
(***************************************************************************)
(* Invariance and refinement proofs about the module LockFreeQueue, for    *)
(* any number of goroutines and nodes.                                     *)
(*                                                                         *)
(* The argument compares pointers by their place in order, the sequence of *)
(* nodes ever linked: Head and Tail only move forward in it, so what a     *)
(* goroutine loaded earlier is never ahead of what is there now.           *)
(***************************************************************************)
EXTENDS LockFreeQueue, FiniteSetTheorems, SequenceTheorems, TLAPS

-----------------------------------------------------------------------------
(* Places in the list *)

Linked(n) == \E i \in 1..Len(order) : order[i] = n

\* m was linked before n, or is n.
Before(m, n) == \E i, j \in 1..Len(order) : i <= j /\ order[i] = m /\ order[j] = n

\* n was linked right after m.
Succ(m, n) == \E i \in 1..(Len(order) - 1) : order[i] = m /\ order[i + 1] = n

-----------------------------------------------------------------------------
(* The inductive invariant *)

\* The list itself, no node twice in it, and no pointer out of a node that is
\* not linked yet.
OrderInv ==
  /\ ListIntact
  /\ \A i, j \in 1..Len(order) : order[i] = order[j] => i = j
  /\ \A n \in AllNodes : ~Linked(n) => Next_[n] = Nil

\* A goroutine inside Enqueue: its node is its own until it is linked, the tail
\* it loaded is not ahead of Tail, and what it is about to swing Tail to is the
\* successor of that tail.
EnqInv(p) ==
  /\ pc[p] \in {"loadTail", "loadNext", "test", "link", "help"} =>
       node[p] \in Nodes /\ ~Linked(node[p])
  /\ \A q \in Producers \ {p} :
       pc[p] # "idle" /\ pc[q] # "idle" => node[p] # node[q]
  /\ pc[p] \in {"loadNext", "test", "link", "help", "swing"} => Before(tail[p], Tl)
  /\ pc[p] \in {"test", "help"} /\ next[p] # Nil => Succ(tail[p], next[p])
  /\ pc[p] = "help" => next[p] # Nil
  /\ pc[p] = "swing" => Succ(tail[p], node[p])

\* A goroutine inside Dequeue: head was loaded before tail and tail before
\* next, so head is not ahead of tail, and head has the successor next whenever
\* it is behind tail.
DeqInv(c) ==
  /\ pc[c] \in {"loadTail", "loadNext", "test", "help", "take"} => Before(head[c], Hd)
  /\ pc[c] \in {"loadNext", "test", "help", "take"} =>
       Before(head[c], tail[c]) /\ Before(tail[c], Tl)
  /\ pc[c] \in {"test", "help", "take"} /\ next[c] # Nil => Succ(head[c], next[c])
  /\ pc[c] = "test" /\ next[c] = Nil => head[c] = tail[c] /\ sawEmpty[c]
  /\ pc[c] = "help" => next[c] # Nil /\ head[c] = tail[c]
  /\ pc[c] = "take" => next[c] # Nil /\ head[c] # tail[c]

QInv ==
  /\ QTypeOK
  /\ OrderInv
  /\ \A p \in Producers : EnqInv(p)
  /\ \A c \in Consumers : DeqInv(c)

-----------------------------------------------------------------------------
(* Facts about places *)

\* Linked nodes are before themselves, and being before is transitive.
LEMMA BeforeOrder ==
  ASSUME QTypeOK, OrderInv
  PROVE  /\ \A n : Linked(n) => Before(n, n)
         /\ \A l, m, n : Before(l, m) /\ Before(m, n) => Before(l, n)
         /\ \A m, n : Before(m, n) => Linked(m) /\ Linked(n)
PROOF
<1>1. Len(order) \in Nat
  BY DEF QTypeOK
<1>2. ASSUME NEW l, NEW m, NEW n, Before(l, m), Before(m, n)
      PROVE  Before(l, n)
  <2>1. PICK i, j \in 1..Len(order) : i <= j /\ order[i] = l /\ order[j] = m
    BY <1>2 DEF Before
  <2>2. PICK k, h \in 1..Len(order) : k <= h /\ order[k] = m /\ order[h] = n
    BY <1>2 DEF Before
  <2>3. j = k
    BY <2>1, <2>2 DEF OrderInv
  <2> QED BY <1>1, <2>1, <2>2, <2>3 DEF Before
<1>3. \A n : Linked(n) => Before(n, n)
  BY <1>1 DEF Linked, Before
<1>4. \A m, n : Before(m, n) => Linked(m) /\ Linked(n)
  BY DEF Linked, Before
<1> QED BY <1>2, <1>3, <1>4

\* Next is the successor in the order of linking, and a successor is next in it:
\* nothing lies between the two.
LEMMA SuccFacts ==
  ASSUME QTypeOK, OrderInv
  PROVE  /\ \A m : Linked(m) /\ Next_[m] # Nil => Succ(m, Next_[m])
         /\ \A m, n : Succ(m, n) => Before(m, n) /\ Next_[m] = n /\ n # Nil
         /\ \A m, n, l : Succ(m, n) /\ Before(m, l) /\ m # l => Before(n, l)
PROOF
<1>1. Len(order) \in Nat
  BY DEF QTypeOK
<1>2. ASSUME NEW m, Linked(m), Next_[m] # Nil
      PROVE  Succ(m, Next_[m])
  <2>1. PICK i \in 1..Len(order) : order[i] = m
    BY <1>2 DEF Linked
  <2>2. i # Len(order) /\ Next_[m] = order[i + 1]
    BY <1>2, <2>1 DEF OrderInv, ListIntact
  <2> QED BY <1>1, <2>1, <2>2 DEF Succ
<1>3. ASSUME NEW m, NEW n, Succ(m, n)
      PROVE  Before(m, n) /\ Next_[m] = n /\ n # Nil
  <2>1. PICK i \in 1..(Len(order) - 1) : order[i] = m /\ order[i + 1] = n
    BY <1>3 DEF Succ
  <2>2. i \in 1..Len(order) /\ i + 1 \in 1..Len(order) /\ i # Len(order)
    BY <1>1
  <2>3. Before(m, n)
    BY <1>1, <2>1, <2>2 DEF Before
  <2>4. Next_[m] = n
    BY <2>1, <2>2 DEF OrderInv, ListIntact
  <2>5. n # Nil
    BY <2>1, <2>2, QueueAssumption DEF QTypeOK, AllNodes
  <2> QED BY <2>3, <2>4, <2>5
<1>4. ASSUME NEW m, NEW n, NEW l, Succ(m, n), Before(m, l), m # l
      PROVE  Before(n, l)
  <2>1. PICK i \in 1..(Len(order) - 1) : order[i] = m /\ order[i + 1] = n
    BY <1>4 DEF Succ
  <2>2. PICK k, h \in 1..Len(order) : k <= h /\ order[k] = m /\ order[h] = l
    BY <1>4 DEF Before
  <2>3. i = k
    BY <1>1, <2>1, <2>2 DEF OrderInv
  <2>4. i + 1 <= h
    BY <1>1, <1>4, <2>1, <2>2, <2>3
  <2> QED BY <1>1, <2>1, <2>2, <2>4 DEF Before
<1> QED BY <1>2, <1>3, <1>4

\* Head is not ahead of Tail, and both are linked.
LEMMA HeadBeforeTail ==
  ASSUME QTypeOK, OrderInv
  PROVE  Before(Hd, Tl)
PROOF
<1>1. Len(order) \in Nat /\ Len(out) \in Nat
  BY DEF QTypeOK
<1> QED BY <1>1 DEF OrderInv, ListIntact, Before

\* A linked node without a successor is the last one.
LEMMA NoSuccessorIsLast ==
  ASSUME QTypeOK, OrderInv, NEW n, Linked(n), Next_[n] = Nil
  PROVE  /\ n = order[Len(order)]
         /\ \A m : Before(n, m) => m = n
PROOF
<1>1. Len(order) \in Nat
  BY DEF QTypeOK
<1>2. PICK i \in 1..Len(order) : order[i] = n
  BY DEF Linked
<1>3. i = Len(order)
  <2> SUFFICES ASSUME i # Len(order)
               PROVE  FALSE
    OBVIOUS
  <2>1. i + 1 \in 1..Len(order)
    BY <1>1
  <2>2. order[i + 1] \in AllNodes /\ order[i + 1] = Nil
    BY <1>2, <2>1 DEF OrderInv, ListIntact, QTypeOK
  <2> QED BY <2>2, QueueAssumption DEF AllNodes
<1>4. ASSUME NEW m, Before(n, m)
      PROVE  m = n
  <2>1. PICK k, h \in 1..Len(order) : k <= h /\ order[k] = n /\ order[h] = m
    BY <1>4 DEF Before
  <2>2. k = Len(order)
    BY <1>2, <1>3, <2>1 DEF OrderInv
  <2>3. h = k
    BY <1>1, <2>1, <2>2
  <2> QED BY <2>1, <2>3
<1> QED BY <1>2, <1>3, <1>4

-----------------------------------------------------------------------------
(* How a step moves the list *)

\* Places are kept, and Head and Tail only move forward.
Forward ==
  /\ \A m, n : Before(m, n) => Before(m, n)'
  /\ \A m, n : Succ(m, n) => Succ(m, n)'
  /\ \A m : Before(m, Tl) => Before(m, Tl)'
  /\ \A m : Before(m, Hd) => Before(m, Hd)'

\* A step that leaves the list alone.
LEMMA ListUnchanged ==
  ASSUME OrderInv, UNCHANGED <<Hd, Tl, Next_, order, out>>
  PROVE  OrderInv' /\ Forward
PROOF BY DEF OrderInv, ListIntact, Linked, Forward, Before, Succ

\* Tail moves to the successor of the node it points to.
LEMMA TailMoves ==
  ASSUME QTypeOK, OrderInv, NEW n, Succ(Tl, n), Tl' = n,
         UNCHANGED <<Hd, Next_, order, out>>
  PROVE  OrderInv' /\ Forward
PROOF
<1>1. Len(order) \in Nat /\ Len(out) \in Nat
  BY DEF QTypeOK
<1>2. PICK i \in 1..(Len(order) - 1) : order[i] = Tl /\ order[i + 1] = n
  BY DEF Succ
<1>3. PICK k \in (Len(out) + 1)..Len(order) : Tl = order[k] /\ Len(order) - 1 <= k
  BY DEF OrderInv, ListIntact
<1>4. k = i
  BY <1>1, <1>2, <1>3 DEF OrderInv
<1>5. /\ i + 1 \in (Len(out) + 1)..Len(order)
      /\ Len(order) - 1 <= i + 1
  BY <1>1, <1>2, <1>3, <1>4
<1>6. \E h \in (Len(out) + 1)..Len(order) : Tl' = order[h] /\ Len(order) - 1 <= h
  BY <1>2, <1>5
<1>7. OrderInv'
  BY <1>6 DEF OrderInv, ListIntact, Linked
<1>8. \A m : Before(m, Tl) => Before(m, n)
  BY BeforeOrder, SuccFacts
<1> QED BY <1>7, <1>8 DEF Forward, Before, Succ

\* Head moves to the successor of the node it points to, which Tail has reached.
LEMMA HeadMoves ==
  ASSUME QTypeOK, OrderInv, NEW n, Succ(Hd, n), Before(n, Tl), Hd' = n,
         out' = Append(out, n), UNCHANGED <<Tl, Next_, order>>
  PROVE  OrderInv' /\ Forward
PROOF
<1>1. Len(order) \in Nat /\ Len(out) \in Nat /\ Len(out') = Len(out) + 1
  BY DEF QTypeOK
<1>2. PICK i \in 1..(Len(order) - 1) : order[i] = Hd /\ order[i + 1] = n
  BY DEF Succ
<1>3. i = Len(out) + 1
  BY <1>1, <1>2 DEF OrderInv, ListIntact
<1>4. PICK k \in (Len(out) + 1)..Len(order) : Tl = order[k] /\ Len(order) - 1 <= k
  BY DEF OrderInv, ListIntact
<1>5. PICK j, h \in 1..Len(order) : j <= h /\ order[j] = n /\ order[h] = Tl
  BY DEF Before
<1>6. j = i + 1 /\ h = k
  <2>1. i + 1 \in 1..Len(order) /\ k \in 1..Len(order)
    BY <1>1, <1>2, <1>4
  <2> QED BY <1>2, <1>4, <1>5, <2>1 DEF OrderInv
<1>7. k \in (Len(out') + 1)..Len(order)
  BY <1>1, <1>3, <1>4, <1>5, <1>6
<1>8. OrderInv'
  <2>1. Len(out') < Len(order) /\ Hd' = order[Len(out') + 1]
    BY <1>1, <1>2, <1>3
  <2>2. \E l \in (Len(out') + 1)..Len(order) : Tl = order[l] /\ Len(order) - 1 <= l
    BY <1>4, <1>7
  <2> QED BY <2>1, <2>2 DEF OrderInv, ListIntact, Linked
<1>9. \A m : Before(m, Hd) => Before(m, n)
  BY BeforeOrder, SuccFacts
<1> QED BY <1>8, <1>9 DEF Forward, Before, Succ

\* What appending a node to order does to the places in it.
LEMMA AppendKeepsPlaces ==
  ASSUME QTypeOK, NEW n \in AllNodes, order' = Append(order, n)
  PROVE  /\ Len(order') = Len(order) + 1 /\ Len(order) \in Nat
         /\ \A i \in 1..Len(order) : order'[i] = order[i]
         /\ order'[Len(order) + 1] = n
         /\ \A l, m : Before(l, m) => Before(l, m)'
         /\ \A l, m : Succ(l, m) => Succ(l, m)'
         /\ \A m : Linked(m)' <=> Linked(m) \/ m = n
PROOF
<1>1. Len(order) \in Nat
  BY DEF QTypeOK
<1>2. /\ Len(order') = Len(order) + 1
      /\ \A i \in 1..Len(order) : order'[i] = order[i]
      /\ order'[Len(order) + 1] = n
  BY AppendProperties DEF QTypeOK
<1>3. \A l, m : Before(l, m) => Before(l, m)'
  BY <1>1, <1>2 DEF Before
<1>4. ASSUME NEW l, NEW m, Succ(l, m)
      PROVE  Succ(l, m)'
  <2>1. PICK i \in 1..(Len(order) - 1) : order[i] = l /\ order[i + 1] = m
    BY <1>4 DEF Succ
  <2>2. /\ i \in 1..(Len(order') - 1)
        /\ i \in 1..Len(order) /\ i + 1 \in 1..Len(order)
    BY <1>1, <1>2
  <2> QED BY <1>2, <2>1, <2>2 DEF Succ
<1>5. ASSUME NEW m
      PROVE  Linked(m)' <=> Linked(m) \/ m = n
  BY <1>1, <1>2 DEF Linked
<1> QED BY <1>1, <1>2, <1>3, <1>4, <1>5

\* A fresh node is linked behind the last one, to which Tail points.
LEMMA LinkMoves ==
  ASSUME QTypeOK, OrderInv, NEW n \in Nodes, ~Linked(n), Next_[Tl] = Nil,
         Next_' = [Next_ EXCEPT ![Tl] = n], order' = Append(order, n),
         UNCHANGED <<Hd, Tl, out>>
  PROVE  OrderInv' /\ Forward /\ Succ(Tl, n)'
PROOF
<1>1. n \in AllNodes
  BY DEF AllNodes
<1>2. Len(order) \in Nat /\ Len(out) \in Nat
  BY DEF QTypeOK
<1>3. Linked(Tl) /\ Tl = order[Len(order)] /\ Len(order) \in 1..Len(order)
  <2>1. Linked(Tl)
    BY HeadBeforeTail, BeforeOrder
  <2> QED BY <1>2, <2>1, NoSuccessorIsLast DEF Linked
<1>4. /\ Len(order') = Len(order) + 1
      /\ \A i \in 1..Len(order) : order'[i] = order[i]
      /\ order'[Len(order) + 1] = n
      /\ \A m : Linked(m)' <=> Linked(m) \/ m = n
  BY <1>1, AppendKeepsPlaces
<1>5. Forward
  BY <1>1, AppendKeepsPlaces DEF Forward
<1>6. Succ(Tl, n)'
  BY <1>2, <1>3, <1>4 DEF Succ
<1>7. \A i, j \in 1..Len(order') : order'[i] = order'[j] => i = j
  <2> SUFFICES ASSUME NEW i \in 1..Len(order'), NEW j \in 1..Len(order'),
                      order'[i] = order'[j]
               PROVE  i = j
    OBVIOUS
  <2>1. i \in 1..Len(order) \/ i = Len(order) + 1
    BY <1>2, <1>4
  <2>2. j \in 1..Len(order) \/ j = Len(order) + 1
    BY <1>2, <1>4
  <2> QED BY <1>4, <2>1, <2>2 DEF OrderInv, Linked
<1>8. n # Tl
  BY <1>3
<1>9. \A i \in 1..Len(order') :
        Next_'[order'[i]] = IF i = Len(order') THEN Nil ELSE order'[i + 1]
  <2> SUFFICES ASSUME NEW i \in 1..Len(order')
               PROVE  Next_'[order'[i]] = IF i = Len(order') THEN Nil ELSE order'[i + 1]
    OBVIOUS
  <2>1. CASE i = Len(order) + 1
    <3>1. Next_[n] = Nil /\ Next_'[n] = Next_[n]
      BY <1>1, <1>8 DEF OrderInv, QTypeOK
    <3> QED BY <1>4, <2>1, <3>1
  <2>2. CASE i = Len(order)
    <3>1. Next_'[Tl] = n
      BY DEF QTypeOK
    <3> QED BY <1>2, <1>3, <1>4, <2>2, <3>1
  <2>3. CASE i \in 1..(Len(order) - 1)
    <3>1. i \in 1..Len(order) /\ i + 1 \in 1..Len(order)
      BY <1>2, <2>3
    <3>2. order[i] # Tl /\ order[i] \in AllNodes
      BY <1>2, <1>3, <2>3, <3>1 DEF OrderInv, QTypeOK
    <3>3. Next_'[order[i]] = Next_[order[i]]
      BY <3>2 DEF QTypeOK
    <3>4. Next_[order[i]] = order[i + 1]
      BY <1>2, <2>3, <3>1 DEF OrderInv, ListIntact
    <3> QED BY <1>2, <1>4, <2>3, <3>1, <3>3, <3>4
  <2> QED BY <1>2, <1>4, <2>1, <2>2, <2>3
<1>10. ASSUME NEW m \in AllNodes, ~Linked(m)'
       PROVE  Next_'[m] = Nil
  BY <1>3, <1>4, <1>10 DEF OrderInv, QTypeOK
<1>11. /\ Len(out) < Len(order') /\ Hd = order'[Len(out) + 1]
       /\ \E i \in (Len(out) + 1)..Len(order') : Tl = order'[i] /\ Len(order') - 1 <= i
  <2>1. Len(out) + 1 \in 1..Len(order)
    BY <1>2 DEF OrderInv, ListIntact
  <2>2. Len(out) < Len(order') /\ Hd = order'[Len(out) + 1]
    BY <1>2, <1>4, <2>1 DEF OrderInv, ListIntact
  <2>3. Len(order) \in (Len(out) + 1)..Len(order')
    BY <1>2, <1>4, <2>1
  <2> QED BY <1>2, <1>3, <1>4, <2>2, <2>3
<1> QED BY <1>5, <1>6, <1>7, <1>9, <1>10, <1>11 DEF OrderInv, ListIntact

-----------------------------------------------------------------------------
(* The steps *)

\* A compare-and-swap of Tail that succeeds moves it to the successor of the
\* tail the goroutine loaded, for the link's own swing and for every help.
LEMMA SwingTarget ==
  ASSUME QInv
  PROVE  /\ \A p \in Producers : pc[p] = "help" => Succ(tail[p], next[p])
         /\ \A p \in Producers : pc[p] = "swing" => Succ(tail[p], node[p])
         /\ \A c \in Consumers : pc[c] = "help" => Succ(tail[c], next[c])
PROOF BY DEF QInv, EnqInv, DeqInv

\* The types of a step.
LEMMA QTypeStep ==
  ASSUME QInv, [QNext]_qvars
  PROVE  QTypeOK'
PROOF
<1> USE DEF QTypeOK, Threads
<1>1. QTypeOK
  BY DEF QInv
<1>2. ASSUME NEW p \in Producers, Enqueue(p)
      PROVE  QTypeOK'
  <2>0. p \notin Consumers
    BY QueueAssumption
  <2>1. CASE EnqAlloc(p)
    BY <1>1, <2>0, <2>1 DEF EnqAlloc, Goto, EnqueuePC, AllNodes
  <2>2. CASE EnqLoadTail(p)
    BY <1>1, <2>0, <2>2 DEF EnqLoadTail, Goto, EnqueuePC
  <2>3. CASE EnqLoadNext(p)
    BY <1>1, <2>0, <2>3 DEF EnqLoadNext, Goto, EnqueuePC
  <2>4. CASE EnqTest(p)
    BY <1>1, <2>0, <2>4 DEF EnqTest, Goto, EnqueuePC
  <2>5. CASE EnqLink(p)
    <3>1. node[p] \in Nodes /\ node[p] \in AllNodes
      BY <2>5 DEF EnqLink, Goto, QInv, EnqInv, AllNodes
    <3>2. Append(order, node[p]) \in Seq(AllNodes)
      BY <1>1, <3>1
    <3> QED BY <1>1, <2>0, <2>5, <3>1, <3>2 DEF EnqLink, Goto, EnqueuePC
  <2>6. CASE EnqHelp(p)
    BY <1>1, <2>0, <2>6 DEF EnqHelp, HelpTail, Goto, EnqueuePC, QInv, EnqInv, AllNodes
  <2>7. CASE EnqSwing(p)
    BY <1>1, <2>0, <2>7 DEF EnqSwing, Goto, EnqueuePC
  <2>8. CASE EnqCount(p)
    BY <1>1, <2>0, <2>8 DEF EnqCount, Goto, EnqueuePC
  <2> QED BY <1>2, <2>1, <2>2, <2>3, <2>4, <2>5, <2>6, <2>7, <2>8 DEF Enqueue
<1>3. ASSUME NEW c \in Consumers, Dequeue(c)
      PROVE  QTypeOK'
  <2>0. c \notin Producers
    BY QueueAssumption
  <2>1. CASE DeqCall(c)
    BY <1>1, <2>0, <2>1 DEF DeqCall, Goto, DequeuePC
  <2>2. CASE DeqLoadHead(c)
    BY <1>1, <2>0, <2>2 DEF DeqLoadHead, Goto, DequeuePC
  <2>3. CASE DeqLoadTail(c)
    BY <1>1, <2>0, <2>3 DEF DeqLoadTail, Goto, DequeuePC
  <2>4. CASE DeqLoadNext(c)
    <3>1. (Items = <<>>) \in BOOLEAN
      OBVIOUS
    <3> QED BY <1>1, <2>0, <2>4, <3>1 DEF DeqLoadNext, Goto, DequeuePC
  <2>5. CASE DeqTest(c)
    BY <1>1, <2>0, <2>5 DEF DeqTest, Goto, DequeuePC
  <2>6. CASE DeqHelp(c)
    BY <1>1, <2>0, <2>6 DEF DeqHelp, HelpTail, Goto, DequeuePC, QInv, DeqInv, AllNodes
  <2>7. CASE DeqTake(c)
    <3>1. next[c] \in Nodes
      BY <1>1, <2>7 DEF DeqTake, Goto, QInv, DeqInv
    <3>2. Append(out, next[c]) \in Seq(Nodes \cup {Nil})
      BY <1>1, <3>1
    <3> QED BY <1>1, <2>0, <2>7, <3>1, <3>2 DEF DeqTake, Goto, DequeuePC, AllNodes
  <2>8. CASE DeqUncount(c)
    BY <1>1, <2>0, <2>8 DEF DeqUncount, Goto, DequeuePC
  <2> QED BY <1>3, <2>1, <2>2, <2>3, <2>4, <2>5, <2>6, <2>7, <2>8 DEF Dequeue
<1>4. CASE UNCHANGED qvars
  BY <1>1, <1>4 DEF qvars
<1> QED BY <1>2, <1>3, <1>4 DEF QNext

\* The link of an Enqueue: when the compare-and-swap succeeds, the tail the
\* goroutine loaded is still Tail and still the last node.
LEMMA LinkAtTail ==
  ASSUME QInv, NEW p \in Producers, EnqLink(p), Next_[tail[p]] = Nil
  PROVE  /\ tail[p] = Tl
         /\ node[p] \in Nodes /\ ~Linked(node[p])
PROOF
<1>1. Before(tail[p], Tl) /\ node[p] \in Nodes /\ ~Linked(node[p])
  BY DEF QInv, EnqInv, EnqLink, Goto
<1>2. Linked(tail[p])
  BY <1>1, BeforeOrder DEF QInv
<1> QED BY <1>1, <1>2, NoSuccessorIsLast DEF QInv

\* The swing of Head: when the compare-and-swap succeeds, next is still the
\* successor of Head, and Tail is not behind it.
LEMMA TakeAtHead ==
  ASSUME QInv, NEW c \in Consumers, DeqTake(c), Hd = head[c]
  PROVE  Succ(Hd, next[c]) /\ Before(next[c], Tl)
PROOF
<1>1. /\ Succ(head[c], next[c]) /\ head[c] # tail[c]
      /\ Before(head[c], tail[c]) /\ Before(tail[c], Tl)
  BY DEF QInv, DeqInv, DeqTake, Goto
<1>2. Before(next[c], tail[c])
  BY <1>1, SuccFacts DEF QInv
<1> QED BY <1>1, <1>2, BeforeOrder DEF QInv

\* Every step keeps the list intact and moves Head and Tail forward only.
LEMMA ListStep ==
  ASSUME QInv, [QNext]_qvars
  PROVE  OrderInv' /\ Forward
PROOF
<1>1. QTypeOK /\ OrderInv
  BY DEF QInv
<1>2. CASE UNCHANGED <<Hd, Tl, Next_, order, out>>
  BY <1>1, <1>2, ListUnchanged
<1>3. ASSUME NEW p \in Producers, EnqLink(p)
      PROVE  OrderInv' /\ Forward
  <2>1. CASE Next_[tail[p]] = Nil
    BY <1>1, <1>3, <2>1, LinkAtTail, LinkMoves DEF EnqLink
  <2>2. CASE Next_[tail[p]] # Nil
    BY <1>2, <1>3, <2>2 DEF EnqLink
  <2> QED BY <2>1, <2>2
<1>4. ASSUME NEW p \in Producers, EnqHelp(p) \/ EnqSwing(p)
      PROVE  OrderInv' /\ Forward
  <2>1. CASE EnqHelp(p)
    BY <1>1, <1>2, <2>1, SwingTarget, TailMoves DEF EnqHelp, HelpTail, Goto
  <2>2. CASE EnqSwing(p)
    BY <1>1, <1>2, <2>2, SwingTarget, TailMoves DEF EnqSwing, Goto
  <2> QED BY <1>4, <2>1, <2>2
<1>5. ASSUME NEW c \in Consumers, DeqHelp(c)
      PROVE  OrderInv' /\ Forward
  BY <1>1, <1>2, <1>5, SwingTarget, TailMoves DEF DeqHelp, HelpTail, Goto
<1>6. ASSUME NEW c \in Consumers, DeqTake(c)
      PROVE  OrderInv' /\ Forward
  <2>1. CASE Hd = head[c]
    BY <1>1, <1>6, <2>1, TakeAtHead, HeadMoves DEF DeqTake
  <2>2. CASE Hd # head[c]
    BY <1>2, <1>6, <2>2 DEF DeqTake
  <2> QED BY <2>1, <2>2
<1>7. ASSUME NEW p \in Producers, Enqueue(p)
      PROVE  OrderInv' /\ Forward
  BY <1>2, <1>3, <1>4, <1>7
     DEF Enqueue, EnqAlloc, EnqLoadTail, EnqLoadNext, EnqTest, EnqCount
<1>8. ASSUME NEW c \in Consumers, Dequeue(c)
      PROVE  OrderInv' /\ Forward
  BY <1>2, <1>5, <1>6, <1>8
     DEF Dequeue, DeqCall, DeqLoadHead, DeqLoadTail, DeqLoadNext, DeqTest, DeqUncount
<1>9. CASE UNCHANGED qvars
  BY <1>2, <1>9 DEF qvars
<1> QED BY <1>7, <1>8, <1>9 DEF QNext

-----------------------------------------------------------------------------
(* The goroutines *)

\* What a goroutine inside Enqueue knows survives every step of another one
\* that does not link or allocate its node.
LEMMA EnqKept ==
  ASSUME NEW p \in Producers, EnqInv(p), Forward,
         pc'[p] = pc[p], node'[p] = node[p], tail'[p] = tail[p], next'[p] = next[p],
         pc[p] \in {"loadTail", "loadNext", "test", "link", "help"} /\ ~Linked(node[p]) =>
           ~Linked(node[p])',
         \A q \in Producers \ {p} :
           pc'[q] = "idle" \/ pc[p] = "idle" \/ node'[q] # node[p]
  PROVE  EnqInv(p)'
PROOF BY DEF EnqInv, Forward

\* The same for a goroutine inside Dequeue.
LEMMA DeqKept ==
  ASSUME NEW c \in Consumers, DeqInv(c), Forward,
         pc'[c] = pc[c], head'[c] = head[c], tail'[c] = tail[c], next'[c] = next[c],
         sawEmpty'[c] = sawEmpty[c]
  PROVE  DeqInv(c)'
PROOF BY DEF DeqInv, Forward

\* A step of Enqueue changes the locals of its own goroutine only.
LEMMA EnqueueLocals ==
  ASSUME QTypeOK, NEW p \in Producers, Enqueue(p)
  PROVE  /\ \A t \in Threads \ {p} :
              pc'[t] = pc[t] /\ tail'[t] = tail[t] /\ next'[t] = next[t]
         /\ \A q \in Producers \ {p} : node'[q] = node[q]
         /\ head' = head /\ sawEmpty' = sawEmpty
PROOF
<1> USE DEF QTypeOK, Goto
<1>1. CASE EnqAlloc(p) \/ EnqLoadTail(p) \/ EnqLoadNext(p) \/ EnqTest(p)
  BY <1>1 DEF EnqAlloc, EnqLoadTail, EnqLoadNext, EnqTest
<1>2. CASE EnqLink(p) \/ EnqHelp(p) \/ EnqSwing(p) \/ EnqCount(p)
  BY <1>2 DEF EnqLink, EnqHelp, HelpTail, EnqSwing, EnqCount
<1> QED BY <1>1, <1>2 DEF Enqueue

\* So does a step of Dequeue.
LEMMA DequeueLocals ==
  ASSUME QTypeOK, NEW c \in Consumers, Dequeue(c)
  PROVE  /\ \A t \in Threads \ {c} :
              pc'[t] = pc[t] /\ tail'[t] = tail[t] /\ next'[t] = next[t]
         /\ \A d \in Consumers \ {c} : head'[d] = head[d] /\ sawEmpty'[d] = sawEmpty[d]
         /\ node' = node /\ order' = order
PROOF
<1> USE DEF QTypeOK, Goto
<1>1. CASE DeqCall(c) \/ DeqLoadHead(c) \/ DeqLoadTail(c) \/ DeqLoadNext(c)
  BY <1>1 DEF DeqCall, DeqLoadHead, DeqLoadTail, DeqLoadNext
<1>2. CASE DeqTest(c) \/ DeqHelp(c) \/ DeqTake(c) \/ DeqUncount(c)
  BY <1>2 DEF DeqTest, DeqHelp, HelpTail, DeqTake, DeqUncount
<1> QED BY <1>1, <1>2 DEF Dequeue

\* A step of Enqueue keeps what its own goroutine knows.
LEMMA EnqOwnStep ==
  ASSUME QInv, QTypeOK', OrderInv', Forward, NEW p \in Producers, Enqueue(p)
  PROVE  EnqInv(p)'
PROOF
<1>1. QTypeOK /\ OrderInv /\ EnqInv(p)
  BY DEF QInv
<1>2. /\ p \in Threads
      /\ \A q \in Producers \ {p} : q \in Threads /\ pc'[q] = pc[q] /\ node'[q] = node[q]
  BY <1>1, EnqueueLocals DEF Threads
<1>3. Linked(Tl)
  BY <1>1, HeadBeforeTail, BeforeOrder
<1>4. CASE EnqAlloc(p)
  <2>1. PICK n \in Nodes :
            /\ \A i \in 1..Len(order) : order[i] # n
            /\ \A q \in Producers : pc[q] # "idle" => node[q] # n
            /\ node' = [node EXCEPT ![p] = n]
    BY <1>4 DEF EnqAlloc
  <2>2. node'[p] = n /\ pc'[p] = "loadTail" /\ order' = order
    BY <1>1, <1>2, <1>4, <2>1 DEF EnqAlloc, Goto, QTypeOK
  <2>3. ~Linked(n)'
    BY <2>1, <2>2 DEF Linked
  <2> QED BY <1>2, <2>1, <2>2, <2>3 DEF EnqInv
<1>5. CASE EnqLoadTail(p)
  <2>1. /\ pc[p] = "loadTail" /\ pc'[p] = "loadNext" /\ tail'[p] = Tl
        /\ UNCHANGED <<order, Tl, node>>
    BY <1>1, <1>2, <1>5 DEF EnqLoadTail, Goto, QTypeOK
  <2>2. Before(Tl, Tl)
    BY <1>1, <1>3, BeforeOrder
  <2> QED BY <1>1, <1>2, <2>1, <2>2 DEF EnqInv, Linked, Before
<1>6. CASE EnqLoadNext(p)
  <2>1. /\ pc[p] = "loadNext" /\ pc'[p] = "test" /\ next'[p] = Next_[tail[p]]
        /\ UNCHANGED <<order, Tl, node, tail>>
    BY <1>1, <1>2, <1>6 DEF EnqLoadNext, Goto, QTypeOK
  <2>2. Linked(tail[p])
    BY <1>1, <2>1, BeforeOrder DEF EnqInv
  <2>3. Next_[tail[p]] # Nil => Succ(tail[p], Next_[tail[p]])
    BY <1>1, <2>2, SuccFacts
  <2> QED BY <1>1, <1>2, <2>1, <2>3 DEF EnqInv, Linked, Before, Succ
<1>7. CASE EnqTest(p)
  <2>1. /\ pc[p] = "test" /\ UNCHANGED <<order, Tl, node, tail, next>>
        /\ pc'[p] \in {"loadTail", "link", "help"}
        /\ pc'[p] = "help" => next[p] # Nil
    BY <1>1, <1>2, <1>7 DEF EnqTest, Goto, QTypeOK
  <2> QED BY <1>1, <1>2, <2>1 DEF EnqInv, Linked, Before, Succ
<1>8. CASE EnqLink(p)
  <2>1. pc[p] = "link" /\ UNCHANGED <<Tl, node, tail, next>>
    BY <1>8 DEF EnqLink, Goto
  <2>2. CASE Next_[tail[p]] = Nil
    <3>1. pc'[p] = "swing"
      BY <1>1, <1>2, <1>8, <2>2 DEF EnqLink, Goto, QTypeOK
    <3>2. Succ(tail[p], node[p])'
      BY <1>1, <1>8, <2>1, <2>2, LinkAtTail, LinkMoves DEF EnqLink
    <3> QED BY <1>1, <1>2, <2>1, <3>1, <3>2 DEF EnqInv, Forward
  <2>3. CASE Next_[tail[p]] # Nil
    <3>1. pc'[p] = "loadTail" /\ order' = order
      BY <1>1, <1>2, <1>8, <2>3 DEF EnqLink, Goto, QTypeOK
    <3> QED BY <1>1, <1>2, <2>1, <3>1 DEF EnqInv, Linked
  <2> QED BY <2>2, <2>3
<1>9. CASE EnqHelp(p)
  <2>1. pc[p] = "help" /\ pc'[p] = "loadTail" /\ UNCHANGED <<order, node>>
    BY <1>1, <1>2, <1>9 DEF EnqHelp, HelpTail, Goto, QTypeOK
  <2> QED BY <1>1, <1>2, <2>1 DEF EnqInv, Linked
<1>10. CASE EnqSwing(p) \/ EnqCount(p)
  <2>1. /\ pc[p] \in {"swing", "count"} /\ pc'[p] \in {"count", "idle"}
        /\ node' = node
    BY <1>1, <1>2, <1>10 DEF EnqSwing, EnqCount, Goto, QTypeOK
  <2> QED BY <1>1, <1>2, <2>1 DEF EnqInv
<1> QED BY <1>4, <1>5, <1>6, <1>7, <1>8, <1>9, <1>10 DEF Enqueue

\* Every step keeps what every goroutine inside Enqueue knows.
LEMMA EnqStep ==
  ASSUME QInv, QTypeOK', OrderInv', Forward, [QNext]_qvars, NEW p \in Producers
  PROVE  EnqInv(p)'
PROOF
<1>1. QTypeOK /\ EnqInv(p)
  BY DEF QInv
<1>2. ASSUME NEW q \in Producers, Enqueue(q), q # p
      PROVE  EnqInv(p)'
  <2>1. /\ pc'[p] = pc[p] /\ node'[p] = node[p] /\ tail'[p] = tail[p] /\ next'[p] = next[p]
        /\ \A r \in Producers \ {q} : pc'[r] = pc[r] /\ node'[r] = node[r]
    BY <1>1, <1>2, EnqueueLocals DEF Threads
  <2>2. pc'[q] = "idle" \/ pc[p] = "idle" \/ node'[q] # node[p]
    <3>1. CASE EnqAlloc(q)
      BY <1>1, <3>1 DEF EnqAlloc, QTypeOK
    <3>2. CASE ~EnqAlloc(q)
      <4>1. node' = node /\ pc[q] # "idle"
        BY <1>2, <3>2 DEF Enqueue, EnqLoadTail, EnqLoadNext, EnqTest, EnqLink, EnqHelp,
                          HelpTail, EnqSwing, EnqCount, Goto
      <4> QED BY <1>1, <1>2, <4>1 DEF EnqInv
    <3> QED BY <3>1, <3>2
  <2>3. ASSUME pc[p] \in {"loadTail", "loadNext", "test", "link", "help"}, ~Linked(node[p])
        PROVE  ~Linked(node[p])'
    <3>1. CASE order' = order
      BY <2>1, <2>3, <3>1 DEF Linked
    <3>2. CASE order' # order
      <4>1. /\ EnqLink(q) /\ pc[q] = "link"
            /\ order' = Append(order, node[q])
        BY <1>2, <3>2 DEF Enqueue, EnqAlloc, EnqLoadTail, EnqLoadNext, EnqTest, EnqLink,
                          EnqHelp, HelpTail, EnqSwing, EnqCount, Goto
      <4>2. node[q] # node[p] /\ node[q] \in AllNodes
        BY <1>1, <1>2, <2>3, <4>1 DEF EnqInv, QTypeOK
      <4> QED BY <1>1, <2>1, <2>3, <4>1, <4>2, AppendKeepsPlaces
    <3> QED BY <3>1, <3>2
  <2>4. \A r \in Producers \ {p} : pc'[r] = "idle" \/ pc[p] = "idle" \/ node'[r] # node[p]
    BY <1>1, <2>1, <2>2 DEF EnqInv
  <2> QED BY <1>1, <2>1, <2>3, <2>4, EnqKept
<1>3. ASSUME NEW c \in Consumers, Dequeue(c)
      PROVE  EnqInv(p)'
  <2>1. /\ node' = node /\ order' = order
        /\ \A q \in Producers : q \in Threads \ {c}
        /\ \A q \in Producers :
             pc'[q] = pc[q] /\ tail'[q] = tail[q] /\ next'[q] = next[q]
    BY <1>1, <1>3, DequeueLocals, QueueAssumption DEF Threads
  <2>2. ~Linked(node[p]) => ~Linked(node[p])'
    BY <2>1 DEF Linked
  <2>3. \A r \in Producers \ {p} : pc'[r] = "idle" \/ pc[p] = "idle" \/ node'[r] # node[p]
    BY <1>1, <2>1 DEF EnqInv
  <2> QED BY <1>1, <2>1, <2>2, <2>3, EnqKept
<1>4. CASE UNCHANGED qvars
  BY <1>1, <1>4 DEF qvars, EnqInv, Linked, Before, Succ
<1> QED BY <1>2, <1>3, <1>4, EnqOwnStep DEF QNext

\* What is left of the order of linking behind its first k + 1 nodes.
LEMMA RestFacts ==
  ASSUME NEW o \in Seq(AllNodes), NEW k \in Nat, k < Len(o)
  PROVE  /\ SubSeq(o, k + 2, Len(o)) \in Seq(AllNodes)
         /\ Len(SubSeq(o, k + 2, Len(o))) = Len(o) - k - 1
         /\ \A i \in 1..(Len(o) - k - 1) : SubSeq(o, k + 2, Len(o))[i] = o[k + 1 + i]
PROOF
<1>1. Len(o) \in Nat /\ k + 2 \in Int
  OBVIOUS
<1>2. \A i \in (k + 2)..Len(o) : o[i] \in AllNodes
  BY <1>1
<1>3. /\ SubSeq(o, k + 2, Len(o)) \in Seq(AllNodes)
      /\ Len(SubSeq(o, k + 2, Len(o))) =
           IF k + 2 <= Len(o) THEN Len(o) - (k + 2) + 1 ELSE 0
      /\ \A i \in 1..(Len(o) - (k + 2) + 1) :
           SubSeq(o, k + 2, Len(o))[i] = o[k + 2 + i - 1]
  BY <1>1, <1>2, SubSeqProperties
<1>4. Len(SubSeq(o, k + 2, Len(o))) = Len(o) - k - 1
  BY <1>1, <1>3
<1>5. ASSUME NEW i \in 1..(Len(o) - k - 1)
      PROVE  SubSeq(o, k + 2, Len(o))[i] = o[k + 1 + i]
  <2>1. i \in 1..(Len(o) - (k + 2) + 1) /\ k + 2 + i - 1 = k + 1 + i
    BY <1>1
  <2> QED BY <1>3, <2>1
<1> QED BY <1>3, <1>4, <1>5

\* The queue is empty when Head points to the last node.
LEMMA EmptyAtLast ==
  ASSUME QTypeOK, OrderInv, Next_[Hd] = Nil
  PROVE  Items = <<>>
PROOF
<1>1. Len(order) \in Nat /\ Len(out) \in Nat /\ Len(out) + 1 \in 1..Len(order)
  BY DEF QTypeOK, OrderInv, ListIntact
<1>2. Hd = order[Len(out) + 1] /\ Linked(Hd)
  BY <1>1 DEF OrderInv, ListIntact, Linked
<1>3. order[Len(out) + 1] = order[Len(order)]
  BY <1>2, NoSuccessorIsLast
<1>4. Len(out) + 1 = Len(order)
  BY <1>1, <1>3 DEF OrderInv
<1> QED BY <1>1, <1>4, SubSeqEmpty DEF Items

\* A step of Dequeue keeps what its own goroutine knows.
LEMMA DeqOwnStep ==
  ASSUME QInv, QTypeOK', OrderInv', Forward, NEW c \in Consumers, Dequeue(c)
  PROVE  DeqInv(c)'
PROOF
<1>1. QTypeOK /\ OrderInv /\ DeqInv(c) /\ c \in Threads
  BY DEF QInv, Threads
<1>2. Linked(Hd) /\ Linked(Tl) /\ Before(Hd, Tl)
  BY <1>1, HeadBeforeTail, BeforeOrder
<1>3. CASE DeqCall(c)
  <2>1. pc'[c] = "loadHead"
    BY <1>1, <1>3 DEF DeqCall, Goto, QTypeOK
  <2> QED BY <2>1 DEF DeqInv
<1>4. CASE DeqLoadHead(c)
  <2>1. pc'[c] = "loadTail" /\ head'[c] = Hd /\ UNCHANGED <<order, Hd>>
    BY <1>1, <1>4 DEF DeqLoadHead, Goto, QTypeOK
  <2>2. Before(Hd, Hd)
    BY <1>1, <1>2, BeforeOrder
  <2> QED BY <2>1, <2>2 DEF DeqInv, Before
<1>5. CASE DeqLoadTail(c)
  <2>1. /\ pc[c] = "loadTail" /\ pc'[c] = "loadNext" /\ tail'[c] = Tl
        /\ UNCHANGED <<order, Hd, Tl, head>>
    BY <1>1, <1>5 DEF DeqLoadTail, Goto, QTypeOK
  <2>2. Before(head[c], Tl) /\ Before(Tl, Tl) /\ Before(head[c], Hd)
    BY <1>1, <1>2, <2>1, BeforeOrder DEF DeqInv
  <2> QED BY <2>1, <2>2 DEF DeqInv, Before
<1>6. CASE DeqLoadNext(c)
  <2>1. /\ pc[c] = "loadNext" /\ pc'[c] = "test" /\ next'[c] = Next_[head[c]]
        /\ sawEmpty'[c] = (Items = <<>>)
        /\ UNCHANGED <<order, Hd, Tl, head, tail>>
    BY <1>1, <1>6 DEF DeqLoadNext, Goto, QTypeOK
  <2>2. Before(head[c], Hd) /\ Before(head[c], tail[c]) /\ Before(tail[c], Tl)
    BY <1>1, <2>1 DEF DeqInv
  <2>3. Linked(head[c])
    BY <1>1, <2>2, BeforeOrder
  <2>4. Next_[head[c]] # Nil => Succ(head[c], Next_[head[c]])
    BY <1>1, <2>3, SuccFacts
  <2>5. ASSUME Next_[head[c]] = Nil
        PROVE  head[c] = tail[c] /\ Items = <<>>
    <3>1. Hd = head[c] /\ tail[c] = head[c]
      BY <1>1, <2>2, <2>3, <2>5, NoSuccessorIsLast
    <3> QED BY <1>1, <2>5, <3>1, EmptyAtLast
  <2> QED BY <2>1, <2>2, <2>4, <2>5 DEF DeqInv, Before, Succ
<1>7. CASE DeqTest(c)
  <2>1. /\ pc[c] = "test" /\ UNCHANGED <<order, Hd, Tl, head, tail, next>>
        /\ pc'[c] \in {"loadHead", "take", "idle", "help"}
        /\ pc'[c] = "take" => head[c] # tail[c]
        /\ pc'[c] = "help" => head[c] = tail[c] /\ next[c] # Nil
    BY <1>1, <1>7 DEF DeqTest, Goto, QTypeOK
  <2> QED BY <1>1, <2>1 DEF DeqInv, Before, Succ
<1>8. CASE DeqHelp(c) \/ DeqTake(c) \/ DeqUncount(c)
  <2>1. pc'[c] \in {"loadHead", "uncount", "idle"}
    BY <1>1, <1>8 DEF DeqHelp, HelpTail, DeqTake, DeqUncount, Goto, QTypeOK
  <2> QED BY <2>1 DEF DeqInv
<1> QED BY <1>3, <1>4, <1>5, <1>6, <1>7, <1>8 DEF Dequeue

\* Every step keeps what every goroutine inside Dequeue knows.
LEMMA DeqStep ==
  ASSUME QInv, QTypeOK', OrderInv', Forward, [QNext]_qvars, NEW c \in Consumers
  PROVE  DeqInv(c)'
PROOF
<1>1. QTypeOK /\ DeqInv(c)
  BY DEF QInv
<1>2. ASSUME NEW p \in Producers, Enqueue(p)
      PROVE  DeqInv(c)'
  <2>1. c \in Threads \ {p}
    BY QueueAssumption DEF Threads
  <2> QED BY <1>1, <1>2, <2>1, EnqueueLocals, DeqKept
<1>3. ASSUME NEW d \in Consumers, Dequeue(d), d # c
      PROVE  DeqInv(c)'
  <2>1. c \in Threads \ {d}
    BY <1>3 DEF Threads
  <2> QED BY <1>1, <1>3, <2>1, DequeueLocals, DeqKept
<1>4. CASE UNCHANGED qvars
  BY <1>1, <1>4 DEF qvars, DeqInv, Before, Succ
<1> QED BY <1>2, <1>3, <1>4, DeqOwnStep DEF QNext

-----------------------------------------------------------------------------
(* Invariance *)

\* NewQueue establishes the invariant.
LEMMA QInitInv == NewQueue => QInv
PROOF
<1> SUFFICES ASSUME NewQueue
             PROVE  QInv
  OBVIOUS
<1>1. QTypeOK
  <2>1. order \in Seq(AllNodes) /\ out \in Seq(Nodes \cup {Nil})
    BY DEF NewQueue, AllNodes
  <2> QED BY <2>1 DEF NewQueue, QTypeOK, AllNodes, Threads, EnqueuePC, DequeuePC
<1>2. /\ Len(order) = 1 /\ order[1] = Blank /\ Len(out) = 0
      /\ Hd = Blank /\ Tl = Blank /\ Next_ = [n \in AllNodes |-> Nil]
  BY DEF NewQueue
<1>3. OrderInv
  <2>1. Next_[Blank] = Nil
    BY <1>2 DEF AllNodes
  <2>2. ListIntact
    BY <1>2, <2>1 DEF ListIntact
  <2> QED BY <1>2, <2>2 DEF OrderInv
<1>4. \A t \in Threads : pc[t] = "idle"
  BY DEF NewQueue
<1>5. \A p \in Producers : EnqInv(p)
  BY <1>4 DEF EnqInv, Threads
<1>6. \A c \in Consumers : DeqInv(c)
  BY <1>4 DEF DeqInv, Threads
<1> QED BY <1>1, <1>3, <1>5, <1>6 DEF QInv

\* Every step keeps it.
LEMMA QStepInv ==
  ASSUME QInv, [QNext]_qvars
  PROVE  QInv'
PROOF
<1>1. QTypeOK'
  BY QTypeStep
<1>2. OrderInv' /\ Forward
  BY ListStep
<1>3. \A p \in Producers : EnqInv(p)'
  BY <1>1, <1>2, EnqStep
<1>4. \A c \in Consumers : DeqInv(c)'
  BY <1>1, <1>2, DeqStep
<1> QED BY <1>1, <1>2, <1>3, <1>4 DEF QInv

\* The inductive invariant holds throughout, for any number of goroutines.
THEOREM QueueInvariant == QSpec => []QInv
PROOF BY QInitInv, QStepInv, PTL DEF QSpec

\* Type correctness: no swing of Head or Tail ever stores nil.
THEOREM QueueTypeCorrect == QSpec => []QTypeOK
PROOF
<1>1. QInv => QTypeOK
  BY DEF QInv
<1> QED BY <1>1, QueueInvariant, PTL

\* The list reached from Head is always the linked nodes that were not handed
\* out, and Tail is its last node or the one before.
THEOREM ListAlwaysIntact == QSpec => []ListIntact
PROOF
<1>1. QInv => ListIntact
  BY DEF QInv, OrderInv
<1> QED BY <1>1, QueueInvariant, PTL

\* Dequeue never dereferences a nil next.
THEOREM NeverDereferencesNil == QSpec => []NoNilDereference
PROOF
<1>1. QInv => NoNilDereference
  BY DEF QInv, DeqInv, NoNilDereference
<1> QED BY <1>1, QueueInvariant, PTL

\* Dequeue answers nil only if the queue was empty at one moment of the call.
THEOREM EmptyAnswersAreTrue == QSpec => []EmptyAnswerIsTrue
PROOF
<1>1. QInv => EmptyAnswerIsTrue
  BY DEF QInv, DeqInv, EmptyAnswerIsTrue
<1> QED BY <1>1, QueueInvariant, PTL

-----------------------------------------------------------------------------
(* Refinement: the queue is the atomic FIFO of TaskQueue *)

Putting == {p \in Producers : pc[p] \in {"swing", "count"}}
Taking == {c \in Consumers : pc[c] = "uncount"}

\* A link puts its node at the end of the queued tasks.
LEMMA LinkPuts ==
  ASSUME QInv, QInv', NEW n \in AllNodes, order' = Append(order, n), out' = out
  PROVE  Items' = Append(Items, n)
PROOF
<1>1. QTypeOK /\ OrderInv /\ QTypeOK' /\ OrderInv'
  BY DEF QInv
<1>2. /\ Items \in Seq(AllNodes) /\ Len(Items) = Len(order) - Len(out) - 1
      /\ Len(order) \in Nat /\ Len(out) \in Nat
      /\ \A i \in 1..Len(Items) : Items[i] = order[Len(out) + 1 + i]
  BY <1>1, RestFacts DEF QTypeOK, OrderInv, ListIntact, Items
<1>3. /\ Items' \in Seq(AllNodes) /\ Len(Items') = Len(order') - Len(out) - 1
      /\ \A i \in 1..Len(Items') : Items'[i] = order'[Len(out) + 1 + i]
  <2>1. /\ order' \in Seq(AllNodes) /\ Len(out) \in Nat /\ Len(out) < Len(order')
        /\ Items' = SubSeq(order', Len(out) + 2, Len(order'))
    BY <1>1, <1>2 DEF QTypeOK, OrderInv, ListIntact, Items
  <2> QED BY <2>1, RestFacts
<1>4. /\ Len(order') = Len(order) + 1
      /\ \A i \in 1..Len(order) : order'[i] = order[i]
      /\ order'[Len(order) + 1] = n
  BY <1>1, AppendKeepsPlaces
<1>5. /\ Append(Items, n) \in Seq(AllNodes)
      /\ Len(Append(Items, n)) = Len(Items) + 1
      /\ \A i \in 1..Len(Items) : Append(Items, n)[i] = Items[i]
      /\ Append(Items, n)[Len(Items) + 1] = n
  BY <1>2, AppendProperties
<1>6. Len(Items') = Len(Append(Items, n)) /\ Len(Items) \in Nat
  BY <1>2, <1>3, <1>4, <1>5
<1>7. ASSUME NEW i \in 1..Len(Items')
      PROVE  Items'[i] = Append(Items, n)[i]
  <2>1. CASE i = Len(Items) + 1
    <3>1. Len(out) + 1 + i = Len(order) + 1
      BY <1>2, <2>1
    <3>2. Items'[i] = n
      BY <1>3, <1>4, <1>7, <3>1
    <3> QED BY <1>5, <2>1, <3>2
  <2>2. CASE i \in 1..Len(Items)
    <3>1. Len(out) + 1 + i \in 1..Len(order)
      BY <1>2, <2>2
    <3> QED BY <1>2, <1>3, <1>4, <1>5, <2>2, <3>1
  <2> QED BY <1>5, <1>6, <2>1, <2>2
<1> QED BY <1>3, <1>5, <1>6, <1>7, SeqEqual

\* A swing of Head hands out the first queued task.
LEMMA TakeTakes ==
  ASSUME QInv, QInv', NEW n, Succ(Hd, n), out' = Append(out, n), order' = order
  PROVE  /\ Items # <<>>
         /\ n = Head(Items)
         /\ Items' = Tail(Items)
PROOF
<1>1. QTypeOK /\ OrderInv /\ QTypeOK' /\ OrderInv'
  BY DEF QInv
<1>2. /\ Items \in Seq(AllNodes) /\ Len(Items) = Len(order) - Len(out) - 1
      /\ Len(order) \in Nat /\ Len(out) \in Nat
      /\ \A i \in 1..Len(Items) : Items[i] = order[Len(out) + 1 + i]
  BY <1>1, RestFacts DEF QTypeOK, OrderInv, ListIntact, Items
<1>3. /\ Items' \in Seq(AllNodes) /\ Len(Items') = Len(order) - Len(out') - 1
      /\ \A i \in 1..Len(Items') : Items'[i] = order[Len(out') + 1 + i]
  <2>1. /\ order \in Seq(AllNodes) /\ Len(out') \in Nat /\ Len(out') < Len(order)
        /\ Items' = SubSeq(order, Len(out') + 2, Len(order))
    BY <1>1 DEF QTypeOK, OrderInv, ListIntact, Items
  <2>2. PICK k \in Nat : k = Len(out')
    BY <2>1
  <2>3. /\ Items' \in Seq(AllNodes) /\ Len(Items') = Len(order) - k - 1
        /\ \A i \in 1..(Len(order) - k - 1) : Items'[i] = order[k + 1 + i]
    BY <2>1, <2>2, RestFacts
  <2> QED BY <2>2, <2>3
<1>4. Len(out') = Len(out) + 1
  BY <1>1 DEF QTypeOK
<1>5. PICK i \in 1..(Len(order) - 1) : order[i] = Hd /\ order[i + 1] = n
  BY DEF Succ
<1>6. i = Len(out) + 1
  BY <1>1, <1>2, <1>5, SMTT(30) DEF OrderInv, ListIntact
<1>7. Len(Items) \in Nat \ {0} /\ Items[1] = n
  BY <1>2, <1>5, <1>6
<1>8. Items # <<>> /\ Head(Items) = n
  BY <1>2, <1>7
<1>9. /\ Tail(Items) \in Seq(AllNodes) /\ Len(Tail(Items)) = Len(Items) - 1
      /\ \A j \in 1..Len(Tail(Items)) : Tail(Items)[j] = Items[j + 1]
  BY <1>2, <1>8, HeadTailProperties
<1>10. Len(Items') = Len(Tail(Items))
  BY <1>2, <1>3, <1>4, <1>9
<1>11. ASSUME NEW j \in 1..Len(Items')
       PROVE  Items'[j] = Tail(Items)[j]
  <2>1. Items'[j] = order[Len(out) + 2 + j]
    <3>1. Len(out') + 1 + j = Len(out) + 2 + j
      BY <1>2, <1>4
    <3> QED BY <1>3, <1>11, <3>1
  <2>2. j + 1 \in 1..Len(Items)
    BY <1>2, <1>9, <1>10
  <2>3. Items[j + 1] = order[Len(out) + 1 + (j + 1)]
    BY <1>2, <2>2
  <2> QED BY <1>2, <1>9, <1>10, <2>1, <2>3
<1>12. Items' = Tail(Items)
  BY <1>3, <1>9, <1>10, <1>11, SeqEqual
<1> QED BY <1>8, <1>12

\* Every step of the pointer structure is a step of TaskQueue or none.
LEMMA StepRefines ==
  ASSUME QInv, QInv', [QNext]_qvars
  PROVE  [Abstract!ANext]_(Abstract!avars)
PROOF
<1>1. QTypeOK /\ OrderInv
  BY DEF QInv
<1>2. CASE UNCHANGED <<order, out, Length, Putting, Taking>>
  BY <1>2 DEF Abstract!avars, Items, Putting, Taking
<1>3. ASSUME NEW p \in Producers, EnqLink(p)
      PROVE  [Abstract!ANext]_(Abstract!avars)
  <2>1. CASE Next_[tail[p]] = Nil
    <3>1. PICK n \in Nodes : n = node[p]
      BY <1>3, <2>1, LinkAtTail
    <3>2. Items' = Append(Items, n)
      BY <1>3, <2>1, <3>1, LinkPuts DEF EnqLink, AllNodes
    <3>3. p \notin Putting /\ Putting' = Putting \cup {p} /\ Taking' = Taking
      BY <1>1, <1>3, <2>1, QueueAssumption DEF EnqLink, Goto, Putting, Taking, QTypeOK, Threads
    <3>4. Abstract!Put(p, n)
      BY <1>3, <2>1, <3>2, <3>3 DEF EnqLink, Abstract!Put, Putting, Taking
    <3> QED BY <3>4 DEF Abstract!ANext
  <2>2. CASE Next_[tail[p]] # Nil
    <3>1. Putting' = Putting /\ Taking' = Taking
      BY <1>1, <1>3, <2>2, QueueAssumption DEF EnqLink, Goto, Putting, Taking, QTypeOK, Threads
    <3> QED BY <1>2, <1>3, <2>2, <3>1 DEF EnqLink
  <2> QED BY <2>1, <2>2
<1>4. ASSUME NEW p \in Producers, EnqCount(p)
      PROVE  [Abstract!ANext]_(Abstract!avars)
  <2>1. p \in Putting /\ Putting' = Putting \ {p} /\ Taking' = Taking /\ Items' = Items
    BY <1>1, <1>4, QueueAssumption
       DEF EnqCount, Goto, Putting, Taking, QTypeOK, Threads, Items
  <2>2. Abstract!CountPut(p)
    BY <1>4, <2>1 DEF EnqCount, Abstract!CountPut, Putting, Taking
  <2> QED BY <2>2 DEF Abstract!ANext
<1>5. ASSUME NEW p \in Producers,
             EnqAlloc(p) \/ EnqLoadTail(p) \/ EnqLoadNext(p) \/ EnqTest(p)
               \/ EnqHelp(p) \/ EnqSwing(p)
      PROVE  [Abstract!ANext]_(Abstract!avars)
  <2>1. Putting' = Putting /\ Taking' = Taking
    BY <1>1, <1>5, QueueAssumption
       DEF EnqAlloc, EnqLoadTail, EnqLoadNext, EnqTest, EnqHelp, HelpTail, EnqSwing, Goto,
           Putting, Taking, QTypeOK, Threads
  <2> QED BY <1>2, <1>5, <2>1
          DEF EnqAlloc, EnqLoadTail, EnqLoadNext, EnqTest, EnqHelp, HelpTail, EnqSwing
<1>6. ASSUME NEW c \in Consumers, DeqTake(c)
      PROVE  [Abstract!ANext]_(Abstract!avars)
  <2>1. CASE Hd = head[c]
    <3>1. Items # <<>> /\ next[c] = Head(Items) /\ Items' = Tail(Items)
      BY <1>6, <2>1, TakeAtHead, TakeTakes DEF DeqTake
    <3>2. c \notin Taking /\ Taking' = Taking \cup {c} /\ Putting' = Putting
      BY <1>1, <1>6, <2>1, QueueAssumption DEF DeqTake, Goto, Putting, Taking, QTypeOK, Threads
    <3>3. Abstract!Take(c)
      BY <1>6, <2>1, <3>1, <3>2 DEF DeqTake, Abstract!Take, Putting, Taking
    <3> QED BY <3>3 DEF Abstract!ANext
  <2>2. CASE Hd # head[c]
    <3>1. Putting' = Putting /\ Taking' = Taking
      BY <1>1, <1>6, <2>2, QueueAssumption DEF DeqTake, Goto, Putting, Taking, QTypeOK, Threads
    <3> QED BY <1>2, <1>6, <2>2, <3>1 DEF DeqTake
  <2> QED BY <2>1, <2>2
<1>7. ASSUME NEW c \in Consumers, DeqUncount(c)
      PROVE  [Abstract!ANext]_(Abstract!avars)
  <2>1. c \in Taking /\ Taking' = Taking \ {c} /\ Putting' = Putting /\ Items' = Items
    BY <1>1, <1>7, QueueAssumption
       DEF DeqUncount, Goto, Putting, Taking, QTypeOK, Threads, Items
  <2>2. Abstract!CountTake(c)
    BY <1>7, <2>1 DEF DeqUncount, Abstract!CountTake, Putting, Taking
  <2> QED BY <2>2 DEF Abstract!ANext
<1>8. ASSUME NEW c \in Consumers,
             DeqCall(c) \/ DeqLoadHead(c) \/ DeqLoadTail(c) \/ DeqLoadNext(c)
               \/ DeqTest(c) \/ DeqHelp(c)
      PROVE  [Abstract!ANext]_(Abstract!avars)
  <2>1. Putting' = Putting /\ Taking' = Taking
    BY <1>1, <1>8, QueueAssumption
       DEF DeqCall, DeqLoadHead, DeqLoadTail, DeqLoadNext, DeqTest, DeqHelp, HelpTail, Goto,
           Putting, Taking, QTypeOK, Threads
  <2> QED BY <1>2, <1>8, <2>1
          DEF DeqCall, DeqLoadHead, DeqLoadTail, DeqLoadNext, DeqTest, DeqHelp, HelpTail
<1>9. CASE UNCHANGED qvars
  BY <1>2, <1>9 DEF qvars, Putting, Taking
<1> QED
  BY <1>3, <1>4, <1>5, <1>6, <1>7, <1>8, <1>9 DEF QNext, Enqueue, Dequeue

\* The lock-free list implements the atomic FIFO the poller relies on: Enqueue
\* takes effect at its link and Dequeue at its swing of Head, for any number of
\* goroutines.
THEOREM QueueImplementsTaskQueue == QSpec => ImplementsTaskQueue
PROOF
<1>1. NewQueue => Abstract!AInit
  <2> SUFFICES ASSUME NewQueue
               PROVE  Abstract!AInit
    OBVIOUS
  <2>1. QTypeOK /\ OrderInv /\ Next_[Hd] = Nil
    BY QInitInv DEF QInv, NewQueue, AllNodes
  <2>2. Items = <<>>
    BY <2>1, EmptyAtLast
  <2> QED BY <2>2 DEF NewQueue, Abstract!AInit, Threads
<1> QED
  BY <1>1, QueueInvariant, StepRefines, PTL DEF QSpec, ImplementsTaskQueue, Abstract!ASpec

-----------------------------------------------------------------------------
(* The counter *)

\* The operations between their effect and their count are finitely many.
LEMMA InFlightFinite ==
  /\ IsFiniteSet(Putting) /\ Cardinality(Putting) \in Nat
  /\ IsFiniteSet(Taking) /\ Cardinality(Taking) \in Nat
PROOF
<1>1. Putting \in SUBSET Producers /\ Taking \in SUBSET Consumers
  BY DEF Putting, Taking
<1> QED BY <1>1, QueueAssumption, FS_Subset, FS_CardinalityType

\* Every step of TaskQueue keeps the account of its counter.
LEMMA LengthStep ==
  ASSUME QInv, QInv', LengthAccountsForAll, [Abstract!ANext]_(Abstract!avars)
  PROVE  LengthAccountsForAll'
PROOF
<1>1. /\ Length \in Int /\ Items \in Seq(AllNodes) /\ Items' \in Seq(AllNodes)
  BY RestFacts, SMTT(30) DEF QInv, QTypeOK, OrderInv, ListIntact, Items
<1>2. Length = Len(Items) - Cardinality(Putting) + Cardinality(Taking)
  BY DEF LengthAccountsForAll, Putting, Taking
<1> SUFFICES Length' = Len(Items') - Cardinality(Putting') + Cardinality(Taking')
  BY DEF LengthAccountsForAll, Putting, Taking
<1> USE InFlightFinite
<1>3. ASSUME NEW p \in Producers, NEW n \in Nodes, Abstract!Put(p, n)
      PROVE  Length' = Len(Items') - Cardinality(Putting') + Cardinality(Taking')
  <2>1. /\ p \notin Putting /\ Putting' = Putting \cup {p} /\ Taking' = Taking
        /\ Items' = Append(Items, n) /\ Length' = Length
    BY <1>3 DEF Abstract!Put, Putting, Taking
  <2>2. Cardinality(Putting') = Cardinality(Putting) + 1
    BY <2>1, FS_AddElement
  <2>3. Len(Items') = Len(Items) + 1
    BY <1>1, <2>1 DEF AllNodes
  <2> QED BY <1>1, <1>2, <2>1, <2>2, <2>3
<1>4. ASSUME NEW p \in Producers, Abstract!CountPut(p)
      PROVE  Length' = Len(Items') - Cardinality(Putting') + Cardinality(Taking')
  <2>1. /\ p \in Putting /\ Putting' = Putting \ {p} /\ Taking' = Taking
        /\ Items' = Items /\ Length' = Length + 1
    BY <1>4 DEF Abstract!CountPut, Putting, Taking
  <2>2. Cardinality(Putting') = Cardinality(Putting) - 1
    BY <2>1, FS_RemoveElement
  <2> QED BY <1>1, <1>2, <2>1, <2>2
<1>5. ASSUME NEW c \in Consumers, Abstract!Take(c)
      PROVE  Length' = Len(Items') - Cardinality(Putting') + Cardinality(Taking')
  <2>1. /\ c \notin Taking /\ Taking' = Taking \cup {c} /\ Putting' = Putting
        /\ Items # <<>> /\ Items' = Tail(Items) /\ Length' = Length
    BY <1>5 DEF Abstract!Take, Putting, Taking
  <2>2. Cardinality(Taking') = Cardinality(Taking) + 1
    BY <2>1, FS_AddElement
  <2>3. Len(Items') = Len(Items) - 1
    BY <1>1, <2>1, HeadTailProperties
  <2> QED BY <1>1, <1>2, <2>1, <2>2, <2>3
<1>6. ASSUME NEW c \in Consumers, Abstract!CountTake(c)
      PROVE  Length' = Len(Items') - Cardinality(Putting') + Cardinality(Taking')
  <2>1. /\ c \in Taking /\ Taking' = Taking \ {c} /\ Putting' = Putting
        /\ Items' = Items /\ Length' = Length - 1
    BY <1>6 DEF Abstract!CountTake, Putting, Taking
  <2>2. Cardinality(Taking') = Cardinality(Taking) - 1
    BY <2>1, FS_RemoveElement
  <2> QED BY <1>1, <1>2, <2>1, <2>2
<1>7. CASE UNCHANGED Abstract!avars
  <2>1. Items' = Items /\ Length' = Length /\ Putting' = Putting /\ Taking' = Taking
    BY <1>7 DEF Abstract!avars, Putting, Taking
  <2> QED BY <1>2, <2>1
<1> QED BY <1>3, <1>4, <1>5, <1>6, <1>7 DEF Abstract!ANext

\* Length differs from the number of queued tasks by exactly the operations that
\* have taken effect and not counted themselves, however many there are.
THEOREM LengthAlwaysAccounts == QSpec => []LengthAccountsForAll
PROOF
<1>1. NewQueue => LengthAccountsForAll
  <2> SUFFICES ASSUME NewQueue
               PROVE  LengthAccountsForAll
    OBVIOUS
  <2>1. QTypeOK /\ OrderInv /\ Next_[Hd] = Nil
    BY QInitInv DEF QInv, NewQueue, AllNodes
  <2>2. Len(Items) = 0
    BY <2>1, EmptyAtLast
  <2>3. Putting = {} /\ Taking = {} /\ Length = 0
    BY DEF NewQueue, Putting, Taking, Threads
  <2>4. Cardinality(Putting) = 0 /\ Cardinality(Taking) = 0
    BY <2>3, FS_EmptySet
  <2> QED BY <2>2, <2>3, <2>4 DEF LengthAccountsForAll, Putting, Taking
<1> QED BY <1>1, QueueInvariant, StepRefines, LengthStep, QStepInv, PTL DEF QSpec

-----------------------------------------------------------------------------
(* What a step may never do *)

\* Head and Tail only ever move forward in the order of linking: no late
\* compare-and-swap takes either back to a node it has left.
THEOREM PointersOnlyMoveForward == QSpec => PointersMoveForward
PROOF
<1>1. ASSUME QInv, [QNext]_qvars
      PROVE  /\ \E i, j \in 1..Len(order') : i <= j /\ order'[i] = Tl /\ order'[j] = Tl'
             /\ \E i, j \in 1..Len(order') : i <= j /\ order'[i] = Hd /\ order'[j] = Hd'
  <2>1. Before(Tl, Tl) /\ Before(Hd, Hd)
    BY <1>1, HeadBeforeTail, BeforeOrder DEF QInv
  <2>2. \A m : /\ Before(m, Tl) => Before(m, Tl)'
               /\ Before(m, Hd) => Before(m, Hd)'
    BY <1>1, ListStep DEF Forward
  <2>3. PICK t, h : t = Tl /\ h = Hd
    OBVIOUS
  <2>4. Before(t, Tl)' /\ Before(h, Hd)'
    BY <2>1, <2>2, <2>3
  <2> QED BY <2>3, <2>4 DEF Before
<1> QED BY <1>1, QueueInvariant, PTL DEF QSpec, PointersMoveForward
=============================================================================
