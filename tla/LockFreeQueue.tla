--------------------------- MODULE LockFreeQueue ---------------------------
(***************************************************************************)
(* utils/queue/lock_free_queue.go: the queue behind a poller's task lists. *)
(*                                                                         *)
(* Every load and every compare-and-swap is a step of its own, so any      *)
(* number of goroutines interleave between them.  A node is named by the   *)
(* task it carries (each Enqueue allocates a fresh node; the garbage       *)
(* collector never recycles one that a goroutine still holds), Blank is    *)
(* the node NewQueue allocates.                                            *)
(***************************************************************************)
EXTENDS Integers, Sequences, FiniteSets

CONSTANTS Producers,  \* goroutines that call Enqueue
          Consumers,  \* goroutines that call Dequeue
          Nodes,      \* the nodes Enqueue may allocate: bounds the enqueues
          Blank,      \* the first, valueless node
          Nil         \* the nil pointer

ASSUME QueueAssumption ==
  /\ Blank \notin Nodes
  /\ Nil \notin Nodes \cup {Blank}
  /\ Producers \cap Consumers = {}
  /\ IsFiniteSet(Producers)
  /\ IsFiniteSet(Consumers)

VARIABLES
  Hd, Tl,      \* Queue.Head and Queue.Tail
  Length,      \* Queue.Length
  Next_,       \* node.Next of every node
  pc,          \* where each goroutine is in Enqueue or Dequeue
  node,        \* Enqueue's n
  head, tail, next,   \* the locals of the same names
  order,       \* history: the nodes in the order they were linked, Blank first
  out,         \* history: the nodes Dequeue handed out, in order
  sawEmpty     \* history: the queue was empty when the consumer loaded next

qvars == <<Hd, Tl, Length, Next_, pc, node, head, tail, next,
           order, out, sawEmpty>>

AllNodes == Nodes \cup {Blank}
Threads  == Producers \cup Consumers

EnqueuePC == {"idle", "loadTail", "loadNext", "test", "link", "help",
              "swing", "count"}
DequeuePC == {"idle", "loadHead", "loadTail", "loadNext", "test", "help",
              "take", "uncount"}

\* The nodes ever linked that Dequeue has not handed out.
Items == SubSeq(order, Len(out) + 2, Len(order))

NewQueue ==
  /\ Hd = Blank
  /\ Tl = Blank
  /\ Length = 0
  /\ Next_ = [n \in AllNodes |-> Nil]
  /\ pc = [t \in Threads |-> "idle"]
  /\ node = [t \in Producers |-> Blank]
  /\ head = [t \in Consumers |-> Blank]
  /\ tail = [t \in Threads |-> Blank]
  /\ next = [t \in Threads |-> Nil]
  /\ order = <<Blank>>
  /\ out = <<>>
  /\ sawEmpty = [t \in Consumers |-> FALSE]

Goto(t, from, to) ==
  /\ pc[t] = from
  /\ pc' = [pc EXCEPT ![t] = to]

-----------------------------------------------------------------------------
(* Enqueue *)

\* n := &node{Value: task}: a node no Enqueue has used before.
EnqAlloc(p) ==
  /\ Goto(p, "idle", "loadTail")
  /\ \E n \in Nodes :
       /\ \A i \in 1..Len(order) : order[i] # n
       /\ \A q \in Producers : pc[q] # "idle" => node[q] # n
       /\ node' = [node EXCEPT ![p] = n]
  /\ UNCHANGED <<Hd, Tl, Length, Next_, head, tail, next, order, out, sawEmpty>>

EnqLoadTail(p) ==
  /\ Goto(p, "loadTail", "loadNext")
  /\ tail' = [tail EXCEPT ![p] = Tl]
  /\ UNCHANGED <<Hd, Tl, Length, Next_, node, head, next, order, out, sawEmpty>>

EnqLoadNext(p) ==
  /\ Goto(p, "loadNext", "test")
  /\ next' = [next EXCEPT ![p] = Next_[tail[p]]]
  /\ UNCHANGED <<Hd, Tl, Length, Next_, node, head, tail, order, out, sawEmpty>>

\* Defect: the two branches of next == nil are swapped.
EnqTestSwapped(p) ==
  /\ Goto(p, "test", IF tail[p] # Tl THEN "loadTail"
                     ELSE IF next[p] = Nil THEN "help" ELSE "link")
  /\ UNCHANGED <<Hd, Tl, Length, Next_, node, head, tail, next, order, out, sawEmpty>>

\* tail == load(&that.Tail), then next == nil.
EnqTest(p) ==
  /\ Goto(p, "test", IF tail[p] # Tl THEN "loadTail"
                     ELSE IF next[p] = Nil THEN "link" ELSE "help")
  /\ UNCHANGED <<Hd, Tl, Length, Next_, node, head, tail, next, order, out, sawEmpty>>

\* Defect: a store to tail.Next in place of the compare-and-swap.
EnqLinkStore(p) ==
  /\ Goto(p, "link", "swing")
  /\ Next_' = [Next_ EXCEPT ![tail[p]] = node[p]]
  /\ order' = Append(order, node[p])
  /\ UNCHANGED <<Hd, Tl, Length, node, head, tail, next, out, sawEmpty>>

\* cas(&tail.Next, next, n) with next == nil: the enqueue takes effect here.
EnqLink(p) ==
  /\ Goto(p, "link", IF Next_[tail[p]] = Nil THEN "swing" ELSE "loadTail")
  /\ IF Next_[tail[p]] = Nil
     THEN /\ Next_' = [Next_ EXCEPT ![tail[p]] = node[p]]
          /\ order' = Append(order, node[p])
     ELSE UNCHANGED <<Next_, order>>
  /\ UNCHANGED <<Hd, Tl, Length, node, head, tail, next, out, sawEmpty>>

\* cas(&that.Tail, tail, next): finish another goroutine's enqueue, retry.
HelpTail(t, retry) ==
  /\ Goto(t, "help", retry)
  /\ Tl' = IF Tl = tail[t] THEN next[t] ELSE Tl
  /\ UNCHANGED <<Hd, Length, Next_, node, head, tail, next, order, out, sawEmpty>>

EnqHelp(p) == HelpTail(p, "loadTail")

\* Defect: a store to Tail in place of the compare-and-swap.
EnqSwingStore(p) ==
  /\ Goto(p, "swing", "count")
  /\ Tl' = node[p]
  /\ UNCHANGED <<Hd, Length, Next_, node, head, tail, next, order, out, sawEmpty>>

\* cas(&that.Tail, tail, n)
EnqSwing(p) ==
  /\ Goto(p, "swing", "count")
  /\ Tl' = IF Tl = tail[p] THEN node[p] ELSE Tl
  /\ UNCHANGED <<Hd, Length, Next_, node, head, tail, next, order, out, sawEmpty>>

EnqCount(p) ==
  /\ Goto(p, "count", "idle")
  /\ Length' = Length + 1
  /\ UNCHANGED <<Hd, Tl, Next_, node, head, tail, next, order, out, sawEmpty>>

Enqueue(p) ==
  \/ EnqAlloc(p) \/ EnqLoadTail(p) \/ EnqLoadNext(p) \/ EnqTest(p)
  \/ EnqLink(p) \/ EnqHelp(p) \/ EnqSwing(p) \/ EnqCount(p)

-----------------------------------------------------------------------------
(* Dequeue *)

DeqCall(c) ==
  /\ Goto(c, "idle", "loadHead")
  /\ UNCHANGED <<Hd, Tl, Length, Next_, node, head, tail, next, order, out, sawEmpty>>

DeqLoadHead(c) ==
  /\ Goto(c, "loadHead", "loadTail")
  /\ head' = [head EXCEPT ![c] = Hd]
  /\ UNCHANGED <<Hd, Tl, Length, Next_, node, tail, next, order, out, sawEmpty>>

DeqLoadTail(c) ==
  /\ Goto(c, "loadTail", "loadNext")
  /\ tail' = [tail EXCEPT ![c] = Tl]
  /\ UNCHANGED <<Hd, Tl, Length, Next_, node, head, next, order, out, sawEmpty>>

\* Defect: next is not loaded again when the loop is.
DeqLoadNextOnce(c) ==
  /\ Goto(c, "loadNext", "test")
  /\ sawEmpty' = [sawEmpty EXCEPT ![c] = (Items = <<>>)]
  /\ UNCHANGED <<Hd, Tl, Length, Next_, node, head, tail, next, order, out>>

DeqLoadNext(c) ==
  /\ Goto(c, "loadNext", "test")
  /\ next' = [next EXCEPT ![c] = Next_[head[c]]]
  /\ sawEmpty' = [sawEmpty EXCEPT ![c] = (Items = <<>>)]
  /\ UNCHANGED <<Hd, Tl, Length, Next_, node, head, tail, order, out>>

\* Defect: the empty queue is not recognised.
DeqTestNoEmpty(c) ==
  /\ Goto(c, "test", IF head[c] # Hd THEN "loadHead"
                     ELSE IF head[c] = tail[c] /\ next[c] # Nil THEN "help"
                     ELSE "take")
  /\ UNCHANGED <<Hd, Tl, Length, Next_, node, head, tail, next, order, out, sawEmpty>>

\* Defect: the counter also goes down when nil is returned.
DeqTestUncounts(c) ==
  /\ Goto(c, "test", IF head[c] # Hd THEN "loadHead"
                     ELSE IF head[c] # tail[c] THEN "take"
                     ELSE IF next[c] = Nil THEN "uncount" ELSE "help")
  /\ UNCHANGED <<Hd, Tl, Length, Next_, node, head, tail, next, order, out, sawEmpty>>

\* The tests of one turn of the loop; "idle" is the return of nil.
DeqTest(c) ==
  /\ Goto(c, "test", IF head[c] # Hd THEN "loadHead"
                     ELSE IF head[c] # tail[c] THEN "take"
                     ELSE IF next[c] = Nil THEN "idle" ELSE "help")
  /\ UNCHANGED <<Hd, Tl, Length, Next_, node, head, tail, next, order, out, sawEmpty>>

DeqHelp(c) == HelpTail(c, "loadHead")

\* Defect: a store to Head in place of the compare-and-swap.
DeqTakeStore(c) ==
  /\ Goto(c, "take", "uncount")
  /\ Hd' = next[c]
  /\ out' = Append(out, next[c])
  /\ UNCHANGED <<Tl, Length, Next_, node, head, tail, next, order, sawEmpty>>

\* task := next.Value; cas(&that.Head, head, next): the dequeue takes effect.
DeqTake(c) ==
  /\ Goto(c, "take", IF Hd = head[c] THEN "uncount" ELSE "loadHead")
  /\ IF Hd = head[c]
     THEN Hd' = next[c] /\ out' = Append(out, next[c])
     ELSE UNCHANGED <<Hd, out>>
  /\ UNCHANGED <<Tl, Length, Next_, node, head, tail, next, order, sawEmpty>>

DeqUncount(c) ==
  /\ Goto(c, "uncount", "idle")
  /\ Length' = Length - 1
  /\ UNCHANGED <<Hd, Tl, Next_, node, head, tail, next, order, out, sawEmpty>>

Dequeue(c) ==
  \/ DeqCall(c) \/ DeqLoadHead(c) \/ DeqLoadTail(c) \/ DeqLoadNext(c)
  \/ DeqTest(c) \/ DeqHelp(c) \/ DeqTake(c) \/ DeqUncount(c)

QNext ==
  \/ \E p \in Producers : Enqueue(p)
  \/ \E c \in Consumers : Dequeue(c)

QSpec == NewQueue /\ [][QNext]_qvars

-----------------------------------------------------------------------------
(* Properties *)

\* Type correctness of the queue's pointers, locals and histories.
QTypeOK ==
  /\ Hd \in AllNodes /\ Tl \in AllNodes
  /\ Length \in Int
  /\ Next_ \in [AllNodes -> Nodes \cup {Nil}]
  /\ pc \in [Threads -> EnqueuePC \cup DequeuePC]
  /\ \A p \in Producers : pc[p] \in EnqueuePC
  /\ \A c \in Consumers : pc[c] \in DequeuePC
  /\ node \in [Producers -> AllNodes]
  /\ head \in [Consumers -> AllNodes]
  /\ tail \in [Threads -> AllNodes]
  /\ next \in [Threads -> Nodes \cup {Nil}]
  /\ order \in Seq(AllNodes)
  /\ out \in Seq(Nodes \cup {Nil})
  /\ sawEmpty \in [Consumers -> BOOLEAN]

\* The list reached from Head is the list of linked nodes that were not
\* handed out: no enqueue is ever lost by a racing swing of Tail, and Tail is
\* the last node or the one before it.
ListIntact ==
  /\ Len(out) < Len(order)
  /\ Hd = order[Len(out) + 1]
  /\ \A i \in 1..Len(order) :
       Next_[order[i]] = IF i = Len(order) THEN Nil ELSE order[i + 1]
  /\ \E i \in (Len(out) + 1)..Len(order) :
       Tl = order[i] /\ Len(order) - 1 <= i

\* Dequeue dereferences next (next.Value) only when it is a node: the tail it
\* read before next proves that head has a successor.
NoNilDereference ==
  \A c \in Consumers :
    pc[c] = "take" => next[c] # Nil

\* Dequeue answers nil only if the queue really was empty at one moment of
\* the call: a task linked before the call is never overlooked.
EmptyAnswerIsTrue ==
  \A c \in Consumers :
    pc[c] = "test" /\ head[c] = Hd /\ head[c] = tail[c] /\ next[c] = Nil
      => sawEmpty[c]

\* Length differs from the number of queued tasks by exactly the operations
\* that have taken effect and not yet counted themselves.
LengthAccountsForAll ==
  Length = Len(Items)
           - Cardinality({p \in Producers : pc[p] \in {"swing", "count"}})
           + Cardinality({c \in Consumers : pc[c] = "uncount"})

\* Head and Tail never go back to a node they have left, although a goroutine may
\* swing either long after it loaded the node it compares with.
PointersMoveForward ==
  [][ /\ \E i, j \in 1..Len(order') : i <= j /\ order'[i] = Tl /\ order'[j] = Tl'
      /\ \E i, j \in 1..Len(order') : i <= j /\ order'[i] = Hd /\ order'[j] = Hd' ]_qvars

Abstract == INSTANCE TaskQueue WITH
  items <- Items,
  taken <- out,
  length <- Length,
  putting <- {p \in Producers : pc[p] \in {"swing", "count"}},
  taking <- {c \in Consumers : pc[c] = "uncount"}

\* The pointer structure implements the atomic FIFO of TaskQueue: Enqueue
\* takes effect at its link, Dequeue at its swing of Head, in FIFO order.
ImplementsTaskQueue == Abstract!ASpec
=============================================================================
