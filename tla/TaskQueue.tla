----------------------------- MODULE TaskQueue -----------------------------
(***************************************************************************)
(* What a queue.TaskQueue promises to the poller: a FIFO of tasks whose    *)
(* Enqueue and Dequeue take effect atomically, and a length counter that   *)
(* each operation brings up to date in a later step of its own.  IsEmpty   *)
(* only looks at the counter, so a client has to cope with the lag; the    *)
(* module Poller is written against exactly this contract, and the module  *)
(* LockFreeQueue is shown to implement it.                                 *)
(***************************************************************************)
EXTENDS Integers, Sequences

CONSTANTS Producers,  \* goroutines that call Enqueue
          Consumers,  \* goroutines that call Dequeue
          Nodes       \* the tasks, one per Enqueue call

VARIABLES items,      \* the tasks in the queue, oldest first
          taken,      \* history: the tasks handed out, in order
          length,     \* the counter behind IsEmpty
          putting,    \* producers whose task is in, but not yet counted
          taking      \* consumers whose task is out, but not yet counted

avars == <<items, taken, length, putting, taking>>

AInit ==
  /\ items = <<>>
  /\ taken = <<>>
  /\ length = 0
  /\ putting = {}
  /\ taking = {}

Put(p, n) ==
  /\ p \notin putting
  /\ items' = Append(items, n)
  /\ putting' = putting \cup {p}
  /\ UNCHANGED <<taken, length, taking>>

CountPut(p) ==
  /\ p \in putting
  /\ length' = length + 1
  /\ putting' = putting \ {p}
  /\ UNCHANGED <<items, taken, taking>>

\* A consumer is handed the oldest task of the queue and no other.
Take(c) ==
  /\ c \notin taking
  /\ items # <<>>
  /\ taken' = Append(taken, Head(items))
  /\ items' = Tail(items)
  /\ taking' = taking \cup {c}
  /\ UNCHANGED <<length, putting>>

CountTake(c) ==
  /\ c \in taking
  /\ length' = length - 1
  /\ taking' = taking \ {c}
  /\ UNCHANGED <<items, taken, putting>>

ANext ==
  \/ \E p \in Producers, n \in Nodes : Put(p, n)
  \/ \E p \in Producers : CountPut(p)
  \/ \E c \in Consumers : Take(c) \/ CountTake(c)

ASpec == AInit /\ [][ANext]_avars
=============================================================================
