------------------------------- MODULE Poller -------------------------------
(***************************************************************************)
(* poll/poll.go with sys.WaitPoll of sys/sys_poll_linux.go: one poller,    *)
(* its event loop, the goroutines that hand it tasks and the goroutine     *)
(* pool that runs the tasks and the connection handlers.                   *)
(*                                                                         *)
(* The two task queues obey the contract of the module TaskQueue: Enqueue  *)
(* and Dequeue are atomic, a producer counts its task in a later step.     *)
(* The loop's own decrement of the counter is part of its Dequeue, because *)
(* the loop is the only goroutine that calls Dequeue or IsEmpty.           *)
(***************************************************************************)
EXTENDS Integers, Sequences, FiniteSets, SequencesExt

CONSTANTS
  Producers,      \* goroutines that call AddTask or AddPriorTask
  Tasks,          \* the tasks they may add: bounds the calls
  Fds,            \* watched descriptors: the listener, or connections
  EvFd,           \* pollEvFd, the eventfd that wakes the loop
  MaxTasks,       \* iface.MaxTasks (256): plain tasks per turn
  PoolSize,       \* capacity of the goroutine pool, shared by all loops
  MaxOthers,      \* bound: jobs the other loops submit to the pool
  InitPollSize, MinPollSize, MaxPollSize   \* length of the events slice

\* The pool submits one job at least, the events slice never gets shorter
\* than two (it is 32 in the code: the proofs need no more than two).
ASSUME PollerAssumption ==
  /\ EvFd \notin Fds
  /\ Tasks \cap (Fds \cup {EvFd}) = {}
  /\ IsFiniteSet(Fds) /\ IsFiniteSet(Tasks) /\ IsFiniteSet(Producers)
  /\ MaxTasks \in Nat \ {0}
  /\ PoolSize \in Nat \ {0}
  /\ MaxOthers \in Nat
  /\ InitPollSize \in Nat /\ MinPollSize \in Nat /\ MaxPollSize \in Nat
  /\ 2 <= MinPollSize
  /\ MinPollSize <= InitPollSize /\ InitPollSize <= MaxPollSize

VARIABLES
  queue,          \* "prior" and "plain": priorTasks and tasks
  length,         \* their counters
  used,           \* tasks handed to AddTask or AddPriorTask so far
  kind,           \* the queue a producer is adding to
  pc,             \* where each producer is
  toTrigger,      \* Poller.toTrigger
  evfd,           \* the eventfd's counter is not zero
  ready,          \* descriptors that are readable or writable
  lpc,            \* where the loop is
  batch, idx,     \* the events epoll_wait returned, and the one being handled
  trigger,        \* WaitPoll's trigger while the loop is between callbacks, the
                  \* callback's inside one
  quota,          \* plain tasks taken in this turn
  size,           \* length of the events slice
  running,        \* jobs submitted to the pool and not done: the wait group
  done,           \* history: tasks that have run
  stopErrs,       \* number of errors in ErrForStop
  connErr,        \* connections whose ErrChan holds an error
  IsBlocked,      \* IPollCallback.IsBlocked: TRUE in the accepting main loop
  others,         \* jobs of other loops in the pool
  otherJobs,      \* jobs they will still submit
  forgotten       \* history: a wake-up was read and not passed on

prodVars == <<used, kind, pc>>
loopVars == <<batch, idx, quota, size, forgotten>>
pvars == <<queue, length, used, kind, pc, toTrigger, evfd, ready, lpc, batch, idx,
           trigger, quota, size, running, done, stopErrs, connErr, IsBlocked, others,
           otherJobs, forgotten>>

Kinds == {"prior", "plain"}

\* p.ErrForStop = make(chan error, 2)
StopCap == 2

\* poll.New, called from Engine.startReactors, and the start of WaitPoll.
PInit ==
  /\ queue = [k \in Kinds |-> <<>>]
  /\ length = [k \in Kinds |-> 0]
  /\ used = {}
  /\ kind = [p \in Producers |-> "plain"]
  /\ pc = [p \in Producers |-> "idle"]
  /\ toTrigger = 0
  /\ evfd = FALSE
  /\ ready = {}
  /\ lpc = "wait"
  /\ batch = <<>>
  /\ idx = 1
  /\ trigger = FALSE
  /\ quota = 0
  /\ size = InitPollSize
  /\ running = {}
  /\ done = {}
  /\ stopErrs = 0
  /\ connErr = {}
  /\ IsBlocked \in BOOLEAN
  /\ others = 0
  /\ otherJobs = MaxOthers
  /\ forgotten = FALSE

-----------------------------------------------------------------------------
(* AddTask and AddPriorTask, on any goroutine *)

PGoto(p, from, to) ==
  /\ pc[p] = from
  /\ pc' = [pc EXCEPT ![p] = to]

\* Enqueue takes effect; the task is not counted yet.
AddEnqueue(p, t, k) ==
  /\ PGoto(p, "idle", "count")
  /\ t \notin used
  /\ used' = used \cup {t}
  /\ kind' = [kind EXCEPT ![p] = k]
  /\ queue' = [queue EXCEPT ![k] = Append(@, t)]
  /\ UNCHANGED <<length, toTrigger, evfd, ready, lpc, trigger, running, done,
                 stopErrs, connErr, loopVars>>

AddCount(p) ==
  /\ PGoto(p, "count", "cas")
  /\ length' = [length EXCEPT ![kind[p]] = @ + 1]
  /\ UNCHANGED <<queue, used, kind, toTrigger, evfd, ready, lpc, trigger, running,
                 done, stopErrs, connErr, loopVars>>

\* CompareAndSwapInt32(&toTrigger, 0, 1)
AddCas(p) ==
  /\ PGoto(p, "cas", IF toTrigger = 0 THEN "write" ELSE "idle")
  /\ toTrigger' = 1
  /\ UNCHANGED <<queue, length, used, kind, evfd, ready, lpc, trigger, running, done,
                 stopErrs, connErr, loopVars>>

\* sys.Trigger(pollEvFd); a full counter (EAGAIN) is readable all the same.
AddTrigger(p) ==
  /\ PGoto(p, "write", "idle")
  /\ evfd' = TRUE
  /\ UNCHANGED <<queue, length, used, kind, toTrigger, ready, lpc, trigger, running,
                 done, stopErrs, connErr, loopVars>>

-----------------------------------------------------------------------------
(* The loop: WaitPoll and the callback Start gives it *)

LGoto(from, to) == lpc = from /\ lpc' = to

Readable == ready \cup (IF evfd THEN {EvFd} ELSE {})

\* EpollWait fills at most size events, in any order.  (n == 0 and EINTR only
\* change the timeout of the next call.)
EpollWait ==
  /\ LGoto("wait", "event")
  /\ Readable # {}
  /\ \E S \in SUBSET Readable :
       /\ S # {}
       /\ S = Readable \/ Cardinality(S) = size
       /\ Cardinality(S) <= size
       /\ batch' \in SetToSeqs(S)
  /\ idx' = 1
  /\ UNCHANGED <<prodVars, queue, length, toTrigger, evfd, ready, trigger, quota, forgotten,
                 size, running, done, stopErrs, connErr>>

\* Lines 112-122: note a wake-up, then call back; only the last event of the
\* batch passes trigger on, every other one passes false.
TakeEvent ==
  /\ LGoto("event", "dispatch")
  /\ evfd' = (evfd /\ batch[idx] # EvFd)
  /\ trigger' = (idx = Len(batch) /\ (trigger \/ batch[idx] = EvFd))
  /\ forgotten' = (forgotten \/ (idx < Len(batch) /\ batch[idx] = EvFd))
  /\ UNCHANGED <<prodVars, queue, length, toTrigger, ready, batch, idx, quota, size,
                 running, done, stopErrs, connErr>>

PoolHasRoom == Cardinality(running) + others < PoolSize

\* callback.AsyncWaitCallback of a sub loop: read the eventfd once more, or
\* submit the handler of a known connection, or find no connection.  The main
\* loop skips it.  Line 119 then resets trigger for the return value.
Dispatch ==
  /\ LGoto("dispatch", IF trigger THEN "prior" ELSE "join")
  /\ trigger' = FALSE
  /\ \/ /\ IsBlocked
        /\ UNCHANGED <<evfd, running>>
     \/ /\ ~IsBlocked /\ batch[idx] = EvFd
        /\ evfd' = FALSE
        /\ UNCHANGED running
     \/ /\ ~IsBlocked /\ batch[idx] # EvFd
        /\ PoolHasRoom
        /\ running' = running \cup {batch[idx]}
        /\ UNCHANGED evfd
     \/ /\ ~IsBlocked /\ batch[idx] # EvFd
        /\ UNCHANGED <<evfd, running>>
  /\ UNCHANGED <<prodVars, queue, length, toTrigger, ready, batch, idx, quota, size,
                 forgotten, done, stopErrs, connErr>>

\* Dequeue a task and hand it to the pool (runTask).
RunTask(k) ==
  /\ queue[k] # <<>>
  /\ PoolHasRoom
  /\ running' = running \cup {Head(queue[k])}
  /\ queue' = [queue EXCEPT ![k] = Tail(@)]
  /\ length' = [length EXCEPT ![k] = @ - 1]

RunPrior ==
  /\ LGoto("prior", "prior")
  /\ RunTask("prior")
  /\ UNCHANGED <<prodVars, toTrigger, evfd, ready, trigger, loopVars, done, stopErrs,
                 connErr>>

PriorEmpty ==
  /\ LGoto("prior", "plain")
  /\ queue["prior"] = <<>>
  /\ quota' = 0
  /\ UNCHANGED <<prodVars, queue, length, toTrigger, evfd, ready, batch, idx, trigger,
                 size, forgotten, running, done, stopErrs, connErr>>

RunPlain ==
  /\ LGoto("plain", "plain")
  /\ quota < MaxTasks
  /\ RunTask("plain")
  /\ quota' = quota + 1
  /\ UNCHANGED <<prodVars, toTrigger, evfd, ready, trigger, batch, idx, size, forgotten, done,
                 stopErrs, connErr>>

PlainOver ==
  /\ LGoto("plain", "joinTasks")
  /\ quota >= MaxTasks \/ queue["plain"] = <<>>
  /\ UNCHANGED <<prodVars, queue, length, toTrigger, evfd, ready, trigger, loopVars,
                 running, done, stopErrs, connErr>>

\* wg.Wait() of the trigger branch, line 134, and of the other one, line 149.
JoinTasks ==
  /\ LGoto("joinTasks", "select")
  /\ running = {}
  /\ UNCHANGED <<prodVars, queue, length, toTrigger, evfd, ready, trigger, loopVars,
                 running, done, stopErrs, connErr>>

\* Defect: the loop goes on while the handler runs.
JoinHandlerAtOnce ==
  /\ LGoto("join", "callback")
  /\ UNCHANGED <<prodVars, queue, length, toTrigger, evfd, ready, trigger, loopVars,
                 running, done, stopErrs, connErr>>

JoinHandler ==
  /\ LGoto("join", "callback")
  /\ running = {}
  /\ UNCHANGED <<prodVars, queue, length, toTrigger, evfd, ready, trigger, loopVars,
                 running, done, stopErrs, connErr>>

\* Defect: the errors are received and then only logged.
SelectStopLogs ==
  /\ LGoto("select", "clear")
  /\ stopErrs' = 0
  /\ UNCHANGED <<prodVars, queue, length, toTrigger, evfd, ready, trigger, loopVars,
                 running, done, connErr>>

\* case err = <-that.ErrForStop: doWaitCallbackErr passes both errors the
\* channel can hold, so WaitPoll returns.
SelectStop ==
  /\ LGoto("select", IF stopErrs > 0 THEN "exit" ELSE "clear")
  /\ stopErrs' = IF stopErrs > 0 THEN stopErrs - 1 ELSE 0
  /\ UNCHANGED <<prodVars, queue, length, toTrigger, evfd, ready, trigger, loopVars,
                 running, done, connErr>>

\* Defect: the queues are not looked at again after the store.
ClearTriggerOnly ==
  /\ LGoto("clear", "callback")
  /\ toTrigger' = 0
  /\ UNCHANGED <<prodVars, queue, length, evfd, ready, trigger, loopVars, running, done,
                 stopErrs, connErr>>

\* StoreInt32(&toTrigger, 0)
ClearTrigger ==
  /\ LGoto("clear", "checkPlain")
  /\ toTrigger' = 0
  /\ UNCHANGED <<prodVars, queue, length, evfd, ready, trigger, loopVars, running, done,
                 stopErrs, connErr>>

\* !tasks.IsEmpty() || !priorTasks.IsEmpty()
CheckPlain ==
  /\ LGoto("checkPlain", IF length["plain"] # 0 THEN "recas" ELSE "checkPrior")
  /\ UNCHANGED <<prodVars, queue, length, toTrigger, evfd, ready, trigger, loopVars,
                 running, done, stopErrs, connErr>>

CheckPrior ==
  /\ LGoto("checkPrior", IF length["prior"] # 0 THEN "recas" ELSE "callback")
  /\ UNCHANGED <<prodVars, queue, length, toTrigger, evfd, ready, trigger, loopVars,
                 running, done, stopErrs, connErr>>

\* && CompareAndSwapInt32(&toTrigger, 0, 1)
ReCas ==
  /\ LGoto("recas", IF toTrigger = 0 THEN "rewrite" ELSE "callback")
  /\ toTrigger' = 1
  /\ UNCHANGED <<prodVars, queue, length, evfd, ready, trigger, loopVars, running, done,
                 stopErrs, connErr>>

\* Defect: the loop relies on its local trigger and does not write the eventfd.
ReTriggerLocal ==
  /\ LGoto("rewrite", "callback")
  /\ trigger' = TRUE
  /\ UNCHANGED <<prodVars, queue, length, toTrigger, evfd, ready, loopVars, running, done,
                 stopErrs, connErr>>

ReTrigger ==
  /\ LGoto("rewrite", "callback")
  /\ evfd' = TRUE
  /\ trigger' = TRUE
  /\ UNCHANGED <<prodVars, queue, length, toTrigger, ready, loopVars, running, done,
                 stopErrs, connErr>>

\* expand and shrink of the events slice, after the last event of a batch.
Resize(n) ==
  size' = IF n = size /\ 2 * size <= MaxPollSize THEN 2 * size
          ELSE IF n < size \div 2 /\ MinPollSize <= size \div 2 THEN size \div 2
          ELSE size

\* Defect: one event too many.
NextEventPastEnd ==
  IF idx <= Len(batch)
  THEN lpc' = "event" /\ idx' = idx + 1 /\ UNCHANGED size
  ELSE lpc' = "wait" /\ Resize(Len(batch)) /\ UNCHANGED idx

NextEvent ==
  IF idx < Len(batch)
  THEN lpc' = "event" /\ idx' = idx + 1 /\ UNCHANGED size
  ELSE lpc' = "wait" /\ Resize(Len(batch)) /\ UNCHANGED idx

\* The main loop accepts here, whatever descriptor the event is of: Callback
\* answers nil, an error of OnAccept that is only logged (and resets the
\* returned trigger), or ErrAcceptSocket.
AcceptCallback(err) ==
  /\ IsBlocked /\ lpc = "callback"
  /\ ready' \in SUBSET ready
  /\ trigger' = (trigger /\ err = "nil")
  /\ IF err = "stop"
     THEN lpc' = "exit" /\ UNCHANGED <<idx, size>>
     ELSE NextEvent
  /\ UNCHANGED <<prodVars, queue, length, toTrigger, evfd, batch, quota, forgotten, running,
                 done, stopErrs, connErr>>

\* Defect: ErrChan is not looked at.
ConnErrCallbackNever ==
  /\ ~IsBlocked /\ lpc = "callback"
  /\ NextEvent
  /\ UNCHANGED <<prodVars, queue, length, toTrigger, evfd, ready, trigger, batch, quota,
                 forgotten, running, done, stopErrs, connErr>>

\* A sub loop looks at the connection's ErrChan; what it holds ends the loop.
ConnErrCallback ==
  /\ ~IsBlocked /\ lpc = "callback"
  /\ IF batch[idx] \in connErr
     THEN lpc' = "exit" /\ connErr' = connErr \ {batch[idx]} /\ UNCHANGED <<idx, size>>
     ELSE NextEvent /\ UNCHANGED connErr
  /\ UNCHANGED <<prodVars, queue, length, toTrigger, evfd, ready, trigger, batch, quota,
                 forgotten, running, done, stopErrs>>

Loop ==
  \/ EpollWait \/ TakeEvent \/ Dispatch
  \/ RunPrior \/ PriorEmpty \/ RunPlain \/ PlainOver
  \/ JoinTasks \/ JoinHandler \/ SelectStop
  \/ ClearTrigger \/ CheckPlain \/ CheckPrior \/ ReCas \/ ReTrigger
  \/ \E err \in {"nil", "other", "stop"} : AcceptCallback(err)
  \/ ConnErrCallback

-----------------------------------------------------------------------------
(* The pool, and the outside world *)

\* Defect: a task that fails returns before wg.Done.
TaskDoneLeaks(t, stop) ==
  /\ t \in running /\ t \notin done
  /\ running' = IF stop THEN running ELSE running \ {t}
  /\ done' = done \cup {t}
  /\ stopErrs' = IF stop /\ stopErrs < StopCap THEN stopErrs + 1 ELSE stopErrs
  /\ UNCHANGED <<prodVars, queue, length, toTrigger, evfd, ready, lpc, trigger, loopVars,
                 connErr>>

\* A task returns; ErrEngineShutdown and ErrAcceptSocket go to ErrForStop,
\* unless the channel is full.
TaskDone(t, stop) ==
  /\ t \in running
  /\ running' = running \ {t}
  /\ done' = done \cup {t}
  /\ stopErrs' = IF stop /\ stopErrs < StopCap THEN stopErrs + 1 ELSE stopErrs
  /\ UNCHANGED <<prodVars, queue, length, toTrigger, evfd, ready, lpc, trigger, loopVars,
                 connErr>>

\* A connection handler returns: it has read or written what it could, and
\* sendErr may have put a stop error into the connection's ErrChan.
HandlerDone(f, stop) ==
  /\ f \in running
  /\ running' = running \ {f}
  /\ connErr' = IF stop THEN connErr \cup {f} ELSE connErr
  /\ ready' \in {ready, ready \ {f}}
  /\ UNCHANGED <<prodVars, queue, length, toTrigger, evfd, lpc, trigger, loopVars, done,
                 stopErrs>>

\* The kernel: a descriptor becomes ready.
Arrive(f) ==
  /\ f \notin ready
  /\ ready' = ready \cup {f}
  /\ UNCHANGED <<prodVars, queue, length, toTrigger, evfd, lpc, trigger, loopVars, running,
                 done, stopErrs, connErr>>

AddRest(p) == AddCount(p) \/ AddCas(p) \/ AddTrigger(p)

Job(j) ==
  \E stop \in BOOLEAN :
    \/ j \in Tasks /\ TaskDone(j, stop)
    \/ j \in Fds /\ HandlerDone(j, stop)

\* The pool is Engine.Pool: the other loops' jobs take its workers, too.
OthersSubmit ==
  /\ otherJobs > 0 /\ PoolHasRoom
  /\ otherJobs' = otherJobs - 1
  /\ others' = others + 1

OthersDone ==
  /\ others > 0
  /\ others' = others - 1
  /\ UNCHANGED otherJobs

poolVars == <<IsBlocked, others, otherJobs>>
ownVars == <<prodVars, queue, length, toTrigger, evfd, ready, lpc, trigger, loopVars,
             running, done, stopErrs, connErr>>

\* This loop, its producers, its jobs and its descriptors.
Own ==
  \/ \E p \in Producers, t \in Tasks, k \in Kinds : AddEnqueue(p, t, k)
  \/ \E p \in Producers : AddRest(p)
  \/ Loop
  \/ \E j \in Tasks \cup Fds : Job(j)
  \/ \E f \in Fds : Arrive(f)

PNext ==
  \/ Own /\ UNCHANGED poolVars
  \/ OthersSubmit /\ UNCHANGED <<ownVars, IsBlocked>>
  \/ OthersDone /\ UNCHANGED <<ownVars, IsBlocked>>

\* Between two of its turns the main loop waits for a client.
InAccept == IsBlocked /\ lpc = "callback"

\* The Go scheduler runs every runnable goroutine: the loop, a producer in the
\* middle of AddTask, and a job the pool has accepted (user code returns).  The
\* main loop may wait in accept for a client that never comes.
PFairness ==
  /\ WF_pvars(~InAccept /\ Loop /\ UNCHANGED poolVars)
  /\ \A p \in Producers : WF_pvars(AddRest(p) /\ UNCHANGED poolVars)
  /\ \A j \in Tasks \cup Fds : WF_pvars(Job(j) /\ UNCHANGED poolVars)
  /\ WF_pvars(OthersDone /\ UNCHANGED <<IsBlocked, ownVars>>)

PSafe == PInit /\ [][PNext]_pvars
PSpec == PSafe /\ PFairness

-----------------------------------------------------------------------------
(* Properties *)

LoopPC == {"wait", "event", "dispatch", "prior", "plain", "joinTasks", "join",
           "select", "clear", "checkPlain", "checkPrior", "recas", "rewrite",
           "callback", "exit"}

\* Type correctness of the poller's state.
PTypeOK ==
  /\ queue \in [Kinds -> Seq(Tasks)]
  /\ length \in [Kinds -> Int]
  /\ used \in SUBSET Tasks
  /\ kind \in [Producers -> Kinds]
  /\ pc \in [Producers -> {"idle", "count", "cas", "write"}]
  /\ toTrigger \in {0, 1}
  /\ evfd \in BOOLEAN
  /\ ready \in SUBSET Fds
  /\ lpc \in LoopPC
  /\ batch \in Seq(Fds \cup {EvFd})
  /\ lpc # "wait" => idx \in 1..Len(batch)
  /\ idx \in Nat
  /\ trigger \in BOOLEAN
  /\ quota \in 0..MaxTasks
  /\ size \in MinPollSize..MaxPollSize
  /\ running \in SUBSET (Tasks \cup Fds)
  /\ done \in SUBSET Tasks
  /\ stopErrs \in 0..StopCap
  /\ connErr \in SUBSET Fds
  /\ IsBlocked \in BOOLEAN /\ forgotten \in BOOLEAN
  /\ others \in Nat /\ otherJobs \in Nat

\* A connection handler never runs beside a task of the same loop, although
\* both are only submitted to a shared pool: a batch passes trigger on with
\* its last event alone, and that event is then the eventfd.  asyncWrite takes
\* no lock and relies on this against WriteToFd and ReadFromFd.
TasksAlone ==
  running \cap Fds # {} => running \cap Tasks = {}

\* While toTrigger is 0, a queued task always has somebody who will still look
\* at toTrigger: its producer, another producer, or the loop's second look at
\* the queues.  The lag of the queue's counter never breaks this.
WakeupHandedOver ==
  toTrigger = 0 =>
    \A k \in Kinds : queue[k] # <<>> =>
      \/ \E p \in Producers : pc[p] \in {"count", "cas"}
      \/ lpc \in {"checkPlain", "recas"}
      \/ lpc = "checkPrior" /\ k = "prior"

\* An error that must end the loop is seen in the turn that produced it: the
\* loop never goes back to epoll_wait with one left in a channel.
NoStaleStop ==
  lpc = "wait" => stopErrs = 0 /\ connErr = {}

\* The loop never sleeps on a queued task: when it is in epoll_wait and no
\* producer is inside AddTask, a non-empty queue means the eventfd is readable
\* ("atomic number to trigger tasks").  The one way to lose a wake-up is a batch
\* in which another event follows the eventfd.
NoStrandedTask ==
  lpc = "wait" /\ (\A p \in Producers : pc[p] = "idle") /\ ~evfd /\ ~forgotten
    => \A k \in Kinds : queue[k] = <<>>

\* Every task handed to the poller runs, unless the loop has been told to end
\* or sits in accept.
TasksRun ==
  \A t \in Tasks : t \in used ~> (t \in done \/ lpc = "exit" \/ InAccept)

\* The same for a poller that has forgotten no wake-up: every task runs, however
\* late its counter, however full the pool is with jobs of other loops, and
\* however many tasks a turn leaves behind.
TasksRunUnlessForgotten ==
  \A t \in Tasks : t \in used ~> (t \in done \/ lpc = "exit" \/ InAccept \/ forgotten)

\* A task that returns ErrEngineShutdown ends the loop.
ShutdownEndsLoop == stopErrs > 0 ~> lpc = "exit"
=============================================================================
