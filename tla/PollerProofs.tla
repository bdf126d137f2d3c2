---------------------------- MODULE PollerProofs ----------------------------
(***************************************************************************)
(* Invariance proofs about the module Poller, for every number of tasks,   *)
(* producers and descriptors and every size of the pool and of the events  *)
(* slice.                                                                  *)
(***************************************************************************)
EXTENDS Poller, FiniteSetTheorems, TLAPS

-----------------------------------------------------------------------------
(* The inductive invariants *)

\* Where the loop can be while a wake-up is being served.
Serving == {"prior", "plain", "joinTasks", "select", "clear", "checkPlain",
            "checkPrior", "recas", "rewrite"}

\* How trigger travels.  It is TRUE before a callback only for the eventfd as
\* last event; carried over from an earlier batch, it implies that the eventfd
\* is readable, hence part of the next batch.
TriggerInv ==
  /\ lpc \in Serving \cup {"join"} => ~trigger
  /\ lpc \in Serving => idx = Len(batch)
  /\ lpc = "dispatch" /\ trigger => idx = Len(batch) /\ batch[idx] = EvFd
  /\ lpc = "event" /\ trigger => idx = 1 /\ (Len(batch) = 1 => batch[1] = EvFd)
  /\ lpc = "callback" /\ trigger => evfd /\ idx = Len(batch)
  /\ lpc = "wait" /\ trigger => evfd

\* Which jobs run in which part of a turn, and where their errors can be.
TurnInv ==
  /\ running \cap Tasks # {} => lpc \in {"prior", "plain", "joinTasks"}
  /\ running \cap Fds # {} => lpc = "join" /\ running \cap Fds \subseteq {batch[idx]}
  /\ stopErrs > 0 => lpc \in {"prior", "plain", "joinTasks", "select", "exit"}
  /\ connErr # {} /\ lpc # "exit" =>
       lpc \in {"join", "callback"} /\ connErr \subseteq {batch[idx]} /\ ~IsBlocked
  /\ IsBlocked => running \cap Fds = {}

\* The producers whose task is in queue k and not yet counted.
Uncounted(k) == {p \in Producers : pc[p] = "count" /\ kind[p] = k}

\* The counters lag behind the queues by exactly those producers.
CountInv ==
  \A k \in Kinds : length[k] = Len(queue[k]) - Cardinality(Uncounted(k))

\* Who owes the loop a look at the queues while toTrigger is 1: a writer of the
\* eventfd, the eventfd itself, or the loop between reading it and the store of
\* 0.  A wake-up read before the last event of a batch is a forgotten one.
WakeInv ==
  /\ toTrigger = 1 /\ ~forgotten =>
       \/ \E p \in Producers : pc[p] = "write"
       \/ evfd
       \/ lpc \in {"prior", "plain", "joinTasks", "select", "clear", "rewrite", "exit"}
       \/ lpc = "dispatch" /\ trigger
  /\ lpc = "dispatch" /\ batch[idx] = EvFd /\ ~trigger => forgotten

-----------------------------------------------------------------------------
(* Type correctness *)

\* What epoll_wait returns: a sequence over the readable descriptors, not
\* empty, as long as the chosen set; of one event only if the set is a singleton.
LEMMA BatchFacts ==
  ASSUME PTypeOK, EpollWait
  PROVE  /\ batch' \in Seq(Fds \cup {EvFd})
         /\ 1 \in 1..Len(batch')
         /\ evfd /\ Len(batch') = 1 => batch'[1] = EvFd
PROOF
<1> USE PollerAssumption
<1>1. PICK S \in SUBSET Readable :
          /\ S # {}
          /\ S = Readable \/ Cardinality(S) = size
          /\ Cardinality(S) <= size
          /\ batch' \in SetToSeqs(S)
  BY DEF EpollWait
<1>2. Readable \subseteq Fds \cup {EvFd}
  BY DEF Readable, PTypeOK
<1>3. IsFiniteSet(S)
  <2>1. IsFiniteSet(Fds \cup {EvFd})
    BY FS_AddElement
  <2> QED BY <1>2, <2>1, FS_Subset
<1>4. Cardinality(S) \in Nat \ {0}
  BY <1>1, <1>3, FS_CardinalityType, FS_EmptySet
<1>5. batch' \in [1..Cardinality(S) -> S]
  BY <1>1 DEF SetToSeqs
<1>6. batch' \in Seq(S) /\ Len(batch') = Cardinality(S)
  BY <1>4, <1>5
<1>7. batch' \in Seq(Fds \cup {EvFd})
  BY <1>2, <1>5, <1>4
<1>8. ASSUME evfd, Len(batch') = 1
      PROVE  batch'[1] = EvFd
  <2>1. S = Readable
    BY <1>1, <1>6, <1>8 DEF PTypeOK
  <2>2. EvFd \in S
    BY <2>1, <1>8 DEF Readable
  <2>3. PICK x : S = {x}
    BY <1>3, <1>6, <1>8, FS_Singleton
  <2> QED BY <2>2, <2>3, <1>5, <1>6, <1>8
<1> QED BY <1>4, <1>6, <1>7, <1>8

\* The size of the events slice stays between its bounds.
LEMMA ResizeInBounds ==
  ASSUME PTypeOK, NEW n \in Nat, Resize(n)
  PROVE  size' \in MinPollSize..MaxPollSize
PROOF BY PollerAssumption DEF PTypeOK, Resize

\* Every step of the loop, its producers and its jobs keeps the types.
LEMMA OwnTypeStep ==
  ASSUME PTypeOK, Own, UNCHANGED poolVars
  PROVE  PTypeOK'
PROOF
<1> USE PollerAssumption DEF PTypeOK, LoopPC, Kinds, StopCap, poolVars
<1>1. ASSUME NEW p \in Producers, NEW t \in Tasks, NEW k \in Kinds, AddEnqueue(p, t, k)
      PROVE  PTypeOK'
  BY <1>1 DEF AddEnqueue, PGoto, loopVars
<1>2. ASSUME NEW p \in Producers, AddRest(p)
      PROVE  PTypeOK'
  <2>1. CASE AddCount(p)
    BY <2>1 DEF AddCount, PGoto, loopVars
  <2>2. CASE AddCas(p)
    BY <2>2 DEF AddCas, PGoto, loopVars
  <2>3. CASE AddTrigger(p)
    BY <2>3 DEF AddTrigger, PGoto, loopVars
  <2> QED BY <1>2, <2>1, <2>2, <2>3 DEF AddRest
<1>3. CASE EpollWait
  BY <1>3, BatchFacts, SMTT(30) DEF EpollWait, LGoto, prodVars
<1>4. CASE TakeEvent
  BY <1>4 DEF TakeEvent, LGoto, prodVars
<1>5. CASE Dispatch
  <2>1. batch[idx] \in Fds \cup {EvFd}
    BY <1>5, SMTT(30) DEF Dispatch, LGoto
  <2> QED BY <1>5, <2>1 DEF Dispatch, LGoto, prodVars
<1>6. CASE RunPrior \/ RunPlain
  <2>1. ASSUME NEW k \in Kinds, RunTask(k)
        PROVE  /\ queue' \in [Kinds -> Seq(Tasks)]
               /\ length' \in [Kinds -> Int]
               /\ running' \in SUBSET (Tasks \cup Fds)
    BY <2>1 DEF RunTask
  <2>2. CASE RunPrior
    BY <2>1, <2>2 DEF RunPrior, LGoto, prodVars, loopVars
  <2>3. CASE RunPlain
    BY <2>1, <2>3 DEF RunPlain, LGoto, prodVars, loopVars
  <2> QED BY <1>6, <2>2, <2>3
<1>7. CASE PriorEmpty \/ PlainOver
  <2>1. CASE PriorEmpty
    BY <2>1 DEF PriorEmpty, LGoto, prodVars, loopVars
  <2>2. CASE PlainOver
    BY <2>2 DEF PlainOver, LGoto, prodVars, loopVars
  <2> QED BY <1>7, <2>1, <2>2
<1>8. CASE JoinTasks \/ JoinHandler
  BY <1>8 DEF JoinTasks, JoinHandler, LGoto, prodVars, loopVars
<1>9. CASE SelectStop
  BY <1>9 DEF SelectStop, LGoto, prodVars, loopVars
<1>10. CASE ClearTrigger \/ CheckPlain \/ CheckPrior \/ ReCas \/ ReTrigger
  BY <1>10 DEF ClearTrigger, CheckPlain, CheckPrior, ReCas, ReTrigger, LGoto,
               prodVars, loopVars
<1>11. ASSUME NEW err \in {"nil", "other", "stop"}, AcceptCallback(err)
       PROVE  PTypeOK'
  BY <1>11, ResizeInBounds DEF AcceptCallback, NextEvent, prodVars
<1>12. CASE ConnErrCallback
  BY <1>12, ResizeInBounds, SMTT(30) DEF ConnErrCallback, NextEvent, prodVars
<1>13. ASSUME NEW j \in Tasks \cup Fds, Job(j)
       PROVE  PTypeOK'
  <2>1. ASSUME NEW stop \in BOOLEAN, j \in Tasks, TaskDone(j, stop)
        PROVE  PTypeOK'
    BY <2>1 DEF TaskDone, prodVars, loopVars
  <2>2. ASSUME NEW stop \in BOOLEAN, j \in Fds, HandlerDone(j, stop)
        PROVE  PTypeOK'
    BY <2>2 DEF HandlerDone, prodVars, loopVars
  <2> QED BY <1>13, <2>1, <2>2 DEF Job
<1>14. ASSUME NEW f \in Fds, Arrive(f)
       PROVE  PTypeOK'
  BY <1>14 DEF Arrive, prodVars, loopVars
<1> HIDE DEF PTypeOK, LoopPC, Kinds, StopCap, poolVars
<1> QED
  BY <1>1, <1>2, <1>3, <1>4, <1>5, <1>6, <1>7, <1>8, <1>9, <1>10, <1>11, <1>12,
     <1>13, <1>14 DEF Own, Loop

\* Every step keeps the types: the other loops only touch the pool.
LEMMA TypeStep ==
  ASSUME PTypeOK, [PNext]_pvars
  PROVE  PTypeOK'
PROOF
<1>1. CASE Own /\ UNCHANGED poolVars
  BY <1>1, OwnTypeStep
<1>2. CASE OthersSubmit /\ UNCHANGED <<ownVars, IsBlocked>>
  BY <1>2 DEF OthersSubmit, ownVars, prodVars, loopVars, PTypeOK
<1>3. CASE OthersDone /\ UNCHANGED <<ownVars, IsBlocked>>
  BY <1>3 DEF OthersDone, ownVars, prodVars, loopVars, PTypeOK
<1>4. CASE UNCHANGED pvars
  BY <1>4 DEF pvars, PTypeOK
<1> QED BY <1>1, <1>2, <1>3, <1>4 DEF PNext

\* The poller's state is well typed in every reachable state, whatever the
\* numbers of producers, tasks and descriptors.
THEOREM TypeCorrect == PSafe => []PTypeOK
PROOF
<1>1. ASSUME PInit PROVE PTypeOK
  <2>1. queue \in [Kinds -> Seq(Tasks)]
    BY <1>1 DEF PInit
  <2>2. batch \in Seq(Fds \cup {EvFd})
    BY <1>1 DEF PInit
  <2>3. size \in MinPollSize..MaxPollSize
    BY <1>1, PollerAssumption DEF PInit
  <2>4. /\ kind \in [Producers -> Kinds]
        /\ pc \in [Producers -> {"idle", "count", "cas", "write"}]
        /\ length \in [Kinds -> Int]
    BY <1>1 DEF PInit, Kinds
  <2>5. /\ toTrigger \in {0, 1} /\ idx \in Nat /\ quota \in 0..MaxTasks
        /\ stopErrs \in 0..StopCap
    BY <1>1, PollerAssumption DEF PInit, StopCap
  <2>6. /\ used \in SUBSET Tasks /\ ready \in SUBSET Fds /\ done \in SUBSET Tasks
        /\ running \in SUBSET (Tasks \cup Fds) /\ connErr \in SUBSET Fds
    BY <1>1 DEF PInit
  <2>7. /\ evfd \in BOOLEAN /\ trigger \in BOOLEAN
        /\ lpc \in LoopPC /\ (lpc # "wait" => idx \in 1..Len(batch))
    BY <1>1 DEF PInit, LoopPC
  <2>8. /\ IsBlocked \in BOOLEAN /\ forgotten \in BOOLEAN
        /\ others \in Nat /\ otherJobs \in Nat
    BY <1>1, PollerAssumption DEF PInit
  <2> QED BY <2>1, <2>2, <2>3, <2>4, <2>5, <2>6, <2>7, <2>8 DEF PTypeOK
<1> QED BY <1>1, TypeStep, PTL DEF PSafe

-----------------------------------------------------------------------------
(* Turns: who runs when *)

\* Every step keeps the way trigger travels.
LEMMA TriggerStep ==
  ASSUME PTypeOK, TriggerInv, [PNext]_pvars
  PROVE  TriggerInv'
PROOF
<1> USE DEF TriggerInv, Serving
<1>1. ASSUME NEW p \in Producers, NEW t \in Tasks, NEW k \in Kinds, AddEnqueue(p, t, k)
      PROVE  TriggerInv'
  BY <1>1 DEF AddEnqueue, loopVars
<1>2. ASSUME NEW p \in Producers, AddRest(p)
      PROVE  TriggerInv'
  BY <1>2 DEF AddRest, AddCount, AddCas, AddTrigger, loopVars
<1>3. CASE EpollWait
  BY <1>3, BatchFacts DEF EpollWait, LGoto
<1>4. CASE TakeEvent
  BY <1>4 DEF TakeEvent, LGoto
<1>5. CASE Dispatch
  BY <1>5 DEF Dispatch, LGoto
<1>6. CASE RunPrior \/ RunPlain \/ PriorEmpty \/ PlainOver
  BY <1>6 DEF RunPrior, RunPlain, PriorEmpty, PlainOver, LGoto, loopVars
<1>7. CASE JoinTasks \/ JoinHandler \/ SelectStop
  BY <1>7 DEF JoinTasks, JoinHandler, SelectStop, LGoto, loopVars
<1>8. CASE ClearTrigger \/ CheckPlain \/ CheckPrior \/ ReCas
  BY <1>8 DEF ClearTrigger, CheckPlain, CheckPrior, ReCas, LGoto, loopVars
<1>9. CASE ReTrigger
  BY <1>9 DEF ReTrigger, LGoto, loopVars
<1>10. ASSUME NEW err \in {"nil", "other", "stop"}, AcceptCallback(err)
       PROVE  TriggerInv'
  BY <1>10 DEF AcceptCallback, NextEvent, PTypeOK
<1>11. CASE ConnErrCallback
  BY <1>11 DEF ConnErrCallback, NextEvent, PTypeOK
<1>12. ASSUME NEW j \in Tasks \cup Fds, Job(j)
       PROVE  TriggerInv'
  BY <1>12 DEF Job, TaskDone, HandlerDone, loopVars
<1>13. ASSUME NEW f \in Fds, Arrive(f)
       PROVE  TriggerInv'
  BY <1>13 DEF Arrive, loopVars
<1>14. CASE UNCHANGED ownVars \/ UNCHANGED pvars
  BY <1>14 DEF pvars, ownVars, loopVars
<1> HIDE DEF TriggerInv, Serving
<1> QED
  BY <1>1, <1>2, <1>3, <1>4, <1>5, <1>6, <1>7, <1>8, <1>9, <1>10, <1>11, <1>12,
     <1>13, <1>14 DEF PNext, Own, Loop

\* Every step of the loop, its producers and its jobs keeps tasks, handlers and
\* their errors in their part of a turn.
LEMMA OwnTurnStep ==
  ASSUME PTypeOK, TriggerInv, TurnInv, Own, UNCHANGED poolVars
  PROVE  TurnInv'
PROOF
<1> USE PollerAssumption DEF TurnInv, poolVars
<1>1. ASSUME NEW p \in Producers, NEW t \in Tasks, NEW k \in Kinds, AddEnqueue(p, t, k)
      PROVE  TurnInv'
  BY <1>1 DEF AddEnqueue, loopVars
<1>2. ASSUME NEW p \in Producers, AddRest(p)
      PROVE  TurnInv'
  BY <1>2 DEF AddRest, AddCount, AddCas, AddTrigger, loopVars
<1>3. CASE EpollWait
  BY <1>3 DEF EpollWait, LGoto
<1>4. CASE TakeEvent
  BY <1>4 DEF TakeEvent, LGoto
<1>5. CASE Dispatch
  <2>1. /\ batch[idx] \in Fds \cup {EvFd}
        /\ trigger => batch[idx] = EvFd
    BY <1>5 DEF Dispatch, LGoto, PTypeOK, TriggerInv
  <2> QED BY <1>5, <2>1 DEF Dispatch, LGoto
<1>6. CASE RunPrior \/ RunPlain
  <2>1. ASSUME NEW k \in Kinds, RunTask(k)
        PROVE  running' \cap Fds = running \cap Fds
    BY <2>1 DEF RunTask, PTypeOK
  <2>2. CASE RunPrior
    BY <2>1, <2>2 DEF RunPrior, LGoto, loopVars, Kinds
  <2>3. CASE RunPlain
    BY <2>1, <2>3 DEF RunPlain, LGoto, Kinds
  <2> QED BY <1>6, <2>2, <2>3
<1>7. CASE PriorEmpty \/ PlainOver
  BY <1>7 DEF PriorEmpty, PlainOver, LGoto, loopVars
<1>8. CASE JoinTasks \/ JoinHandler
  BY <1>8 DEF JoinTasks, JoinHandler, LGoto, loopVars
<1>9. CASE SelectStop
  BY <1>9 DEF SelectStop, LGoto, loopVars
<1>10. CASE ClearTrigger \/ CheckPlain \/ CheckPrior \/ ReCas \/ ReTrigger
  BY <1>10 DEF ClearTrigger, CheckPlain, CheckPrior, ReCas, ReTrigger, LGoto, loopVars
<1>11. ASSUME NEW err \in {"nil", "other", "stop"}, AcceptCallback(err)
       PROVE  TurnInv'
  BY <1>11 DEF AcceptCallback, NextEvent
<1>12. CASE ConnErrCallback
  BY <1>12 DEF ConnErrCallback, NextEvent
<1>13. ASSUME NEW j \in Tasks \cup Fds, Job(j)
       PROVE  TurnInv'
  <2>1. ASSUME NEW stop \in BOOLEAN, j \in Tasks, TaskDone(j, stop)
        PROVE  TurnInv'
    BY <2>1 DEF TaskDone, loopVars
  <2>2. ASSUME NEW stop \in BOOLEAN, j \in Fds, HandlerDone(j, stop)
        PROVE  TurnInv'
    BY <2>2 DEF HandlerDone, loopVars
  <2> QED BY <1>13, <2>1, <2>2 DEF Job
<1>14. ASSUME NEW f \in Fds, Arrive(f)
       PROVE  TurnInv'
  BY <1>14 DEF Arrive, loopVars
<1> HIDE DEF TurnInv, poolVars
<1> QED
  BY <1>1, <1>2, <1>3, <1>4, <1>5, <1>6, <1>7, <1>8, <1>9, <1>10, <1>11, <1>12,
     <1>13, <1>14 DEF Own, Loop

\* Every step does: the jobs of other loops are none of this loop's.
LEMMA TurnStep ==
  ASSUME PTypeOK, TriggerInv, TurnInv, [PNext]_pvars
  PROVE  TurnInv'
PROOF
<1>1. CASE Own /\ UNCHANGED poolVars
  BY <1>1, OwnTurnStep
<1>2. CASE UNCHANGED <<ownVars, IsBlocked>>
  BY <1>2 DEF ownVars, loopVars, TurnInv
<1>3. CASE UNCHANGED pvars
  BY <1>3 DEF pvars, TurnInv
<1> QED BY <1>1, <1>2, <1>3 DEF PNext

\* Trigger and turns together are an invariant of the poller.
LEMMA TurnsInvariant == PSafe => [](PTypeOK /\ TriggerInv /\ TurnInv)
PROOF
<1>1. PInit => TriggerInv /\ TurnInv
  BY DEF PInit, TriggerInv, TurnInv, Serving
<1> QED BY <1>1, TypeCorrect, TriggerStep, TurnStep, PTL DEF PSafe

\* A task and a connection handler of one loop never run at the same time,
\* whatever the number of connections and tasks and the size of the pool.
THEOREM TasksRunAlone == PSafe => []TasksAlone
PROOF
<1>1. TurnInv => TasksAlone
  BY DEF TurnInv, TasksAlone
<1> QED BY <1>1, TurnsInvariant, PTL

\* The loop never goes back to epoll_wait with a stop error left behind.
THEOREM StopSeenInItsTurn == PSafe => []NoStaleStop
PROOF
<1>1. PTypeOK /\ TurnInv => NoStaleStop
  BY DEF PTypeOK, TurnInv, NoStaleStop, StopCap
<1> QED BY <1>1, TurnsInvariant, PTL

-----------------------------------------------------------------------------
(* The lag of the counters, and the handing over of wake-ups *)

\* Uncounted(k) is finite, and its size is a natural number.
LEMMA UncountedFinite ==
  ASSUME NEW k \in Kinds
  PROVE  /\ IsFiniteSet(Uncounted(k))
         /\ Cardinality(Uncounted(k)) \in Nat
PROOF
<1>1. Uncounted(k) \in SUBSET Producers
  BY DEF Uncounted
<1> QED BY <1>1, PollerAssumption, FS_Subset, FS_CardinalityType

\* Every step keeps the lag of the counters.
LEMMA CountStep ==
  ASSUME PTypeOK, CountInv, [PNext]_pvars
  PROVE  CountInv'
PROOF
<1>1. ASSUME NEW p \in Producers, NEW t \in Tasks, NEW k \in Kinds, AddEnqueue(p, t, k)
      PROVE  CountInv'
  <2>1. Uncounted(k)' = Uncounted(k) \cup {p} /\ p \notin Uncounted(k)
    BY <1>1 DEF AddEnqueue, PGoto, Uncounted, PTypeOK
  <2>2. \A j \in Kinds \ {k} : Uncounted(j)' = Uncounted(j)
    BY <1>1 DEF AddEnqueue, PGoto, Uncounted, PTypeOK
  <2>3. Cardinality(Uncounted(k)') = Cardinality(Uncounted(k)) + 1
    BY <2>1, UncountedFinite, FS_AddElement
  <2>4. Len(queue'[k]) = Len(queue[k]) + 1 /\ Len(queue[k]) \in Nat
    BY <1>1 DEF AddEnqueue, PTypeOK
  <2>5. \A j \in Kinds \ {k} : queue'[j] = queue[j]
    BY <1>1 DEF AddEnqueue, PTypeOK
  <2>6. length' = length
    BY <1>1 DEF AddEnqueue
  <2> SUFFICES ASSUME NEW j \in Kinds
               PROVE  (length[j] = Len(queue[j]) - Cardinality(Uncounted(j)))'
    BY DEF CountInv
  <2>7. /\ length[j] = Len(queue[j]) - Cardinality(Uncounted(j))
        /\ length[j] \in Int /\ Cardinality(Uncounted(j)) \in Nat
        /\ Len(queue[j]) \in Nat
    BY UncountedFinite DEF CountInv, PTypeOK
  <2>8. CASE j = k
    BY <2>7, <2>8, <2>3, <2>4, <2>6
  <2>9. CASE j # k
    BY <2>7, <2>9, <2>2, <2>5, <2>6
  <2> QED BY <2>8, <2>9
<1>2. ASSUME NEW p \in Producers, AddCount(p)
      PROVE  CountInv'
  <2>1. PICK k \in Kinds : k = kind[p]
    BY DEF PTypeOK
  <2>2. Uncounted(k)' = Uncounted(k) \ {p} /\ p \in Uncounted(k)
    BY <1>2, <2>1 DEF AddCount, PGoto, Uncounted, PTypeOK
  <2>3. \A j \in Kinds \ {k} : Uncounted(j)' = Uncounted(j)
    BY <1>2, <2>1 DEF AddCount, PGoto, Uncounted, PTypeOK
  <2>4. Cardinality(Uncounted(k)') = Cardinality(Uncounted(k)) - 1
    BY <2>1, <2>2, UncountedFinite, FS_RemoveElement, ZenonT(40)
  <2>5. queue' = queue
    BY <1>2 DEF AddCount
  <2>6. /\ length'[k] = length[k] + 1
        /\ \A j \in Kinds \ {k} : length'[j] = length[j]
    BY <1>2, <2>1 DEF AddCount, PTypeOK
  <2> SUFFICES ASSUME NEW j \in Kinds
               PROVE  (length[j] = Len(queue[j]) - Cardinality(Uncounted(j)))'
    BY DEF CountInv
  <2>7. /\ length[j] = Len(queue[j]) - Cardinality(Uncounted(j))
        /\ length[j] \in Int /\ Cardinality(Uncounted(j)) \in Nat
        /\ Len(queue[j]) \in Nat
    BY UncountedFinite DEF CountInv, PTypeOK
  <2>8. CASE j = k
    BY <2>7, <2>8, <2>4, <2>5, <2>6
  <2>9. CASE j # k
    BY <2>7, <2>9, <2>3, <2>5, <2>6
  <2> QED BY <2>8, <2>9
<1>3. ASSUME NEW p \in Producers, AddCas(p) \/ AddTrigger(p)
      PROVE  CountInv'
  <2>1. \A k \in Kinds : Uncounted(k)' = Uncounted(k)
    BY <1>3 DEF AddCas, AddTrigger, PGoto, Uncounted, PTypeOK
  <2> QED BY <1>3, <2>1 DEF AddCas, AddTrigger, CountInv
<1>4. ASSUME NEW k \in Kinds, RunTask(k), UNCHANGED <<pc, kind>>
      PROVE  CountInv'
  <2>1. Len(queue'[k]) = Len(queue[k]) - 1 /\ Len(queue[k]) \in Nat
    BY <1>4 DEF RunTask, PTypeOK
  <2>2. length'[k] = length[k] - 1
    BY <1>4 DEF RunTask, PTypeOK
  <2>3. \A j \in Kinds \ {k} : queue'[j] = queue[j] /\ length'[j] = length[j]
    BY <1>4 DEF RunTask, PTypeOK
  <2>4. \A j \in Kinds : Uncounted(j)' = Uncounted(j)
    BY <1>4 DEF Uncounted
  <2> SUFFICES ASSUME NEW j \in Kinds
               PROVE  (length[j] = Len(queue[j]) - Cardinality(Uncounted(j)))'
    BY DEF CountInv
  <2>7. /\ length[j] = Len(queue[j]) - Cardinality(Uncounted(j))
        /\ length[j] \in Int /\ Cardinality(Uncounted(j)) \in Nat
        /\ Len(queue[j]) \in Nat
    BY UncountedFinite DEF CountInv, PTypeOK
  <2>8. CASE j = k
    BY <2>7, <2>8, <2>1, <2>2, <2>4
  <2>9. CASE j # k
    BY <2>7, <2>9, <2>3, <2>4
  <2> QED BY <2>8, <2>9
<1>5. ASSUME UNCHANGED <<pc, kind, queue, length>>
      PROVE  CountInv'
  BY <1>5 DEF CountInv, Uncounted
<1>6. CASE EpollWait \/ TakeEvent \/ Dispatch \/ PriorEmpty \/ PlainOver
  BY <1>5, <1>6 DEF EpollWait, TakeEvent, Dispatch, PriorEmpty, PlainOver, prodVars
<1>7. CASE JoinTasks \/ JoinHandler \/ SelectStop \/ ClearTrigger
  BY <1>5, <1>7 DEF JoinTasks, JoinHandler, SelectStop, ClearTrigger, prodVars
<1>8. CASE CheckPlain \/ CheckPrior \/ ReCas \/ ReTrigger
  BY <1>5, <1>8 DEF CheckPlain, CheckPrior, ReCas, ReTrigger, prodVars
<1>9. ASSUME NEW err \in {"nil", "other", "stop"}, AcceptCallback(err)
      PROVE  CountInv'
  BY <1>5, <1>9 DEF AcceptCallback, prodVars
<1>10. CASE ConnErrCallback
  BY <1>5, <1>10 DEF ConnErrCallback, prodVars
<1>11. CASE RunPrior \/ RunPlain
  BY <1>4, <1>11 DEF RunPrior, RunPlain, Kinds, prodVars
<1>12. ASSUME NEW j \in Tasks \cup Fds, Job(j)
       PROVE  CountInv'
  BY <1>5, <1>12 DEF Job, TaskDone, HandlerDone, prodVars
<1>13. ASSUME NEW f \in Fds, Arrive(f)
       PROVE  CountInv'
  BY <1>5, <1>13 DEF Arrive, prodVars
<1>14. CASE UNCHANGED ownVars \/ UNCHANGED pvars
  BY <1>5, <1>14 DEF pvars, ownVars, prodVars
<1> QED
  BY <1>1, <1>2, <1>3, <1>6, <1>7, <1>8, <1>9, <1>10, <1>11, <1>12, <1>13, <1>14
     DEF PNext, Own, Loop, AddRest

\* A queue that is not empty and whose counter reads 0 has a producer that is
\* still to count its task: the fact IsEmpty's callers depend on.
LEMMA EmptyCounterHasProducer ==
  ASSUME PTypeOK, CountInv, NEW k \in Kinds, queue[k] # <<>>, length[k] = 0
  PROVE  \E p \in Producers : pc[p] \in {"count", "cas"}
PROOF
<1>1. Len(queue[k]) \in Nat \ {0}
  BY DEF PTypeOK
<1>2. Cardinality(Uncounted(k)) # 0
  BY <1>1, UncountedFinite DEF CountInv
<1>3. Uncounted(k) # {}
  BY <1>2, FS_EmptySet
<1> QED BY <1>3 DEF Uncounted

\* Every step keeps somebody who will still look at toTrigger.
LEMMA HandOverStep ==
  ASSUME PTypeOK, CountInv, WakeupHandedOver, [PNext]_pvars
  PROVE  WakeupHandedOver'
PROOF
<1> USE DEF WakeupHandedOver
<1>1. ASSUME NEW p \in Producers, NEW t \in Tasks, NEW k \in Kinds, AddEnqueue(p, t, k)
      PROVE  WakeupHandedOver'
  BY <1>1 DEF AddEnqueue, PGoto, PTypeOK
<1>2. ASSUME NEW p \in Producers, AddRest(p)
      PROVE  WakeupHandedOver'
  <2>1. CASE AddCount(p)
    BY <2>1 DEF AddCount, PGoto, PTypeOK
  <2>2. CASE AddCas(p)
    BY <2>2 DEF AddCas
  <2>3. CASE AddTrigger(p)
    BY <2>3 DEF AddTrigger, PGoto, PTypeOK
  <2> QED BY <1>2, <2>1, <2>2, <2>3 DEF AddRest
<1>3. CASE EpollWait \/ TakeEvent \/ Dispatch
  BY <1>3 DEF EpollWait, TakeEvent, Dispatch, LGoto, prodVars
<1>4. CASE RunPrior \/ RunPlain
  <2>1. ASSUME NEW k \in Kinds, RunTask(k)
        PROVE  \A j \in Kinds : queue'[j] # <<>> => queue[j] # <<>>
    BY <2>1 DEF RunTask, PTypeOK
  <2> QED BY <1>4, <2>1 DEF RunPrior, RunPlain, LGoto, prodVars, Kinds
<1>5. CASE PriorEmpty \/ PlainOver \/ JoinTasks \/ JoinHandler \/ SelectStop
  BY <1>5 DEF PriorEmpty, PlainOver, JoinTasks, JoinHandler, SelectStop, LGoto, prodVars
<1>6. CASE ClearTrigger
  BY <1>6 DEF ClearTrigger, LGoto, prodVars
<1>7. CASE CheckPlain
  BY <1>7, EmptyCounterHasProducer DEF CheckPlain, LGoto, prodVars, Kinds
<1>8. CASE CheckPrior
  BY <1>8, EmptyCounterHasProducer DEF CheckPrior, LGoto, prodVars, Kinds
<1>9. CASE ReCas
  BY <1>9 DEF ReCas
<1>10. CASE ReTrigger
  BY <1>10 DEF ReTrigger, LGoto, prodVars
<1>11. ASSUME NEW err \in {"nil", "other", "stop"}, AcceptCallback(err)
       PROVE  WakeupHandedOver'
  BY <1>11 DEF AcceptCallback, NextEvent, prodVars
<1>12. CASE ConnErrCallback
  BY <1>12 DEF ConnErrCallback, NextEvent, prodVars
<1>13. ASSUME NEW j \in Tasks \cup Fds, Job(j)
       PROVE  WakeupHandedOver'
  BY <1>13 DEF Job, TaskDone, HandlerDone, prodVars
<1>14. ASSUME NEW f \in Fds, Arrive(f)
       PROVE  WakeupHandedOver'
  BY <1>14 DEF Arrive, prodVars
<1>15. CASE UNCHANGED ownVars \/ UNCHANGED pvars
  BY <1>15 DEF pvars, ownVars, prodVars
<1> HIDE DEF WakeupHandedOver
<1> QED
  BY <1>1, <1>2, <1>3, <1>4, <1>5, <1>6, <1>7, <1>8, <1>9, <1>10, <1>11, <1>12,
     <1>13, <1>14, <1>15 DEF PNext, Own, Loop

\* While toTrigger is 0, every queued task has somebody who will still set it,
\* although the queues' counters lag behind the queues.
THEOREM WakeupAlwaysHandedOver == PSafe => []WakeupHandedOver
PROOF
<1>1. PInit => CountInv
  <2> SUFFICES ASSUME PInit, NEW k \in Kinds
               PROVE  length[k] = Len(queue[k]) - Cardinality(Uncounted(k))
    BY DEF CountInv
  <2>1. Uncounted(k) = {}
    BY DEF PInit, Uncounted
  <2> QED BY <2>1, FS_EmptySet DEF PInit
<1>2. PInit => WakeupHandedOver
  BY DEF PInit, WakeupHandedOver
<1> QED BY <1>1, <1>2, TypeCorrect, CountStep, HandOverStep, PTL DEF PSafe

-----------------------------------------------------------------------------
(* No wake-up is lost *)

\* Every step keeps somebody who brings the loop to its queues.
LEMMA WakeStep ==
  ASSUME PTypeOK, TriggerInv, WakeInv, [PNext]_pvars
  PROVE  WakeInv'
PROOF
<1> USE DEF WakeInv
<1>1. ASSUME NEW p \in Producers, NEW t \in Tasks, NEW k \in Kinds, AddEnqueue(p, t, k)
      PROVE  WakeInv'
  BY <1>1 DEF AddEnqueue, PGoto, PTypeOK, loopVars
<1>2. ASSUME NEW p \in Producers, AddRest(p)
      PROVE  WakeInv'
  <2>1. CASE AddCount(p)
    BY <2>1 DEF AddCount, PGoto, PTypeOK, loopVars
  <2>2. CASE AddCas(p)
    BY <2>2 DEF AddCas, PGoto, PTypeOK, loopVars
  <2>3. CASE AddTrigger(p)
    BY <2>3 DEF AddTrigger, PGoto, PTypeOK, loopVars
  <2> QED BY <1>2, <2>1, <2>2, <2>3 DEF AddRest
<1>3. CASE EpollWait
  BY <1>3 DEF EpollWait, LGoto, prodVars
<1>4. CASE TakeEvent
  <2>1. /\ lpc' = "dispatch" /\ lpc = "event"
        /\ UNCHANGED <<pc, toTrigger, batch, idx>>
    BY <1>4 DEF TakeEvent, LGoto, prodVars
  <2>2. idx < Len(batch) \/ idx = Len(batch)
    BY <2>1 DEF PTypeOK
  <2>3. CASE batch[idx] # EvFd
    BY <1>4, <2>1, <2>3 DEF TakeEvent
  <2>4. CASE batch[idx] = EvFd /\ idx < Len(batch)
    <3>1. forgotten' = TRUE
      BY <1>4, <2>4 DEF TakeEvent
    <3> QED BY <3>1
  <2>5. CASE batch[idx] = EvFd /\ idx = Len(batch)
    <3>1. trigger' = TRUE
      BY <1>4, <2>5 DEF TakeEvent
    <3> QED BY <2>1, <3>1
  <2> QED BY <2>2, <2>3, <2>4, <2>5
<1>5. CASE Dispatch
  BY <1>5 DEF Dispatch, LGoto, prodVars
<1>6. CASE RunPrior \/ RunPlain \/ PriorEmpty \/ PlainOver
  BY <1>6 DEF RunPrior, RunPlain, PriorEmpty, PlainOver, LGoto, prodVars, loopVars
<1>7. CASE JoinTasks \/ JoinHandler \/ SelectStop
  BY <1>7 DEF JoinTasks, JoinHandler, SelectStop, LGoto, prodVars, loopVars
<1>8. CASE ClearTrigger \/ CheckPlain \/ CheckPrior
  BY <1>8 DEF ClearTrigger, CheckPlain, CheckPrior, LGoto, prodVars, loopVars
<1>9. CASE ReCas \/ ReTrigger
  BY <1>9 DEF ReCas, ReTrigger, LGoto, prodVars, loopVars, PTypeOK
<1>10. ASSUME NEW err \in {"nil", "other", "stop"}, AcceptCallback(err)
       PROVE  WakeInv'
  BY <1>10 DEF AcceptCallback, NextEvent, prodVars
<1>11. CASE ConnErrCallback
  BY <1>11 DEF ConnErrCallback, NextEvent, prodVars
<1>12. ASSUME NEW j \in Tasks \cup Fds, Job(j)
       PROVE  WakeInv'
  BY <1>12 DEF Job, TaskDone, HandlerDone, prodVars, loopVars
<1>13. ASSUME NEW f \in Fds, Arrive(f)
       PROVE  WakeInv'
  BY <1>13 DEF Arrive, prodVars, loopVars
<1>14. CASE UNCHANGED ownVars \/ UNCHANGED pvars
  BY <1>14 DEF pvars, ownVars, prodVars, loopVars
<1> HIDE DEF WakeInv
<1> QED
  BY <1>1, <1>2, <1>3, <1>4, <1>5, <1>6, <1>7, <1>8, <1>9, <1>10, <1>11, <1>12,
     <1>13, <1>14 DEF PNext, Own, Loop

\* The loop never sleeps in epoll_wait on a queued task, for any number of
\* producers, tasks and descriptors: with toTrigger at 0 somebody still sets it
\* (WakeupHandedOver), with toTrigger at 1 somebody still writes the eventfd.
THEOREM NoTaskIsStranded == PSafe => []NoStrandedTask
PROOF
<1>1. PInit => WakeInv
  BY DEF PInit, WakeInv
<1>2. PTypeOK /\ WakeInv /\ WakeupHandedOver => NoStrandedTask
  BY DEF PTypeOK, WakeInv, WakeupHandedOver, NoStrandedTask
<1> QED
  BY <1>1, <1>2, TurnsInvariant, WakeStep, WakeupAlwaysHandedOver, PTL DEF PSafe
=============================================================================
