------------------------------- MODULE Engine -------------------------------
(***************************************************************************)
(* engine/engine.go: Serve starts the event loops, waits for Stop and      *)
(* takes the engine down again.  The loops are the ones of the module      *)
(* Poller, reduced to what the engine sees: a loop ends in the turn in     *)
(* which it runs its shutdown task, the main loop calls accept for every   *)
(* event of its batch, the wake-up's too (poll.go, eloop/event.go), and a  *)
(* wake-up that is not the last event of its batch is forgotten for good   *)
(* (sys_poll_linux.go).                                                    *)
(*                                                                         *)
(* The listener's descriptor is in blocking mode: GetFd calls File.Fd,     *)
(* which sets it so in the Go version of go.mod.  accept then waits for a  *)
(* client, and closing the descriptor does not wake it.                    *)
(***************************************************************************)
EXTENDS Integers, Sequences, FiniteSets

CONSTANTS
  NumOfLoops,   \* sub loops
  Stoppers,     \* goroutines that call Stop
  MaxClients,   \* clients that connect
  CanFail       \* whether poll.New, AddRead, accept, OnAccept and Open may fail

ASSUME EngineAssumption ==
  /\ NumOfLoops \in Nat \ {0}
  /\ MaxClients \in Nat
  /\ CanFail \in BOOLEAN

Main == 0
Subs == 1..NumOfLoops
Loops == {Main} \cup Subs

VARIABLES
  serve,        \* where Serve is
  created,      \* pollers that exist
  balancer,     \* sub loops registered with the balancer
  mainLoop,     \* Engine.MainLoop is not nil
  wg,           \* Engine.wg: loops started and not done
  lpc,          \* where each loop is
  shutdown,     \* loops whose queue holds the shutdown task
  toRegister,   \* accepted connections whose RegisterConn waits in the main loop
  deaf,         \* loops whose wake-up was forgotten: toTrigger stays 1
  conns,        \* open connections of each sub loop
  backlog,      \* clients waiting to be accepted
  clients,      \* clients that have connected so far
  listener,     \* the listener's descriptor is open
  once,         \* once.Do has run
  woken,        \* the goroutine inside cond.Wait has been signalled
  stopped,      \* Stop has returned to a caller
  closed,       \* pollers closed
  released      \* the goroutine pool has been released

evars == <<serve, created, balancer, mainLoop, wg, lpc, shutdown, toRegister, deaf,
           conns, backlog, clients, listener, once, woken, stopped, closed, released>>
netVars == <<deaf, conns, backlog, clients>>
stopVars == <<once, woken, stopped>>

\* Serve, up to the call of start: pool, cond, wg, once and balancer are new.
EInit ==
  /\ serve = "subs"
  /\ created = {} /\ balancer = {} /\ mainLoop = FALSE
  /\ wg = 0
  /\ lpc = [l \in Loops |-> "none"]
  /\ shutdown = {} /\ toRegister = 0 /\ deaf = {}
  /\ conns = [l \in Subs |-> 0]
  /\ backlog = 0 /\ clients = 0
  /\ listener = TRUE
  /\ once = FALSE /\ woken = FALSE /\ stopped = {}
  /\ closed = {} /\ released = FALSE

-----------------------------------------------------------------------------
(* start: startReactors *)

\* poll.New: an epoll instance and its eventfd.
CreatePoll(l) == created' = created \cup {l}

\* poll.New for the next sub loop, and Balancer.Register.
NewSub ==
  /\ serve = "subs" /\ Cardinality(balancer) < NumOfLoops
  /\ CreatePoll(Cardinality(balancer) + 1)
  /\ balancer' = balancer \cup {Cardinality(balancer) + 1}
  /\ UNCHANGED <<serve, mainLoop, wg, lpc, shutdown, toRegister, netVars, listener,
                 stopVars, closed, released>>

\* startSubReactors: every registered loop runs in a goroutine of its own.
StartSubs ==
  /\ serve = "subs" /\ balancer = Subs
  /\ serve' = "main"
  /\ wg' = NumOfLoops
  /\ lpc' = [l \in Loops |-> IF l \in Subs THEN "wait" ELSE "none"]
  /\ UNCHANGED <<created, balancer, mainLoop, shutdown, toRegister, netVars, listener,
                 stopVars, closed, released>>

\* poll.New for the main loop, and AddRead of the listener.
NewMain ==
  /\ serve = "main" /\ Main \notin created
  /\ CreatePoll(Main)
  /\ UNCHANGED <<serve, balancer, mainLoop, wg, lpc, shutdown, toRegister, netVars,
                 listener, stopVars, closed, released>>

\* Defect: wg.Add is missing for the main loop.
StartMainNoAdd ==
  /\ serve = "main" /\ Main \in created
  /\ serve' = "wait"
  /\ mainLoop' = TRUE
  /\ lpc' = [lpc EXCEPT ![Main] = "wait"]
  /\ UNCHANGED <<created, balancer, wg, shutdown, toRegister, netVars, listener, stopVars,
                 closed, released>>

StartMain ==
  /\ serve = "main" /\ Main \in created
  /\ serve' = "wait"
  /\ mainLoop' = TRUE
  /\ wg' = wg + 1
  /\ lpc' = [lpc EXCEPT ![Main] = "wait"]
  /\ UNCHANGED <<created, balancer, shutdown, toRegister, netVars, listener, stopVars,
                 closed, released>>

\* start returns an error: the deferred stop waits for Stop all the same.
StartFails ==
  /\ CanFail /\ serve \in {"subs", "main"}
  /\ serve' = "wait"
  /\ UNCHANGED <<created, balancer, mainLoop, wg, lpc, shutdown, toRegister, netVars,
                 listener, stopVars, closed, released>>

-----------------------------------------------------------------------------
(* Stop, and the deferred stop of Serve *)

\* once.Do: signal the goroutine inside Wait, if there is one.
Stop(s) ==
  /\ s \notin stopped
  /\ once' = TRUE
  /\ woken' = (woken \/ (~once /\ serve = "waiting"))
  /\ stopped' = stopped \cup {s}
  /\ UNCHANGED <<serve, created, balancer, mainLoop, wg, lpc, shutdown, toRegister,
                 netVars, listener, closed, released>>

\* cond.Wait
WaitForStopSignal ==
  /\ \/ serve = "wait" /\ serve' = "waiting"
     \/ serve = "waiting" /\ woken /\ serve' = "shutdown"
  /\ UNCHANGED <<created, balancer, mainLoop, wg, lpc, shutdown, toRegister, netVars,
                 listener, stopVars, closed, released>>

\* AddPriorTask of the shutdown task on the sub loops, one after the other.
ShutdownSub ==
  /\ serve = "shutdown" /\ ~(balancer \subseteq shutdown)
  /\ \E l \in balancer \ shutdown :
       /\ \A k \in balancer \ shutdown : l <= k
       /\ shutdown' = shutdown \cup {l}
  /\ UNCHANGED <<serve, created, balancer, mainLoop, wg, lpc, toRegister, netVars,
                 listener, stopVars, closed, released>>

\* Listener.Close; the listener's descriptor reads -1 from here on.
CloseListener ==
  /\ serve = "shutdown" /\ balancer \subseteq shutdown
  /\ serve' = IF mainLoop THEN "shutMain" ELSE "join"
  /\ listener' = (listener /\ ~mainLoop)
  /\ UNCHANGED <<created, balancer, mainLoop, wg, lpc, shutdown, toRegister, netVars,
                 stopVars, closed, released>>

\* Defect: closing the listener is thought to be enough.
ShutdownMainNoTask ==
  /\ serve = "shutMain"
  /\ serve' = "join"
  /\ UNCHANGED <<created, balancer, mainLoop, wg, lpc, shutdown, toRegister, netVars,
                 listener, stopVars, closed, released>>

\* AddPriorTask of the shutdown task on the main loop.
ShutdownMain ==
  /\ serve = "shutMain"
  /\ serve' = "join"
  /\ shutdown' = shutdown \cup {Main}
  /\ UNCHANGED <<created, balancer, mainLoop, wg, lpc, toRegister, netVars, listener,
                 stopVars, closed, released>>

\* Defect: wg.Wait is missing.
JoinAtOnce ==
  /\ serve = "join"
  /\ serve' = "close"
  /\ UNCHANGED <<created, balancer, mainLoop, wg, lpc, shutdown, toRegister, netVars,
                 listener, stopVars, closed, released>>

\* wg.Wait
Join ==
  /\ serve = "join" /\ wg = 0
  /\ serve' = "close"
  /\ UNCHANGED <<created, balancer, mainLoop, wg, lpc, shutdown, toRegister, netVars,
                 listener, stopVars, closed, released>>

\* Defect: an engine without a main loop is taken for one that never started.
ClosePollersOfMain ==
  /\ serve = "close"
  /\ serve' = "returned"
  /\ closed' = IF mainLoop THEN balancer \cup {Main} ELSE {}
  /\ released' = TRUE
  /\ UNCHANGED <<created, balancer, mainLoop, wg, lpc, shutdown, toRegister, netVars,
                 listener, stopVars>>

\* Close the pollers of the balancer and of MainLoop, release the pool.
ClosePollers ==
  /\ serve = "close"
  /\ serve' = "returned"
  /\ closed' = balancer \cup (IF mainLoop THEN {Main} ELSE {})
  /\ released' = TRUE
  /\ UNCHANGED <<created, balancer, mainLoop, wg, lpc, shutdown, toRegister, netVars,
                 listener, stopVars>>

ServeStep ==
  \/ NewSub \/ StartSubs \/ NewMain \/ StartMain \/ StartFails
  \/ WaitForStopSignal \/ ShutdownSub \/ CloseListener \/ ShutdownMain
  \/ Join \/ ClosePollers

-----------------------------------------------------------------------------
(* The loops *)

\* A loop returns from Start, and its goroutine calls wg.Done.
End(l) ==
  /\ lpc' = [lpc EXCEPT ![l] = "ended"]
  /\ wg' = wg - 1

\* A sub loop runs its shutdown task, unless it no longer hears of its tasks.
SubEnds(l) ==
  /\ lpc[l] = "wait" /\ l \in shutdown \ deaf
  /\ End(l)
  /\ UNCHANGED <<serve, created, balancer, mainLoop, shutdown, toRegister, netVars,
                 listener, stopVars, closed, released>>

\* WaitPoll finds the eventfd and, behind it in the batch, an event of a
\* connection: the shutdown task or a write task of the connection stays in
\* the queue, and toTrigger at 1, so that no later task is announced.
SubForgets(l) ==
  /\ lpc[l] = "wait" /\ conns[l] > 0
  /\ deaf' = deaf \cup {l}
  /\ UNCHANGED <<serve, created, balancer, mainLoop, wg, lpc, shutdown, toRegister, conns,
                 backlog, clients, listener, stopVars, closed, released>>

\* A callback of one of its connections returns ErrEngineShutdown: this loop
\* ends, the others go on.
SubAborts(l) ==
  /\ lpc[l] = "wait" /\ conns[l] > 0
  /\ End(l)
  /\ UNCHANGED <<serve, created, balancer, mainLoop, shutdown, toRegister, netVars,
                 listener, stopVars, closed, released>>

\* The main loop calls accept n times in a row; on a closed listener the call
\* fails with ErrAcceptSocket and ends the loop.
CallAccept(n) ==
  IF listener
  THEN lpc' = [lpc EXCEPT ![Main] = IF n = 2 THEN "accept2" ELSE "accept"] /\ UNCHANGED wg
  ELSE End(Main)

\* A turn of the main loop with a wake-up: its tasks run (RegisterConn on the
\* loop the balancer chose), then the error of the shutdown task or of an Open
\* ends it, or it calls accept.
MainTasks ==
  /\ lpc[Main] = "wait" /\ Main \notin deaf
  /\ Main \in shutdown \/ toRegister > 0
  /\ IF toRegister > 0
     THEN \E l \in Subs : conns' = [conns EXCEPT ![l] = @ + toRegister]
     ELSE UNCHANGED conns
  /\ toRegister' = 0
  /\ \/ (Main \in shutdown \/ (CanFail /\ toRegister > 0)) /\ End(Main)
     \/ Main \notin shutdown /\ CallAccept(1)
  /\ UNCHANGED <<serve, created, balancer, mainLoop, shutdown, deaf, backlog, clients,
                 listener, stopVars, closed, released>>

\* An event of the listener alone.
MainListens ==
  /\ lpc[Main] = "wait" /\ backlog > 0 /\ listener
  /\ CallAccept(1)
  /\ UNCHANGED <<serve, created, balancer, mainLoop, shutdown, toRegister, netVars,
                 listener, stopVars, closed, released>>

\* The eventfd and, behind it in the batch, the listener: no task runs, accept
\* is called for both, and the wake-up is forgotten.
MainForgets ==
  /\ lpc[Main] = "wait" /\ Main \notin deaf
  /\ Main \in shutdown \/ toRegister > 0
  /\ backlog > 0 /\ listener
  /\ deaf' = deaf \cup {Main}
  /\ CallAccept(2)
  /\ UNCHANGED <<serve, created, balancer, mainLoop, shutdown, toRegister, conns, backlog,
                 clients, listener, stopVars, closed, released>>

\* sys.Accept answers with a client, as soon as there is one.
Accept ==
  /\ backlog > 0
  /\ backlog' = backlog - 1

\* The main loop has a client, whose RegisterConn is queued; an error of
\* OnAccept (ErrEngineShutdown, ErrAcceptSocket) ends the loop.
MainAccepts ==
  /\ lpc[Main] \in {"accept", "accept2"}
  /\ Accept
  /\ toRegister' = toRegister + 1
  /\ \/ CanFail /\ End(Main)
     \/ lpc[Main] = "accept2" /\ CallAccept(1)
     \/ lpc[Main] = "accept" /\ lpc' = [lpc EXCEPT ![Main] = "wait"] /\ UNCHANGED wg
  /\ UNCHANGED <<serve, created, balancer, mainLoop, shutdown, deaf, conns, clients,
                 listener, stopVars, closed, released>>

\* sys.Accept fails on an open listener, with or without a client (EMFILE,
\* ECONNABORTED): ErrAcceptSocket ends the main loop.
AcceptFails ==
  /\ CanFail /\ lpc[Main] \in {"accept", "accept2"}
  /\ End(Main)
  /\ backlog' \in {backlog, backlog - 1} \cap Nat
  /\ UNCHANGED <<serve, created, balancer, mainLoop, shutdown, toRegister, deaf, conns,
                 clients, listener, stopVars, closed, released>>

MainStep == MainTasks \/ MainListens \/ MainForgets \/ MainAccepts

\* A client connects; a connection of a running sub loop is closed by its peer.
Connect ==
  /\ clients < MaxClients
  /\ clients' = clients + 1
  /\ backlog' = backlog + 1
  /\ UNCHANGED <<serve, created, balancer, mainLoop, wg, lpc, shutdown, toRegister, deaf,
                 conns, listener, stopVars, closed, released>>

Disconnect(l) ==
  /\ lpc[l] = "wait" /\ conns[l] > 0
  /\ conns' = [conns EXCEPT ![l] = @ - 1]
  /\ UNCHANGED <<serve, created, balancer, mainLoop, wg, lpc, shutdown, toRegister, deaf,
                 backlog, clients, listener, stopVars, closed, released>>

ENext ==
  \/ ServeStep \/ MainStep \/ AcceptFails \/ Connect
  \/ \E s \in Stoppers : Stop(s)
  \/ \E l \in Subs : SubEnds(l) \/ SubForgets(l) \/ SubAborts(l) \/ Disconnect(l)

\* The scheduler runs Serve, the loops and the callers of Stop.  A loop runs a
\* queued task when it still hears of its tasks (Poller: TasksRunUnlessForgotten
\* and ShutdownEndsLoop); nothing makes another client connect.
EFairness ==
  /\ WF_evars(ServeStep)
  /\ WF_evars(MainStep)
  /\ \A l \in Subs : WF_evars(SubEnds(l))
  /\ \A s \in Stoppers : WF_evars(Stop(s))

ESpec == EInit /\ [][ENext]_evars /\ EFairness
-----------------------------------------------------------------------------
(* Properties *)

\* Type correctness of the engine's state.
ETypeOK ==
  /\ serve \in {"subs", "main", "wait", "waiting", "shutdown", "shutMain",
               "join", "close", "returned"}
  /\ created \subseteq Loops /\ balancer \subseteq Subs /\ closed \subseteq Loops
  /\ mainLoop \in BOOLEAN /\ listener \in BOOLEAN /\ once \in BOOLEAN
  /\ woken \in BOOLEAN /\ released \in BOOLEAN
  /\ wg \in 0..(NumOfLoops + 1)
  /\ lpc \in [Loops -> {"none", "wait", "accept", "accept2", "ended"}]
  /\ shutdown \subseteq Loops /\ deaf \subseteq Loops /\ stopped \subseteq Stoppers
  /\ toRegister \in 0..MaxClients /\ backlog \in 0..MaxClients /\ clients \in 0..MaxClients
  /\ conns \in [Subs -> 0..MaxClients]

\* No loop outlives its poller or the goroutine pool: stop closes and releases
\* them only after every loop has ended, also when start failed half-way.
LoopsEndFirst ==
  closed # {} \/ released => \A l \in Loops : lpc[l] \in {"none", "ended"}

\* Once shut down, the engine comes to rest: Serve returns, unless the main
\* loop sits in accept and no client comes any more, or a loop still waits whose
\* wake-up was forgotten.
ServeReturns ==
  serve = "shutdown" ~>
    \/ serve = "returned"
    \/ lpc[Main] \in {"accept", "accept2"} /\ backlog = 0
    \/ \E l \in deaf : lpc[l] = "wait"

\* "send stop signal to the engine.": after Stop, Serve gets beyond its wait.
StopIsSeen ==
  \A s \in Stoppers :
    s \in stopped ~> serve \in {"shutdown", "shutMain", "join", "close", "returned"}

\* Every poller is closed when Serve returns, also the ones of a start that
\* failed half-way; only a main poller that could not take the listener, and
\* so never became MainLoop, is left.
PollersAreReleased ==
  serve = "returned" => created \ closed \subseteq (IF mainLoop THEN {} ELSE {Main})
=============================================================================
