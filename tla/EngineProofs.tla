---------------------------- MODULE EngineProofs ----------------------------
(***************************************************************************)
(* Invariance proofs about the module Engine, for every number of sub      *)
(* loops, callers of Stop and clients, and also for a start that fails.    *)
(***************************************************************************)
EXTENDS Engine, FiniteSetTheorems, TLAPS

-----------------------------------------------------------------------------
(* The inductive invariant *)

\* Loops whose goroutine has been started and has not ended.
Live == {l \in Loops : lpc[l] \in {"wait", "accept", "accept2"}}

\* A connection is counted once: it waits in the backlog, for its RegisterConn,
\* or belongs to a loop.
ClientInv == \A l \in Subs : conns[l] + toRegister + backlog <= clients

\* The wait group counts the live loops.
WaitGroupInv ==
  /\ wg = Cardinality(Live)
  /\ serve = "subs" => Live = {}
  /\ serve \in {"subs", "main"} => lpc[Main] = "none"

\* What stop has taken down, and when.
StopInv ==
  /\ serve \in {"close", "returned"} => Live = {}
  /\ closed # {} \/ released => serve = "returned"
  /\ serve = "returned" => closed = balancer \cup (IF mainLoop THEN {Main} ELSE {})
  /\ created \subseteq balancer \cup {Main}

EInv == ETypeOK /\ ClientInv /\ WaitGroupInv /\ StopInv

-----------------------------------------------------------------------------
(* Finite sets of loops *)

\* There are NumOfLoops sub loops and one main loop.
LEMMA LoopsFinite ==
  /\ IsFiniteSet(Subs) /\ Cardinality(Subs) = NumOfLoops
  /\ IsFiniteSet(Loops) /\ Cardinality(Loops) = NumOfLoops + 1
PROOF
<1> USE EngineAssumption
<1>1. IsFiniteSet(Subs) /\ Cardinality(Subs) = NumOfLoops
  BY FS_Interval DEF Subs
<1>2. Main \notin Subs /\ Loops = Subs \cup {Main}
  BY DEF Main, Subs, Loops
<1> QED BY <1>1, <1>2, FS_AddElement

\* The live loops are finitely many, and no more than there are loops.
LEMMA LiveFinite ==
  /\ IsFiniteSet(Live)
  /\ Cardinality(Live) \in 0..(NumOfLoops + 1)
PROOF
<1>1. Live \subseteq Loops
  BY DEF Live
<1>2. IsFiniteSet(Live) /\ Cardinality(Live) <= Cardinality(Loops)
  BY <1>1, LoopsFinite, FS_Subset
<1>3. Cardinality(Live) \in Nat
  BY <1>2, FS_CardinalityType
<1> QED BY <1>2, <1>3, LoopsFinite, EngineAssumption

\* A loop that ends takes itself out of the wait group.
LEMMA EndStep ==
  ASSUME ETypeOK, WaitGroupInv, StopInv, NEW l \in Loops, l \in Live, End(l), serve' = serve
  PROVE  /\ WaitGroupInv' /\ Live' \subseteq Live
         /\ wg' \in 0..(NumOfLoops + 1)
         /\ lpc' \in [Loops -> {"none", "wait", "accept", "accept2", "ended"}]
PROOF
<1>1. Live' = Live \ {l}
  BY DEF Live, End, ETypeOK
<1>2. Cardinality(Live') = Cardinality(Live) - 1
  BY <1>1, LiveFinite, FS_RemoveElement
<1>3. wg' = Cardinality(Live')
  BY <1>2 DEF End, WaitGroupInv
<1>4. IsFiniteSet(Live') /\ Cardinality(Live') \in Nat
  BY <1>1, LiveFinite, FS_RemoveElement, FS_CardinalityType
<1>5. wg' \in 0..(NumOfLoops + 1)
  BY <1>2, <1>3, <1>4, LiveFinite, EngineAssumption
<1>6. serve \in {"subs", "main"} => lpc'[Main] = "none"
  BY DEF WaitGroupInv, End, Live, ETypeOK, Loops
<1>7. lpc' \in [Loops -> {"none", "wait", "accept", "accept2", "ended"}]
  BY DEF End, ETypeOK
<1>8. serve = "subs" => Live' = {}
  BY <1>1 DEF WaitGroupInv
<1> QED BY <1>1, <1>3, <1>5, <1>6, <1>7, <1>8 DEF WaitGroupInv

\* The main loop ends, calls accept, or goes back to its wait.
LEMMA MainMoves ==
  ASSUME ETypeOK, WaitGroupInv, StopInv, Main \in Live, serve' = serve,
         \/ End(Main)
         \/ \E p \in {"wait", "accept", "accept2"} :
              lpc' = [lpc EXCEPT ![Main] = p] /\ wg' = wg
  PROVE  /\ WaitGroupInv' /\ Live' \subseteq Live
         /\ wg' \in 0..(NumOfLoops + 1)
         /\ lpc' \in [Loops -> {"none", "wait", "accept", "accept2", "ended"}]
PROOF
<1>1. Main \in Loops
  BY DEF Loops
<1>2. CASE End(Main)
  BY <1>1, <1>2, EndStep
<1>3. ASSUME NEW p \in {"wait", "accept", "accept2"},
             lpc' = [lpc EXCEPT ![Main] = p] /\ wg' = wg
      PROVE  /\ WaitGroupInv' /\ Live' \subseteq Live
             /\ wg' \in 0..(NumOfLoops + 1)
             /\ lpc' \in [Loops -> {"none", "wait", "accept", "accept2", "ended"}]
  <2>1. Live' = Live
    BY <1>1, <1>3 DEF Live, ETypeOK
  <2>2. serve \notin {"subs", "main"}
    BY DEF Live, WaitGroupInv
  <2> QED BY <1>1, <1>3, <2>1, <2>2 DEF WaitGroupInv, ETypeOK
<1> QED BY <1>2, <1>3

\* A call of accept blocks, or ends the loop when the listener is closed.
LEMMA AcceptMoves ==
  ASSUME NEW n \in {1, 2}, CallAccept(n)
  PROVE  \/ End(Main)
         \/ \E p \in {"wait", "accept", "accept2"} :
              lpc' = [lpc EXCEPT ![Main] = p] /\ wg' = wg
PROOF
  BY DEF CallAccept

-----------------------------------------------------------------------------
(* The steps *)

\* The steps of Serve.
LEMMA ServeKeeps ==
  ASSUME EInv, ServeStep
  PROVE  EInv'
PROOF
<1> USE EngineAssumption DEF EInv
<1>1. ASSUME UNCHANGED netVars, UNCHANGED toRegister
      PROVE  ClientInv'
  BY <1>1 DEF ClientInv, netVars
<1>2. CASE NewSub
  <2>1. IsFiniteSet(balancer) /\ Cardinality(balancer) \in Nat
    BY LoopsFinite, FS_Subset, FS_CardinalityType DEF ETypeOK
  <2>2. Cardinality(balancer) + 1 \in Subs
    BY <1>2, <2>1 DEF NewSub, Subs
  <2>3. ETypeOK'
    BY <1>2, <2>2 DEF NewSub, CreatePoll, ETypeOK, Loops, netVars, stopVars
  <2>4. WaitGroupInv' /\ StopInv'
    BY <1>2 DEF NewSub, CreatePoll, WaitGroupInv, StopInv, Live
  <2> QED BY <1>1, <1>2, <2>3, <2>4 DEF NewSub
<1>3. CASE StartSubs
  <2>1. Live' = Subs
    BY <1>3 DEF StartSubs, Live, Loops, Main, Subs
  <2>2. wg' = Cardinality(Live')
    BY <1>3, <2>1, LoopsFinite DEF StartSubs
  <2>3. ETypeOK'
    BY <1>3 DEF StartSubs, ETypeOK, Loops, netVars, stopVars
  <2>4. lpc'[Main] = "none"
    BY <1>3 DEF StartSubs, Main, Loops, Subs
  <2>5. WaitGroupInv'
    BY <1>3, <2>2, <2>4 DEF StartSubs, WaitGroupInv
  <2>6. StopInv'
    BY <1>3 DEF StartSubs, StopInv
  <2> QED BY <1>1, <1>3, <2>3, <2>5, <2>6 DEF StartSubs
<1>4. CASE NewMain
  <2>1. ETypeOK'
    BY <1>4 DEF NewMain, CreatePoll, ETypeOK, Loops, netVars, stopVars
  <2>2. WaitGroupInv' /\ StopInv'
    BY <1>4 DEF NewMain, CreatePoll, WaitGroupInv, StopInv, Live
  <2> QED BY <1>1, <1>4, <2>1, <2>2 DEF NewMain
<1>5. CASE StartMain
  <2>1. lpc[Main] = "none" /\ Main \in Loops
    BY <1>5 DEF StartMain, WaitGroupInv, Loops
  <2>2. Live' = Live \cup {Main} /\ Main \notin Live
    BY <1>5, <2>1 DEF StartMain, Live, ETypeOK
  <2>3. Cardinality(Live') = Cardinality(Live) + 1
    BY <2>2, LiveFinite, FS_AddElement
  <2>4. wg' = Cardinality(Live')
    BY <1>5, <2>3 DEF StartMain, WaitGroupInv
  <2>5. Cardinality(Live') \in 0..(NumOfLoops + 1)
    <3>1. Live' \subseteq Loops
      BY DEF Live
    <3>2. IsFiniteSet(Live') /\ Cardinality(Live') <= NumOfLoops + 1
      BY <3>1, LoopsFinite, FS_Subset
    <3> QED BY <3>2, FS_CardinalityType
  <2>6. ETypeOK'
    BY <1>5, <2>1, <2>4, <2>5 DEF StartMain, ETypeOK, netVars, stopVars
  <2>7. WaitGroupInv' /\ StopInv'
    BY <1>5, <2>4 DEF StartMain, WaitGroupInv, StopInv
  <2> QED BY <1>1, <1>5, <2>6, <2>7 DEF StartMain
<1>6. CASE StartFails
  <2>1. ETypeOK'
    BY <1>6 DEF StartFails, ETypeOK, netVars, stopVars
  <2>2. WaitGroupInv' /\ StopInv'
    BY <1>6 DEF StartFails, WaitGroupInv, StopInv, Live
  <2> QED BY <1>1, <1>6, <2>1, <2>2 DEF StartFails
<1>7. CASE WaitForStopSignal
  <2>1. ETypeOK'
    BY <1>7 DEF WaitForStopSignal, ETypeOK, netVars, stopVars
  <2>2. WaitGroupInv' /\ StopInv'
    BY <1>7 DEF WaitForStopSignal, WaitGroupInv, StopInv, Live
  <2> QED BY <1>1, <1>7, <2>1, <2>2 DEF WaitForStopSignal
<1>8. CASE ShutdownSub
  <2>1. ETypeOK'
    BY <1>8 DEF ShutdownSub, ETypeOK, Loops, netVars, stopVars
  <2>2. WaitGroupInv' /\ StopInv'
    BY <1>8 DEF ShutdownSub, WaitGroupInv, StopInv, Live
  <2> QED BY <1>1, <1>8, <2>1, <2>2 DEF ShutdownSub
<1>9. CASE CloseListener
  <2>1. ETypeOK'
    BY <1>9 DEF CloseListener, ETypeOK, netVars, stopVars
  <2>2. WaitGroupInv' /\ StopInv'
    BY <1>9 DEF CloseListener, WaitGroupInv, StopInv, Live
  <2> QED BY <1>1, <1>9, <2>1, <2>2 DEF CloseListener
<1>10. CASE ShutdownMain
  <2>1. ETypeOK'
    BY <1>10 DEF ShutdownMain, ETypeOK, Loops, netVars, stopVars
  <2>2. WaitGroupInv' /\ StopInv'
    BY <1>10 DEF ShutdownMain, WaitGroupInv, StopInv, Live
  <2> QED BY <1>1, <1>10, <2>1, <2>2 DEF ShutdownMain
<1>11. CASE Join
  <2>1. ETypeOK'
    BY <1>11 DEF Join, ETypeOK, netVars, stopVars
  <2>2. Live = {}
    BY <1>11, LiveFinite, FS_EmptySet DEF Join, WaitGroupInv
  <2>3. WaitGroupInv' /\ StopInv'
    BY <1>11, <2>2 DEF Join, WaitGroupInv, StopInv, Live
  <2> QED BY <1>1, <1>11, <2>1, <2>3 DEF Join
<1>12. CASE ClosePollers
  <2>1. ETypeOK'
    BY <1>12 DEF ClosePollers, ETypeOK, Loops, netVars, stopVars
  <2>2. WaitGroupInv' /\ StopInv'
    BY <1>12 DEF ClosePollers, WaitGroupInv, StopInv, Live
  <2> QED BY <1>1, <1>12, <2>1, <2>2 DEF ClosePollers
<1> QED
  BY <1>2, <1>3, <1>4, <1>5, <1>6, <1>7, <1>8, <1>9, <1>10, <1>11, <1>12 DEF ServeStep

\* The steps of the loops, of the clients and of Stop.
LEMMA LoopsKeep ==
  ASSUME EInv,
         \/ MainStep \/ AcceptFails \/ Connect
         \/ \E s \in Stoppers : Stop(s)
         \/ \E l \in Subs : SubEnds(l) \/ SubForgets(l) \/ SubAborts(l) \/ Disconnect(l)
  PROVE  EInv'
PROOF
<1> USE EngineAssumption DEF EInv
<1>1. ASSUME NEW l \in Subs, SubEnds(l) \/ SubAborts(l)
      PROVE  EInv'
  <2>1. l \in Loops /\ l \in Live /\ End(l) /\ serve' = serve
    BY <1>1 DEF SubEnds, SubAborts, Live, Loops
  <2>2. /\ WaitGroupInv' /\ Live' \subseteq Live /\ wg' \in 0..(NumOfLoops + 1)
        /\ lpc' \in [Loops -> {"none", "wait", "accept", "accept2", "ended"}]
    BY <2>1, EndStep
  <2>3. /\ UNCHANGED <<serve, created, balancer, mainLoop, shutdown, toRegister, deaf,
                       conns, backlog, clients, listener, once, woken, stopped, closed, released>>
    BY <1>1 DEF SubEnds, SubAborts, netVars, stopVars
  <2>4. ETypeOK' /\ ClientInv'
    BY <2>2, <2>3 DEF ETypeOK, ClientInv
  <2>5. StopInv'
    BY <2>2, <2>3 DEF StopInv
  <2> QED BY <2>2, <2>4, <2>5
<1>2. CASE MainTasks
  <2>1. /\ UNCHANGED <<serve, created, balancer, mainLoop, shutdown, deaf, backlog, clients,
                       listener, once, woken, stopped, closed, released>>
        /\ toRegister' = 0
    BY <1>2 DEF MainTasks, stopVars
  <2>2. /\ WaitGroupInv' /\ Live' \subseteq Live /\ wg' \in 0..(NumOfLoops + 1)
        /\ lpc' \in [Loops -> {"none", "wait", "accept", "accept2", "ended"}]
    <3>1. Main \in Live
      BY <1>2 DEF MainTasks, Live, Loops
    <3>2. End(Main) \/ CallAccept(1)
      BY <1>2 DEF MainTasks
    <3> QED BY <2>1, <3>1, <3>2, AcceptMoves, MainMoves
  <2>3. /\ conns' \in [Subs -> 0..MaxClients]
        /\ \A l \in Subs : conns'[l] <= conns[l] + toRegister
    <3>1. CASE toRegister > 0
      <4>1. PICK l \in Subs : conns' = [conns EXCEPT ![l] = @ + toRegister]
        BY <1>2, <3>1 DEF MainTasks
      <4>2. /\ conns[l] + toRegister <= MaxClients
            /\ conns[l] \in Nat /\ toRegister \in Nat
        BY DEF ETypeOK, ClientInv
      <4>3. conns[l] + toRegister \in 0..MaxClients
        BY <4>2
      <4>4. \A k \in Subs : conns[k] \in Nat /\ conns'[k] \in {conns[k], conns[k] + toRegister}
        BY <4>1 DEF ETypeOK
      <4>5. conns' \in [Subs -> 0..MaxClients]
        BY <4>1, <4>3 DEF ETypeOK
      <4> QED BY <4>2, <4>4, <4>5
    <3>2. CASE ~(toRegister > 0)
      BY <1>2, <3>2 DEF MainTasks, ETypeOK
    <3> QED BY <3>1, <3>2
  <2>4. ETypeOK'
    BY <2>1, <2>2, <2>3 DEF ETypeOK
  <2>5. ClientInv'
    <3> SUFFICES ASSUME NEW l \in Subs
                 PROVE  conns'[l] + toRegister' + backlog' <= clients'
      BY DEF ClientInv
    <3>1. /\ conns[l] + toRegister + backlog <= clients
          /\ conns[l] \in Nat /\ toRegister \in Nat /\ backlog \in Nat /\ clients \in Nat
          /\ conns'[l] \in Nat /\ conns'[l] <= conns[l] + toRegister
      BY <2>3 DEF ClientInv, ETypeOK
    <3> QED BY <2>1, <3>1
  <2>6. StopInv'
    BY <2>1, <2>2 DEF StopInv
  <2> QED BY <2>2, <2>4, <2>5, <2>6
<1>3. CASE MainAccepts \/ AcceptFails
  <2>1. /\ UNCHANGED <<serve, created, balancer, mainLoop, shutdown, deaf, conns, clients,
                       listener, once, woken, stopped, closed, released>>
        /\ Main \in Live
    BY <1>3 DEF MainAccepts, AcceptFails, stopVars, Live, Loops
  <2>2. /\ WaitGroupInv' /\ Live' \subseteq Live /\ wg' \in 0..(NumOfLoops + 1)
        /\ lpc' \in [Loops -> {"none", "wait", "accept", "accept2", "ended"}]
    <3>1. \/ End(Main) \/ CallAccept(1)
          \/ lpc' = [lpc EXCEPT ![Main] = "wait"] /\ wg' = wg
      BY <1>3 DEF MainAccepts, AcceptFails
    <3> QED BY <2>1, <3>1, AcceptMoves, MainMoves
  <2>3. /\ backlog' \in Nat /\ toRegister' \in Nat
        /\ toRegister' + backlog' <= toRegister + backlog /\ backlog' <= backlog
    BY <1>3 DEF MainAccepts, AcceptFails, Accept, ETypeOK
  <2>4. \A a, b, c, d, e, k \in Nat :
          (a + b + c <= k /\ d + e <= b + c) => (a + d + e <= k /\ d <= k /\ e <= k)
    OBVIOUS
  <2>5. toRegister' \in 0..MaxClients /\ backlog' \in 0..MaxClients
    <3>1. 1 \in Subs
      BY DEF Subs
    <3>2. PICK n \in Nat : n + toRegister + backlog <= clients
      BY <3>1 DEF ClientInv, ETypeOK
    <3>3. toRegister \in Nat /\ backlog \in Nat /\ clients \in Nat
      BY DEF ETypeOK
    <3>4. toRegister' <= clients /\ backlog' <= clients
      BY <2>3, <2>4, <3>2, <3>3
    <3>5. clients \in 0..MaxClients
      BY DEF ETypeOK
    <3> QED BY <2>3, <3>4, <3>5
  <2>6. ETypeOK'
    BY <2>1, <2>2, <2>5 DEF ETypeOK
  <2>7. ClientInv'
    <3> SUFFICES ASSUME NEW l \in Subs
                 PROVE  conns'[l] + toRegister' + backlog' <= clients'
      BY DEF ClientInv
    <3>1. /\ conns[l] + toRegister + backlog <= clients /\ conns[l] \in Nat
          /\ toRegister \in Nat /\ backlog \in Nat /\ clients \in Nat
          /\ conns'[l] = conns[l] /\ clients' = clients
      BY <2>1 DEF ClientInv, ETypeOK
    <3> QED BY <2>3, <2>4, <3>1
  <2>8. StopInv'
    BY <2>1, <2>2 DEF StopInv
  <2> QED BY <2>2, <2>6, <2>7, <2>8
<1>4. CASE Connect
  <2>1. backlog + 1 <= clients + 1
    <3>1. 1 \in Subs
      BY DEF Subs
    <3> QED BY <3>1 DEF ClientInv, ETypeOK
  <2>2. ETypeOK'
    BY <1>4, <2>1 DEF Connect, ETypeOK, stopVars
  <2>3. ClientInv'
    BY <1>4 DEF Connect, ClientInv, ETypeOK
  <2>4. WaitGroupInv' /\ StopInv'
    BY <1>4 DEF Connect, WaitGroupInv, StopInv, Live
  <2> QED BY <2>2, <2>3, <2>4
<1>5. ASSUME NEW l \in Subs, Disconnect(l)
      PROVE  EInv'
  <2>1. ETypeOK'
    BY <1>5 DEF Disconnect, ETypeOK, stopVars
  <2>2. ClientInv'
    BY <1>5 DEF Disconnect, ClientInv, ETypeOK
  <2>3. WaitGroupInv' /\ StopInv'
    BY <1>5 DEF Disconnect, WaitGroupInv, StopInv, Live
  <2> QED BY <2>1, <2>2, <2>3
<1>6. ASSUME NEW s \in Stoppers, Stop(s)
      PROVE  EInv'
  <2>1. ETypeOK'
    BY <1>6 DEF Stop, ETypeOK, netVars
  <2>2. ClientInv' /\ WaitGroupInv' /\ StopInv'
    BY <1>6 DEF Stop, ClientInv, WaitGroupInv, StopInv, Live, netVars
  <2> QED BY <2>1, <2>2
<1>7. CASE MainListens \/ MainForgets
  <2>1. /\ UNCHANGED <<serve, created, balancer, mainLoop, shutdown, toRegister, conns,
                       backlog, clients, listener, once, woken, stopped, closed, released>>
        /\ Main \in Live /\ deaf' \in {deaf, deaf \cup {Main}} /\ Main \in Loops
    BY <1>7 DEF MainListens, MainForgets, stopVars, netVars, Live, Loops
  <2>2. /\ WaitGroupInv' /\ Live' \subseteq Live /\ wg' \in 0..(NumOfLoops + 1)
        /\ lpc' \in [Loops -> {"none", "wait", "accept", "accept2", "ended"}]
    <3>1. CallAccept(1) \/ CallAccept(2)
      BY <1>7 DEF MainListens, MainForgets
    <3> QED BY <2>1, <3>1, AcceptMoves, MainMoves
  <2>3. ETypeOK' /\ ClientInv' /\ StopInv'
    BY <2>1, <2>2 DEF ETypeOK, ClientInv, StopInv
  <2> QED BY <2>2, <2>3
<1>8. ASSUME NEW l \in Subs, SubForgets(l)
      PROVE  EInv'
  <2>1. ETypeOK'
    BY <1>8 DEF SubForgets, ETypeOK, stopVars, Loops
  <2>2. ClientInv' /\ WaitGroupInv' /\ StopInv'
    BY <1>8 DEF SubForgets, ClientInv, WaitGroupInv, StopInv, Live
  <2> QED BY <2>1, <2>2
<1> QED BY <1>1, <1>2, <1>3, <1>4, <1>5, <1>6, <1>7, <1>8 DEF MainStep

-----------------------------------------------------------------------------
(* Invariance *)

\* The inductive invariant holds throughout.
THEOREM EngineInvariant == ESpec => []EInv
PROOF
<1>1. EInit => EInv
  <2> SUFFICES ASSUME EInit
               PROVE  EInv
    OBVIOUS
  <2>1. Live = {} /\ lpc[Main] = "none"
    BY DEF EInit, Live, Loops
  <2>2. Cardinality(Live) = 0
    BY <2>1, FS_EmptySet
  <2>3. ETypeOK
    <3>1. /\ mainLoop \in BOOLEAN /\ listener \in BOOLEAN /\ once \in BOOLEAN
          /\ woken \in BOOLEAN /\ released \in BOOLEAN
      BY DEF EInit
    <3>2. /\ wg \in 0..(NumOfLoops + 1) /\ toRegister \in 0..MaxClients
          /\ backlog \in 0..MaxClients /\ clients \in 0..MaxClients
          /\ conns \in [Subs -> 0..MaxClients]
      BY EngineAssumption DEF EInit
    <3>3. /\ created \subseteq Loops /\ balancer \subseteq Subs /\ closed \subseteq Loops
          /\ shutdown \subseteq Loops /\ deaf \subseteq Loops /\ stopped \subseteq Stoppers
          /\ lpc \in [Loops -> {"none", "wait", "accept", "accept2", "ended"}]
      BY DEF EInit
    <3> QED BY <3>1, <3>2, <3>3 DEF EInit, ETypeOK
  <2>4. ClientInv
    BY DEF EInit, ClientInv
  <2>5. WaitGroupInv /\ StopInv
    BY <2>1, <2>2 DEF EInit, WaitGroupInv, StopInv
  <2> QED BY <2>3, <2>4, <2>5 DEF EInv
<1>2. ASSUME EInv, [ENext]_evars
      PROVE  EInv'
  <2>1. CASE UNCHANGED evars
    BY <1>2, <2>1 DEF evars, EInv, ETypeOK, ClientInv, WaitGroupInv, StopInv, Live
  <2> QED BY <1>2, <2>1, ServeKeeps, LoopsKeep DEF ENext
<1> QED BY <1>1, <1>2, PTL DEF ESpec

\* Type correctness: the wait group never goes negative, and no connection is
\* counted twice on its way from the backlog to its loop.
THEOREM EngineTypeCorrect == ESpec => []ETypeOK
PROOF
<1>1. EInv => ETypeOK
  BY DEF EInv
<1> QED BY <1>1, EngineInvariant, PTL

\* No loop outlives its poller or the goroutine pool, for any number of loops.
THEOREM LoopsAlwaysEndFirst == ESpec => []LoopsEndFirst
PROOF
<1>1. EInv => LoopsEndFirst
  BY DEF EInv, StopInv, ETypeOK, LoopsEndFirst, Live
<1> QED BY <1>1, EngineInvariant, PTL

\* Every poller is closed when Serve returns, but for the main poller of a
\* start that failed, also when start fails half-way through the sub loops.
THEOREM PollersAlwaysReleased == ESpec => []PollersAreReleased
PROOF
<1>1. EInv => PollersAreReleased
  BY DEF EInv, StopInv, PollersAreReleased
<1> QED BY <1>1, EngineInvariant, PTL
=============================================================================
