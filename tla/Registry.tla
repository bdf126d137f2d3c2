------------------------------ MODULE Registry ------------------------------
(***************************************************************************)
(* The connections of several event loops: Eloop.Accept, RegisterConn and  *)
(* RemoveConn of eloop/eventloop.go with the balancers of balancer/, what  *)
(* Conn.Open and Conn.Close do to ConnList, ConnCount and descriptor       *)
(* numbers, and how a sub loop finds the connection of an event.  The main *)
(* loop accepts and later runs the queued RegisterConn tasks together, in  *)
(* the pool, on the maps of the sub loops.  A sub loop fetches a batch of  *)
(* events, looks each one up by number when its turn comes and waits for   *)
(* its handler; tasks run behind the last event of a batch, all at once.   *)
(* A number belongs to whoever the kernel gave it last: a Close that comes *)
(* too late closes the descriptor of another connection.                   *)
(*                                                                         *)
(* ConnList is a plain map and ConnCount is stored without atomicity after *)
(* an atomic add: a write of either has a beginning and an end.            *)
(***************************************************************************)
EXTENDS Integers, Sequences, FiniteSets, FiniteSetsExt

CONSTANTS
  Conns,          \* accepted connections: bounds the calls of accept
  Jobs,           \* goroutines of a sub loop's turn, per connection
  Handler,        \* the job that runs a connection's event handler
  MaxCloses,      \* bound on the calls of Close that pass the test of Opened
  NumOfLoops,     \* Options.NumOfLoops: the sub loops are 1..NumOfLoops
  LoadBalancers,  \* Options.LoadBalancer is one of these
  NoConn          \* an entry ConnList does not have

ASSUME RegistryAssumption ==
  /\ IsFiniteSet(Conns) /\ NoConn \notin Conns
  /\ IsFiniteSet(Jobs) /\ Handler \in Jobs /\ "opener" \notin Jobs
  /\ MaxCloses \in Nat
  /\ NumOfLoops \in Nat \ {0}
  /\ LoadBalancers \subseteq {"RoundRobin", "LeastConn"}

VARIABLES
  balancer,       \* the balancer Serve has made
  nextIndex,      \* RoundRobin.nextIndex
  fd,             \* Conn.Fd: descriptor numbers are 1, 2, ...
  loop,           \* Conn.Poller.Eloop
  opened,         \* connections whose Opened is set
  holder,         \* kernel: the connection whose socket a number stands for
  watch,          \* kernel: the loops whose epoll watches that socket
  reg,            \* where each connection's RegisterConn is
  cls,            \* where each goroutine that may close a connection is
  batch,          \* per loop: fetched events still to be dispatched, with their owners
  hand,           \* per loop: the connection whose handler is running
  ConnList,       \* per loop: number -> connection
  ConnCount,      \* per loop
  added,          \* what AddConnCount returned, still to be stored
  crashed,        \* why the process has died
  clash, raced,   \* history: loops whose map writes, counter updates overlapped
  reused,         \* history: connections that got a number still to be unlisted
  stolen          \* history: connections whose descriptor another one has closed

kernel == <<holder, watch>>
turnVars == <<batch, hand>>
counter == <<ConnCount, added, raced>>
vars == <<balancer, nextIndex, fd, loop, opened, kernel, reg, cls, turnVars, ConnList,
          counter, crashed, clash, reused, stolen>>

Loops == 1..NumOfLoops
Nums == 1..Cardinality(Conns)

\* Who may call Close on a connection: RegisterConn's Open, and jobs of its loop.
Closers == Jobs \cup {"opener"}

\* Serve and startReactors: loops with empty maps, all registered.
Init ==
  /\ balancer \in LoadBalancers
  /\ nextIndex = 0
  /\ fd = [c \in Conns |-> 0]
  /\ loop = [c \in Conns |-> 0]
  /\ opened = {}
  /\ holder = [n \in Nums |-> NoConn]
  /\ watch = [n \in Nums |-> {}]
  /\ reg = [c \in Conns |-> "none"]
  /\ cls = [x \in Conns \X Closers |-> "none"]
  /\ batch = [l \in Loops |-> {}]
  /\ hand = [l \in Loops |-> NoConn]
  /\ ConnList = [l \in Loops |-> [n \in Nums |-> NoConn]]
  /\ ConnCount = [l \in Loops |-> 0]
  /\ added = [x \in Conns \X Closers |-> 0]
  /\ crashed = "no"
  /\ clash = {} /\ raced = {} /\ reused = {} /\ stolen = {}

-----------------------------------------------------------------------------
(* Who is doing what *)

\* The connection holds its descriptor.
HasFd(c) == fd[c] \in Nums /\ holder[fd[c]] = c

\* The main loop waits for the RegisterConn tasks of its turn.
Registering == {c \in Conns : reg[c] \in {"addread", "listing", "open", "store"}}

\* Writers of a loop's map, and updates of its counter between add and store.
Writers(l) ==
  {x \in Conns \X Closers : /\ loop[x[1]] = l
                            /\ cls[x] = "unlisting" \/ (x[2] = "opener" /\ reg[x[1]] = "listing")}
Updates(l) ==
  {x \in Conns \X Closers : /\ loop[x[1]] = l
                            /\ cls[x] = "store" \/ (x[2] = "opener" /\ reg[x[1]] = "store")}

\* wg.Wait of the loop's turn would return: no job of it is inside Close.
Idle(l) == \A c \in Conns, j \in Jobs : loop[c] = l => cls[<<c, j>>] \in {"none", "done"}

-----------------------------------------------------------------------------
(* Balancers *)

\* LeastConn.Next: the first loop with the smallest counter.  A Close between two
\* of its loads only changes which loop that is.
LeastConn ==
  CHOOSE l \in Loops : \A m \in Loops :
    ConnCount[l] < ConnCount[m] \/ (ConnCount[l] = ConnCount[m] /\ l <= m)

\* RoundRobin.Next: eloopList[nextIndex] panics for an index past the last loop.
NextLoop == IF balancer = "RoundRobin" THEN nextIndex + 1 ELSE LeastConn

\* Defect: the index runs backwards and does not wrap.
AdvanceIndexBack ==
  nextIndex' = IF balancer # "RoundRobin" THEN nextIndex ELSE nextIndex - 1

AdvanceIndex ==
  nextIndex' = IF balancer # "RoundRobin" THEN nextIndex
               ELSE IF nextIndex + 1 > NumOfLoops THEN 0 ELSE nextIndex + 1

-----------------------------------------------------------------------------
(* The main loop *)

\* accept gives the lowest free number; packTcpConn asks the balancer and queues
\* RegisterConn.  A panic of the main loop's goroutine ends the process.
Accept(c) ==
  /\ reg[c] = "none" /\ Registering = {}
  /\ LET n == Min({m \in Nums : holder[m] = NoConn}) IN
     IF NextLoop \in Loops
     THEN /\ AdvanceIndex
          /\ fd' = [fd EXCEPT ![c] = n]
          /\ holder' = [holder EXCEPT ![n] = c]
          /\ loop' = [loop EXCEPT ![c] = NextLoop]
          /\ reg' = [reg EXCEPT ![c] = "queued"]
          /\ reused' = IF \E x \in Conns \X Closers :
                            /\ loop[x[1]] = NextLoop /\ fd[x[1]] = n
                            /\ cls[x] \in {"unlist", "unlisting"}
                       THEN reused \cup {c} ELSE reused
          /\ UNCHANGED crashed
     ELSE /\ crashed' = "index out of range"
          /\ UNCHANGED <<nextIndex, fd, holder, loop, reg, reused>>
  /\ UNCHANGED <<balancer, opened, watch, cls, turnVars, ConnList, counter, clash, stolen>>

\* A turn of the main loop submits every queued task.
MainTurn ==
  /\ Registering = {}
  /\ \E c \in Conns : reg[c] = "queued"
  /\ reg' = [c \in Conns |-> IF reg[c] = "queued" THEN "addread" ELSE reg[c]]
  /\ UNCHANGED <<balancer, nextIndex, fd, loop, opened, kernel, cls, turnVars, ConnList,
                 counter, crashed, clash, reused, stolen>>

-----------------------------------------------------------------------------
(* Descriptors, and writes of the shared map and counter *)

\* close(2) of a connection's number, whoever holds it by now.
CloseNumber(c) ==
  LET n == fd[c] IN
  /\ holder' = [holder EXCEPT ![n] = NoConn]
  /\ watch' = [watch EXCEPT ![n] = {}]
  /\ stolen' = stolen \cup ({holder[n]} \ {c, NoConn})

\* The beginning of a map write.  If another is under way the runtime notices
\* ("concurrent map writes", which ends the process) or the map may lose updates.
MapBegin(l) ==
  /\ clash' = IF Writers(l) # {} THEN clash \cup {l} ELSE clash
  /\ crashed' \in IF Writers(l) # {} THEN {"concurrent map writes", "no"} ELSE {"no"}

MapEnd(l, n, entry) ==
  \/ ConnList' = [ConnList EXCEPT ![l][n] = entry]
  \/ l \in clash /\ UNCHANGED ConnList

\* AddConnCount, and the assignment of its result to ConnCount.
CountAdd(c, who, i) ==
  LET l == loop[c] IN
  /\ ConnCount' = [ConnCount EXCEPT ![l] = @ + i]
  /\ added' = [added EXCEPT ![<<c, who>>] = ConnCount[l] + i]
  /\ raced' = IF Updates(l) # {} THEN raced \cup {l} ELSE raced

CountStore(c, who) ==
  /\ ConnCount' = [ConnCount EXCEPT ![loop[c]] = added[<<c, who>>]]
  /\ added' = [added EXCEPT ![<<c, who>>] = 0]
  /\ UNCHANGED raced

-----------------------------------------------------------------------------
(* RegisterConn *)

RegGoto(c, from, to) == reg[c] = from /\ reg' = [reg EXCEPT ![c] = to]

\* AddRead fails and RegisterConn closes the descriptor: a limit of epoll, or the
\* number is free (EBADF) or watched already (EEXIST) because it was closed and
\* given to another connection.
RegFails(c) ==
  /\ RegGoto(c, "addread", "failed")
  /\ CloseNumber(c)
  /\ UNCHANGED <<balancer, nextIndex, fd, loop, opened, cls, turnVars, ConnList, counter,
                 crashed, clash, reused>>

\* AddRead, after which events are reported; ConnList[c.Fd] = c begins.
RegList(c) ==
  /\ RegGoto(c, "addread", "listing")
  /\ holder[fd[c]] # NoConn /\ loop[c] \notin watch[fd[c]]
  /\ watch' = [watch EXCEPT ![fd[c]] = @ \cup {loop[c]}]
  /\ MapBegin(loop[c])
  /\ UNCHANGED <<balancer, nextIndex, fd, loop, opened, holder, cls, turnVars, ConnList,
                 counter, reused, stolen>>

\* Defect: every connection is listed by the first loop.
RegOpenFirstLoop(c) ==
  /\ RegGoto(c, "listing", "open")
  /\ MapEnd(1, fd[c], c)
  /\ opened' = opened \cup {c}
  /\ UNCHANGED <<balancer, nextIndex, fd, loop, kernel, cls, turnVars, counter, crashed,
                 clash, reused, stolen>>

\* Its end, and Open up to OnOpen: from here on Close does not return at once.
RegOpen(c) ==
  /\ RegGoto(c, "listing", "open")
  /\ MapEnd(loop[c], fd[c], c)
  /\ opened' = opened \cup {c}
  /\ UNCHANGED <<balancer, nextIndex, fd, loop, kernel, cls, turnVars, counter, crashed,
                 clash, reused, stolen>>

\* Open returns, maybe after a Close of its own.  RegisterConn counts the
\* connection unless Open returned an error (of AddWrite or of the write and Close
\* of OnOpen's data).
RegCount(c) ==
  /\ RegGoto(c, "open", "store")
  /\ cls[<<c, "opener">>] \in {"none", "done"}
  /\ CountAdd(c, "opener", 1)
  /\ UNCHANGED <<balancer, nextIndex, fd, loop, opened, kernel, cls, turnVars, ConnList,
                 crashed, clash, reused, stolen>>

RegError(c) ==
  /\ RegGoto(c, "open", "uncounted")
  /\ cls[<<c, "opener">>] \in {"none", "done"}
  /\ UNCHANGED <<balancer, nextIndex, fd, loop, opened, kernel, cls, turnVars, ConnList,
                 counter, crashed, clash, reused, stolen>>

RegStore(c) ==
  /\ RegGoto(c, "store", "done")
  /\ CountStore(c, "opener")
  /\ UNCHANGED <<balancer, nextIndex, fd, loop, opened, kernel, cls, turnVars, ConnList,
                 crashed, clash, reused, stolen>>

-----------------------------------------------------------------------------
(* A sub loop's turn *)

\* epoll_wait: events of watched sockets, each with the number it was added under.
Fetch(l) ==
  /\ batch[l] = {} /\ hand[l] = NoConn /\ Idle(l)
  /\ \E ready \in SUBSET {n \in Nums : l \in watch[n]} :
       /\ ready # {}
       /\ batch' = [batch EXCEPT ![l] = {<<n, holder[n]>> : n \in ready}]
  /\ UNCHANGED <<balancer, nextIndex, fd, loop, opened, kernel, reg, cls, hand, ConnList,
                 counter, crashed, clash, reused, stolen>>

\* AsyncWaitCallback: the connection the map has under the event's number by now
\* is handled.  Beside a write the lookup may find nothing, or the runtime ends
\* the process ("concurrent map read and map write").
Dispatch(l, e) ==
  /\ hand[l] = NoConn
  /\ batch' = [batch EXCEPT ![l] = @ \ {e}]
  /\ \/ hand' = [hand EXCEPT ![l] = ConnList[l][e[1]]]
     \/ Writers(l) # {} /\ UNCHANGED hand
  /\ crashed' \in IF Writers(l) # {} THEN {"concurrent map writes", "no"} ELSE {"no"}
  /\ UNCHANGED <<balancer, nextIndex, fd, loop, opened, kernel, reg, cls, ConnList,
                 counter, clash, reused, stolen>>

\* wg.Wait: the handler has returned.
Joined(l) ==
  /\ hand[l] # NoConn /\ cls[<<hand[l], Handler>>] \in {"none", "done"}
  /\ hand' = [hand EXCEPT ![l] = NoConn]
  /\ UNCHANGED <<balancer, nextIndex, fd, loop, opened, kernel, reg, cls, batch, ConnList,
                 counter, crashed, clash, reused, stolen>>

Turn(l) == Fetch(l) \/ (\E e \in batch[l] : Dispatch(l, e)) \/ Joined(l)

-----------------------------------------------------------------------------
(* Conn.Close *)

ClsGoto(c, who, from, to) ==
  cls[<<c, who>>] = from /\ cls' = [cls EXCEPT ![<<c, who>>] = to]

\* Open runs until RegisterConn counts; a handler while its event is handled; a
\* task behind the events of a batch.
MayClose(c, who) ==
  \/ who = "opener" /\ reg[c] = "open"
  \/ who = Handler /\ reg[c] # "none" /\ hand[loop[c]] = c
  \/ who \in Jobs /\ reg[c] # "none" /\ batch[loop[c]] = {} /\ hand[loop[c]] = NoConn

\* The test of Opened, which is cleared at the end: several callers may pass it.
CloseTest(c, who) ==
  /\ MayClose(c, who) /\ c \in opened
  /\ Cardinality({x \in Conns \X Closers : cls[x] # "none"}) < MaxCloses
  /\ ClsGoto(c, who, "none", "passed")
  /\ UNCHANGED <<balancer, nextIndex, fd, loop, opened, kernel, reg, turnVars, ConnList,
                 counter, crashed, clash, reused, stolen>>

\* RemoveFd and CloseFd: from here on accept may give the number away.
CloseFd(c, who) ==
  /\ ClsGoto(c, who, "passed", "unlist")
  /\ CloseNumber(c)
  /\ UNCHANGED <<balancer, nextIndex, fd, loop, opened, reg, turnVars, ConnList, counter,
                 crashed, clash, reused>>

\* RemoveConn: delete by number, then count down.
RemoveConn(c, who) ==
  /\ ClsGoto(c, who, "unlist", "unlisting")
  /\ MapBegin(loop[c])
  /\ UNCHANGED <<balancer, nextIndex, fd, loop, opened, kernel, reg, turnVars, ConnList,
                 counter, reused, stolen>>

\* Defect: the entry is overwritten with itself.
RemoveDeleteKeeps(c, who) ==
  /\ ClsGoto(c, who, "unlisting", "uncount")
  /\ MapEnd(loop[c], fd[c], ConnList[loop[c]][fd[c]])
  /\ UNCHANGED <<balancer, nextIndex, fd, loop, opened, kernel, reg, turnVars, counter,
                 crashed, clash, reused, stolen>>

RemoveDelete(c, who) ==
  /\ ClsGoto(c, who, "unlisting", "uncount")
  /\ MapEnd(loop[c], fd[c], NoConn)
  /\ UNCHANGED <<balancer, nextIndex, fd, loop, opened, kernel, reg, turnVars, counter,
                 crashed, clash, reused, stolen>>

\* Defect: removing a connection counts up.
RemoveCountUp(c, who) ==
  /\ ClsGoto(c, who, "uncount", "store")
  /\ CountAdd(c, who, 1)
  /\ UNCHANGED <<balancer, nextIndex, fd, loop, opened, kernel, reg, turnVars, ConnList,
                 crashed, clash, reused, stolen>>

RemoveCount(c, who) ==
  /\ ClsGoto(c, who, "uncount", "store")
  /\ CountAdd(c, who, -1)
  /\ UNCHANGED <<balancer, nextIndex, fd, loop, opened, kernel, reg, turnVars, ConnList,
                 crashed, clash, reused, stolen>>

\* The store, OnClose and releaseTCP.
RemoveStore(c, who) ==
  /\ ClsGoto(c, who, "store", "done")
  /\ CountStore(c, who)
  /\ opened' = opened \ {c}
  /\ UNCHANGED <<balancer, nextIndex, fd, loop, kernel, reg, turnVars, ConnList, crashed,
                 clash, reused, stolen>>

RegisterConn(c) ==
  \/ RegFails(c) \/ RegList(c) \/ RegOpen(c) \/ RegCount(c) \/ RegError(c) \/ RegStore(c)

Close(c, who) ==
  \/ CloseTest(c, who) \/ CloseFd(c, who) \/ RemoveConn(c, who) \/ RemoveDelete(c, who)
  \/ RemoveCount(c, who) \/ RemoveStore(c, who)

Next ==
  /\ crashed = "no"
  /\ \/ MainTurn
     \/ \E c \in Conns : Accept(c) \/ RegisterConn(c)
     \/ \E l \in Loops : Turn(l)
     \/ \E c \in Conns, who \in Closers : Close(c, who)

Spec == Init /\ [][Next]_vars

-----------------------------------------------------------------------------
(* Properties *)

RegPC == {"none", "queued", "addread", "failed", "listing", "open", "uncounted", "store", "done"}
ClsPC == {"none", "passed", "unlist", "unlisting", "uncount", "store", "done"}

\* Type correctness of the registry's state.
RegistryTypeOK ==
  /\ balancer \in LoadBalancers
  /\ nextIndex \in 0..NumOfLoops
  /\ fd \in [Conns -> Nums \cup {0}]
  /\ loop \in [Conns -> Loops \cup {0}]
  /\ opened \subseteq Conns
  /\ holder \in [Nums -> Conns \cup {NoConn}] /\ watch \in [Nums -> SUBSET Loops]
  /\ reg \in [Conns -> RegPC] /\ cls \in [Conns \X Closers -> ClsPC]
  /\ batch \in [Loops -> SUBSET (Nums \X Conns)]
  /\ hand \in [Loops -> Conns \cup {NoConn}]
  /\ ConnList \in [Loops -> [Nums -> Conns \cup {NoConn}]]
  /\ ConnCount \in [Loops -> Int]
  /\ added \in [Conns \X Closers -> Int]
  /\ crashed \in {"no", "index out of range", "concurrent map writes"}
  /\ clash \subseteq Loops /\ raced \subseteq Loops
  /\ reused \subseteq Conns /\ stolen \subseteq Conns

\* The main loop's pool has closed the connection's descriptor: Open's Close, or
\* RegisterConn after AddRead failed.
ClosedByMain(c) == reg[c] = "failed" \/ cls[<<c, "opener">>] \notin {"none", "passed"}

\* The event a loop takes next from its batch reaches the connection it was fetched
\* for, or none: Close frees a number before it deletes the entry, accept reuses it
\* at once, and the lookup comes long after the fetch.  The exceptions: RegisterConn
\* of the owner has closed it after the fetch, or a second Close of some connection
\* has hit the descriptor of the owner or of the connection found.
EventReachesOwner ==
  \A l \in Loops \ clash : hand[l] = NoConn =>
    \A e \in batch[l] :
      LET found == ConnList[l][e[1]] owner == e[2] IN
      \/ found \in {owner, NoConn}
      \/ loop[owner] # l \/ ClosedByMain(owner) \/ {owner, found} \cap stolen # {}

\* A connection with an open descriptor is in its loop's ConnList, or its events
\* are never handled.  The exception is a number that was given away between a
\* CloseFd and the delete of its RemoveConn, which is by number and then deletes
\* the new entry.
ListedUnlessReused ==
  \A c \in Conns :
    (/\ reg[c] \in {"open", "uncounted", "store", "done"} /\ HasFd(c)
     /\ loop[c] \notin clash /\ c \notin reused)
      => ConnList[loop[c]][fd[c]] = c

\* No loop's ConnList keeps a connection of which some Close is past RemoveConn.
ClosedIsForgotten ==
  \A l \in Loops \ clash, n \in Nums, who \in Closers :
    LET c == ConnList[l][n] IN
    c # NoConn => cls[<<c, who>>] \in {"none", "passed", "unlist", "unlisting"}

Counted(l) == {c \in Conns : loop[c] = l /\ reg[c] \in {"store", "done"}}
Removals(l) ==
  {x \in Conns \X Closers : loop[x[1]] = l /\ cls[x] \in {"store", "done"}}

\* ConnCount is the number of connections whose Open succeeded minus the number of
\* calls of RemoveConn, until two updates overlap: a Close before RegisterConn has
\* counted is made good later, a failed Open and a second Close leave it short.
CountAccountsForAll ==
  \A l \in Loops \ raced :
    ConnCount[l] = Cardinality(Counted(l)) - Cardinality(Removals(l))

\* The balancer answers with a loop ("how Conns should be dispatched to Eloop").
NextIsALoop == crashed # "index out of range"
=============================================================================
