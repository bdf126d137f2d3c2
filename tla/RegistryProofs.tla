--------------------------- MODULE RegistryProofs ---------------------------
(***************************************************************************)
(* Invariance proofs about the module Registry, for every number of        *)
(* connections, event loops, jobs of a turn and calls of Close, and for    *)
(* both balancers.                                                         *)
(***************************************************************************)
EXTENDS Registry, FiniteSetTheorems, WellFoundedInduction, TLAPS

-----------------------------------------------------------------------------
(* The inductive invariant *)

Opened == {"open", "uncounted", "store", "done"}

\* What the progress of RegisterConn says about a connection and its Closes.
LifeInv ==
  /\ \A c \in Conns :
       /\ reg[c] # "none" => loop[c] \in Loops /\ fd[c] \in Nums
       /\ c \in opened => reg[c] \in Opened
       /\ cls[<<c, "opener">>] \notin {"none", "done"} => reg[c] = "open"
  /\ \A c \in Conns, w \in Closers : cls[<<c, w>>] # "none" => reg[c] \in Opened

\* Who a number stands for: a connection that was accepted with it and of which no
\* Close has closed it; and such a connection keeps its number unless it is stolen.
HolderInv ==
  /\ \A n \in Nums : holder[n] # NoConn =>
       /\ fd[holder[n]] = n /\ reg[holder[n]] \notin {"none", "failed"}
       /\ \A w \in Closers : cls[<<holder[n], w>>] \in {"none", "passed"}
  /\ \A c \in Conns :
       (/\ reg[c] \notin {"none", "failed"} /\ c \notin stolen
        /\ \A w \in Closers : cls[<<c, w>>] \in {"none", "passed"}) => holder[fd[c]] = c

\* Which loops watch a number: none if it is free, its holder's once that one is
\* registered.  A connection that lists itself under the number of another one of
\* its loop has registered that one's socket, so the other one cannot.
WatchInv ==
  /\ \A n \in Nums : holder[n] = NoConn => watch[n] = {}
  /\ \A c \in Conns : (HasFd(c) /\ reg[c] \in Opened \cup {"listing"}) => loop[c] \in watch[fd[c]]
  /\ \A c, d \in Conns :
       (/\ HasFd(c) /\ reg[d] = "listing" /\ c # d /\ fd[c] = fd[d] /\ loop[c] = loop[d])
         => (reg[c] \in {"queued", "addread"} /\ loop[d] \in watch[fd[d]])

\* How the Closes of d can stand when another connection c has d's number: the
\* main loop accepts nothing while Open is inside Close, and c is known to have
\* reused a number if d is of the same loop and still to be unlisted.
NumberInv ==
  \A c, d \in Conns : (HasFd(c) /\ c # d /\ fd[c] = fd[d]) =>
    /\ cls[<<d, "opener">>] \in {"none", "passed", "done"}
    /\ \A w \in Closers :
         (cls[<<d, w>>] \in {"unlist", "unlisting"} /\ loop[c] = loop[d]) => c \in reused

\* A connection is listed under its own number, by its own loop.
EntryInv ==
  \A l \in Loops, n \in Nums :
    ConnList[l][n] # NoConn =>
      /\ loop[ConnList[l][n]] = l /\ fd[ConnList[l][n]] = n
      /\ reg[ConnList[l][n]] \in Opened

ListInv == EntryInv /\ ClosedIsForgotten /\ ListedUnlessReused

\* A fetched event carries the number of its owner, no number occurs twice, and
\* no job of the owner has begun to close it; a job is inside Close only while its
\* handler is joined or no event is left.
TurnInv ==
  \A l \in Loops :
    /\ \A e \in batch[l] :
         /\ fd[e[2]] = e[1] /\ reg[e[2]] # "none"
         /\ loop[e[2]] = l => \A j \in Jobs : cls[<<e[2], j>>] = "none"
         /\ \A f \in batch[l] : e[1] = f[1] => e = f
         /\ hand[l] # NoConn => e[1] # fd[hand[l]]
    /\ hand[l] # NoConn => loop[hand[l]] = l /\ reg[hand[l]] # "none"
    /\ \A c \in Conns, j \in Jobs :
         (loop[c] = l /\ cls[<<c, j>>] \notin {"none", "done"}) =>
           \/ j = Handler /\ hand[l] = c
           \/ batch[l] = {} /\ hand[l] = NoConn

\* An update of a loop's counter between its add and its store is the only one
\* and is about to store what the counter shows.
CountRight(l) ==
  /\ ConnCount[l] = Cardinality(Counted(l)) - Cardinality(Removals(l))
  /\ \A x, y \in Updates(l) : x = y
  /\ \A x \in Updates(l) : added[x] = ConnCount[l]

\* That holds until two updates of the counter overlap.
CounterInv == \A l \in Loops \ raced : CountRight(l)

RInv ==
  /\ RegistryTypeOK /\ LifeInv /\ HolderInv /\ WatchInv /\ NumberInv /\ ListInv
  /\ TurnInv /\ CounterInv

-----------------------------------------------------------------------------
(* The number accept gives out *)

\* A set of natural numbers that is not empty has its minimum as an element.
LEMMA MinIsElement ==
  ASSUME NEW S \in SUBSET Nat, S # {}
  PROVE  Min(S) \in S
PROOF
<1>1. PICK x \in S : \A y \in S : ~(<<y, x>> \in OpToRel(<, Nat))
  BY NatLessThanWellFounded, WFMin
<1>2. \A y \in S : x <= y
  <2> SUFFICES ASSUME NEW y \in S, ~(x <= y)
               PROVE  FALSE
    OBVIOUS
  <2>1. y < x /\ <<y, x>> \in Nat \X Nat
    OBVIOUS
  <2>2. <<y, x>> \in OpToRel(<, Nat)
    BY <2>1 DEF OpToRel
  <2> QED BY <1>1, <2>2
<1> QED BY <1>2 DEF Min

\* The numbers that stand for no connection.
Free == {m \in Nums : holder[m] = NoConn}

\* While some connection has not been accepted, a number is free.
LEMMA NumberIsFree ==
  ASSUME RegistryTypeOK, HolderInv, NEW c \in Conns, reg[c] = "none"
  PROVE  Min(Free) \in Free
PROOF
<1> DEFINE Taken == Nums \ Free
<1> DEFINE f == [m \in Taken |-> holder[m]]
<1>1. IsFiniteSet(Conns) /\ Cardinality(Conns) \in Nat
  BY RegistryAssumption, FS_CardinalityType
<1>2. /\ IsFiniteSet(Conns \ {c})
      /\ Cardinality(Conns \ {c}) = Cardinality(Conns) - 1
  BY <1>1, FS_RemoveElement
<1>3. f \in Injection(Taken, Conns \ {c})
  <2>1. \A m \in Taken : holder[m] \in Conns \ {c} /\ fd[holder[m]] = m
    BY DEF HolderInv, RegistryTypeOK, Free
  <2>2. f \in [Taken -> Conns \ {c}]
    BY <2>1
  <2>3. \A m, k \in Taken : f[m] = f[k] => m = k
    <3>1. \A m \in Taken : f[m] = holder[m]
      OBVIOUS
    <3> HIDE DEF f
    <3> QED BY <2>1, <3>1
  <2> QED BY <2>2, <2>3 DEF Injection, IsInjective
<1>4. IsFiniteSet(Taken) /\ Cardinality(Taken) <= Cardinality(Conns) - 1
  BY <1>2, <1>3, FS_Injection
<1>5. IsFiniteSet(Nums) /\ Cardinality(Nums) = Cardinality(Conns)
  BY <1>1, FS_Interval DEF Nums
<1>6. Free # {}
  <2> SUFFICES ASSUME Free = {}
               PROVE  FALSE
    OBVIOUS
  <2>1. Taken = Nums
    OBVIOUS
  <2> QED BY <1>1, <1>4, <1>5, <2>1
<1>7. Free \in SUBSET Nat
  BY DEF Nums, Free
<1> QED BY <1>6, <1>7, MinIsElement

\* What a call of accept comes to: an index past the last loop, or a connection
\* with a free number and a loop of the engine.
Accepted(c, n, l) ==
  /\ n \in Nums /\ l \in Loops /\ holder[n] = NoConn
  /\ nextIndex' \in 0..NumOfLoops
  /\ fd' = [fd EXCEPT ![c] = n]
  /\ holder' = [holder EXCEPT ![n] = c]
  /\ loop' = [loop EXCEPT ![c] = l]
  /\ reg' = [reg EXCEPT ![c] = "queued"]
  /\ reused' \in {reused, reused \cup {c}}
  /\ (\E d \in Conns, w \in Closers :
        loop[d] = l /\ fd[d] = n /\ cls[<<d, w>>] \in {"unlist", "unlisting"}) => c \in reused'
  /\ UNCHANGED crashed

Refused ==
  crashed' = "index out of range" /\ UNCHANGED <<nextIndex, fd, holder, loop, reg, reused>>

\* Accept has one of these two outcomes and leaves the rest of the state alone.
LEMMA AcceptOutcome ==
  ASSUME RegistryTypeOK, HolderInv, NEW c \in Conns, Accept(c)
  PROVE  /\ reg[c] = "none" /\ Registering = {}
         /\ UNCHANGED <<balancer, opened, watch, cls, batch, hand, ConnList, ConnCount, added,
                        raced, clash, stolen>>
         /\ Refused \/ \E n, l : Accepted(c, n, l)
PROOF
<1>1. /\ reg[c] = "none" /\ Registering = {}
      /\ UNCHANGED <<balancer, opened, watch, cls, batch, hand, ConnList, ConnCount, added,
                     raced, clash, stolen>>
  BY DEF Accept, turnVars, counter
<1>2. CASE NextLoop \notin Loops
  BY <1>1, <1>2 DEF Accept, Refused
<1>3. CASE NextLoop \in Loops
  <2>1. PICK n : n = Min(Free)
    OBVIOUS
  <2>2. PICK l : l = NextLoop
    OBVIOUS
  <2>3. n \in Nums /\ holder[n] = NoConn
    BY <1>1, <2>1, NumberIsFree DEF Free
  <2>4. /\ AdvanceIndex
        /\ fd' = [fd EXCEPT ![c] = n]
        /\ holder' = [holder EXCEPT ![n] = c]
        /\ loop' = [loop EXCEPT ![c] = l]
        /\ reg' = [reg EXCEPT ![c] = "queued"]
        /\ reused' = IF \E x \in Conns \X Closers :
                          /\ loop[x[1]] = l /\ fd[x[1]] = n
                          /\ cls[x] \in {"unlist", "unlisting"}
                     THEN reused \cup {c} ELSE reused
        /\ UNCHANGED crashed
    BY <1>3, <2>1, <2>2, Zenon DEF Accept, Free
  <2>5. nextIndex' \in 0..NumOfLoops
    <3>1. NumOfLoops \in Nat /\ nextIndex \in 0..NumOfLoops
      BY RegistryAssumption DEF RegistryTypeOK
    <3> QED BY <2>4, <3>1 DEF AdvanceIndex
  <2>6. ASSUME NEW d \in Conns, NEW w \in Closers, loop[d] = l, fd[d] = n,
               cls[<<d, w>>] \in {"unlist", "unlisting"}
        PROVE  c \in reused'
    <3>1. <<d, w>> \in Conns \X Closers /\ <<d, w>>[1] = d
      OBVIOUS
    <3>2. \E x \in Conns \X Closers : /\ loop[x[1]] = l /\ fd[x[1]] = n
                                      /\ cls[x] \in {"unlist", "unlisting"}
      BY <2>6, <3>1
    <3> QED BY <2>4, <3>2
  <2>7. Accepted(c, n, l)
    BY <1>3, <2>2, <2>3, <2>4, <2>5, <2>6 DEF Accepted
  <2> QED BY <1>1, <2>7
<1> QED BY <1>2, <1>3

-----------------------------------------------------------------------------
(* Type correctness *)

\* Where a goroutine inside Close goes, and that the others stay where they are.
ClsMoves(c, w, p, q) ==
  /\ cls[<<c, w>>] = p
  /\ \A d \in Conns, v \in Closers :
       cls'[<<d, v>>] = IF d = c /\ v = w THEN q ELSE cls[<<d, v>>]

\* ClsGoto moves one goroutine.
LEMMA ClsIs ==
  ASSUME RegistryTypeOK, NEW c \in Conns, NEW w \in Closers, NEW p, NEW q \in ClsPC,
         ClsGoto(c, w, p, q)
  PROVE  ClsMoves(c, w, p, q) /\ cls' \in [Conns \X Closers -> ClsPC]
PROOF
<1>1. cls \in [Conns \X Closers -> ClsPC] /\ <<c, w>> \in Conns \X Closers
  BY DEF RegistryTypeOK
<1>2. cls[<<c, w>>] = p /\ cls' = [cls EXCEPT ![<<c, w>>] = q]
  BY DEF ClsGoto
<1>3. cls' \in [Conns \X Closers -> ClsPC]
  BY <1>1, <1>2
<1>4. ASSUME NEW d \in Conns, NEW v \in Closers
      PROVE  cls'[<<d, v>>] = IF d = c /\ v = w THEN q ELSE cls[<<d, v>>]
  <2>1. <<d, v>> \in Conns \X Closers /\ (<<d, v>> = <<c, w>> <=> d = c /\ v = w)
    OBVIOUS
  <2> QED BY <1>1, <1>2, <2>1
<1> QED BY <1>2, <1>3, <1>4 DEF ClsMoves

\* A map write keeps the type of the map and of what is noted about it.
LEMMA MapTypes ==
  ASSUME RegistryTypeOK, NEW l \in Loops, NEW n \in Nums, NEW e \in Conns \cup {NoConn}
  PROVE  /\ MapBegin(l) => /\ clash' \subseteq Loops
                           /\ crashed' \in {"no", "concurrent map writes"}
         /\ MapEnd(l, n, e) => ConnList' \in [Loops -> [Nums -> Conns \cup {NoConn}]]
PROOF
<1>1. ConnList \in [Loops -> [Nums -> Conns \cup {NoConn}]] /\ clash \subseteq Loops
  BY DEF RegistryTypeOK
<1>2. ASSUME MapBegin(l)
      PROVE  clash' \subseteq Loops /\ crashed' \in {"no", "concurrent map writes"}
  BY <1>1, <1>2 DEF MapBegin
<1>3. ASSUME MapEnd(l, n, e)
      PROVE  ConnList' \in [Loops -> [Nums -> Conns \cup {NoConn}]]
  BY <1>1, <1>3 DEF MapEnd
<1> QED BY <1>2, <1>3

\* An update of the counter keeps the types of the counter and its history.
LEMMA CountTypes ==
  ASSUME RegistryTypeOK, NEW c \in Conns, loop[c] \in Loops, NEW who \in Closers,
         NEW i \in Int, CountAdd(c, who, i) \/ CountStore(c, who)
  PROVE  /\ ConnCount' \in [Loops -> Int] /\ raced' \subseteq Loops
         /\ added' \in [Conns \X Closers -> Int]
PROOF
<1>1. PICK l \in Loops : l = loop[c]
  OBVIOUS
<1>2. /\ ConnCount \in [Loops -> Int] /\ raced \subseteq Loops
      /\ added \in [Conns \X Closers -> Int]
  BY DEF RegistryTypeOK
<1>3. ConnCount[l] \in Int /\ <<c, who>> \in Conns \X Closers
  BY <1>2
<1>4. added[<<c, who>>] \in Int
  BY <1>2, <1>3
<1>5. CASE CountAdd(c, who, i)
  <2>1. /\ ConnCount' = [ConnCount EXCEPT ![l] = ConnCount[l] + i]
        /\ added' = [added EXCEPT ![<<c, who>>] = ConnCount[l] + i]
        /\ raced' = raced \cup {l} \/ raced' = raced
    BY <1>1, <1>5 DEF CountAdd
  <2> QED BY <1>2, <1>3, <2>1
<1>6. CASE CountStore(c, who)
  <2>1. /\ ConnCount' = [ConnCount EXCEPT ![l] = added[<<c, who>>]]
        /\ added' = [added EXCEPT ![<<c, who>>] = 0] /\ raced' = raced
    BY <1>1, <1>6 DEF CountStore
  <2> QED BY <1>2, <1>3, <1>4, <2>1
<1> QED BY <1>5, <1>6

\* close(2) of a number: it stands for nobody, and its holder is stolen if the
\* caller is another connection.
LEMMA NumberTypes ==
  ASSUME RegistryTypeOK, NEW c \in Conns, fd[c] \in Nums, CloseNumber(c)
  PROVE  /\ holder' \in [Nums -> Conns \cup {NoConn}] /\ watch' \in [Nums -> SUBSET Loops]
         /\ stolen' \subseteq Conns /\ stolen \subseteq stolen'
         /\ \A m \in Nums : holder'[m] = IF m = fd[c] THEN NoConn ELSE holder[m]
         /\ \A m \in Nums : watch'[m] = IF m = fd[c] THEN {} ELSE watch[m]
         /\ holder[fd[c]] \notin {c, NoConn} => holder[fd[c]] \in stolen'
PROOF
<1>1. PICK n \in Nums : n = fd[c]
  OBVIOUS
<1>2. /\ holder \in [Nums -> Conns \cup {NoConn}] /\ watch \in [Nums -> SUBSET Loops]
      /\ stolen \subseteq Conns
  BY DEF RegistryTypeOK
<1>3. /\ holder' = [holder EXCEPT ![n] = NoConn] /\ watch' = [watch EXCEPT ![n] = {}]
      /\ stolen' = stolen \cup ({holder[n]} \ {c, NoConn})
  BY <1>1 DEF CloseNumber
<1>4. holder' \in [Nums -> Conns \cup {NoConn}] /\ watch' \in [Nums -> SUBSET Loops]
  BY <1>2, <1>3
<1>5. stolen' \subseteq Conns /\ stolen \subseteq stolen'
  BY <1>2, <1>3
<1>6. /\ \A m \in Nums : holder'[m] = IF m = n THEN NoConn ELSE holder[m]
      /\ \A m \in Nums : watch'[m] = IF m = n THEN {} ELSE watch[m]
  BY <1>2, <1>3
<1>7. holder[n] \notin {c, NoConn} => holder[n] \in stolen'
  BY <1>3
<1> QED BY <1>1, <1>4, <1>5, <1>6, <1>7

\* Every step keeps the types.
LEMMA TypeStep ==
  ASSUME RegistryTypeOK, LifeInv, HolderInv, WatchInv, Next
  PROVE  RegistryTypeOK'
PROOF
<1> USE DEF kernel, turnVars, counter
<1>0. /\ \A c \in Conns : reg[c] # "none" => loop[c] \in Loops /\ fd[c] \in Nums
      /\ \A c \in Conns, w \in Closers : cls[<<c, w>>] # "none" => reg[c] # "none"
      /\ "opener" \in Closers
  BY DEF LifeInv, Opened, Closers
<1>1. ASSUME MainTurn
      PROVE  RegistryTypeOK'
  BY <1>1 DEF MainTurn, RegistryTypeOK, RegPC
<1>2. ASSUME NEW c \in Conns, Accept(c)
      PROVE  RegistryTypeOK'
  <2>1. CASE Refused
    BY <1>2, <2>1, AcceptOutcome DEF Refused, RegistryTypeOK
  <2>2. ASSUME NEW n, NEW l, Accepted(c, n, l)
        PROVE  RegistryTypeOK'
    BY <1>2, <2>2, AcceptOutcome DEF Accepted, RegistryTypeOK, RegPC
  <2> QED BY <1>2, <2>1, <2>2, AcceptOutcome
<1>3. ASSUME NEW c \in Conns, RegFails(c)
      PROVE  RegistryTypeOK'
  <2>1. fd[c] \in Nums /\ CloseNumber(c)
    BY <1>0, <1>3 DEF RegFails, RegGoto
  <2>2. /\ holder' \in [Nums -> Conns \cup {NoConn}] /\ watch' \in [Nums -> SUBSET Loops]
        /\ stolen' \subseteq Conns
    BY <2>1, NumberTypes
  <2> QED BY <1>3, <2>2 DEF RegFails, RegGoto, RegistryTypeOK, RegPC
<1>4. ASSUME NEW c \in Conns, RegList(c)
      PROVE  RegistryTypeOK'
  <2>1. PICK l \in Loops, n \in Nums : l = loop[c] /\ n = fd[c]
    BY <1>0, <1>4 DEF RegList, RegGoto
  <2>2. clash' \subseteq Loops /\ crashed' \in {"no", "concurrent map writes"}
    BY <1>4, <2>1, MapTypes DEF RegList
  <2>3. watch' = [watch EXCEPT ![n] = watch[n] \cup {l}]
    BY <1>4, <2>1 DEF RegList
  <2>4. watch' \in [Nums -> SUBSET Loops]
    BY <2>3 DEF RegistryTypeOK
  <2> QED BY <1>4, <2>2, <2>4 DEF RegList, RegGoto, RegistryTypeOK, RegPC
<1>5. ASSUME NEW c \in Conns, RegOpen(c)
      PROVE  RegistryTypeOK'
  <2>1. loop[c] \in Loops /\ fd[c] \in Nums
    BY <1>0, <1>5 DEF RegOpen, RegGoto
  <2>2. ConnList' \in [Loops -> [Nums -> Conns \cup {NoConn}]]
    BY <1>5, <2>1, MapTypes DEF RegOpen
  <2> QED BY <1>5, <2>2 DEF RegOpen, RegGoto, RegistryTypeOK, RegPC
<1>6. ASSUME NEW c \in Conns, RegCount(c) \/ RegStore(c)
      PROVE  RegistryTypeOK'
  <2>1. loop[c] \in Loops
    BY <1>0, <1>6 DEF RegCount, RegStore, RegGoto
  <2>2. PICK i \in Int : i = 1
    OBVIOUS
  <2>3. CountAdd(c, "opener", i) \/ CountStore(c, "opener")
    BY <1>6, <2>2, Zenon DEF RegCount, RegStore
  <2>4. /\ ConnCount' \in [Loops -> Int] /\ raced' \subseteq Loops
        /\ added' \in [Conns \X Closers -> Int]
    BY <1>0, <2>1, <2>3, CountTypes, Zenon
  <2> QED BY <1>6, <2>4 DEF RegCount, RegStore, RegGoto, RegistryTypeOK, RegPC
<1>7. ASSUME NEW c \in Conns, RegError(c)
      PROVE  RegistryTypeOK'
  BY <1>7 DEF RegError, RegGoto, RegistryTypeOK, RegPC
<1>8. ASSUME NEW l \in Loops, Fetch(l)
      PROVE  RegistryTypeOK'
  <2>1. PICK ready \in SUBSET {n \in Nums : l \in watch[n]} :
          batch' = [batch EXCEPT ![l] = {<<n, holder[n]>> : n \in ready}]
    BY <1>8 DEF Fetch
  <2>2. \A n \in ready : n \in Nums /\ holder[n] \in Conns
    <3>1. holder \in [Nums -> Conns \cup {NoConn}]
      BY DEF RegistryTypeOK
    <3>2. \A n \in ready : n \in Nums /\ l \in watch[n]
      BY <2>1
    <3>3. \A n \in Nums : holder[n] = NoConn => watch[n] = {}
      BY DEF WatchInv
    <3> QED BY <3>1, <3>2, <3>3
  <2>3. {<<n, holder[n]>> : n \in ready} \in SUBSET (Nums \X Conns)
    BY <2>2
  <2>4. batch' \in [Loops -> SUBSET (Nums \X Conns)]
    BY <2>1, <2>3 DEF RegistryTypeOK
  <2> QED BY <1>8, <2>4 DEF Fetch, RegistryTypeOK
<1>9. ASSUME NEW l \in Loops, NEW e \in batch[l], Dispatch(l, e)
      PROVE  RegistryTypeOK'
  <2>1. e \in Nums \X Conns
    <3>1. batch \in [Loops -> SUBSET (Nums \X Conns)]
      BY DEF RegistryTypeOK
    <3> QED BY <3>1
  <2>2. PICK d \in Conns \cup {NoConn} : d = ConnList[l][e[1]]
    <3>1. ConnList \in [Loops -> [Nums -> Conns \cup {NoConn}]]
      BY DEF RegistryTypeOK
    <3>2. PICK n \in Nums : n = e[1]
      BY <2>1
    <3> QED BY <3>1, <3>2
  <2>3. hand' = [hand EXCEPT ![l] = d] \/ hand' = hand
    BY <1>9, <2>2 DEF Dispatch
  <2>4. hand' \in [Loops -> Conns \cup {NoConn}]
    BY <2>3 DEF RegistryTypeOK
  <2>5. PICK b \in SUBSET (Nums \X Conns) : b = batch[l] \ {e}
    BY DEF RegistryTypeOK
  <2>6. batch' = [batch EXCEPT ![l] = b]
    BY <1>9, <2>5 DEF Dispatch
  <2>7. batch' \in [Loops -> SUBSET (Nums \X Conns)]
    BY <2>6 DEF RegistryTypeOK
  <2>8. crashed' \in {"no", "concurrent map writes"}
    BY <1>9 DEF Dispatch
  <2> QED BY <1>9, <2>4, <2>7, <2>8 DEF Dispatch, RegistryTypeOK
<1>10. ASSUME NEW l \in Loops, Joined(l)
       PROVE  RegistryTypeOK'
  BY <1>10 DEF Joined, RegistryTypeOK
<1>11. ASSUME NEW c \in Conns, NEW w \in Closers, CloseTest(c, w)
       PROVE  RegistryTypeOK'
  <2>1. cls' \in [Conns \X Closers -> ClsPC]
    BY <1>11, ClsIs DEF CloseTest, ClsPC
  <2> QED BY <1>11, <2>1 DEF CloseTest, RegistryTypeOK
<1>12. ASSUME NEW c \in Conns, NEW w \in Closers, CloseFd(c, w)
       PROVE  RegistryTypeOK'
  <2>1. cls' \in [Conns \X Closers -> ClsPC] /\ cls[<<c, w>>] = "passed"
    BY <1>12, ClsIs DEF CloseFd, ClsPC, ClsGoto
  <2>2. fd[c] \in Nums /\ CloseNumber(c)
    BY <1>0, <1>12, <2>1 DEF CloseFd
  <2>3. /\ holder' \in [Nums -> Conns \cup {NoConn}] /\ watch' \in [Nums -> SUBSET Loops]
        /\ stolen' \subseteq Conns
    BY <2>2, NumberTypes
  <2> QED BY <1>12, <2>1, <2>3 DEF CloseFd, RegistryTypeOK
<1>13. ASSUME NEW c \in Conns, NEW w \in Closers, RemoveConn(c, w)
       PROVE  RegistryTypeOK'
  <2>1. cls' \in [Conns \X Closers -> ClsPC] /\ cls[<<c, w>>] = "unlist"
    BY <1>13, ClsIs DEF RemoveConn, ClsPC, ClsGoto
  <2>2. loop[c] \in Loops /\ fd[c] \in Nums
    BY <1>0, <2>1
  <2>3. clash' \subseteq Loops /\ crashed' \in {"no", "concurrent map writes"}
    BY <1>13, <2>2, MapTypes DEF RemoveConn
  <2> QED BY <1>13, <2>1, <2>3 DEF RemoveConn, RegistryTypeOK
<1>14. ASSUME NEW c \in Conns, NEW w \in Closers, RemoveDelete(c, w)
       PROVE  RegistryTypeOK'
  <2>1. cls' \in [Conns \X Closers -> ClsPC] /\ cls[<<c, w>>] = "unlisting"
    BY <1>14, ClsIs DEF RemoveDelete, ClsPC, ClsGoto
  <2>2. loop[c] \in Loops /\ fd[c] \in Nums
    BY <1>0, <2>1
  <2>3. ConnList' \in [Loops -> [Nums -> Conns \cup {NoConn}]]
    BY <1>14, <2>2, MapTypes DEF RemoveDelete
  <2> QED BY <1>14, <2>1, <2>3 DEF RemoveDelete, RegistryTypeOK
<1>15. ASSUME NEW c \in Conns, NEW w \in Closers, RemoveCount(c, w) \/ RemoveStore(c, w)
       PROVE  RegistryTypeOK'
  <2>1. cls' \in [Conns \X Closers -> ClsPC] /\ cls[<<c, w>>] \in {"uncount", "store"}
    BY <1>15, ClsIs DEF RemoveCount, RemoveStore, ClsPC, ClsGoto
  <2>2. loop[c] \in Loops
    BY <1>0, <2>1
  <2>3. PICK i \in Int : i = -1
    OBVIOUS
  <2>4. CountAdd(c, w, i) \/ CountStore(c, w)
    BY <1>15, <2>3, Zenon DEF RemoveCount, RemoveStore
  <2>5. /\ ConnCount' \in [Loops -> Int] /\ raced' \subseteq Loops
        /\ added' \in [Conns \X Closers -> Int]
    BY <2>2, <2>4, CountTypes, Zenon
  <2> QED BY <1>15, <2>1, <2>5 DEF RemoveCount, RemoveStore, RegistryTypeOK
<1> QED BY <1>1, <1>2, <1>3, <1>4, <1>5, <1>6, <1>7, <1>8, <1>9, <1>10, <1>11, <1>12,
           <1>13, <1>14, <1>15 DEF Next, RegisterConn, Turn, Close

-----------------------------------------------------------------------------
(* Registering, closing, and who has which number *)

\* The actions, one by one: what a proof about every step has to go through.
Stage(c) == RegCount(c) \/ RegError(c) \/ RegStore(c)
Removal(c, w) == RemoveConn(c, w) \/ RemoveDelete(c, w) \/ RemoveCount(c, w) \/ RemoveStore(c, w)

\* What the end of Open or of RegisterConn changes of a connection's progress.
LEMMA StageIs ==
  ASSUME RegistryTypeOK, NEW c \in Conns, Stage(c)
  PROVE  /\ reg[c] \in {"open", "store"}
         /\ \E q \in {"uncounted", "store", "done"} : reg' = [reg EXCEPT ![c] = q]
         /\ reg[c] = "open" => cls[<<c, "opener">>] \in {"none", "done"}
         /\ UNCHANGED <<fd, loop, opened, holder, watch, cls, batch, hand, ConnList, clash,
                        reused, stolen>>
PROOF
  BY DEF Stage, RegCount, RegError, RegStore, RegGoto, kernel, turnVars

\* What the rest of a Close, behind CloseFd, changes besides lists and counters.
LEMMA RemovalIs ==
  ASSUME RegistryTypeOK, NEW c \in Conns, NEW w \in Closers, Removal(c, w)
  PROVE  /\ \E p \in {"unlist", "unlisting", "uncount", "store"},
              q \in {"unlisting", "uncount", "store", "done"} :
              /\ ClsMoves(c, w, p, q)
              /\ q = "unlisting" => p = "unlist"
         /\ UNCHANGED <<fd, loop, holder, watch, reg, batch, hand, reused, stolen>>
         /\ opened' \subseteq opened /\ clash \subseteq clash'
PROOF
<1>1. CASE RemoveConn(c, w)
  <2>1. ClsMoves(c, w, "unlist", "unlisting")
    BY <1>1, ClsIs DEF RemoveConn, ClsPC
  <2> QED BY <1>1, <2>1 DEF RemoveConn, kernel, turnVars, MapBegin
<1>2. CASE RemoveDelete(c, w)
  <2>1. ClsMoves(c, w, "unlisting", "uncount")
    BY <1>2, ClsIs DEF RemoveDelete, ClsPC
  <2> QED BY <1>2, <2>1 DEF RemoveDelete, kernel, turnVars
<1>3. CASE RemoveCount(c, w)
  <2>1. ClsMoves(c, w, "uncount", "store")
    BY <1>3, ClsIs DEF RemoveCount, ClsPC
  <2> QED BY <1>3, <2>1 DEF RemoveCount, kernel, turnVars
<1>4. CASE RemoveStore(c, w)
  <2>1. ClsMoves(c, w, "store", "done")
    BY <1>4, ClsIs DEF RemoveStore, ClsPC
  <2> QED BY <1>4, <2>1 DEF RemoveStore, kernel, turnVars
<1> QED BY <1>1, <1>2, <1>3, <1>4 DEF Removal

\* What a turn of a sub loop leaves alone.
LEMMA TurnIs ==
  ASSUME NEW l, Turn(l)
  PROVE  UNCHANGED <<fd, loop, opened, holder, watch, reg, cls, ConnList, ConnCount, added,
                     raced, clash, reused, stolen>>
PROOF
  BY DEF Turn, Fetch, Dispatch, Joined, kernel, turnVars, counter

\* The beginning of a Close: the test of Opened, and CloseFd.
LEMMA TestIs ==
  ASSUME RegistryTypeOK, NEW c \in Conns, NEW w \in Closers, CloseTest(c, w)
  PROVE  /\ ClsMoves(c, w, "none", "passed") /\ c \in opened /\ MayClose(c, w)
         /\ UNCHANGED <<fd, loop, opened, holder, watch, reg, batch, hand, ConnList, ConnCount,
                        added, raced, clash, reused, stolen>>
PROOF
<1>1. ClsMoves(c, w, "none", "passed")
  BY ClsIs DEF CloseTest, ClsPC
<1> QED BY <1>1 DEF CloseTest, kernel, turnVars, counter

\* What CloseFd changes: the number is closed, whoever holds it.
LEMMA FdIs ==
  ASSUME RegistryTypeOK, NEW c \in Conns, NEW w \in Closers, CloseFd(c, w)
  PROVE  /\ ClsMoves(c, w, "passed", "unlist") /\ CloseNumber(c)
         /\ UNCHANGED <<fd, loop, opened, reg, batch, hand, ConnList, ConnCount,
                        added, raced, clash, reused>>
PROOF
<1>1. ClsMoves(c, w, "passed", "unlist")
  BY ClsIs DEF CloseFd, ClsPC
<1> QED BY <1>1 DEF CloseFd, turnVars, counter

\* Every step is one of these.
LEMMA StepIs ==
  ASSUME Next
  PROVE  \/ MainTurn
         \/ \E c \in Conns : Accept(c) \/ RegFails(c) \/ RegList(c) \/ RegOpen(c) \/ Stage(c)
         \/ \E l \in Loops : Turn(l)
         \/ \E c \in Conns, w \in Closers : CloseTest(c, w) \/ CloseFd(c, w) \/ Removal(c, w)
PROOF
  BY DEF Next, RegisterConn, Close, Stage, Removal

\* Every step keeps what is known of a connection's progress.
LEMMA LifeStep ==
  ASSUME RegistryTypeOK, LifeInv, HolderInv, Next
  PROVE  LifeInv'
PROOF
<1> USE DEF kernel, turnVars, counter
<1>0. /\ reg \in [Conns -> RegPC] /\ fd \in [Conns -> Nums \cup {0}]
      /\ loop \in [Conns -> Loops \cup {0}] /\ "opener" \in Closers
  BY DEF RegistryTypeOK, Closers
<1>1. CASE MainTurn
  BY <1>0, <1>1 DEF MainTurn, LifeInv, Opened
<1>2. ASSUME NEW c \in Conns, Accept(c)
      PROVE  LifeInv'
  <2>1. CASE Refused
    BY <1>2, <2>1, AcceptOutcome DEF Refused, LifeInv
  <2>2. ASSUME NEW n, NEW l, Accepted(c, n, l)
        PROVE  LifeInv'
    BY <1>0, <1>2, <2>2, AcceptOutcome DEF Accepted, LifeInv, Opened
  <2> QED BY <1>2, <2>1, <2>2, AcceptOutcome
<1>3. ASSUME NEW c \in Conns, RegFails(c) \/ RegList(c) \/ RegOpen(c)
      PROVE  LifeInv'
  BY <1>0, <1>3 DEF RegFails, RegList, RegOpen, RegGoto, LifeInv, Opened
<1>4. ASSUME NEW c \in Conns, Stage(c)
      PROVE  LifeInv'
  BY <1>0, <1>4, StageIs DEF LifeInv, Opened
<1>5. ASSUME NEW l \in Loops, Turn(l)
      PROVE  LifeInv'
  BY <1>5, TurnIs DEF LifeInv
<1>6. ASSUME NEW c \in Conns, NEW w \in Closers, CloseTest(c, w)
      PROVE  LifeInv'
  <2>1. reg[c] \in Opened /\ (w = "opener" => reg[c] = "open")
    BY <1>6, TestIs, RegistryAssumption DEF MayClose, LifeInv
  <2> QED BY <1>0, <1>6, <2>1, TestIs DEF ClsMoves, LifeInv
<1>7. ASSUME NEW c \in Conns, NEW w \in Closers, CloseFd(c, w)
      PROVE  LifeInv'
  <2>1. ClsMoves(c, w, "passed", "unlist") /\ UNCHANGED <<fd, loop, opened, reg>>
    BY <1>7, FdIs
  <2> QED BY <1>0, <2>1 DEF ClsMoves, LifeInv
<1>8. ASSUME NEW c \in Conns, NEW w \in Closers, Removal(c, w)
      PROVE  LifeInv'
  <2>1. PICK p \in {"unlist", "unlisting", "uncount", "store"},
             q \in {"unlisting", "uncount", "store", "done"} : ClsMoves(c, w, p, q)
    BY <1>8, RemovalIs
  <2>2. UNCHANGED <<fd, loop, reg>> /\ opened' \subseteq opened
    BY <1>8, RemovalIs
  <2> QED BY <1>0, <2>1, <2>2 DEF ClsMoves, LifeInv
<1> QED BY <1>1, <1>2, <1>3, <1>4, <1>5, <1>6, <1>7, <1>8, StepIs

\* Every step keeps the numbers with their holders: accept hands out a free one,
\* and close(2) frees one and marks the holder it is stolen from.
LEMMA HolderStep ==
  ASSUME RegistryTypeOK, LifeInv, HolderInv, Next
  PROVE  HolderInv'
PROOF
<1> USE DEF kernel, turnVars, counter
<1>0. /\ reg \in [Conns -> RegPC] /\ fd \in [Conns -> Nums \cup {0}]
      /\ loop \in [Conns -> Loops \cup {0}] /\ holder \in [Nums -> Conns \cup {NoConn}]
      /\ "opener" \in Closers /\ NoConn \notin Conns
  BY RegistryAssumption DEF RegistryTypeOK, Closers
<1>1. CASE MainTurn
  BY <1>0, <1>1 DEF MainTurn, HolderInv
<1>2. ASSUME NEW c \in Conns, Accept(c)
      PROVE  HolderInv'
  <2>1. CASE Refused
    BY <1>2, <2>1, AcceptOutcome DEF Refused, HolderInv
  <2>2. ASSUME NEW n, NEW l, Accepted(c, n, l)
        PROVE  HolderInv'
    <3>1. /\ reg[c] = "none" /\ UNCHANGED <<cls, stolen>> /\ n \in Nums /\ holder[n] = NoConn
          /\ fd' = [fd EXCEPT ![c] = n] /\ holder' = [holder EXCEPT ![n] = c]
          /\ reg' = [reg EXCEPT ![c] = "queued"]
      BY <1>2, <2>2, AcceptOutcome DEF Accepted
    <3>2. \A w \in Closers : cls[<<c, w>>] = "none"
      BY <3>1 DEF LifeInv, Opened
    <3>3. \A m \in Nums : holder[m] # c
      BY <1>0, <3>1 DEF HolderInv
    <3>4. ASSUME NEW m \in Nums, holder'[m] # NoConn
          PROVE  /\ fd'[holder'[m]] = m /\ reg'[holder'[m]] \notin {"none", "failed"}
                 /\ \A w \in Closers : cls'[<<holder'[m], w>>] \in {"none", "passed"}
      <4>1. CASE m = n
        BY <1>0, <3>1, <3>2, <4>1
      <4>2. CASE m # n
        <5>1. PICK d \in Conns : d = holder[m] /\ d # c
          BY <1>0, <3>1, <3>3, <3>4, <4>2
        <5>2. holder'[m] = d /\ fd'[d] = fd[d] /\ reg'[d] = reg[d]
          BY <1>0, <3>1, <4>2, <5>1
        <5>3. /\ fd[d] = m /\ reg[d] \notin {"none", "failed"}
              /\ \A w \in Closers : cls[<<d, w>>] \in {"none", "passed"}
          BY <1>0, <5>1 DEF HolderInv
        <5> QED BY <3>1, <5>2, <5>3
      <4> QED BY <4>1, <4>2
    <3>5. ASSUME NEW d \in Conns, reg'[d] \notin {"none", "failed"}, d \notin stolen,
                 \A w \in Closers : cls[<<d, w>>] \in {"none", "passed"}
          PROVE  holder'[fd'[d]] = d
      <4>1. CASE d = c
        BY <1>0, <3>1, <4>1
      <4>2. CASE d # c
        <5>1. reg[d] \notin {"none", "failed"} /\ fd'[d] = fd[d] /\ fd[d] \in Nums
          BY <1>0, <3>1, <3>5, <4>2 DEF LifeInv
        <5>2. holder[fd[d]] = d
          BY <3>5, <5>1 DEF HolderInv
        <5> QED BY <1>0, <3>1, <5>1, <5>2
      <4> QED BY <4>1, <4>2
    <3> QED BY <3>1, <3>4, <3>5 DEF HolderInv
  <2> QED BY <1>2, <2>1, <2>2, AcceptOutcome
<1>3. ASSUME NEW c \in Conns, RegList(c) \/ RegOpen(c)
      PROVE  HolderInv'
  BY <1>0, <1>3 DEF RegList, RegOpen, RegGoto, HolderInv
<1>4. ASSUME NEW c \in Conns, Stage(c)
      PROVE  HolderInv'
  <2>1. UNCHANGED <<fd, holder, cls, stolen>> /\ reg[c] \in {"open", "store"}
    BY <1>4, StageIs
  <2>2. PICK q \in {"uncounted", "store", "done"} : reg' = [reg EXCEPT ![c] = q]
    BY <1>4, StageIs
  <2>3. \A d \in Conns : reg'[d] \in {"none", "failed"} <=> reg[d] \in {"none", "failed"}
    BY <1>0, <2>1, <2>2
  <2> QED BY <1>0, <2>1, <2>3 DEF HolderInv
<1>5. ASSUME NEW l \in Loops, Turn(l)
      PROVE  HolderInv'
  BY <1>5, TurnIs DEF HolderInv
<1>6. ASSUME NEW c \in Conns, NEW w \in Closers, CloseTest(c, w)
      PROVE  HolderInv'
  <2>1. ClsMoves(c, w, "none", "passed") /\ UNCHANGED <<fd, holder, reg, stolen>>
    BY <1>6, TestIs
  <2>2. \A d \in Conns, v \in Closers :
          cls'[<<d, v>>] \in {"none", "passed"} <=> cls[<<d, v>>] \in {"none", "passed"}
    BY <2>1 DEF ClsMoves
  <2> QED BY <1>0, <2>1, <2>2 DEF HolderInv
<1>7. ASSUME NEW c \in Conns, fd[c] \in Nums, CloseNumber(c),
             \/ RegFails(c)
             \/ \E w \in Closers : CloseFd(c, w)
      PROVE  HolderInv'
  <2>1. /\ \A m \in Nums : holder'[m] = IF m = fd[c] THEN NoConn ELSE holder[m]
        /\ stolen \subseteq stolen'
        /\ holder[fd[c]] \notin {c, NoConn} => holder[fd[c]] \in stolen'
    BY <1>7, NumberTypes
  <2>2. /\ fd' = fd
        /\ \A d \in Conns : d # c => /\ reg'[d] = reg[d]
                                     /\ \A v \in Closers : cls'[<<d, v>>] = cls[<<d, v>>]
        /\ \/ reg'[c] = "failed"
           \/ \E w \in Closers : cls'[<<c, w>>] = "unlist"
    <3>1. CASE RegFails(c)
      BY <1>0, <3>1 DEF RegFails, RegGoto
    <3>2. ASSUME NEW w \in Closers, CloseFd(c, w)
          PROVE  /\ fd' = fd /\ reg' = reg /\ cls'[<<c, w>>] = "unlist"
                 /\ \A d \in Conns : d # c =>
                      \A v \in Closers : cls'[<<d, v>>] = cls[<<d, v>>]
      <4>1. ClsMoves(c, w, "passed", "unlist") /\ UNCHANGED <<fd, reg>>
        BY <3>2, FdIs
      <4> QED BY <4>1 DEF ClsMoves
    <3> QED BY <1>7, <3>1, <3>2
  <2>3. ASSUME NEW m \in Nums, holder'[m] # NoConn
        PROVE  /\ fd'[holder'[m]] = m /\ reg'[holder'[m]] \notin {"none", "failed"}
               /\ \A v \in Closers : cls'[<<holder'[m], v>>] \in {"none", "passed"}
    <3>1. PICK d \in Conns : d = holder[m] /\ holder'[m] = d
      BY <1>0, <2>1, <2>3
    <3>2. /\ fd[d] = m /\ reg[d] \notin {"none", "failed"}
          /\ \A v \in Closers : cls[<<d, v>>] \in {"none", "passed"}
      BY <1>0, <3>1 DEF HolderInv
    <3>3. d # c
      BY <2>1, <2>3, <3>1, <3>2
    <3> QED BY <2>2, <3>1, <3>2, <3>3
  <2>4. ASSUME NEW d \in Conns, reg'[d] \notin {"none", "failed"}, d \notin stolen',
               \A v \in Closers : cls'[<<d, v>>] \in {"none", "passed"}
        PROVE  holder'[fd'[d]] = d
    <3>1. d # c
      BY <2>2, <2>4
    <3>2. reg[d] \notin {"none", "failed"} /\ d \notin stolen /\ fd[d] \in Nums
      BY <2>1, <2>2, <2>4, <3>1 DEF LifeInv
    <3>3. \A v \in Closers : cls[<<d, v>>] \in {"none", "passed"}
      BY <2>2, <2>4, <3>1
    <3>4. holder[fd[d]] = d
      BY <3>2, <3>3 DEF HolderInv
    <3>5. fd[d] # fd[c]
      BY <1>0, <2>1, <2>4, <3>1, <3>4
    <3> QED BY <2>1, <2>2, <3>2, <3>4, <3>5
  <2> QED BY <2>3, <2>4 DEF HolderInv
<1>8. ASSUME NEW c \in Conns, RegFails(c)
      PROVE  HolderInv'
  <2>1. fd[c] \in Nums /\ CloseNumber(c)
    BY <1>8 DEF RegFails, RegGoto, LifeInv
  <2> QED BY <1>7, <1>8, <2>1
<1>9. ASSUME NEW c \in Conns, NEW w \in Closers, CloseFd(c, w)
      PROVE  HolderInv'
  <2>1. cls[<<c, w>>] = "passed" /\ CloseNumber(c)
    BY <1>9, FdIs DEF ClsMoves
  <2>2. fd[c] \in Nums
    BY <2>1 DEF LifeInv, Opened
  <2> QED BY <1>7, <1>9, <2>1, <2>2
<1>10. ASSUME NEW c \in Conns, NEW w \in Closers, Removal(c, w)
       PROVE  HolderInv'
  <2>1. /\ UNCHANGED <<fd, holder, reg, stolen>>
        /\ \E p \in {"unlist", "unlisting", "uncount", "store"},
             q \in {"unlisting", "uncount", "store", "done"} : ClsMoves(c, w, p, q)
    BY <1>10, RemovalIs
  <2> QED BY <1>0, <2>1 DEF ClsMoves, HolderInv
<1> QED BY <1>1, <1>2, <1>3, <1>4, <1>5, <1>6, <1>8, <1>9, <1>10, StepIs

\* HasFd follows the holders, as long as numbers stay with their connections.
LEMMA HasFdIs ==
  ASSUME RegistryTypeOK, HolderInv, NEW c \in Conns
  PROVE  /\ HasFd(c) => fd[c] \in Nums /\ holder[fd[c]] = c /\ reg[c] \notin {"none", "failed"}
         /\ HasFd(c) => \A w \in Closers : cls[<<c, w>>] \in {"none", "passed"}
PROOF
<1> SUFFICES ASSUME HasFd(c)
             PROVE  /\ fd[c] \in Nums /\ holder[fd[c]] = c /\ reg[c] \notin {"none", "failed"}
                    /\ \A w \in Closers : cls[<<c, w>>] \in {"none", "passed"}
  OBVIOUS
<1>1. PICK n \in Nums : n = fd[c] /\ holder[n] = c
  BY DEF HasFd
<1>2. holder[n] # NoConn
  BY <1>1, RegistryAssumption
<1>3. /\ reg[holder[n]] \notin {"none", "failed"}
      /\ \A w \in Closers : cls[<<holder[n], w>>] \in {"none", "passed"}
  BY <1>2 DEF HolderInv
<1> QED BY <1>1, <1>3, Zenon

\* A close of a number takes descriptors away and gives none.
LEMMA CloseTakes ==
  ASSUME RegistryTypeOK, NEW c \in Conns, fd[c] \in Nums, CloseNumber(c), fd' = fd,
         NEW d \in Conns, HasFd(d)'
  PROVE  HasFd(d) /\ fd[d] # fd[c] /\ watch'[fd[d]] = watch[fd[d]]
PROOF
<1>1. /\ \A m \in Nums : holder'[m] = IF m = fd[c] THEN NoConn ELSE holder[m]
      /\ \A m \in Nums : watch'[m] = IF m = fd[c] THEN {} ELSE watch[m]
  BY NumberTypes
<1>2. fd[d] \in Nums /\ holder'[fd[d]] = d /\ d # NoConn
  BY RegistryAssumption DEF HasFd
<1> QED BY <1>1, <1>2 DEF HasFd

\* Every step keeps what is known of the watched numbers.
LEMMA WatchStep ==
  ASSUME RegistryTypeOK, LifeInv, HolderInv, WatchInv, Next
  PROVE  WatchInv'
PROOF
<1> USE DEF kernel, turnVars, counter
<1>0. /\ reg \in [Conns -> RegPC] /\ fd \in [Conns -> Nums \cup {0}]
      /\ loop \in [Conns -> Loops \cup {0}] /\ holder \in [Nums -> Conns \cup {NoConn}]
      /\ watch \in [Nums -> SUBSET Loops] /\ NoConn \notin Conns
  BY RegistryAssumption DEF RegistryTypeOK
<1>1. CASE MainTurn
  <2>1. \A d \in Conns : reg[d] \notin {"listing", "addread"}
    BY <1>1 DEF MainTurn, Registering
  <2>2. /\ UNCHANGED <<fd, loop, holder, watch>>
        /\ \A d \in Conns : reg'[d] = IF reg[d] = "queued" THEN "addread" ELSE reg[d]
    BY <1>0, <1>1 DEF MainTurn
  <2> QED BY <2>1, <2>2 DEF WatchInv, HasFd, Opened
<1>2. ASSUME NEW c \in Conns, Accept(c)
      PROVE  WatchInv'
  <2>1. CASE Refused
    BY <1>2, <2>1, AcceptOutcome DEF Refused, WatchInv, HasFd
  <2>2. ASSUME NEW n, NEW l, Accepted(c, n, l)
        PROVE  WatchInv'
    <3>1. /\ reg[c] = "none" /\ Registering = {} /\ UNCHANGED watch
          /\ n \in Nums /\ holder[n] = NoConn
          /\ fd' = [fd EXCEPT ![c] = n] /\ holder' = [holder EXCEPT ![n] = c]
          /\ loop' = [loop EXCEPT ![c] = l] /\ reg' = [reg EXCEPT ![c] = "queued"]
      BY <1>2, <2>2, AcceptOutcome DEF Accepted
    <3>2. \A d \in Conns : reg'[d] # "listing"
      BY <1>0, <3>1 DEF Registering
    <3>3. \A m \in Nums : holder'[m] = NoConn => watch'[m] = {}
      BY <1>0, <3>1 DEF WatchInv
    <3>4. ASSUME NEW d \in Conns, HasFd(d)', reg'[d] \in Opened
          PROVE  loop'[d] \in watch'[fd'[d]]
      <4>1. d # c /\ fd'[d] = fd[d] /\ loop'[d] = loop[d] /\ reg[d] \in Opened
        BY <1>0, <3>1, <3>4 DEF Opened
      <4>2. HasFd(d)
        BY <1>0, <3>1, <3>4, <4>1 DEF HasFd
      <4> QED BY <3>1, <4>1, <4>2 DEF WatchInv
    <3> QED BY <3>2, <3>3, <3>4 DEF WatchInv
  <2> QED BY <1>2, <2>1, <2>2, AcceptOutcome
<1>3. ASSUME NEW c \in Conns, RegList(c)
      PROVE  WatchInv'
  <2>1. PICK n \in Nums, l \in Loops : n = fd[c] /\ l = loop[c]
    BY <1>3 DEF RegList, RegGoto, LifeInv
  <2>2. /\ reg[c] = "addread" /\ holder[n] # NoConn /\ l \notin watch[n]
        /\ UNCHANGED <<fd, loop, holder>>
        /\ reg' = [reg EXCEPT ![c] = "listing"]
        /\ watch' = [watch EXCEPT ![n] = watch[n] \cup {l}]
    BY <1>3, <2>1 DEF RegList, RegGoto
  <2>3. /\ \A m \in Nums : watch'[m] = IF m = n THEN watch[n] \cup {l} ELSE watch[m]
        /\ \A d \in Conns : reg'[d] = IF d = c THEN "listing" ELSE reg[d]
        /\ \A d \in Conns : HasFd(d)' <=> HasFd(d)
    BY <1>0, <2>2 DEF HasFd
  <2>4. \A m \in Nums : holder'[m] = NoConn => watch'[m] = {}
    BY <2>2, <2>3 DEF WatchInv
  <2>5. ASSUME NEW d \in Conns, HasFd(d), reg'[d] \in Opened \cup {"listing"}
        PROVE  loop[d] \in watch'[fd[d]]
    <3>1. fd[d] \in Nums
      BY <2>5 DEF HasFd
    <3>2. CASE d = c
      BY <2>1, <2>3, <3>1, <3>2
    <3>3. CASE d # c
      <4>1. loop[d] \in watch[fd[d]]
        BY <2>3, <2>5, <3>3 DEF WatchInv
      <4> QED BY <2>3, <3>1, <4>1
    <3> QED BY <3>2, <3>3
  <2>6. ASSUME NEW d \in Conns, NEW e \in Conns, HasFd(d), reg'[e] = "listing", d # e,
               fd[d] = fd[e], loop[d] = loop[e]
        PROVE  reg'[d] \in {"queued", "addread"} /\ loop[e] \in watch'[fd[e]]
    <3>1. fd[d] \in Nums /\ reg[d] \notin {"none", "failed"}
      BY <2>6, HasFdIs
    <3>2. CASE e = c
      <4>1. reg[d] \notin Opened \cup {"listing"}
        BY <2>1, <2>2, <2>6, <3>2 DEF WatchInv
      <4>2. reg[d] \in {"queued", "addread"}
        BY <1>0, <3>1, <4>1 DEF RegPC, Opened
      <4> QED BY <2>1, <2>3, <2>6, <3>2, <4>2
    <3>3. CASE e # c
      <4>1. reg[e] = "listing"
        BY <2>3, <2>6, <3>3
      <4>2. reg[d] \in {"queued", "addread"} /\ loop[e] \in watch[fd[e]]
        BY <2>6, <4>1 DEF WatchInv
      <4>3. d # c
        BY <2>1, <2>2, <2>6, <4>2
      <4> QED BY <2>3, <2>6, <3>1, <4>2, <4>3
    <3> QED BY <3>2, <3>3
  <2> QED BY <2>2, <2>3, <2>4, <2>5, <2>6 DEF WatchInv
<1>4. ASSUME NEW c \in Conns, RegOpen(c)
      PROVE  WatchInv'
  BY <1>0, <1>4 DEF RegOpen, RegGoto, WatchInv, HasFd, Opened
<1>5. ASSUME NEW c \in Conns, Stage(c)
      PROVE  WatchInv'
  <2>1. UNCHANGED <<fd, loop, holder, watch>> /\ reg[c] \in {"open", "store"}
    BY <1>5, StageIs
  <2>2. PICK q \in {"uncounted", "store", "done"} : reg' = [reg EXCEPT ![c] = q]
    BY <1>5, StageIs
  <2> QED BY <1>0, <2>1, <2>2 DEF WatchInv, HasFd, Opened
<1>6. ASSUME NEW l \in Loops, Turn(l)
      PROVE  WatchInv'
  BY <1>6, TurnIs DEF WatchInv, HasFd
<1>7. ASSUME NEW c \in Conns, NEW w \in Closers, CloseTest(c, w) \/ Removal(c, w)
      PROVE  WatchInv'
  <2>1. UNCHANGED <<fd, loop, holder, watch, reg>>
    BY <1>7, TestIs, RemovalIs
  <2> QED BY <2>1 DEF WatchInv, HasFd
<1>8. ASSUME NEW c \in Conns, RegFails(c) \/ \E w \in Closers : CloseFd(c, w)
      PROVE  WatchInv'
  <2>1. /\ CloseNumber(c) /\ UNCHANGED <<fd, loop>> /\ fd[c] \in Nums
        /\ \A d \in Conns : reg'[d] \in {reg[d], "failed"}
    <3>1. CASE RegFails(c)
      BY <1>0, <3>1 DEF RegFails, RegGoto, LifeInv
    <3>2. ASSUME NEW w \in Closers, CloseFd(c, w)
          PROVE  /\ CloseNumber(c) /\ UNCHANGED <<fd, loop, reg>> /\ fd[c] \in Nums
      <4>1. /\ CloseNumber(c) /\ UNCHANGED <<fd, loop, reg>>
            /\ ClsMoves(c, w, "passed", "unlist")
        BY <3>2, FdIs
      <4> QED BY <4>1 DEF ClsMoves, LifeInv, Opened
    <3> QED BY <1>8, <3>1, <3>2
  <2>2. \A m \in Nums : holder'[m] = NoConn => watch'[m] = {}
    BY <2>1, NumberTypes DEF WatchInv
  <2>3. \A d \in Conns : HasFd(d)' => HasFd(d) /\ watch'[fd[d]] = watch[fd[d]]
    BY <2>1, CloseTakes
  <2>4. \A d \in Conns : HasFd(d)' => reg'[d] = reg[d]
    <3>1. CASE RegFails(c)
      <4>1. \A d \in Conns : HasFd(d)' => d # c
        BY <2>1, CloseTakes
      <4> QED BY <1>0, <3>1, <4>1 DEF RegFails, RegGoto
    <3>2. CASE \E w \in Closers : CloseFd(c, w)
      BY <3>2, FdIs
    <3> QED BY <1>8, <3>1, <3>2
  <2>5. ASSUME NEW d \in Conns, NEW e \in Conns, HasFd(d)', reg'[e] = "listing", d # e,
               fd[d] = fd[e], loop[d] = loop[e]
        PROVE  reg'[d] \in {"queued", "addread"} /\ loop[e] \in watch'[fd[e]]
    <3>1. reg[e] = "listing"
      BY <2>1, <2>5
    <3>2. /\ HasFd(d) /\ watch'[fd[e]] = watch[fd[e]] /\ reg'[d] = reg[d]
      BY <2>3, <2>4, <2>5
    <3> QED BY <2>5, <3>1, <3>2 DEF WatchInv
  <2>6. ASSUME NEW d \in Conns, HasFd(d)', reg'[d] \in Opened \cup {"listing"}
        PROVE  loop[d] \in watch'[fd[d]]
    BY <2>3, <2>4, <2>6 DEF WatchInv
  <2> QED BY <2>1, <2>2, <2>5, <2>6 DEF WatchInv
<1> QED BY <1>1, <1>2, <1>3, <1>4, <1>5, <1>6, <1>7, <1>8, StepIs

\* Every step keeps the numbers apart.  Accept is the only step that gives a
\* descriptor to a connection; it does so when no Close called by Open is under
\* way, and remembers a number that is still to be unlisted.
LEMMA NumberStep ==
  ASSUME RegistryTypeOK, LifeInv, HolderInv, NumberInv, Next
  PROVE  NumberInv'
PROOF
<1> USE DEF kernel, turnVars, counter
<1>0. /\ reg \in [Conns -> RegPC] /\ fd \in [Conns -> Nums \cup {0}]
      /\ loop \in [Conns -> Loops \cup {0}] /\ holder \in [Nums -> Conns \cup {NoConn}]
      /\ "opener" \in Closers /\ NoConn \notin Conns
  BY RegistryAssumption DEF RegistryTypeOK, Closers
<1>1. ASSUME UNCHANGED <<fd, loop, holder, cls, reused>>
      PROVE  NumberInv'
  BY <1>1 DEF NumberInv, HasFd
<1>2. ASSUME NEW c \in Conns, Accept(c)
      PROVE  NumberInv'
  <2>1. CASE Refused
    BY <1>1, <1>2, <2>1, AcceptOutcome DEF Refused
  <2>2. ASSUME NEW n, NEW l, Accepted(c, n, l)
        PROVE  NumberInv'
    <3>1. /\ reg[c] = "none" /\ Registering = {} /\ UNCHANGED cls
          /\ n \in Nums /\ holder[n] = NoConn
          /\ fd' = [fd EXCEPT ![c] = n] /\ holder' = [holder EXCEPT ![n] = c]
          /\ loop' = [loop EXCEPT ![c] = l] /\ reused \subseteq reused'
          /\ \A d \in Conns, w \in Closers :
               (loop[d] = l /\ fd[d] = n /\ cls[<<d, w>>] \in {"unlist", "unlisting"})
                 => c \in reused'
      BY <1>2, <2>2, AcceptOutcome DEF Accepted
    <3>2. \A d \in Conns : cls[<<d, "opener">>] \in {"none", "done"}
      BY <3>1 DEF LifeInv, Registering
    <3>3. \A w \in Closers : cls[<<c, w>>] = "none"
      BY <3>1 DEF LifeInv, Opened
    <3> SUFFICES ASSUME NEW b \in Conns, NEW d \in Conns, HasFd(b)', b # d, fd'[b] = fd'[d]
                 PROVE  /\ cls[<<d, "opener">>] \in {"none", "passed", "done"}
                        /\ \A w \in Closers :
                             (cls[<<d, w>>] \in {"unlist", "unlisting"} /\ loop'[b] = loop'[d])
                               => b \in reused'
      BY <3>1 DEF NumberInv
    <3>4. CASE d = c
      BY <3>2, <3>3, <3>4
    <3>5. CASE d # c /\ b = c
      BY <1>0, <3>1, <3>2, <3>5
    <3>6. CASE d # c /\ b # c
      <4>1. HasFd(b) /\ fd[b] = fd[d] /\ loop'[b] = loop[b] /\ loop'[d] = loop[d]
        BY <1>0, <3>1, <3>6 DEF HasFd
      <4> QED BY <3>1, <4>1 DEF NumberInv
    <3> QED BY <3>4, <3>5, <3>6
  <2> QED BY <1>2, <2>1, <2>2, AcceptOutcome
<1>3. ASSUME NEW c \in Conns, RegFails(c) \/ \E w \in Closers : CloseFd(c, w)
      PROVE  NumberInv'
  <2>1. /\ CloseNumber(c) /\ UNCHANGED <<fd, loop, reused>> /\ fd[c] \in Nums
        /\ \A d \in Conns, v \in Closers : d # c => cls'[<<d, v>>] = cls[<<d, v>>]
    <3>1. CASE RegFails(c)
      BY <1>0, <3>1 DEF RegFails, RegGoto, LifeInv
    <3>2. ASSUME NEW w \in Closers, CloseFd(c, w)
          PROVE  /\ CloseNumber(c) /\ UNCHANGED <<fd, loop, reused>> /\ fd[c] \in Nums
                 /\ \A d \in Conns, v \in Closers : d # c => cls'[<<d, v>>] = cls[<<d, v>>]
      <4>1. /\ CloseNumber(c) /\ UNCHANGED <<fd, loop, reused>>
            /\ ClsMoves(c, w, "passed", "unlist")
        BY <3>2, FdIs
      <4> QED BY <4>1 DEF ClsMoves, LifeInv, Opened
    <3> QED BY <1>3, <3>1, <3>2
  <2>2. \A d \in Conns : HasFd(d)' => HasFd(d) /\ fd[d] # fd[c]
    BY <2>1, CloseTakes
  <2> SUFFICES ASSUME NEW b \in Conns, NEW d \in Conns, HasFd(b)', b # d, fd[b] = fd[d]
               PROVE  /\ cls'[<<d, "opener">>] \in {"none", "passed", "done"}
                      /\ \A v \in Closers :
                           (cls'[<<d, v>>] \in {"unlist", "unlisting"} /\ loop[b] = loop[d])
                             => b \in reused
    BY <2>1 DEF NumberInv
  <2>3. d # c /\ HasFd(b)
    BY <2>2
  <2> QED BY <1>0, <2>1, <2>3 DEF NumberInv
<1>4. ASSUME NEW c \in Conns, NEW w \in Closers, CloseTest(c, w)
      PROVE  NumberInv'
  <2>1. ClsMoves(c, w, "none", "passed") /\ UNCHANGED <<fd, loop, holder, reused>>
    BY <1>4, TestIs
  <2> QED BY <1>0, <2>1 DEF ClsMoves, NumberInv, HasFd
<1>5. ASSUME NEW c \in Conns, NEW w \in Closers, Removal(c, w)
      PROVE  NumberInv'
  <2>1. PICK p \in {"unlist", "unlisting", "uncount", "store"},
             q \in {"unlisting", "uncount", "store", "done"} :
               ClsMoves(c, w, p, q) /\ (q = "unlisting" => p \in {"unlist", "unlisting"})
    BY <1>5, RemovalIs
  <2>2. UNCHANGED <<fd, loop, holder, reused>>
    BY <1>5, RemovalIs
  <2> SUFFICES ASSUME NEW b \in Conns, NEW d \in Conns, HasFd(b), b # d, fd[b] = fd[d]
               PROVE  /\ cls'[<<d, "opener">>] \in {"none", "passed", "done"}
                      /\ \A v \in Closers :
                           (cls'[<<d, v>>] \in {"unlist", "unlisting"} /\ loop[b] = loop[d])
                             => b \in reused
    BY <2>2 DEF NumberInv, HasFd
  <2>3. /\ cls[<<d, "opener">>] \in {"none", "passed", "done"}
        /\ \A v \in Closers : (cls[<<d, v>>] \in {"unlist", "unlisting"} /\ loop[b] = loop[d])
                                => b \in reused
    BY DEF NumberInv
  <2>4. ~(d = c /\ w = "opener")
    BY <2>1, <2>3 DEF ClsMoves
  <2> QED BY <1>0, <2>1, <2>3, <2>4 DEF ClsMoves
<1>6. ASSUME NEW c \in Conns, RegList(c) \/ RegOpen(c) \/ Stage(c)
      PROVE  UNCHANGED <<fd, loop, holder, cls, reused>>
  BY <1>6, StageIs DEF RegList, RegOpen
<1>7. ASSUME NEW l \in Loops, Turn(l)
      PROVE  UNCHANGED <<fd, loop, holder, cls, reused>>
  BY <1>7, TurnIs
<1>8. ASSUME MainTurn
      PROVE  UNCHANGED <<fd, loop, holder, cls, reused>>
  BY <1>8 DEF MainTurn
<1> QED BY <1>1, <1>2, <1>3, <1>4, <1>5, <1>6, <1>7, <1>8, StepIs

-----------------------------------------------------------------------------
(* The lists *)

\* Before the delete of RemoveConn has ended.
Held == {"none", "passed", "unlist", "unlisting"}

\* A step that writes no entry, unlists nobody and opens nothing.
Quiet ==
  /\ ConnList' = ConnList /\ clash \subseteq clash' /\ reused \subseteq reused'
  /\ \A d \in Conns :
       /\ reg[d] \in Opened => reg'[d] \in Opened /\ fd'[d] = fd[d] /\ loop'[d] = loop[d]
       /\ \A w \in Closers : cls[<<d, w>>] \in Held => cls'[<<d, w>>] \in Held
       /\ (reg'[d] \in Opened /\ HasFd(d)') => reg[d] \in Opened /\ HasFd(d)

\* Such a step keeps the lists right.
LEMMA QuietList ==
  ASSUME RegistryTypeOK, ListInv, Quiet
  PROVE  ListInv'
PROOF
<1>1. /\ ConnList \in [Loops -> [Nums -> Conns \cup {NoConn}]] /\ NoConn \notin Conns
      /\ loop \in [Conns -> Loops \cup {0}] /\ fd \in [Conns -> Nums \cup {0}]
  BY RegistryAssumption DEF RegistryTypeOK
<1>2. EntryInv'
  BY <1>1 DEF ListInv, EntryInv, Quiet, Opened
<1>3. ClosedIsForgotten'
  <2> SUFFICES ASSUME NEW l \in Loops, l \notin clash', NEW n \in Nums, NEW w \in Closers,
                      ConnList'[l][n] # NoConn
               PROVE  cls'[<<ConnList'[l][n], w>>] \in Held
    BY DEF ClosedIsForgotten, Held
  <2>1. PICK d \in Conns : d = ConnList[l][n] /\ d = ConnList'[l][n]
    BY <1>1 DEF Quiet
  <2>2. l \in Loops \ clash /\ d # NoConn
    BY <1>1 DEF Quiet
  <2>3. cls[<<d, w>>] \in Held
    BY <2>1, <2>2 DEF ListInv, ClosedIsForgotten, Held
  <2>4. cls'[<<d, w>>] \in Held
    BY <2>3 DEF Quiet
  <2> QED BY <2>1, <2>4, Zenon
<1>4. ListedUnlessReused'
  <2> SUFFICES ASSUME NEW d \in Conns, reg'[d] \in Opened, HasFd(d)', loop'[d] \notin clash',
                      d \notin reused'
               PROVE  ConnList'[loop'[d]][fd'[d]] = d
    BY DEF ListedUnlessReused, Opened
  <2>1. reg[d] \in Opened /\ HasFd(d) /\ loop'[d] = loop[d] /\ fd'[d] = fd[d]
    BY DEF Quiet
  <2>2. loop[d] \notin clash /\ d \notin reused /\ ConnList' = ConnList
    BY <2>1 DEF Quiet
  <2>3. ConnList[loop[d]][fd[d]] = d
    BY <2>1, <2>2 DEF ListInv, ListedUnlessReused, Opened
  <2> QED BY <2>1, <2>2, <2>3
<1> QED BY <1>2, <1>3, <1>4 DEF ListInv

\* The end of a map write: the entry is there, or a race has lost it.
LEMMA MapEndIs ==
  ASSUME RegistryTypeOK, NEW l \in Loops, NEW n \in Nums, NEW e, MapEnd(l, n, e)
  PROVE  /\ \A k \in Loops, m \in Nums :
              ConnList'[k][m] = ConnList[k][m] \/ (k = l /\ m = n /\ ConnList'[k][m] = e)
         /\ l \in clash \/ ConnList'[l][n] = e
PROOF
<1>1. ConnList \in [Loops -> [Nums -> Conns \cup {NoConn}]]
  BY DEF RegistryTypeOK
<1> QED BY <1>1 DEF MapEnd

\* Every step keeps the lists right.  The end of a registration writes the entry
\* of a number no other open connection has registered with its loop; the end of a
\* removal deletes by number, and NumberInv says whose entry that may be.
LEMMA ListStep ==
  ASSUME RegistryTypeOK, LifeInv, HolderInv, WatchInv, NumberInv, ListInv, Next
  PROVE  ListInv'
PROOF
<1> USE DEF kernel, turnVars, counter
<1>0. /\ reg \in [Conns -> RegPC] /\ cls \in [Conns \X Closers -> ClsPC]
      /\ fd \in [Conns -> Nums \cup {0}] /\ loop \in [Conns -> Loops \cup {0}]
      /\ holder \in [Nums -> Conns \cup {NoConn}]
      /\ ConnList \in [Loops -> [Nums -> Conns \cup {NoConn}]] /\ NoConn \notin Conns
  BY RegistryAssumption DEF RegistryTypeOK
<1>1. ASSUME MainTurn
      PROVE  Quiet
  BY <1>0, <1>1 DEF MainTurn, Quiet, Opened, HasFd
<1>2. ASSUME NEW c \in Conns, Accept(c)
      PROVE  Quiet
  <2>1. CASE Refused
    BY <1>0, <1>2, <2>1, AcceptOutcome DEF Refused, Quiet, HasFd
  <2>2. ASSUME NEW n, NEW l, Accepted(c, n, l)
        PROVE  Quiet
    <3>1. /\ reg[c] = "none" /\ UNCHANGED <<cls, ConnList, clash>>
          /\ n \in Nums /\ holder[n] = NoConn
          /\ fd' = [fd EXCEPT ![c] = n] /\ holder' = [holder EXCEPT ![n] = c]
          /\ loop' = [loop EXCEPT ![c] = l] /\ reg' = [reg EXCEPT ![c] = "queued"]
          /\ reused \subseteq reused'
      BY <1>2, <2>2, AcceptOutcome DEF Accepted
    <3> QED BY <1>0, <3>1 DEF Quiet, Opened, HasFd
  <2> QED BY <1>2, <2>1, <2>2, AcceptOutcome
<1>3. ASSUME NEW c \in Conns, RegFails(c)
      PROVE  Quiet
  <2>1. /\ CloseNumber(c) /\ UNCHANGED <<fd, loop, cls, ConnList, clash, reused>>
        /\ fd[c] \in Nums /\ reg[c] = "addread" /\ reg' = [reg EXCEPT ![c] = "failed"]
    BY <1>3 DEF RegFails, RegGoto, LifeInv
  <2>2. \A d \in Conns : HasFd(d)' => HasFd(d)
    BY <2>1, CloseTakes
  <2> QED BY <1>0, <2>1, <2>2 DEF Quiet, Opened
<1>4. ASSUME NEW c \in Conns, RegList(c)
      PROVE  Quiet
  BY <1>0, <1>4 DEF RegList, RegGoto, MapBegin, Quiet, Opened, HasFd
<1>5. ASSUME NEW c \in Conns, Stage(c)
      PROVE  Quiet
  <2>1. /\ reg[c] \in {"open", "store"}
        /\ UNCHANGED <<fd, loop, holder, cls, ConnList, clash, reused>>
    BY <1>5, StageIs
  <2>2. PICK q \in {"uncounted", "store", "done"} : reg' = [reg EXCEPT ![c] = q]
    BY <1>5, StageIs
  <2> QED BY <1>0, <2>1, <2>2 DEF Quiet, Opened, HasFd
<1>6. ASSUME NEW l \in Loops, Turn(l)
      PROVE  Quiet
  BY <1>6, TurnIs DEF Quiet, HasFd
<1>7. ASSUME NEW c \in Conns, NEW w \in Closers, CloseTest(c, w)
      PROVE  Quiet
  <2>1. /\ ClsMoves(c, w, "none", "passed")
        /\ UNCHANGED <<fd, loop, holder, reg, ConnList, clash, reused>>
    BY <1>7, TestIs
  <2> QED BY <2>1 DEF ClsMoves, Quiet, Held, HasFd
<1>8. ASSUME NEW c \in Conns, NEW w \in Closers, CloseFd(c, w)
      PROVE  Quiet
  <2>1. /\ ClsMoves(c, w, "passed", "unlist") /\ CloseNumber(c)
        /\ UNCHANGED <<fd, loop, reg, ConnList, clash, reused>>
    BY <1>8, FdIs
  <2>2. fd[c] \in Nums
    BY <2>1 DEF ClsMoves, LifeInv, Opened
  <2>3. \A d \in Conns : HasFd(d)' => HasFd(d)
    BY <2>1, <2>2, CloseTakes
  <2> QED BY <2>1, <2>3 DEF ClsMoves, Quiet, Held
<1>9. ASSUME NEW c \in Conns, NEW w \in Closers,
             RemoveConn(c, w) \/ RemoveCount(c, w) \/ RemoveStore(c, w)
      PROVE  Quiet
  <2>1. UNCHANGED <<fd, loop, holder, reg, reused>> /\ clash \subseteq clash'
    BY <1>9, RemovalIs DEF Removal
  <2>2. ConnList' = ConnList
    BY <1>9 DEF RemoveConn, RemoveCount, RemoveStore
  <2>3. \A d \in Conns, v \in Closers : cls[<<d, v>>] \in Held => cls'[<<d, v>>] \in Held
    <3>1. CASE RemoveConn(c, w)
      <4>1. ClsMoves(c, w, "unlist", "unlisting")
        BY <3>1, ClsIs DEF RemoveConn, ClsPC
      <4> QED BY <4>1 DEF ClsMoves, Held
    <3>2. CASE RemoveCount(c, w)
      <4>1. ClsMoves(c, w, "uncount", "store")
        BY <3>2, ClsIs DEF RemoveCount, ClsPC
      <4> QED BY <4>1 DEF ClsMoves, Held
    <3>3. CASE RemoveStore(c, w)
      <4>1. ClsMoves(c, w, "store", "done")
        BY <3>3, ClsIs DEF RemoveStore, ClsPC
      <4> QED BY <4>1 DEF ClsMoves, Held
    <3> QED BY <1>9, <3>1, <3>2, <3>3
  <2> QED BY <2>1, <2>2, <2>3 DEF Quiet, HasFd
<1>10. ASSUME NEW c \in Conns, RegOpen(c)
       PROVE  ListInv'
  <2>1. /\ reg[c] = "listing" /\ loop[c] \in Loops /\ fd[c] \in Nums
        /\ reg' = [reg EXCEPT ![c] = "open"]
        /\ UNCHANGED <<fd, loop, holder, cls, clash, reused>>
    BY <1>10 DEF RegOpen, RegGoto, LifeInv
  <2>2. /\ \A k \in Loops, m \in Nums :
             \/ ConnList'[k][m] = ConnList[k][m]
             \/ k = loop[c] /\ m = fd[c] /\ ConnList'[k][m] = c
        /\ loop[c] \in clash \/ ConnList'[loop[c]][fd[c]] = c
    BY <1>10, <2>1, MapEndIs DEF RegOpen
  <2>3. EntryInv'
    BY <1>0, <2>1, <2>2 DEF ListInv, EntryInv, Opened
  <2>4. ClosedIsForgotten'
    <3>1. \A w \in Closers : cls[<<c, w>>] = "none"
      BY <2>1 DEF LifeInv, Opened
    <3> SUFFICES ASSUME NEW k \in Loops \ clash, NEW m \in Nums, NEW v \in Closers,
                        ConnList'[k][m] # NoConn
                 PROVE  cls[<<ConnList'[k][m], v>>] \in Held
      BY <2>1, Zenon DEF ClosedIsForgotten, Held
    <3>2. CASE ConnList'[k][m] = c
      BY <3>1, <3>2 DEF Held
    <3>3. CASE ConnList'[k][m] = ConnList[k][m]
      BY <3>3 DEF ListInv, ClosedIsForgotten, Held
    <3> QED BY <2>2, <3>2, <3>3
  <2>5. ListedUnlessReused'
    <3> SUFFICES ASSUME NEW d \in Conns, reg'[d] \in Opened, HasFd(d)',
                        loop[d] \notin clash, d \notin reused
                 PROVE  ConnList'[loop[d]][fd[d]] = d
      BY <2>1 DEF ListedUnlessReused, Opened
    <3>1. CASE d = c
      BY <2>2, <3>1
    <3>2. CASE d # c
      <4>1. reg[d] \in Opened /\ HasFd(d)
        BY <1>0, <2>1, <3>2 DEF HasFd
      <4>2. loop[d] \in Loops /\ fd[d] \in Nums
        BY <4>1 DEF Opened, LifeInv
      <4>3. ConnList[loop[d]][fd[d]] = d
        BY <4>1 DEF ListInv, ListedUnlessReused, Opened
      <4>4. ~(loop[d] = loop[c] /\ fd[d] = fd[c])
        BY <2>1, <3>2, <4>1 DEF WatchInv, Opened
      <4> QED BY <2>2, <4>2, <4>3, <4>4
    <3> QED BY <3>1, <3>2
  <2> QED BY <2>3, <2>4, <2>5 DEF ListInv
<1>11. ASSUME NEW c \in Conns, NEW w \in Closers, RemoveDelete(c, w)
       PROVE  ListInv'
  <2>1. ClsMoves(c, w, "unlisting", "uncount")
    BY <1>11, ClsIs DEF RemoveDelete, ClsPC
  <2>2. /\ loop[c] \in Loops /\ fd[c] \in Nums /\ cls[<<c, w>>] = "unlisting"
        /\ UNCHANGED <<fd, loop, holder, reg, clash, reused>>
    BY <1>11, <2>1 DEF RemoveDelete, ClsMoves, LifeInv, Opened
  <2>3. /\ \A k \in Loops, m \in Nums :
             \/ ConnList'[k][m] = ConnList[k][m]
             \/ k = loop[c] /\ m = fd[c] /\ ConnList'[k][m] = NoConn
        /\ loop[c] \in clash \/ ConnList'[loop[c]][fd[c]] = NoConn
    BY <1>11, <2>2, MapEndIs DEF RemoveDelete
  <2>4. EntryInv'
    BY <1>0, <2>2, <2>3 DEF ListInv, EntryInv
  <2>5. ClosedIsForgotten'
    <3> SUFFICES ASSUME NEW k \in Loops \ clash, NEW m \in Nums, NEW v \in Closers,
                        ConnList'[k][m] # NoConn
                 PROVE  cls'[<<ConnList'[k][m], v>>] \in Held
      BY <2>2, Zenon DEF ClosedIsForgotten, Held
    <3>1. PICK d : d = ConnList[k][m]
      OBVIOUS
    <3>2. ConnList'[k][m] = d /\ d \in Conns
      BY <1>0, <2>3, <3>1
    <3>3. cls[<<d, v>>] \in Held /\ loop[d] = k /\ fd[d] = m
      BY <1>0, <3>1, <3>2 DEF ListInv, ClosedIsForgotten, EntryInv, Held
    <3>4. d # c
      BY <2>3, <3>2, <3>3
    <3>5. cls'[<<d, v>>] \in Held
      BY <2>1, <3>2, <3>3, <3>4 DEF ClsMoves
    <3> QED BY <3>2, <3>5, Zenon
  <2>6. ListedUnlessReused'
    <3> SUFFICES ASSUME NEW d \in Conns, reg[d] \in Opened, HasFd(d)',
                        loop[d] \notin clash, d \notin reused
                 PROVE  ConnList'[loop[d]][fd[d]] = d
      BY <2>2 DEF ListedUnlessReused, Opened
    <3>1. HasFd(d) /\ loop[d] \in Loops /\ fd[d] \in Nums
      BY <2>2 DEF HasFd, LifeInv, Opened
    <3>2. d # c
      <4>1. \A v \in Closers : cls[<<d, v>>] \in {"none", "passed"}
        BY <3>1, HasFdIs
      <4> QED BY <2>2, <4>1
    <3>3. ConnList[loop[d]][fd[d]] = d
      BY <3>1 DEF ListInv, ListedUnlessReused, Opened
    <3>4. ~(loop[d] = loop[c] /\ fd[d] = fd[c])
      BY <2>2, <3>1, <3>2 DEF NumberInv
    <3> QED BY <2>3, <3>1, <3>3, <3>4
  <2> QED BY <2>4, <2>5, <2>6 DEF ListInv
<1> QED BY <1>1, <1>2, <1>3, <1>4, <1>5, <1>6, <1>7, <1>8, <1>9, <1>10, <1>11, QuietList,
           StepIs DEF Removal

-----------------------------------------------------------------------------
(* The turns of the sub loops *)

\* TurnInv, loop by loop: the events of the batch, the handler, and the jobs.
BatchOk(l) ==
  \A e \in batch[l] :
    /\ fd[e[2]] = e[1] /\ reg[e[2]] # "none"
    /\ loop[e[2]] = l => \A j \in Jobs : cls[<<e[2], j>>] = "none"
    /\ \A f \in batch[l] : e[1] = f[1] => e = f
    /\ hand[l] # NoConn => e[1] # fd[hand[l]]
HandOk(l) == hand[l] # NoConn => loop[hand[l]] = l /\ reg[hand[l]] # "none"
JobsOk(l) ==
  \A c \in Conns, j \in Jobs :
    (loop[c] = l /\ cls[<<c, j>>] \notin {"none", "done"}) =>
      \/ j = Handler /\ hand[l] = c
      \/ batch[l] = {} /\ hand[l] = NoConn

\* These are its parts.
LEMMA TurnParts ==
  /\ TurnInv <=> \A l \in Loops : BatchOk(l) /\ HandOk(l) /\ JobsOk(l)
  /\ TurnInv' <=> \A l \in Loops : BatchOk(l)' /\ HandOk(l)' /\ JobsOk(l)'
PROOF
<1>1. TurnInv <=> \A l \in Loops : BatchOk(l) /\ HandOk(l) /\ JobsOk(l)
  BY Zenon DEF TurnInv, BatchOk, HandOk, JobsOk
<1>2. TurnInv' <=> \A l \in Loops : BatchOk(l)' /\ HandOk(l)' /\ JobsOk(l)'
  BY Zenon DEF TurnInv, BatchOk, HandOk, JobsOk
<1> QED BY <1>1, <1>2

\* A step outside the turns that lets no job begin a Close.
TurnQuiet ==
  /\ batch' = batch /\ hand' = hand
  /\ \A d \in Conns : reg[d] # "none" => reg'[d] # "none" /\ fd'[d] = fd[d] /\ loop'[d] = loop[d]
  /\ \A d \in Conns, j \in Jobs :
       cls[<<d, j>>] \in {"none", "done"} => cls'[<<d, j>>] = cls[<<d, j>>]

\* Such a step keeps the turns in order.
LEMMA TurnQuietKeeps ==
  ASSUME RegistryTypeOK, LifeInv, TurnInv, TurnQuiet
  PROVE  TurnInv'
PROOF
<1>0. /\ batch \in [Loops -> SUBSET (Nums \X Conns)] /\ hand \in [Loops -> Conns \cup {NoConn}]
      /\ Jobs \subseteq Closers
  BY DEF RegistryTypeOK, Closers
<1> SUFFICES ASSUME NEW l \in Loops
             PROVE  BatchOk(l)' /\ HandOk(l)' /\ JobsOk(l)'
  BY TurnParts
<1>1. BatchOk(l) /\ HandOk(l) /\ JobsOk(l)
  BY TurnParts
<1>2. batch'[l] = batch[l] /\ hand'[l] = hand[l]
  BY DEF TurnQuiet
<1>3. HandOk(l)'
  BY <1>0, <1>1, <1>2 DEF HandOk, TurnQuiet
<1>4. BatchOk(l)'
  <2> SUFFICES ASSUME NEW e \in batch[l]
               PROVE  /\ fd'[e[2]] = e[1] /\ reg'[e[2]] # "none"
                      /\ loop'[e[2]] = l => \A j \in Jobs : cls'[<<e[2], j>>] = "none"
                      /\ \A f \in batch[l] : e[1] = f[1] => e = f
                      /\ hand[l] # NoConn => e[1] # fd'[hand[l]]
    BY <1>2 DEF BatchOk
  <2>1. PICK n \in Nums, d \in Conns : e = <<n, d>>
    BY <1>0
  <2>2. /\ fd[d] = n /\ reg[d] # "none" /\ (\A f \in batch[l] : n = f[1] => e = f)
        /\ loop[d] = l => \A j \in Jobs : cls[<<d, j>>] = "none"
        /\ hand[l] # NoConn => n # fd[hand[l]]
    BY <1>1, <2>1 DEF BatchOk
  <2>3. fd'[d] = n /\ reg'[d] # "none" /\ loop'[d] = loop[d]
    BY <2>2 DEF TurnQuiet
  <2>4. loop[d] = l => \A j \in Jobs : cls'[<<d, j>>] = "none"
    BY <2>2 DEF TurnQuiet
  <2>5. hand[l] # NoConn => n # fd'[hand[l]]
    BY <1>0, <1>1, <2>2 DEF TurnQuiet, HandOk
  <2> QED BY <2>1, <2>2, <2>3, <2>4, <2>5
<1>5. JobsOk(l)'
  <2> SUFFICES ASSUME NEW c \in Conns, NEW j \in Jobs, loop'[c] = l,
                      cls'[<<c, j>>] \notin {"none", "done"}
               PROVE  \/ j = Handler /\ hand[l] = c
                      \/ batch[l] = {} /\ hand[l] = NoConn
    BY <1>2 DEF JobsOk
  <2>1. cls[<<c, j>>] \notin {"none", "done"}
    BY DEF TurnQuiet
  <2>2. reg[c] # "none"
    BY <1>0, <2>1 DEF LifeInv, Opened
  <2>3. loop[c] = l
    BY <2>2 DEF TurnQuiet
  <2> QED BY <1>1, <2>1, <2>3 DEF JobsOk
<1> QED BY <1>3, <1>4, <1>5

\* Every step keeps the turns in order: a loop fetches when its jobs have ended,
\* what it fetches has holders that no job has closed, and it finds connections
\* under their own numbers.
LEMMA TurnStep ==
  ASSUME RegistryTypeOK, LifeInv, HolderInv, WatchInv, EntryInv, TurnInv, Next
  PROVE  TurnInv'
PROOF
<1> USE DEF kernel, turnVars, counter
<1>0. /\ batch \in [Loops -> SUBSET (Nums \X Conns)] /\ hand \in [Loops -> Conns \cup {NoConn}]
      /\ reg \in [Conns -> RegPC] /\ holder \in [Nums -> Conns \cup {NoConn}]
      /\ fd \in [Conns -> Nums \cup {0}] /\ loop \in [Conns -> Loops \cup {0}]
      /\ ConnList \in [Loops -> [Nums -> Conns \cup {NoConn}]]
      /\ Jobs \subseteq Closers /\ Handler \in Jobs /\ "opener" \notin Jobs /\ NoConn \notin Conns
  BY RegistryAssumption DEF RegistryTypeOK, Closers
<1>1. ASSUME MainTurn
      PROVE  TurnQuiet
  BY <1>0, <1>1 DEF MainTurn, TurnQuiet
<1>2. ASSUME NEW c \in Conns, Accept(c)
      PROVE  TurnQuiet
  <2>1. CASE Refused
    BY <1>2, <2>1, AcceptOutcome DEF Refused, TurnQuiet
  <2>2. ASSUME NEW n, NEW l, Accepted(c, n, l)
        PROVE  TurnQuiet
    <3>1. /\ reg[c] = "none" /\ UNCHANGED <<cls, batch, hand>>
          /\ fd' = [fd EXCEPT ![c] = n]
          /\ loop' = [loop EXCEPT ![c] = l] /\ reg' = [reg EXCEPT ![c] = "queued"]
      BY <1>2, <2>2, AcceptOutcome DEF Accepted
    <3> QED BY <1>0, <3>1 DEF TurnQuiet
  <2> QED BY <1>2, <2>1, <2>2, AcceptOutcome
<1>3. ASSUME NEW c \in Conns, RegFails(c) \/ RegList(c) \/ RegOpen(c)
      PROVE  TurnQuiet
  BY <1>0, <1>3 DEF RegFails, RegList, RegOpen, RegGoto, TurnQuiet
<1>4. ASSUME NEW c \in Conns, Stage(c)
      PROVE  TurnQuiet
  <2>1. UNCHANGED <<fd, loop, cls, batch, hand>>
    BY <1>4, StageIs
  <2>2. PICK q \in {"uncounted", "store", "done"} : reg' = [reg EXCEPT ![c] = q]
    BY <1>4, StageIs
  <2> QED BY <1>0, <2>1, <2>2 DEF TurnQuiet
<1>5. ASSUME NEW c \in Conns, NEW w \in Closers, CloseFd(c, w) \/ Removal(c, w)
      PROVE  TurnQuiet
  <2>1. UNCHANGED <<fd, loop, reg, batch, hand>>
    BY <1>5, FdIs, RemovalIs
  <2>2. PICK p \in {"passed", "unlist", "unlisting", "uncount", "store"},
             q \in {"unlist", "unlisting", "uncount", "store", "done"} : ClsMoves(c, w, p, q)
    BY <1>5, FdIs, RemovalIs
  <2> QED BY <1>0, <2>1, <2>2 DEF TurnQuiet, ClsMoves
<1>6. ASSUME NEW c \in Conns, NEW w \in Closers, CloseTest(c, w)
      PROVE  TurnInv'
  <2>1. /\ ClsMoves(c, w, "none", "passed") /\ MayClose(c, w)
        /\ UNCHANGED <<fd, loop, reg, batch, hand>>
    BY <1>6, TestIs
  <2>2. CASE w = "opener"
    <3>1. TurnQuiet
      BY <1>0, <2>1, <2>2 DEF TurnQuiet, ClsMoves
    <3> QED BY <3>1, TurnQuietKeeps
  <2>3. CASE w \in Jobs
    <3> SUFFICES ASSUME NEW l \in Loops
                 PROVE  BatchOk(l)' /\ HandOk(l)' /\ JobsOk(l)'
      BY TurnParts
    <3>1. BatchOk(l) /\ HandOk(l) /\ JobsOk(l)
      BY TurnParts
    <3>2. loop[c] = l => \/ w = Handler /\ hand[l] = c
                         \/ batch[l] = {} /\ hand[l] = NoConn
      BY <1>0, <2>1, <2>3 DEF MayClose
    <3>3. HandOk(l)'
      BY <2>1, <3>1 DEF HandOk
    <3>4. JobsOk(l)'
      BY <1>0, <2>1, <3>1, <3>2 DEF JobsOk, ClsMoves
    <3>5. ASSUME NEW e \in batch[l], loop[e[2]] = l, NEW j \in Jobs
          PROVE  cls'[<<e[2], j>>] = "none"
      <4>1. PICK n \in Nums, d \in Conns : e = <<n, d>>
        BY <1>0
      <4>2. fd[d] = n /\ cls[<<d, j>>] = "none" /\ (hand[l] # NoConn => n # fd[hand[l]])
        BY <3>1, <3>5, <4>1 DEF BatchOk
      <4>3. d # c
        BY <1>0, <3>2, <3>5, <4>1, <4>2
      <4>4. cls'[<<d, j>>] = "none"
        BY <1>0, <2>1, <4>2, <4>3 DEF ClsMoves
      <4> QED BY <4>1, <4>4
    <3>6. BatchOk(l)'
      BY <2>1, <3>1, <3>5 DEF BatchOk
    <3> QED BY <3>3, <3>4, <3>6
  <2> QED BY <2>2, <2>3 DEF Closers
<1>7. ASSUME NEW k \in Loops, Turn(k)
      PROVE  TurnInv'
  <2>1. UNCHANGED <<fd, loop, reg, cls>>
    BY <1>7, TurnIs
  <2>2. ASSUME NEW l \in Loops, batch'[l] = batch[l], hand'[l] = hand[l]
        PROVE  BatchOk(l)' /\ HandOk(l)' /\ JobsOk(l)'
    <3>1. BatchOk(l) /\ HandOk(l) /\ JobsOk(l)
      BY TurnParts
    <3>2. BatchOk(l)'
      BY <2>1, <2>2, <3>1 DEF BatchOk
    <3> QED BY <2>1, <2>2, <3>1, <3>2 DEF HandOk, JobsOk
  <2>3. BatchOk(k) /\ HandOk(k) /\ JobsOk(k)
    BY TurnParts
  <2>4. CASE Fetch(k)
    <3>1. PICK ready \in SUBSET {n \in Nums : k \in watch[n]} :
            batch' = [batch EXCEPT ![k] = {<<n, holder[n]>> : n \in ready}]
      BY <2>4 DEF Fetch
    <3>2. Idle(k) /\ hand[k] = NoConn /\ hand' = hand
      BY <2>4 DEF Fetch
    <3>3. /\ \A l \in Loops : l # k => batch'[l] = batch[l]
          /\ batch'[k] = {<<n, holder[n]>> : n \in ready}
      BY <1>0, <3>1
    <3>4. ASSUME NEW n \in ready
          PROVE  /\ holder[n] \in Conns /\ fd[holder[n]] = n /\ reg[holder[n]] # "none"
                 /\ loop[holder[n]] = k => \A j \in Jobs : cls[<<holder[n], j>>] = "none"
      <4>1. n \in Nums /\ k \in watch[n]
        BY <3>1
      <4>2. holder[n] # NoConn
        BY <4>1 DEF WatchInv
      <4>3. PICK d \in Conns : d = holder[n]
        BY <1>0, <4>1, <4>2
      <4>4. /\ fd[d] = n /\ reg[d] # "none"
            /\ \A w \in Closers : cls[<<d, w>>] \in {"none", "passed"}
        BY <4>1, <4>2, <4>3 DEF HolderInv
      <4>5. loop[d] = k => \A j \in Jobs : cls[<<d, j>>] \in {"none", "done"}
        BY <3>2 DEF Idle
      <4>6. loop[d] = k => \A j \in Jobs : cls[<<d, j>>] = "none"
        BY <1>0, <4>4, <4>5
      <4> QED BY <4>3, <4>4, <4>6
    <3>5. BatchOk(k)'
      <4> SUFFICES ASSUME NEW e \in batch'[k]
                   PROVE  /\ fd[e[2]] = e[1] /\ reg[e[2]] # "none"
                          /\ loop[e[2]] = k => \A j \in Jobs : cls[<<e[2], j>>] = "none"
                          /\ \A f \in batch'[k] : e[1] = f[1] => e = f
        BY <2>1, <3>2 DEF BatchOk
      <4>1. PICK n \in ready : e = <<n, holder[n]>>
        BY <3>3
      <4>2. \A f \in batch'[k] : f = <<f[1], holder[f[1]]>>
        BY <3>3
      <4>3. \A f \in batch'[k] : e[1] = f[1] => e = f
        BY <4>1, <4>2
      <4>4. e[1] = n /\ e[2] = holder[n]
        BY <4>1
      <4> QED BY <3>4, <4>3, <4>4
    <3>6. HandOk(k)' /\ JobsOk(k)'
      BY <2>1, <3>2 DEF HandOk, JobsOk, Idle
    <3> QED BY <2>2, <3>2, <3>3, <3>5, <3>6, TurnParts
  <2>5. ASSUME NEW e \in batch[k], Dispatch(k, e)
        PROVE  TurnInv'
    <3>1. PICK n \in Nums, o \in Conns : e = <<n, o>>
      BY <1>0
    <3>2. PICK d \in Conns \cup {NoConn} : d = ConnList[k][n]
      BY <1>0
    <3>3. PICK b \in SUBSET (Nums \X Conns) : b = batch[k] \ {e}
      BY <1>0
    <3>4. /\ hand[k] = NoConn /\ batch' = [batch EXCEPT ![k] = b]
          /\ hand' = [hand EXCEPT ![k] = d] \/ hand' = hand
      BY <2>5, <3>1, <3>2, <3>3 DEF Dispatch
    <3>5. /\ \A l \in Loops : l # k => batch'[l] = batch[l] /\ hand'[l] = hand[l]
          /\ batch'[k] = b /\ hand'[k] \in {d, NoConn}
      BY <1>0, <3>4
    <3>6. \A c \in Conns, j \in Jobs : loop[c] = k => cls[<<c, j>>] \in {"none", "done"}
      BY <1>0, <2>3, <3>4 DEF JobsOk
    <3>7. d # NoConn => fd[d] = n /\ loop[d] = k /\ reg[d] # "none"
      BY <3>1, <3>2 DEF EntryInv, Opened
    <3>8. ASSUME NEW f \in b
          PROVE  f[1] # n
      <4>1. f \in batch[k] /\ f # e
        BY <3>3
      <4> QED BY <2>3, <3>1, <4>1 DEF BatchOk
    <3>9. BatchOk(k)'
      <4>1. \A f \in b : f \in batch[k]
        BY <3>3
      <4>2. hand'[k] # NoConn => fd[hand'[k]] = n
        BY <3>5, <3>7
      <4> QED BY <2>1, <2>3, <3>5, <3>8, <4>1, <4>2 DEF BatchOk
    <3>10. HandOk(k)' /\ JobsOk(k)'
      BY <2>1, <3>5, <3>6, <3>7 DEF HandOk, JobsOk
    <3> QED BY <2>2, <3>5, <3>9, <3>10, TurnParts
  <2>6. CASE Joined(k)
    <3>1. /\ hand[k] # NoConn /\ cls[<<hand[k], Handler>>] \in {"none", "done"}
          /\ hand' = [hand EXCEPT ![k] = NoConn] /\ batch' = batch
      BY <2>6 DEF Joined
    <3>2. /\ \A l \in Loops : l # k => hand'[l] = hand[l]
          /\ hand'[k] = NoConn
      BY <1>0, <3>1
    <3>3. \A c \in Conns, j \in Jobs : loop[c] = k => cls[<<c, j>>] \in {"none", "done"}
      BY <2>3, <3>1 DEF JobsOk
    <3>4. BatchOk(k)'
      BY <2>1, <2>3, <3>1, <3>2 DEF BatchOk
    <3>5. HandOk(k)' /\ JobsOk(k)'
      BY <2>1, <3>2, <3>3 DEF HandOk, JobsOk
    <3> QED BY <2>2, <3>1, <3>2, <3>4, <3>5, TurnParts
  <2> QED BY <1>7, <2>4, <2>5, <2>6 DEF Turn
<1> QED BY <1>1, <1>2, <1>3, <1>4, <1>5, <1>6, <1>7, TurnQuietKeeps, StepIs

-----------------------------------------------------------------------------
(* The counters *)

Stored == {"store", "done"}

\* What a step does to the sets that the counters are compared with.
SameSets(l) ==
  Counted(l)' = Counted(l) /\ Removals(l)' = Removals(l) /\ Updates(l)' = Updates(l)

\* A step that counts nothing.
Uncounting ==
  /\ UNCHANGED <<ConnCount, added, raced>>
  /\ \A d \in Conns : /\ reg[d] = "none" \/ loop'[d] = loop[d]
                      /\ reg'[d] \in Stored <=> reg[d] \in Stored
                      /\ reg'[d] = "store" <=> reg[d] = "store"
  /\ \A d \in Conns, w \in Closers : /\ cls'[<<d, w>>] \in Stored <=> cls[<<d, w>>] \in Stored
                                     /\ cls'[<<d, w>>] = "store" <=> cls[<<d, w>>] = "store"

\* It leaves these sets alone.
LEMMA UncountingSets ==
  ASSUME LifeInv, Uncounting, NEW l \in Loops
  PROVE  SameSets(l)
PROOF
<1>1. Counted(l)' = Counted(l)
  BY DEF Uncounting, Counted, Stored
<1>2. ASSUME NEW x \in Conns \X Closers
      PROVE  /\ x \in Removals(l)' <=> x \in Removals(l)
             /\ x \in Updates(l)' <=> x \in Updates(l)
  <2>1. PICK d \in Conns, w \in Closers : x = <<d, w>>
    OBVIOUS
  <2>2. reg[d] = "none" => cls[<<d, w>>] = "none"
    BY DEF LifeInv, Opened
  <2>3. /\ x \in Removals(l)' <=> loop'[d] = l /\ cls'[<<d, w>>] \in Stored
        /\ x \in Removals(l) <=> loop[d] = l /\ cls[<<d, w>>] \in Stored
    BY <2>1 DEF Removals, Stored
  <2>4. /\ x \in Updates(l)' <=>
             loop'[d] = l /\ (cls'[<<d, w>>] = "store" \/ (w = "opener" /\ reg'[d] = "store"))
        /\ x \in Updates(l) <=>
             loop[d] = l /\ (cls[<<d, w>>] = "store" \/ (w = "opener" /\ reg[d] = "store"))
    BY <2>1 DEF Updates
  <2>5. /\ reg[d] = "none" \/ loop'[d] = loop[d]
        /\ reg'[d] = "store" <=> reg[d] = "store"
        /\ cls'[<<d, w>>] \in Stored <=> cls[<<d, w>>] \in Stored
        /\ cls'[<<d, w>>] = "store" <=> cls[<<d, w>>] = "store"
    BY DEF Uncounting
  <2> QED BY <2>2, <2>3, <2>4, <2>5 DEF Stored
<1>3. Removals(l)' = Removals(l)
  <2>1. Removals(l)' \subseteq Conns \X Closers /\ Removals(l) \subseteq Conns \X Closers
    BY DEF Removals
  <2> QED BY <1>2, <2>1, Zenon
<1>4. Updates(l)' = Updates(l)
  <2>1. Updates(l)' \subseteq Conns \X Closers /\ Updates(l) \subseteq Conns \X Closers
    BY DEF Updates
  <2> QED BY <1>2, <2>1, Zenon
<1> QED BY <1>1, <1>3, <1>4 DEF SameSets

\* What was right about a loop's counter is still right.
LEMMA SameCountKeeps ==
  ASSUME NEW l \in Loops, CountRight(l), SameSets(l), ConnCount'[l] = ConnCount[l],
         \A x \in Updates(l) : added'[x] = added[x]
  PROVE  CountRight(l)'
PROOF
<1>1. /\ Counted(l)' = Counted(l) /\ Removals(l)' = Removals(l) /\ Updates(l)' = Updates(l)
  BY DEF SameSets
<1>2. (ConnCount[l] = Cardinality(Counted(l)) - Cardinality(Removals(l)))'
  BY <1>1, Zenon DEF CountRight
<1>3. (\A x, y \in Updates(l) : x = y)'
  BY <1>1, Zenon DEF CountRight
<1>4. \A x \in Updates(l) : added[x] = ConnCount[l]
  BY Zenon DEF CountRight
<1>5. (\A x \in Updates(l) : added[x] = ConnCount[l])'
  BY <1>1, <1>4, Zenon
<1> QED BY <1>2, <1>3, <1>5, Zenon DEF CountRight

\* A step that counts nothing keeps every counter right.
LEMMA UncountingKeeps ==
  ASSUME LifeInv, CounterInv, Uncounting
  PROVE  CounterInv'
PROOF
<1>1. raced' = raced /\ ConnCount' = ConnCount /\ added' = added
  BY DEF Uncounting
<1>2. ASSUME NEW l \in Loops \ raced
      PROVE  CountRight(l)'
  <2>1. CountRight(l) /\ SameSets(l)
    BY UncountingSets DEF CounterInv
  <2> QED BY <1>1, <2>1, SameCountKeeps
<1> QED BY <1>1, <1>2 DEF CounterInv, Loops

\* An update has a connection of its loop.
LEMMA UpdateIsOwn ==
  ASSUME NEW l, NEW x \in Updates(l)
  PROVE  x \in Conns \X Closers /\ loop[x[1]] = l
PROOF
  BY DEF Updates

\* AddConnCount: the loop's counter moves with what it counts, and the update is
\* the only one or the loop is noted as raced.
LEMMA AddKeeps ==
  ASSUME RegistryTypeOK, CounterInv, NEW c \in Conns, NEW w \in Closers, NEW i \in Int,
         NEW l \in Loops, l = loop[c], CountAdd(c, w, i),
         \A m \in Loops : m # l => SameSets(m),
         Updates(l)' = Updates(l) \cup {<<c, w>>},
         Cardinality(Counted(l))' - Cardinality(Removals(l))' =
           (Cardinality(Counted(l)) - Cardinality(Removals(l))) + i
  PROVE  CounterInv'
PROOF
<1>0. ConnCount \in [Loops -> Int] /\ added \in [Conns \X Closers -> Int]
  BY DEF RegistryTypeOK
<1>1. PICK v \in Int : v = ConnCount[l] + i
  BY <1>0
<1>a. <<c, w>> \in Conns \X Closers /\ <<c, w>>[1] = c
  OBVIOUS
<1>2. PICK x \in Conns \X Closers : x = <<c, w>> /\ x[1] = c
  BY <1>a, Zenon
<1>3. /\ ConnCount' = [ConnCount EXCEPT ![l] = v]
      /\ added' = [added EXCEPT ![x] = v]
      /\ raced' = IF Updates(l) # {} THEN raced \cup {l} ELSE raced
  BY <1>0, <1>1, <1>2 DEF CountAdd
<1>4. ConnCount'[l] = v /\ added'[x] = v
  BY <1>0, <1>3
<1>5. ASSUME NEW m \in Loops, m \notin raced', m # l
      PROVE  CountRight(m)'
  <2>1. CountRight(m) /\ SameSets(m)
    BY <1>3, <1>5 DEF CounterInv
  <2>2. ConnCount'[m] = ConnCount[m]
    BY <1>0, <1>3, <1>5
  <2>3. ASSUME NEW y \in Updates(m)
        PROVE  added'[y] = added[y]
    <3>1. y \in Conns \X Closers /\ y # x
      BY <1>2, <1>5, UpdateIsOwn
    <3> QED BY <1>0, <1>3, <3>1
  <2> QED BY <2>1, <2>2, <2>3, SameCountKeeps
<1>6. ASSUME l \notin raced'
      PROVE  CountRight(l)'
  <2>1. l \notin raced /\ Updates(l) = {}
    BY <1>3, <1>6
  <2>2. Updates(l)' = {x}
    BY <1>2, <2>1
  <2>3. ConnCount[l] = Cardinality(Counted(l)) - Cardinality(Removals(l))
    BY <2>1 DEF CounterInv, CountRight
  <2>4. ConnCount'[l] = Cardinality(Counted(l))' - Cardinality(Removals(l))'
    BY <1>1, <1>4, <2>3, Zenon
  <2>5. (ConnCount[l] = Cardinality(Counted(l)) - Cardinality(Removals(l)))'
    BY <2>4, Zenon
  <2>6. (\A y \in Updates(l) : added[y] = ConnCount[l])'
    BY <1>4, <2>2, Zenon
  <2>7. (\A y, z \in Updates(l) : y = z)'
    BY <2>2, Zenon
  <2> QED BY <2>5, <2>6, <2>7, Zenon DEF CountRight
<1> QED BY <1>5, <1>6 DEF CounterInv, Loops

\* The store of the result: it stores what the counter shows.
LEMMA StoreKeeps ==
  ASSUME RegistryTypeOK, CounterInv, NEW c \in Conns, NEW w \in Closers,
         NEW l \in Loops, l = loop[c], CountStore(c, w), <<c, w>> \in Updates(l),
         \A m \in Loops : Counted(m)' = Counted(m) /\ Removals(m)' = Removals(m),
         \A m \in Loops : m # l => Updates(m)' = Updates(m),
         Updates(l)' = Updates(l) \ {<<c, w>>}
  PROVE  CounterInv'
PROOF
<1>0. ConnCount \in [Loops -> Int] /\ added \in [Conns \X Closers -> Int]
  BY DEF RegistryTypeOK
<1>a. <<c, w>> \in Conns \X Closers /\ <<c, w>>[1] = c
  OBVIOUS
<1>1. PICK x \in Conns \X Closers : x = <<c, w>> /\ x[1] = c
  BY <1>a, Zenon
<1>2. PICK v \in Int : v = added[x]
  BY <1>0
<1>3. /\ ConnCount' = [ConnCount EXCEPT ![l] = v]
      /\ added' = [added EXCEPT ![x] = 0] /\ raced' = raced
  BY <1>1, <1>2 DEF CountStore
<1>4. ASSUME NEW m \in Loops, m \notin raced, m # l
      PROVE  CountRight(m)'
  <2>1. CountRight(m) /\ SameSets(m)
    BY <1>4 DEF CounterInv, SameSets
  <2>2. ConnCount'[m] = ConnCount[m]
    BY <1>0, <1>3, <1>4
  <2>3. ASSUME NEW y \in Updates(m)
        PROVE  added'[y] = added[y]
    <3>1. y \in Conns \X Closers /\ y # x
      BY <1>1, <1>4, UpdateIsOwn
    <3> QED BY <1>0, <1>3, <3>1
  <2> QED BY <2>1, <2>2, <2>3, SameCountKeeps
<1>5. ASSUME l \notin raced
      PROVE  CountRight(l)'
  <2>1. /\ ConnCount[l] = Cardinality(Counted(l)) - Cardinality(Removals(l))
        /\ \A y, z \in Updates(l) : y = z
        /\ \A y \in Updates(l) : added[y] = ConnCount[l]
    BY <1>5 DEF CounterInv, CountRight
  <2>2. ConnCount'[l] = ConnCount[l]
    BY <1>0, <1>1, <1>2, <1>3, <2>1
  <2>3. Updates(l)' = {}
    BY <2>1
  <2>4. (ConnCount[l] = Cardinality(Counted(l)) - Cardinality(Removals(l)))'
    BY <2>1, <2>2, Zenon
  <2> QED BY <2>3, <2>4 DEF CountRight
<1> QED BY <1>3, <1>4, <1>5 DEF CounterInv, Loops

\* Finite sets with one more element.
LEMMA OneMore ==
  ASSUME NEW T, IsFiniteSet(T), NEW S \in SUBSET T, NEW e \in T, e \notin S
  PROVE  /\ Cardinality(S \cup {e}) = Cardinality(S) + 1
         /\ Cardinality(S) \in Nat
PROOF
<1>1. IsFiniteSet(S)
  BY FS_Subset
<1> QED BY <1>1, FS_AddElement, FS_CardinalityType

\* There are finitely many connections and calls of Close.
LEMMA FinitelyMany == IsFiniteSet(Conns) /\ IsFiniteSet(Conns \X Closers)
PROOF
<1>1. IsFiniteSet(Conns) /\ IsFiniteSet(Jobs) /\ IsFiniteSet({"opener"})
  BY RegistryAssumption, FS_Singleton
<1>2. IsFiniteSet(Closers)
  BY <1>1, FS_Union DEF Closers
<1> QED BY <1>1, <1>2, FS_Product

\* Their sets have sizes.
LEMMA SizesAreNumbers ==
  ASSUME NEW l
  PROVE  /\ Cardinality(Counted(l)) \in Nat /\ Cardinality(Removals(l)) \in Nat
         /\ Counted(l) \in SUBSET Conns /\ Removals(l) \in SUBSET (Conns \X Closers)
PROOF
<1>1. Counted(l) \in SUBSET Conns /\ Removals(l) \in SUBSET (Conns \X Closers)
  BY DEF Counted, Removals
<1>2. IsFiniteSet(Counted(l)) /\ IsFiniteSet(Removals(l))
  BY <1>1, FinitelyMany, FS_Subset
<1> QED BY <1>1, <1>2, FS_CardinalityType

\* Every step keeps the counters right, unless it overlaps with another update.
LEMMA CounterStep ==
  ASSUME RegistryTypeOK, LifeInv, HolderInv, CounterInv, Next
  PROVE  CounterInv'
PROOF
<1> USE DEF kernel, turnVars, counter
<1>0. /\ reg \in [Conns -> RegPC] /\ fd \in [Conns -> Nums \cup {0}]
      /\ loop \in [Conns -> Loops \cup {0}] /\ "opener" \in Closers
  BY DEF RegistryTypeOK, Closers
<1>1. ASSUME MainTurn
      PROVE  Uncounting
  BY <1>0, <1>1 DEF MainTurn, Uncounting, Stored
<1>2. ASSUME NEW c \in Conns, Accept(c)
      PROVE  Uncounting
  <2>1. CASE Refused
    BY <1>2, <2>1, AcceptOutcome DEF Refused, Uncounting
  <2>2. ASSUME NEW n, NEW l, Accepted(c, n, l)
        PROVE  Uncounting
    <3>1. /\ reg[c] = "none" /\ UNCHANGED <<cls, ConnCount, added, raced>>
          /\ loop' = [loop EXCEPT ![c] = l] /\ reg' = [reg EXCEPT ![c] = "queued"]
      BY <1>2, <2>2, AcceptOutcome DEF Accepted
    <3> QED BY <1>0, <3>1 DEF Uncounting, Stored
  <2> QED BY <1>2, <2>1, <2>2, AcceptOutcome
<1>3. ASSUME NEW c \in Conns, RegFails(c) \/ RegList(c) \/ RegOpen(c) \/ RegError(c)
      PROVE  Uncounting
  BY <1>0, <1>3 DEF RegFails, RegList, RegOpen, RegError, RegGoto, Uncounting, Stored
<1>4. ASSUME NEW l \in Loops, Turn(l)
      PROVE  Uncounting
  BY <1>4, TurnIs DEF Uncounting
<1>5. ASSUME NEW c \in Conns, NEW w \in Closers, CloseTest(c, w)
      PROVE  Uncounting
  <2>1. /\ ClsMoves(c, w, "none", "passed")
        /\ UNCHANGED <<loop, reg, ConnCount, added, raced>>
    BY <1>5, TestIs
  <2> QED BY <2>1 DEF Uncounting, ClsMoves, Stored
<1>6. ASSUME NEW c \in Conns, NEW w \in Closers, CloseFd(c, w)
      PROVE  Uncounting
  <2>1. /\ ClsMoves(c, w, "passed", "unlist")
        /\ UNCHANGED <<loop, reg, ConnCount, added, raced>>
    BY <1>6, FdIs
  <2> QED BY <2>1 DEF Uncounting, ClsMoves, Stored
<1>7. ASSUME NEW c \in Conns, NEW w \in Closers, RemoveConn(c, w) \/ RemoveDelete(c, w)
      PROVE  Uncounting
  <2>1. UNCHANGED <<loop, reg, ConnCount, added, raced>>
    BY <1>7 DEF RemoveConn, RemoveDelete
  <2>2. \E p, q \in {"unlist", "unlisting", "uncount"} : ClsMoves(c, w, p, q)
    BY <1>7, ClsIs DEF RemoveConn, RemoveDelete, ClsPC
  <2> QED BY <2>1, <2>2 DEF Uncounting, ClsMoves, Stored
<1>8. ASSUME NEW c \in Conns, RegCount(c)
      PROVE  CounterInv'
  <2>1. /\ reg[c] = "open" /\ loop[c] \in Loops /\ reg' = [reg EXCEPT ![c] = "store"]
        /\ cls[<<c, "opener">>] \in {"none", "done"} /\ UNCHANGED <<loop, cls>>
    BY <1>8 DEF RegCount, RegGoto, LifeInv
  <2>2. PICK l \in Loops : l = loop[c]
    BY <2>1
  <2>3. PICK i \in Int : i = 1
    OBVIOUS
  <2>4. CountAdd(c, "opener", i)
    BY <1>8, <2>3, Zenon DEF RegCount
  <2>5. \A d \in Conns : reg'[d] = IF d = c THEN "store" ELSE reg[d]
    BY <1>0, <2>1
  <2>6. \A m \in Loops : Removals(m)' = Removals(m)
    BY <2>1 DEF Removals
  <2>7. \A m \in Loops : m # l => Counted(m)' = Counted(m)
    BY <2>1, <2>2, <2>5 DEF Counted
  <2>8. c \notin Counted(l) /\ Counted(l)' = Counted(l) \cup {c}
    BY <2>1, <2>2, <2>5 DEF Counted
  <2>9. \A m \in Loops : m # l => Updates(m)' = Updates(m)
    BY <2>1, <2>2, <2>5 DEF Updates
  <2>10. Updates(l)' = Updates(l) \cup {<<c, "opener">>}
    <3>1. ASSUME NEW x \in Conns \X Closers
          PROVE  x \in Updates(l)' <=> x \in Updates(l) \/ x = <<c, "opener">>
      <4>1. PICK d \in Conns, w \in Closers : x = <<d, w>>
        OBVIOUS
      <4>2. /\ x \in Updates(l)' <=>
                 loop[d] = l /\ (cls[<<d, w>>] = "store" \/ (w = "opener" /\ reg'[d] = "store"))
            /\ x \in Updates(l) <=>
                 loop[d] = l /\ (cls[<<d, w>>] = "store" \/ (w = "opener" /\ reg[d] = "store"))
        BY <2>1, <4>1 DEF Updates
      <4> QED BY <2>1, <2>2, <2>5, <4>1, <4>2
    <3>2. /\ Updates(l)' \subseteq Conns \X Closers /\ Updates(l) \subseteq Conns \X Closers
          /\ <<c, "opener">> \in Conns \X Closers
      BY <1>0 DEF Updates
    <3> QED BY <3>1, <3>2, Zenon
  <2>11. Cardinality(Counted(l))' - Cardinality(Removals(l))' =
           (Cardinality(Counted(l)) - Cardinality(Removals(l))) + i
    <3>1. PICK a, b \in Nat : a = Cardinality(Counted(l)) /\ b = Cardinality(Removals(l))
      BY SizesAreNumbers
    <3>2. Cardinality(Counted(l) \cup {c}) = a + 1
      BY <2>8, <3>1, SizesAreNumbers, FinitelyMany, OneMore, Zenon
    <3>3. Cardinality(Counted(l))' = a + 1 /\ Cardinality(Removals(l))' = b
      BY <2>6, <2>8, <3>1, <3>2, Zenon
    <3>4. (a + 1) - b = (a - b) + i
      BY <2>3
    <3> QED BY <3>1, <3>3, <3>4, Zenon
  <2>12. \A m \in Loops : m # l => SameSets(m)
    BY <2>6, <2>7, <2>9 DEF SameSets
  <2> QED BY <1>0, <2>2, <2>4, <2>10, <2>11, <2>12, AddKeeps
<1>9. ASSUME NEW c \in Conns, RegStore(c)
      PROVE  CounterInv'
  <2>1. /\ reg[c] = "store" /\ loop[c] \in Loops /\ reg' = [reg EXCEPT ![c] = "done"]
        /\ cls[<<c, "opener">>] \in {"none", "done"} /\ UNCHANGED <<loop, cls>>
        /\ CountStore(c, "opener")
    BY <1>9 DEF RegStore, RegGoto, LifeInv
  <2>2. PICK l \in Loops : l = loop[c]
    BY <2>1
  <2>3. \A d \in Conns : reg'[d] = IF d = c THEN "done" ELSE reg[d]
    BY <1>0, <2>1
  <2>4. \A m \in Loops : Counted(m)' = Counted(m) /\ Removals(m)' = Removals(m)
    BY <2>1, <2>3 DEF Removals, Counted
  <2>5. \A m \in Loops : m # l => Updates(m)' = Updates(m)
    BY <2>1, <2>2, <2>3 DEF Updates
  <2>6. Updates(l)' = Updates(l) \ {<<c, "opener">>} /\ <<c, "opener">> \in Updates(l)
    <3>1. ASSUME NEW x \in Conns \X Closers
          PROVE  /\ x \in Updates(l)' <=> x \in Updates(l) /\ x # <<c, "opener">>
                 /\ x = <<c, "opener">> => x \in Updates(l)
      <4>1. PICK d \in Conns, w \in Closers : x = <<d, w>>
        OBVIOUS
      <4>2. /\ x \in Updates(l)' <=>
                 loop[d] = l /\ (cls[<<d, w>>] = "store" \/ (w = "opener" /\ reg'[d] = "store"))
            /\ x \in Updates(l) <=>
                 loop[d] = l /\ (cls[<<d, w>>] = "store" \/ (w = "opener" /\ reg[d] = "store"))
        BY <2>1, <4>1 DEF Updates
      <4> QED BY <2>1, <2>2, <2>3, <4>1, <4>2
    <3>2. /\ Updates(l)' \subseteq Conns \X Closers /\ Updates(l) \subseteq Conns \X Closers
          /\ <<c, "opener">> \in Conns \X Closers
      BY <1>0 DEF Updates
    <3> QED BY <3>1, <3>2, Zenon
  <2> QED BY <1>0, <2>1, <2>2, <2>4, <2>5, <2>6, StoreKeeps
<1>10. ASSUME NEW c \in Conns, NEW w \in Closers, RemoveCount(c, w)
       PROVE  CounterInv'
  <2>1. ClsMoves(c, w, "uncount", "store") /\ UNCHANGED <<loop, reg>>
    BY <1>10, ClsIs DEF RemoveCount, ClsPC
  <2>2. loop[c] \in Loops /\ cls[<<c, w>>] = "uncount" /\ (w = "opener" => reg[c] = "open")
    BY <2>1 DEF ClsMoves, LifeInv, Opened
  <2>3. PICK l \in Loops : l = loop[c]
    BY <2>2
  <2>4. PICK i \in Int : i = -1
    OBVIOUS
  <2>5. CountAdd(c, w, i)
    BY <1>10, <2>4, Zenon DEF RemoveCount
  <2>6. ASSUME NEW x \in Conns \X Closers, NEW m \in Loops
        PROVE  /\ x \in Updates(m)' <=> x \in Updates(m) \/ (m = l /\ x = <<c, w>>)
               /\ x \in Removals(m)' <=> x \in Removals(m) \/ (m = l /\ x = <<c, w>>)
               /\ x = <<c, w>> => x \notin Removals(m)
    <3>1. PICK d \in Conns, v \in Closers : x = <<d, v>>
      OBVIOUS
    <3>2. /\ x \in Updates(m)' <=>
               loop[d] = m /\ (cls'[<<d, v>>] = "store" \/ (v = "opener" /\ reg[d] = "store"))
          /\ x \in Updates(m) <=>
               loop[d] = m /\ (cls[<<d, v>>] = "store" \/ (v = "opener" /\ reg[d] = "store"))
          /\ x \in Removals(m)' <=> loop[d] = m /\ cls'[<<d, v>>] \in Stored
          /\ x \in Removals(m) <=> loop[d] = m /\ cls[<<d, v>>] \in Stored
      BY <2>1, <3>1 DEF Updates, Removals, Stored
    <3>3. cls'[<<d, v>>] = IF d = c /\ v = w THEN "store" ELSE cls[<<d, v>>]
      BY <2>1 DEF ClsMoves
    <3>4. x = <<c, w>> <=> d = c /\ v = w
      BY <3>1
    <3> QED BY <2>2, <2>3, <3>2, <3>3, <3>4 DEF Stored
  <2>7. <<c, w>> \in Conns \X Closers
    OBVIOUS
  <2>8. \A m \in Loops : /\ Updates(m)' \subseteq Conns \X Closers
                         /\ Updates(m) \subseteq Conns \X Closers
                         /\ Removals(m)' \subseteq Conns \X Closers
                         /\ Removals(m) \subseteq Conns \X Closers
    BY DEF Updates, Removals
  <2>9. \A m \in Loops : Counted(m)' = Counted(m)
    BY <2>1 DEF Counted
  <2>10. \A m \in Loops : m # l => SameSets(m)
    <3> SUFFICES ASSUME NEW m \in Loops, m # l
                 PROVE  Updates(m)' = Updates(m) /\ Removals(m)' = Removals(m)
      BY <2>9 DEF SameSets
    <3> QED BY <2>6, <2>8, Zenon
  <2>11. Updates(l)' = Updates(l) \cup {<<c, w>>}
    BY <2>6, <2>7, <2>8, Zenon
  <2>12. Removals(l)' = Removals(l) \cup {<<c, w>>} /\ <<c, w>> \notin Removals(l)
    BY <2>6, <2>7, <2>8, Zenon
  <2>13. Cardinality(Counted(l))' - Cardinality(Removals(l))' =
           (Cardinality(Counted(l)) - Cardinality(Removals(l))) + i
    <3>1. PICK a, b \in Nat : a = Cardinality(Counted(l)) /\ b = Cardinality(Removals(l))
      BY SizesAreNumbers
    <3>2. Cardinality(Removals(l) \cup {<<c, w>>}) = b + 1
      BY <2>7, <2>12, <3>1, SizesAreNumbers, FinitelyMany, OneMore, Zenon
    <3>3. Cardinality(Counted(l))' = a /\ Cardinality(Removals(l))' = b + 1
      BY <2>9, <2>12, <3>1, <3>2, Zenon
    <3>4. a - (b + 1) = (a - b) + i
      BY <2>4
    <3> QED BY <3>1, <3>3, <3>4, Zenon
  <2> QED BY <2>3, <2>5, <2>10, <2>11, <2>13, AddKeeps
<1>11. ASSUME NEW c \in Conns, NEW w \in Closers, RemoveStore(c, w)
       PROVE  CounterInv'
  <2>1. ClsMoves(c, w, "store", "done") /\ UNCHANGED <<loop, reg>> /\ CountStore(c, w)
    BY <1>11, ClsIs DEF RemoveStore, ClsPC
  <2>2. loop[c] \in Loops /\ cls[<<c, w>>] = "store" /\ (w = "opener" => reg[c] = "open")
    BY <2>1 DEF ClsMoves, LifeInv, Opened
  <2>3. PICK l \in Loops : l = loop[c]
    BY <2>2
  <2>4. ASSUME NEW x \in Conns \X Closers, NEW m \in Loops
        PROVE  /\ x \in Updates(m)' <=> x \in Updates(m) /\ ~(m = l /\ x = <<c, w>>)
               /\ x \in Removals(m)' <=> x \in Removals(m)
               /\ x = <<c, w>> => x \in Updates(l)
    <3>1. PICK d \in Conns, v \in Closers : x = <<d, v>>
      OBVIOUS
    <3>2. /\ x \in Updates(m)' <=>
               loop[d] = m /\ (cls'[<<d, v>>] = "store" \/ (v = "opener" /\ reg[d] = "store"))
          /\ \A k \in Loops : x \in Updates(k) <=>
               loop[d] = k /\ (cls[<<d, v>>] = "store" \/ (v = "opener" /\ reg[d] = "store"))
          /\ x \in Removals(m)' <=> loop[d] = m /\ cls'[<<d, v>>] \in Stored
          /\ x \in Removals(m) <=> loop[d] = m /\ cls[<<d, v>>] \in Stored
      BY <2>1, <3>1 DEF Updates, Removals, Stored
    <3>3. cls'[<<d, v>>] = IF d = c /\ v = w THEN "done" ELSE cls[<<d, v>>]
      BY <2>1 DEF ClsMoves
    <3>4. x = <<c, w>> <=> d = c /\ v = w
      BY <3>1
    <3> QED BY <2>2, <2>3, <3>2, <3>3, <3>4 DEF Stored
  <2>5. <<c, w>> \in Conns \X Closers
    OBVIOUS
  <2>6. \A m \in Loops : /\ Updates(m)' \subseteq Conns \X Closers
                         /\ Updates(m) \subseteq Conns \X Closers
                         /\ Removals(m)' \subseteq Conns \X Closers
                         /\ Removals(m) \subseteq Conns \X Closers
    BY DEF Updates, Removals
  <2>7. \A m \in Loops : Counted(m)' = Counted(m) /\ Removals(m)' = Removals(m)
    <3> SUFFICES ASSUME NEW m \in Loops
                 PROVE  Counted(m)' = Counted(m) /\ Removals(m)' = Removals(m)
      OBVIOUS
    <3>1. Counted(m)' = Counted(m)
      BY <2>1 DEF Counted
    <3>2. Removals(m)' = Removals(m)
      BY <2>4, <2>6, Zenon
    <3> QED BY <3>1, <3>2
  <2>8. \A m \in Loops : m # l => Updates(m)' = Updates(m)
    <3> SUFFICES ASSUME NEW m \in Loops, m # l
                 PROVE  Updates(m)' = Updates(m)
      OBVIOUS
    <3> QED BY <2>4, <2>6, Zenon
  <2>9. Updates(l)' = Updates(l) \ {<<c, w>>} /\ <<c, w>> \in Updates(l)
    BY <2>4, <2>5, <2>6, Zenon
  <2> QED BY <2>1, <2>3, <2>7, <2>8, <2>9, StoreKeeps
<1> QED BY <1>1, <1>2, <1>3, <1>4, <1>5, <1>6, <1>7, <1>8, <1>9, <1>10, <1>11,
           UncountingKeeps, StepIs DEF Stage, Removal

-----------------------------------------------------------------------------
(* The theorems *)

\* The loops Serve makes satisfy the invariant.
LEMMA RInvInit == Init => RInv
PROOF
<1> SUFFICES ASSUME Init PROVE RInv
  OBVIOUS
<1>1. RegistryTypeOK
  <2>1. /\ nextIndex \in 0..NumOfLoops /\ balancer \in LoadBalancers
        /\ cls \in [Conns \X Closers -> ClsPC] /\ added \in [Conns \X Closers -> Int]
    BY RegistryAssumption DEF Init, ClsPC
  <2> QED BY <2>1 DEF Init, RegistryTypeOK, RegPC
<1>2. /\ \A c \in Conns : reg[c] = "none" /\ fd[c] = 0
      /\ \A n \in Nums : holder[n] = NoConn /\ watch[n] = {}
      /\ opened = {} /\ 0 \notin Nums
      /\ \A l \in Loops, n \in Nums : ConnList[l][n] = NoConn
      /\ \A l \in Loops : batch[l] = {} /\ hand[l] = NoConn /\ ConnCount[l] = 0
  BY DEF Init, Nums
<1>3. \A c \in Conns, w \in Closers : cls[<<c, w>>] = "none"
  BY DEF Init
<1>4. LifeInv /\ HolderInv
  BY <1>2, <1>3 DEF LifeInv, HolderInv, Closers
<1>5. WatchInv /\ NumberInv
  BY <1>2 DEF WatchInv, NumberInv, HasFd
<1>6. ListInv
  BY <1>2 DEF ListInv, EntryInv, ClosedIsForgotten, ListedUnlessReused, HasFd
<1>7. TurnInv
  BY <1>2, <1>3 DEF TurnInv, Closers
<1>8. CounterInv
  <2> SUFFICES ASSUME NEW l \in Loops
               PROVE  CountRight(l)
    BY DEF CounterInv
  <2>1. Counted(l) = {} /\ Removals(l) = {} /\ Updates(l) = {}
    BY DEF Init, Counted, Removals, Updates
  <2>2. ConnCount[l] = 0 /\ Cardinality({}) = 0
    BY <1>2, FS_EmptySet
  <2> QED BY <2>1, <2>2 DEF CountRight
<1> QED BY <1>1, <1>4, <1>5, <1>6, <1>7, <1>8 DEF RInv

\* Every step keeps it.
LEMMA RInvStep == RInv /\ [Next]_vars => RInv'
PROOF
<1> SUFFICES ASSUME RInv, [Next]_vars PROVE RInv'
  OBVIOUS
<1>1. CASE Next
  <2>1. /\ RegistryTypeOK /\ LifeInv /\ HolderInv /\ WatchInv /\ NumberInv /\ ListInv
        /\ EntryInv /\ TurnInv /\ CounterInv
    BY DEF RInv, ListInv
  <2>2. RegistryTypeOK' /\ LifeInv' /\ HolderInv' /\ WatchInv' /\ NumberInv'
    BY <1>1, <2>1, TypeStep, LifeStep, HolderStep, WatchStep, NumberStep
  <2>3. ListInv' /\ TurnInv' /\ CounterInv'
    BY <1>1, <2>1, ListStep, TurnStep, CounterStep
  <2> QED BY <2>2, <2>3 DEF RInv
<1>2. CASE UNCHANGED vars
  <2> USE <1>2 DEF vars, kernel, turnVars, counter
  <2>1. RegistryTypeOK' /\ LifeInv' /\ HolderInv'
    BY DEF RInv, RegistryTypeOK, LifeInv, HolderInv
  <2>2. WatchInv' /\ NumberInv'
    BY DEF RInv, WatchInv, NumberInv, HasFd
  <2>3. ListInv'
    BY DEF RInv, HasFd, ListInv, EntryInv, ClosedIsForgotten, ListedUnlessReused
  <2>4. TurnInv'
    BY DEF RInv, TurnInv
  <2>5. CounterInv'
    <3>1. Uncounting
      BY DEF Uncounting
    <3> QED BY <3>1, UncountingKeeps DEF RInv
  <2> QED BY <2>1, <2>2, <2>3, <2>4, <2>5 DEF RInv
<1> QED BY <1>1, <1>2

\* RInv is an invariant of the loops, whatever main loop, sub loops and calls of
\* Close interleave.
THEOREM RegistryInvariant == Spec => []RInv
PROOF BY RInvInit, RInvStep, PTL DEF Spec

\* The registry's state keeps its types: accept always finds a number, and a
\* watched number stands for a connection.
THEOREM RegistryTypeCorrect == Spec => []RegistryTypeOK
PROOF
<1>1. RInv => RegistryTypeOK
  BY DEF RInv
<1> QED BY <1>1, RegistryInvariant, PTL

\* What the invariant says of the entry under a fetched event's number.
LEMMA EntryIsOwn == RInv => EventReachesOwner
PROOF
<1> SUFFICES ASSUME RInv, NEW l \in Loops \ clash, hand[l] = NoConn, NEW e \in batch[l]
             PROVE  \/ ConnList[l][e[1]] \in {e[2], NoConn}
                    \/ loop[e[2]] # l \/ ClosedByMain(e[2])
                    \/ {e[2], ConnList[l][e[1]]} \cap stolen # {}
  BY Zenon DEF EventReachesOwner
<1>0. /\ batch \in [Loops -> SUBSET (Nums \X Conns)] /\ NoConn \notin Conns
      /\ ConnList \in [Loops -> [Nums -> Conns \cup {NoConn}]]
      /\ cls \in [Conns \X Closers -> ClsPC] /\ "opener" \in Closers
  BY RegistryAssumption DEF RInv, RegistryTypeOK, Closers
<1>1. PICK n \in Nums, c \in Conns : e = <<n, c>>
  BY <1>0
<1>2. PICK d \in Conns \cup {NoConn} : d = ConnList[l][n]
  BY <1>0
<1> SUFFICES ASSUME d \in Conns, d # c, loop[c] = l, ~ClosedByMain(c), c \notin stolen,
                    d \notin stolen
             PROVE  FALSE
  BY <1>1, <1>2
<1>3. BatchOk(l) /\ JobsOk(l)
  BY TurnParts DEF RInv
<1>4. fd[c] = n /\ reg[c] # "none" /\ \A j \in Jobs : cls[<<c, j>>] = "none"
  BY <1>1, <1>3 DEF BatchOk
<1>5. \A j \in Jobs : loop[d] = l => cls[<<d, j>>] \in {"none", "done"}
  BY <1>0, <1>1, <1>3 DEF JobsOk
<1>6. loop[d] = l /\ fd[d] = n /\ reg[d] \in Opened
  BY <1>0, <1>2 DEF RInv, ListInv, EntryInv
<1>7. \A w \in Closers : cls[<<d, w>>] \in {"none", "passed", "unlist", "unlisting"}
  BY <1>0, <1>2 DEF RInv, ListInv, ClosedIsForgotten
<1>8. \A j \in Jobs : cls[<<d, j>>] = "none"
  BY <1>5, <1>6, <1>7 DEF Closers
<1>9. \A w \in Closers : cls[<<c, w>>] \in {"none", "passed"}
  BY <1>4 DEF Closers, ClosedByMain
<1>10. holder[fd[c]] = c /\ HasFd(c)
  <2>1. reg[c] \notin {"none", "failed"}
    BY <1>4 DEF ClosedByMain
  <2>2. fd[c] \in Nums
    BY <2>1 DEF RInv, LifeInv
  <2> QED BY <1>9, <2>1, <2>2 DEF RInv, HolderInv, HasFd
<1>11. cls[<<d, "opener">>] \in {"none", "passed"}
  <2>1. cls[<<d, "opener">>] \in {"none", "passed", "done"}
    BY <1>4, <1>6, <1>10 DEF RInv, NumberInv
  <2> QED BY <1>0, <1>7, <2>1
<1>12. \A w \in Closers : cls[<<d, w>>] \in {"none", "passed"}
  BY <1>8, <1>11 DEF Closers
<1>13. holder[fd[d]] = d
  BY <1>6, <1>12 DEF RInv, HolderInv, Opened
<1> QED BY <1>4, <1>6, <1>10, <1>13

\* An event of a batch never reaches a connection other than the one it was fetched
\* for, apart from the named exceptions, for any number of connections, loops,
\* reuses of a number and calls of Close.
THEOREM EventsAlwaysReachOwner == Spec => []EventReachesOwner
PROOF BY EntryIsOwn, RegistryInvariant, PTL

\* An open connection is in its loop's ConnList unless its number was given away
\* before the list let go of it, however often connections are closed.
THEOREM OpenIsAlwaysListed == Spec => []ListedUnlessReused
PROOF
<1>1. RInv => ListedUnlessReused
  BY DEF RInv, ListInv
<1> QED BY <1>1, RegistryInvariant, PTL

\* A list never keeps a connection of which a Close is past RemoveConn.
THEOREM ClosedAlwaysForgotten == Spec => []ClosedIsForgotten
PROOF
<1>1. RInv => ClosedIsForgotten
  BY DEF RInv, ListInv
<1> QED BY <1>1, RegistryInvariant, PTL

\* Until two of its updates overlap, a loop's counter is the number of connections
\* counted minus the number of calls of RemoveConn, failed Opens and repeated
\* Closes included.
THEOREM CountAlwaysAccounts == Spec => []CountAccountsForAll
PROOF
<1>1. RInv => CountAccountsForAll
  <2> SUFFICES ASSUME RInv, NEW l \in Loops \ raced
               PROVE  ConnCount[l] = Cardinality(Counted(l)) - Cardinality(Removals(l))
    BY Zenon DEF CountAccountsForAll
  <2>1. CountRight(l)
    BY DEF RInv, CounterInv
  <2> QED BY <2>1, Zenon DEF CountRight
<1> QED BY <1>1, RegistryInvariant, PTL
=============================================================================
