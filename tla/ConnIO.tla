------------------------------- MODULE ConnIO -------------------------------
(***************************************************************************)
(* One connection (conn/conn.go, conn_write.go, conn_handler.go): how what *)
(* is written to it reaches the socket, and how it is opened and closed.   *)
(*                                                                         *)
(* Three kinds of goroutine touch a connection.  The opener runs           *)
(* RegisterConn as a task of the main loop.  The handler is the job a sub  *)
(* loop submits for an event of the descriptor, one at a time.  The tasks  *)
(* are the asyncWrite calls of the sub loop, which the pool runs at the    *)
(* same time as each other, but never beside the handler (the theorem      *)
(* TasksRunAlone of PollerProofs).  Each of them calls user code: OnOpen,  *)
(* OnTrack or the hook of the task, which may write to the connection and  *)
(* close it.                                                               *)
(*                                                                         *)
(* A message is MsgLen bytes <<m, 1>>, <<m, 2>>, ..., written whole or as  *)
(* the slices of SplitDataForWritev; the kernel takes as many bytes as it  *)
(* has room for.  The loop waits with epoll, or with kqueue, for which     *)
(* sys/sys_poll_darwin.go emulates epoll's interest by filters.            *)
(***************************************************************************)
EXTENDS Integers, Sequences, FiniteSets, SequencesExt

CONSTANTS
  TrackMsgs,   \* messages OnTrack writes itself (ConnNoneAdapter)
  TaskMsgs,    \* messages written with AsyncWrite, one task each
  HookMsgs,    \* messages the hooks of the tasks write
  OpenMsgs,    \* messages OnOpen writes, or returns to be written
  MsgLen,      \* bytes of a message
  SndBuf,      \* room of the socket's send buffer
  ChunkSize,   \* Conn.WritevChunkSize
  Platforms,   \* "epoll", "kqueue" or both
  MaxReads,    \* requests the peer sends: bounds the calls of OnTrack
  CanReset,    \* whether the peer may reset the connection
  UserCode     \* what the callbacks do besides writing

ASSUME ConnAssumption ==
  /\ MsgLen \in Nat \ {0} /\ SndBuf \in Nat \ {0} /\ MaxReads \in Nat
  /\ CanReset \in BOOLEAN
  /\ ChunkSize \in Nat \ {0}
  /\ Platforms \subseteq {"epoll", "kqueue"}
  /\ UserCode \subseteq {"closeInTrack", "closeInOpen", "closeInHook", "writeAfterClose"}
  /\ TrackMsgs \cap TaskMsgs = {}
  /\ OpenMsgs \cap (TrackMsgs \cup TaskMsgs) = {}
  /\ HookMsgs \cap (TrackMsgs \cup TaskMsgs \cup OpenMsgs) = {}
  /\ {"handler", "opener"} \cap TaskMsgs = {}

VARIABLES
  out,         \* OutBuffer
  interest,    \* what the sub loop's epoll or kqueue watches the descriptor for
  backend,     \* the platform
  kFilters,    \* kqueue: the interest that was stored for the descriptor
  ctx,         \* Conn.Ctx has been prepared
  owner,       \* whom the descriptor number belongs to: this Conn, none, other
  listed,      \* the Conn is in its loop's ConnList
  count,       \* what this Conn has added to its loop's ConnCount
  opened,      \* Conn.Opened
  pc,          \* where each goroutine is
  ret,         \* where it goes on when write or Close returns
  rest,        \* slices of bytes its write still has to send or to buffer
  room,        \* free space of the socket's send buffer
  pending,     \* requests that have arrived and were not read
  reads,       \* requests the peer has sent
  peer,        \* "up", "fin" after a FIN, "reset" after a RST
  sent,        \* history: all bytes handed to write, in the order of the calls
  wire,        \* history: all bytes the kernel took for this connection
  openErr,     \* Open has returned an error to RegisterConn
  closes,      \* history: calls of OnClose
  foreign,     \* history: this Conn read, wrote or closed another's descriptor
  raced,       \* history: two goroutines were inside OutBuffer at once
  overlapped,  \* history: Close passed its test while another Close was under way
  disturbed    \* history: the peer has reset, OnOpen or a hook has closed the
               \* connection, or user code has written after its own Close

wvars == <<out, interest, kFilters, sent, wire, rest, room>>
kvars == <<pending, reads, peer>>
hist == <<raced, overlapped, disturbed>>
lvars == <<backend, ctx, owner, listed, count, opened, openErr, closes, foreign, hist>>
cvars == <<wvars, kvars, lvars, pc, ret>>

Threads == {"handler", "opener"} \cup TaskMsgs

MinOf(a, b) == IF a <= b THEN a ELSE b

Bytes(m) == [i \in 1..MsgLen |-> <<m, i>>]

\* utils.SplitDataForWritev: a first chunk, one for every further multiple of
\* ChunkSize below the last byte, and the rest.  It panics when the chunks go
\* beyond the data, which is when more than one byte is left over.
ChunkCount == IF MsgLen < 2 THEN 1 ELSE 1 + (MsgLen - 2) \div ChunkSize

SplitDataForWritev(data) ==
  IF MsgLen <= ChunkSize THEN <<data>>
  ELSE [i \in 1..(ChunkCount + 1) |->
          SubSeq(data, (i - 1) * ChunkSize + 1, MinOf(i * ChunkSize, MsgLen))]

SplitPanics == MsgLen > ChunkSize /\ ChunkCount * ChunkSize > MsgLen

\* The vectors a caller passes on: data itself, or the adapter's slices of it (a
\* panic of the split leaves the connection alone).
Vectors(m) ==
  {<<Bytes(m)>>} \cup (IF SplitPanics THEN {} ELSE {SplitDataForWritev(Bytes(m))})

\* What packTcpConn has made, before the main loop runs RegisterConn.
CInit ==
  /\ backend \in Platforms
  /\ out = <<>> /\ interest = {} /\ kFilters = {} /\ sent = <<>> /\ wire = <<>>
  /\ rest = [t \in Threads |-> <<>>]
  /\ room = SndBuf
  /\ pending = 0 /\ reads = 0 /\ peer = "up"
  /\ owner = "self" /\ listed = FALSE /\ count = 0 /\ opened = FALSE /\ ctx = FALSE
  /\ openErr = FALSE /\ closes = 0 /\ foreign = FALSE
  /\ raced = FALSE /\ overlapped = FALSE /\ disturbed = FALSE
  /\ pc = [t \in Threads |-> IF t = "opener" THEN "register" ELSE "idle"]
  /\ ret = [t \in Threads |-> "idle"]

CGoto(t, from, to) ==
  /\ pc[t] = from
  /\ pc' = [pc EXCEPT ![t] = to]

\* Where a goroutine is about to change OutBuffer.
Mutating == {"buffer", "append", "discard", "flush", "release"}

Racing(t) == \E u \in Threads \ {t} : pc[u] \in Mutating

\* What OutBuffer looks like to t.  It has no lock: beside another goroutine that changes it,
\* t may find it empty, or with bytes in it that have been sent (bounded: the first time).
Seen(t) ==
  IF ~Racing(t) THEN {out}
  ELSE {out, <<>>} \cup (IF raced THEN {} ELSE {wire \o out})

-----------------------------------------------------------------------------
(* The interest of the sub loop in the descriptor *)

\* epoll_ctl replaces the events.  EPOLL_CTL_ADD fails for a watched descriptor,
\* EPOLL_CTL_MOD for any other.
AddFails == backend = "epoll" /\ interest # {}
ModFails == IF backend = "epoll" THEN interest = {} ELSE kFilters = {}

PollAdd(events) ==
  IF backend = "epoll"
  THEN /\ interest' = IF AddFails THEN interest ELSE events
       /\ UNCHANGED kFilters
  ELSE /\ interest' = interest \cup events
       /\ kFilters' = events

\* Defect: the difference of the filters is taken the wrong way round.
PollModAdds(events) ==
  /\ interest' = IF ModFails THEN interest
                 ELSE IF backend = "epoll" THEN events
                 ELSE interest \cup (kFilters \ events)
  /\ UNCHANGED kFilters

\* getKevents: the difference between the stored and the new events as filters to
\* add and to delete.  Mod does not store the new events.
PollMod(events) ==
  /\ interest' = IF ModFails THEN interest
                 ELSE IF backend = "epoll" THEN events
                 ELSE (interest \cup (events \ kFilters)) \ (kFilters \ events)
  /\ UNCHANGED kFilters

-----------------------------------------------------------------------------
(* Conn.write and Conn.writev, by any of the goroutines *)

\* A call of write or writev with message m, which returns to the label back.  Nothing
\* keeps user code from writing after its own Close.
Call(t, m, from, back) ==
  /\ CGoto(t, from, "write")
  /\ from = "closed" => "writeAfterClose" \in UserCode
  /\ disturbed' = (disturbed \/ from = "closed")
  /\ ret' = [ret EXCEPT ![t] = back]
  /\ \E data \in Vectors(m) : rest' = [rest EXCEPT ![t] = data]
  /\ sent' = sent \o Bytes(m)
  /\ UNCHANGED <<out, interest, kFilters, wire, room, kvars, backend, ctx, owner, listed, count,
                 opened, openErr, closes, foreign, raced, overlapped>>

\* Defect: OutBuffer is not looked at before the system call.
WriteCheckNever(t) ==
  /\ CGoto(t, "write", "syscall")
  /\ UNCHANGED <<wvars, kvars, lvars, ret>>

\* if !OutBuffer.IsEmpty() { return OutBuffer.Write(data) }, or Writev
WriteCheck(t) ==
  /\ CGoto(t, "write", IF out = <<>> THEN "syscall" ELSE "append")
  /\ UNCHANGED <<wvars, kvars, lvars, ret>>

\* Defect: the slice the kernel stopped in is kept whole.
RemainderWhole(data, n) ==
  IF n = Len(FlattenSeq(data)) THEN <<>>
  ELSE LET i == CHOOSE k \in DOMAIN data :
                  /\ Len(FlattenSeq(SubSeq(data, 1, k))) > n
                  /\ Len(FlattenSeq(SubSeq(data, 1, k - 1))) <= n
       IN SubSeq(data, i, Len(data))

\* What is left of a vector after n bytes: writev skips the slices that are sent
\* and cuts the one the kernel stopped in.
Remainder(data, n) ==
  IF n = Len(FlattenSeq(data)) THEN <<>>
  ELSE LET i == CHOOSE k \in DOMAIN data :
                  /\ Len(FlattenSeq(SubSeq(data, 1, k))) > n
                  /\ Len(FlattenSeq(SubSeq(data, 1, k - 1))) <= n
           skipped == Len(FlattenSeq(SubSeq(data, 1, i - 1)))
       IN <<SubSeq(data[i], n - skipped + 1, Len(data[i]))>> \o SubSeq(data, i + 1, Len(data))

\* sys.Write or sys.Writev: all of it, a part, EAGAIN (no room), or an error, on
\* which write calls Close.  A descriptor number that now names another connection takes
\* what that one has room for.
WriteSys(t) ==
  /\ pc[t] = "syscall"
  /\ \/ \E n \in 0..Len(FlattenSeq(rest[t])) :
          /\ \/ /\ owner = "self" /\ peer # "reset"
                /\ n = MinOf(room, Len(FlattenSeq(rest[t])))
                /\ wire' = wire \o SubSeq(FlattenSeq(rest[t]), 1, n)
                /\ room' = room - n
                /\ UNCHANGED foreign
             \/ /\ owner = "other"
                /\ foreign' = TRUE
                /\ UNCHANGED <<wire, room>>
          /\ rest' = [rest EXCEPT ![t] = Remainder(@, n)]
          /\ pc' = [pc EXCEPT ![t] = IF n = Len(FlattenSeq(rest[t])) THEN ret[t] ELSE "buffer"]
     \/ /\ owner # "self" \/ peer = "reset"
        /\ foreign' = (foreign \/ owner = "other")
        /\ pc' = [pc EXCEPT ![t] = "close"]
        /\ UNCHANGED <<wire, room, rest>>
  /\ UNCHANGED <<out, interest, kFilters, sent, kvars, backend, ctx, owner, listed, count, opened,
                 openErr, closes, hist, ret>>

\* OutBuffer.Write or Writev of what was not sent.
WriteBuffer(t) ==
  /\ pc[t] \in {"buffer", "append"}
  /\ \E seen \in Seen(t) : out' = seen \o FlattenSeq(rest[t])
  /\ raced' = (raced \/ Racing(t))
  /\ rest' = [rest EXCEPT ![t] = <<>>]
  /\ pc' = [pc EXCEPT ![t] = IF pc[t] = "buffer" THEN "modify" ELSE ret[t]]
  /\ UNCHANGED <<interest, kFilters, sent, wire, room, kvars, backend, ctx, owner, listed, count,
                 opened, openErr, closes, foreign, overlapped, disturbed, ret>>

\* The opener is writing the data OnOpen has returned: the error of that write is the
\* error of Open.
Returning(t) == t = "opener" /\ ret[t] = "addWrite"

\* Poller.ModReadWrite; its error is the error of write.
WriteModify(t) ==
  /\ CGoto(t, "modify", ret[t])
  /\ PollMod({"in", "out"})
  /\ openErr' = (openErr \/ (Returning(t) /\ ModFails))
  /\ foreign' = (foreign \/ owner = "other")
  /\ UNCHANGED <<out, sent, wire, rest, room, kvars, backend, ctx, owner, listed, count, opened,
                 closes, hist, ret>>

Write(t) ==
  WriteCheck(t) \/ WriteSys(t) \/ WriteBuffer(t) \/ WriteModify(t)

-----------------------------------------------------------------------------
(* Conn.Close, by any of the goroutines *)

\* Where a goroutine is past the test of Close.
Closing == {"flush", "remove", "unlist", "onClose", "release"}

\* Defect: Opened is not looked at.
CloseTestNever(t) ==
  /\ CGoto(t, "close", "flush")
  /\ overlapped' = (overlapped \/ \E u \in Threads \ {t} : pc[u] \in Closing)
  /\ UNCHANGED <<wvars, kvars, backend, ctx, owner, listed, count, opened, openErr, closes, foreign,
                 raced, disturbed, ret>>

\* Opened is tested without a lock, and is true until the end of a Close.
CloseTest(t) ==
  /\ CGoto(t, "close", IF opened THEN "flush" ELSE ret[t])
  /\ overlapped' = (overlapped \/ (opened /\ \E u \in Threads \ {t} : pc[u] \in Closing))
  /\ UNCHANGED <<wvars, kvars, backend, ctx, owner, listed, count, opened, openErr, closes, foreign,
                 raced, disturbed, ret>>

\* One turn of the loop that sends what is buffered.
CloseFlush(t) ==
  /\ CGoto(t, "flush", "flush")
  /\ \E seen \in Seen(t) : \E n \in 1..Len(seen) :
       /\ \/ /\ owner = "self" /\ peer # "reset" /\ n = MinOf(room, Len(seen))
             /\ wire' = wire \o SubSeq(seen, 1, n)
             /\ room' = room - n
             /\ UNCHANGED foreign
          \/ /\ owner = "other"
             /\ foreign' = TRUE
             /\ UNCHANGED <<wire, room>>
       /\ out' = SubSeq(seen, n + 1, Len(seen))
  /\ raced' = (raced \/ Racing(t))
  /\ UNCHANGED <<interest, kFilters, sent, rest, kvars, backend, ctx, owner, listed, count, opened,
                 openErr, closes, overlapped, disturbed, ret>>

\* The loop ends with OutBuffer, or with EAGAIN or another error.
CloseFlushed(t) ==
  /\ CGoto(t, "flush", "remove")
  /\ out = <<>> \/ room = 0 \/ owner # "self" \/ peer = "reset"
  /\ foreign' = (foreign \/ (owner = "other" /\ out # <<>>))
  /\ UNCHANGED <<wvars, kvars, backend, ctx, owner, listed, count, opened, openErr, closes, hist,
                 ret>>

\* Poller.RemoveFd, sys.CloseFd: the number is free for the next accept.  Both fail, and
\* so does Close, when the number is free already.
CloseRemove(t) ==
  /\ CGoto(t, "remove", "unlist")
  /\ interest' = {} /\ kFilters' = {}
  /\ owner' = "none"
  /\ openErr' = (openErr \/ (Returning(t) /\ owner # "self"))
  /\ foreign' = (foreign \/ owner = "other")
  /\ UNCHANGED <<out, sent, wire, rest, room, kvars, backend, ctx, listed, count, opened, closes,
                 hist, ret>>

\* Defect: RemoveConn does not count down.
CloseUnlistKeeps(t) ==
  /\ CGoto(t, "unlist", "onClose")
  /\ listed' = FALSE
  /\ UNCHANGED <<wvars, kvars, backend, ctx, owner, count, opened, openErr, closes, foreign, hist,
                 ret>>

\* Eloop.RemoveConn
CloseUnlist(t) ==
  /\ CGoto(t, "unlist", "onClose")
  /\ listed' = FALSE
  /\ count' = count - 1
  /\ UNCHANGED <<wvars, kvars, backend, ctx, owner, opened, openErr, closes, foreign, hist, ret>>

\* OnClose; Close passes its error on.
CloseNotify(t) ==
  /\ CGoto(t, "onClose", "release")
  /\ closes' = closes + 1
  /\ openErr' \in {openErr, openErr \/ Returning(t)}
  /\ UNCHANGED <<wvars, kvars, backend, ctx, owner, listed, count, opened, foreign, hist, ret>>

\* Defect: Opened is not reset.
CloseReleaseOpened(t) ==
  /\ CGoto(t, "release", ret[t])
  /\ out' = <<>> /\ ctx' = FALSE
  /\ raced' = (raced \/ Racing(t))
  /\ UNCHANGED <<interest, kFilters, sent, wire, rest, room, kvars, backend, owner, listed, count,
                 opened, openErr, closes, foreign, overlapped, disturbed, ret>>

\* releaseTCP
CloseRelease(t) ==
  /\ CGoto(t, "release", ret[t])
  /\ opened' = FALSE /\ ctx' = FALSE
  /\ out' = <<>>
  /\ raced' = (raced \/ Racing(t))
  /\ UNCHANGED <<interest, kFilters, sent, wire, rest, room, kvars, backend, owner, listed, count,
                 openErr, closes, foreign, overlapped, disturbed, ret>>

Close(t) ==
  \/ CloseTest(t) \/ CloseFlush(t) \/ CloseFlushed(t) \/ CloseRemove(t)
  \/ CloseUnlist(t) \/ CloseNotify(t) \/ CloseRelease(t)

-----------------------------------------------------------------------------
(* User code: OnTrack, OnOpen and the hooks of the tasks *)

UserLabel(t) ==
  IF t = "handler" THEN "track" ELSE IF t = "opener" THEN "onOpen" ELSE "hook"

MsgsOf(t) ==
  IF t = "handler" THEN TrackMsgs ELSE IF t = "opener" THEN OpenMsgs ELSE HookMsgs

Unwritten(m) == \A i \in 1..Len(sent) : sent[i][1] # m

\* A callback calls Write or Writev,
UserWrite(t) ==
  \E m \in MsgsOf(t) : \E l \in {UserLabel(t), "closed"} :
    Unwritten(m) /\ Call(t, m, l, l)

MayClose(t) ==
  (IF t = "handler" THEN "closeInTrack" ELSE IF t = "opener" THEN "closeInOpen" ELSE "closeInHook")
    \in UserCode

\* calls Close, also for the second time,
UserClose(t) ==
  /\ pc[t] \in {UserLabel(t), "closed"} /\ MayClose(t)
  /\ pc' = [pc EXCEPT ![t] = "close"]
  /\ ret' = [ret EXCEPT ![t] = "closed"]
  /\ disturbed' = (disturbed \/ t # "handler")
  /\ UNCHANGED <<wvars, kvars, backend, ctx, owner, listed, count, opened, openErr, closes, foreign,
                 raced, overlapped>>

\* or returns; OnOpen may return data, which goes through writeOnOpen.
UserReturn(t) ==
  \/ /\ pc[t] \in {UserLabel(t), "closed"}
     /\ pc' = [pc EXCEPT ![t] = IF t = "handler" THEN "idle"
                                ELSE IF t = "opener" THEN "addWrite" ELSE "done"]
     /\ UNCHANGED <<wvars, kvars, lvars, ret>>
  \/ /\ t = "opener"
     /\ \E m \in OpenMsgs : \E l \in {"onOpen", "closed"} :
          Unwritten(m) /\ Call(t, m, l, "addWrite")

User(t) == UserWrite(t) \/ UserClose(t) \/ UserReturn(t)

-----------------------------------------------------------------------------
(* RegisterConn and Open, a task of the main loop *)

\* Defect: the connection is listed before its context is prepared.
RegisterReadLists ==
  /\ CGoto("opener", "register", "context")
  /\ PollAdd({"in"})
  /\ listed' = TRUE
  /\ UNCHANGED <<out, sent, wire, rest, room, kvars, backend, ctx, owner, count, opened, openErr,
                 closes, foreign, hist, ret>>

RegisterRead ==
  /\ CGoto("opener", "register", "context")
  /\ PollAdd({"in"})
  /\ UNCHANGED <<out, sent, wire, rest, room, kvars, lvars, ret>>

\* AddRead fails: the descriptor is closed, the Conn never registered.
RegisterFails ==
  /\ CGoto("opener", "register", "idle")
  /\ owner' = "none"
  /\ UNCHANGED <<wvars, kvars, backend, ctx, listed, count, opened, openErr, closes, foreign, hist, ret>>

\* InitContext without TLS.  (The handshake reads Buffer, which is still empty, so
\* with TLS it fails, and the connection goes on without a context.)
RegisterContext ==
  /\ CGoto("opener", "context", "list")
  /\ ctx' = TRUE
  /\ UNCHANGED <<wvars, kvars, backend, owner, listed, count, opened, openErr, closes, foreign, hist, ret>>

\* ConnList[c.Fd] = c, before Open.
RegisterList ==
  /\ CGoto("opener", "list", "open")
  /\ listed' = TRUE
  /\ UNCHANGED <<wvars, kvars, backend, ctx, owner, count, opened, openErr, closes, foreign, hist, ret>>

OpenMark ==
  /\ CGoto("opener", "open", "onOpen")
  /\ opened' = TRUE
  /\ UNCHANGED <<wvars, kvars, backend, ctx, owner, listed, count, openErr, closes, foreign, hist, ret>>

\* If the write has not failed and OutBuffer is not empty, AddWrite: with epoll the descriptor is already
\* watched, so this fails (or it is gone), and RegisterConn does not count.
OpenCount ==
  /\ CGoto("opener", "addWrite", "idle")
  /\ IF openErr \/ out = <<>> THEN UNCHANGED <<interest, kFilters, openErr>>
     ELSE /\ openErr' = (AddFails \/ owner # "self")
          /\ IF owner = "self" THEN PollAdd({"out"}) ELSE UNCHANGED <<interest, kFilters>>
  /\ count' = IF openErr' THEN count ELSE count + 1
  /\ UNCHANGED <<out, sent, wire, rest, room, kvars, backend, ctx, owner, listed, opened, closes,
                 foreign, hist, ret>>

Opener ==
  \/ RegisterRead \/ RegisterFails \/ RegisterContext \/ RegisterList
  \/ OpenMark \/ User("opener") \/ OpenCount

-----------------------------------------------------------------------------
(* The handler of an event, and the tasks *)

TasksIdle == \A t \in TaskMsgs : pc[t] \in {"idle", "done"}

\* The events that are reported.  epoll always reports errors, which count as
\* OutEvents and as InEvents.  kqueue reports each filter on its own; the end of
\* the stream, or a reset, adds ClosedFdEvents.
Out_ ==
  \/ "out" \in interest /\ room > 0 /\ (backend = "kqueue" => peer # "reset")
  \/ backend = "epoll" /\ interest # {} /\ peer = "reset"

In_ ==
  /\ "in" \in interest
  /\ IF backend = "epoll" THEN (pending > 0 \/ peer # "up") /\ ~Out_
     ELSE pending > 0 /\ peer = "up"

Closed_ ==
  /\ backend = "kqueue"
  /\ (peer = "reset" /\ interest # {}) \/ (peer = "fin" /\ "in" \in interest)

\* The loop has fetched an event and found the connection.  AsyncHandleEventsAndWait looks
\* at OutEvents first; the pool runs the job later.
Fetch(event, label) ==
  /\ pc["handler"] = "idle" /\ listed /\ TasksIdle
  /\ event
  /\ pc' = [pc EXCEPT !["handler"] = label]
  /\ ret' = [ret EXCEPT !["handler"] = "idle"]
  /\ UNCHANGED <<wvars, kvars, lvars>>

FetchOut == Fetch(Out_, "out")
FetchIn == Fetch(In_, "in")

\* AsyncClose, before anything that has arrived is read.
FetchClosed == Fetch(Closed_, "close")

\* With an empty OutBuffer, iov[0] panics and the pool swallows the panic.  The opener may
\* have closed the descriptor by now.
EventOut ==
  /\ pc["handler"] = "out"
  /\ \E seen \in Seen("handler") :
       \/ /\ seen = <<>>
          /\ pc' = [pc EXCEPT !["handler"] = "idle"]
          /\ UNCHANGED <<wire, room, rest, foreign>>
       \/ /\ seen # <<>> /\ (owner # "self" \/ peer = "reset")
          /\ pc' = [pc EXCEPT !["handler"] = "close"]
          /\ foreign' = (foreign \/ owner = "other")
          /\ UNCHANGED <<wire, room, rest>>
       \/ \E n \in 0..Len(seen) :
          /\ seen # <<>>
          /\ \/ /\ owner = "self" /\ peer # "reset" /\ n = MinOf(room, Len(seen))
                /\ wire' = wire \o SubSeq(seen, 1, n)
                /\ room' = room - n
                /\ UNCHANGED foreign
             \/ /\ owner = "other"
                /\ foreign' = TRUE
                /\ UNCHANGED <<wire, room>>
          /\ rest' = [rest EXCEPT !["handler"] = <<SubSeq(seen, 1, n)>>]
          /\ pc' = [pc EXCEPT !["handler"] = "discard"]
  /\ raced' = (raced \/ Racing("handler"))
  /\ UNCHANGED <<out, interest, kFilters, sent, kvars, backend, ctx, owner, listed, count, opened,
                 openErr, closes, overlapped, disturbed, ret>>

Flushed == Len(FlattenSeq(rest["handler"]))

\* Defect: ModRead is forgotten.
EventDiscardNoMod ==
  /\ CGoto("handler", "discard", "idle")
  /\ \E seen \in Seen("handler") : out' = SubSeq(seen, Flushed + 1, Len(seen))
  /\ raced' = (raced \/ Racing("handler"))
  /\ rest' = [rest EXCEPT !["handler"] = <<>>]
  /\ UNCHANGED <<interest, kFilters, sent, wire, room, kvars, backend, ctx, owner, listed, count,
                 opened, openErr, closes, foreign, overlapped, disturbed, ret>>

\* OutBuffer.Discard(n); if it is empty now, and writev has taken something, ModRead.
EventDiscard ==
  /\ CGoto("handler", "discard", "idle")
  /\ \E seen \in Seen("handler") : out' = SubSeq(seen, Flushed + 1, Len(seen))
  /\ raced' = (raced \/ Racing("handler"))
  /\ IF out' = <<>> /\ Flushed > 0
     THEN PollMod({"in"}) /\ foreign' = (foreign \/ owner = "other")
     ELSE UNCHANGED <<interest, kFilters, foreign>>
  /\ rest' = [rest EXCEPT !["handler"] = <<>>]
  /\ UNCHANGED <<sent, wire, room, kvars, backend, ctx, owner, listed, count, opened, openErr,
                 closes, overlapped, disturbed, ret>>

\* Defect: the end of the stream is taken for EAGAIN.
EventInNoEof ==
  /\ pc["handler"] = "in"
  /\ pending' = IF pending > 0 THEN pending - 1 ELSE 0
  /\ pc' = [pc EXCEPT !["handler"] = IF pending > 0 THEN "track" ELSE "idle"]
  /\ UNCHANGED <<wvars, reads, peer, lvars, ret>>

\* read(2): data calls OnTrack, the end of the stream or an error calls Close.  A number that
\* names another connection by now gives that one's data, its end, or EAGAIN.
EventIn ==
  /\ pc["handler"] = "in"
  /\ \/ /\ owner = "self"
        /\ pending' = IF pending > 0 THEN pending - 1 ELSE 0
        /\ pc' = [pc EXCEPT !["handler"] = IF pending > 0 THEN "track" ELSE "close"]
        /\ UNCHANGED foreign
     \/ /\ owner = "none"
        /\ pc' = [pc EXCEPT !["handler"] = "close"]
        /\ UNCHANGED <<pending, foreign>>
     \/ /\ owner = "other"
        /\ \E l \in {"track", "close", "idle"} : pc' = [pc EXCEPT !["handler"] = l]
        /\ foreign' = TRUE
        /\ UNCHANGED pending
  /\ UNCHANGED <<wvars, reads, peer, backend, ctx, owner, listed, count, opened, openErr, closes,
                 hist, ret>>

Handler ==
  FetchOut \/ FetchIn \/ FetchClosed \/ EventOut \/ EventDiscard \/ EventIn \/ User("handler")

\* The sub loop submits the next asyncWrite task; it does nothing on a
\* connection that is not open.
TaskStart(t) ==
  /\ pc["handler"] = "idle"
  /\ \/ opened /\ Call(t, t, "idle", "hook")
     \/ /\ ~opened
        /\ CGoto(t, "idle", "done")
        /\ UNCHANGED <<wvars, kvars, lvars, ret>>

-----------------------------------------------------------------------------
(* The peer and the kernel *)

PeerSends ==
  /\ reads < MaxReads /\ peer = "up"
  /\ reads' = reads + 1
  /\ pending' = pending + 1
  /\ UNCHANGED <<wvars, lvars, peer, pc, ret>>

PeerReads ==
  /\ room < SndBuf /\ peer # "reset"
  /\ room' = SndBuf
  /\ UNCHANGED <<out, interest, kFilters, sent, wire, rest, kvars, lvars, pc, ret>>

PeerFin ==
  /\ peer = "up"
  /\ peer' = "fin"
  /\ UNCHANGED <<wvars, lvars, pending, reads, pc, ret>>

PeerReset ==
  /\ CanReset /\ peer # "reset"
  /\ peer' = "reset" /\ disturbed' = TRUE
  /\ UNCHANGED <<wvars, backend, ctx, owner, listed, count, opened, openErr, closes, foreign, raced,
                 overlapped, pending, reads, pc, ret>>

\* accept gives the closed descriptor's number to another connection; the main
\* loop is not in accept before the opener, one of its tasks, has returned.
FdReused ==
  /\ owner = "none" /\ pc["opener"] = "idle"
  /\ owner' = "other"
  /\ UNCHANGED <<wvars, kvars, backend, ctx, listed, count, opened, openErr, closes, foreign, hist,
                 pc, ret>>

Step(t) == Write(t) \/ Close(t)

CNext ==
  \/ Opener \/ Handler
  \/ \E t \in TaskMsgs : TaskStart(t) \/ User(t)
  \/ \E t \in Threads : Step(t)
  \/ PeerSends \/ PeerReads \/ PeerFin \/ PeerReset \/ FdReused

\* The scheduler runs the opener, the handler and the accepted tasks; user
\* callbacks return.  kevent reports every filter that is ready, so one that stays ready
\* does not keep the others from being handled.  PeerReads is fair: a peer that never reads again may
\* stall a connection for ever.
CFairness ==
  /\ WF_cvars(Opener)
  /\ WF_cvars(Handler) /\ SF_cvars(FetchIn) /\ SF_cvars(FetchClosed)
  /\ \A t \in Threads : WF_cvars(Step(t))
  /\ WF_cvars(PeerReads)

CSafe == CInit /\ [][CNext]_cvars
CSpec == CSafe /\ CFairness

-----------------------------------------------------------------------------
(* Properties *)

ConnPC == {"idle", "done", "register", "context", "list", "open", "onOpen", "addWrite",
           "out", "in", "track", "hook", "closed", "discard", "write", "syscall", "buffer", "append", "modify",
           "close", "flush", "remove", "unlist", "onClose", "release"}

\* No goroutine is inside write, Close or the flushing of OutBuffer.
Quiet ==
  \A t \in Threads : pc[t] \in {"idle", "done", "register", "context", "list", "open",
                               "onOpen", "addWrite", "out", "in", "track", "hook", "closed"}

\* The peer receives what was written, in the order of the calls: nothing is
\* reordered, lost or sent twice between the direct write, OutBuffer and the
\* flushing of OutBuffer; only a Close or a reset may cut the end off.
StreamIntact ==
  /\ IsPrefix(wire, sent)
  /\ Quiet /\ opened /\ peer # "reset" => wire \o out = sent

\* kqueue: Open's AddWrite has stored OutEvents alone, and from then on ModReadWrite
\* takes the write filter for set when ModRead has deleted it.
FilterForgotten == kFilters = {"out"}

\* A connection at rest is watched for reading, and if OutBuffer holds something also
\* for writing: buffered bytes are never forgotten.  With epoll it is watched only then, and
\* WriteToFd is never called for an empty OutBuffer, whose first iovec does not
\* exist; kqueue keeps the filter for ever, because Mod does not store it.
InterestMatchesBuffer ==
  Quiet /\ owner = "self" /\ interest # {}
    => /\ "in" \in interest
       /\ out # <<>> /\ ~FilterForgotten => "out" \in interest
       /\ backend = "epoll" /\ "out" \in interest => out # <<>>

\* OnTrack runs with the context InitContext prepares, although epoll reports
\* events of the descriptor before RegisterConn gets there, and although releaseTCP takes
\* it away again: only a connection that somebody closes beside the handler loses it.
TrackHasContext == pc["handler"] = "track" => ctx \/ disturbed

\* OnClose is called once at most, although Close is reached from the read path, failing
\* writes, OnOpen, OnTrack and the hooks, unless one Close passes the test of Opened while another
\* is under way.  That takes a reset, a Close of OnOpen or a hook, a write after Close, or a
\* write of OnOpen that fails because OnTrack has closed the connection.
ClosedOnce ==
  /\ closes > 1 => overlapped
  /\ overlapped => disturbed \/ \E m \in OpenMsgs : ~Unwritten(m)

\* No byte is on the wire or in OutBuffer twice, however handler, opener, tasks and their
\* callbacks interleave, unless two of them were inside the unlocked OutBuffer at once.
NoByteTwice ==
  LET all == wire \o out IN
    Quiet /\ ~raced => \A i, j \in 1..Len(all) : all[i] = all[j] => i = j

\* Buffered bytes leave OutBuffer if the peer goes on reading.
BufferDrains == out # <<>> ~> (out = <<>> \/ FilterForgotten)

\* A connection whose peer has closed its side gives its descriptor back.
FinCloses == peer = "fin" ~> owner # "self"

\* So does one that its peer has reset ("conn closed by client.").
ResetCloses == peer = "reset" ~> owner # "self"

\* ConnCount counts this connection while it is open, and is off by one from the moment its
\* Open has failed, when Close takes back what was never added; two overlapping calls of
\* Close take it back twice.
CountIsConnections ==
  pc["opener"] = "idle" /\ (\A t \in Threads : pc[t] \notin Closing) /\ ~overlapped =>
    count = (IF opened THEN 1 ELSE 0) - (IF openErr THEN 1 ELSE 0)

\* A Conn never reads, writes or closes the descriptor of another connection that got its
\* number after CloseFd, as long as the peer does not reset, only OnTrack calls Close, and
\* writes no more afterwards.
NoForeignAccess == foreign => disturbed
=============================================================================
