# A TLA+ model of gknet

gknet is an event-driven network library for Go: a main loop accepts
connections, several sub loops watch them with epoll or kqueue, and a pool of goroutines
runs their handlers; an HTTP server for `net/http` and gin handlers sits on
top. This directory models the parts that carry its own logic, checks them with
TLC on small instances, and proves most of the safety properties with TLAPS for
every instance. Paths below are relative to `src/`.

## 1. Inventory

| component | state it keeps | operations | what is hard about it | what makes it correct |
|---|---|---|---|---|
| task queue, `utils/queue/lock_free_queue.go` | linked nodes, `Head`, `Tail`, `Length` | `Enqueue`, `Dequeue`, `IsEmpty` | lock-free; `Length` is changed after the links | it is an atomic FIFO; "empty" is only answered when it was |
| poller, `poll/poll.go`, `sys/sys_poll_linux.go` | two queues, `toTrigger`, eventfd, events slice, `ErrForStop`, wait group | `AddTask`, `AddPriorTask`, `runTask`, `Start`, `WaitPoll` | wake-ups handed over between producers and loop; shared pool | every task runs; tasks and handlers never overlap; a stop error ends the loop |
| connection, `conn/`, `sys/`, `utils/utils.go` | `OutBuffer`, `InBuffer`, `Buffer`, `Opened`, descriptor, epoll interest | `write`, `writev`, `AsyncWrite`, `Read`, `InitContext`, `Open`, `Close`, the `...AndWait` handlers | partial writes; vectors cut anywhere; filters that emulate epoll's interest; opener, handler, tasks and their callbacks on different goroutines; an `OutBuffer` without a lock; descriptor numbers reused | the stream is intact in both directions; buffered bytes leave; closed once |
| event loop and registry, `eloop/` | `ConnList`, `ConnCount` | `RegisterConn`, `RemoveConn`, `Accept` | a plain map and a counter shared by loops | the registry lists the open connections |
| balancer, `balancer/` | list of loops, next index | `Register`, `Next`, `Iterator` | index arithmetic, stale counts | always an existing loop |
| engine, `engine/engine.go` | loops, `wg`, `cond`, `once`, listener | `Serve`, `Stop`, `stop` | start that fails half-way; Stop racing Serve; join of loops | no loop outlives its poller; Serve returns after Stop |
| http response, `gkhttp/response.go` | header, cache, `written`, `noCache`, chunk writer | `Write`, `WriteHeader`, `Flush`, `Hijack`, `FinishRequest` | any order of calls around the cache's size | the peer can tell where the body ends; the body is what was written |
| http request, `gkhttp/request.go`, `http_server.go` | bufio reader, body, recycled header | `ReadFastRequest`, `body.Read`, `body.Close`, `FreeRequest`, `OnTrack` | a request cut by segments and buffers; strings that share the reader's array | every request has its own lines, keys and body, and is served once, in order |
| listener, address conversion, gin adapter, byte slices, examples | - | - | - | - |

How they interact. `Engine.Serve` makes one poller per sub loop and one for the
main loop. The main loop calls `Eloop.Accept` at the end of each of its turns and
queues `RegisterConn` as a prior task *of the main loop*, which adds the
descriptor to the sub loop's epoll. The sub loop submits one job per event to the
pool and waits for it. `AsyncWrite` queues a task on the sub loop, whose turn
submits the queued tasks to the pool and waits for all of them. `Stop` wakes
`Serve`, which queues a shutdown task on each loop and joins them. The HTTP
server is a handler: `OnTrack` parses a request from the connection, runs the
user's handler on a `Response` and calls `FinishRequest`.

## 2. Modules

| module | models | composed with |
|---|---|---|
| `TaskQueue` | what a queue promises: an atomic FIFO with a counter that is updated in a step of its own | abstract specification |
| `LockFreeQueue` | `Enqueue` and `Dequeue`, one action per atomic load or compare-and-swap | implements `TaskQueue` (`ImplementsTaskQueue`) |
| `Poller` | `AddTask`, `AddPriorTask`, `runTask`, `Start`, `WaitPoll`, one sub loop or accepting main loop with its producers, on the pool it shares with the other loops | uses the queues at the level of `TaskQueue` |
| `ConnIO` | `write`, `writev`, `SplitDataForWritev`, `asyncWrite`, `Close`, `Open`, `RegisterConn`, `InitContext`, the event handlers, the interest with epoll and with kqueue's filters, the descriptor's life | takes `TasksRunAlone` from `PollerProofs` as the rule of when tasks may start |
| `Registry` | `Eloop.Accept`, `RegisterConn`, `RemoveConn`, the balancers, `ConnList` and `ConnCount` of several loops and connections, batches of events, descriptor numbers and what the kernel knows of them | a turn of a loop waits for its jobs, and tasks come behind the last event, as in `Poller` |
| `ConnRead` | `AsyncReadFromFdAndWait` (its action is called `ReadFromFd`), `Conn.Read` | extended by `HttpRequest` |
| `HttpRequest` | `OnTrack`, `ReadFastRequest`, the body, `FreeRequest`, the bufio.Reader | the connection's reads are the actions of `ConnRead` |
| `Engine` | `Serve`, `Stop`, `stop` and what the engine sees of its loops | a loop that still hears of its tasks runs them, and the shutdown task ends it: `TasksRunUnlessForgotten` and `ShutdownEndsLoop` of `Poller` |
| `HttpResponse` | `Response` and `chunkWriter` | - |
| `PollerProofs`, `LockFreeQueueProofs`, `RegistryProofs`, `EngineProofs`, `HttpResponseProofs`, `HttpRequestProofs`, `ConnIOProofs` | theorems with their inductive invariants, lemmas and proofs (section 5) | each extends the module it is about |
| `FlattenLemmas` | what `FlattenSeq` of the community modules returns, for any sequence of sequences | extended by `HttpRequestProofs` and `ConnIOProofs` |
| `MC*` | the same for TLC, with symmetry where it is used | - |

Correspondence. In `Poller`, `lpc` is the program counter of the loop goroutine
(`event` is the body of WaitPoll's `for`, `dispatch` the call of
`AsyncWaitCallback`, `prior` and `plain` the two dequeue loops, `join` and
`joinTasks` the two `wg.Wait`, `select` the look at `ErrForStop`, `clear` to
`rewrite` lines 142-147 of poll.go, `callback` the rest), `pc` the one of each
producer, and `running` the wait group. `trigger` is one variable for WaitPoll's
variable and the callback's parameter, which are never alive together. The loop's
`Dequeue` and its decrement of `Length` are one step, because no other goroutine
of the program dequeues or asks `IsEmpty`. An eventfd is readable or not; the
value of its counter does not matter. `IsBlocked` tells the main loop from a sub
loop; `others` counts the jobs that other loops have in the shared pool, where
`Submit` blocks while it is full.  `forgotten` is a history: an eventfd that was read
and was not the last event of its batch.

In `ConnIO` each goroutine has a `pc` and `ret`, the label at which a call of
`write` or `Close` goes on. `owner` says whom the descriptor *number* belongs to:
after `CloseRemove` any later accept may take it (`FdReused`), and system calls then
reach the other connection (`foreign`). Bytes have an identity, so that order and
duplication can be seen. User code is `OnOpen`, `OnTrack` and the hook of a task
(`hook.Go`): each may write, call `Close`, write and call `Close` again afterwards, and
return; `OnOpen` may also return data, and `OnClose` an error. `UserCode` says which of
these an instance allows. The handler's event is fetched first (`Fetch`), with the connection looked up in
`ConnList`, and its job runs later; in between the opener may close the connection.

`OutBuffer` has no lock. A goroutine that looks at it, writes to it or discards from it while another is
about to change it sees it as it is, empty, or with bytes that were sent already
(`Seen`): bytes get lost or are sent again. `raced` remembers that this has happened.
To keep the instances finite, sent bytes come back only the first time. `overlapped` and `disturbed` are the other
two histories the properties speak of: a Close that passed the test of `Opened` while
another was under way; and a reset, a Close by `OnOpen` or by a hook, or a write of user code
after its own Close. The panic of `iov[0]` for an empty `OutBuffer` ends the job inside
the pool (the pool recovers it), and leaves the connection as it was.

A message is written whole or as the slices of `SplitDataForWritev`; `rest` is what a
write still has to send or buffer. `backend` chooses the platform: epoll_ctl replaces
a descriptor's interest, kqueue changes filters by their difference to the interest
that `Add` stored (`kFilters`).

`Registry` gives each connection a program counter for its `RegisterConn` (`reg`), a
task that the main loop runs in the pool together with the other queued ones, and one
for each goroutine that may be inside its `Close` (`cls`): the opener inside `Open`, the
handler of its event, and other jobs of the sub loop's turn. Any of them that finds `Opened`
set goes on, so that a connection may be closed several times; `MaxCloses` bounds the calls that pass the test. `holder` and `watch`
are the kernel's side: the connection a number stands for by now, and the epoll
instances that watch it. A Close that comes too late closes and unlists the number of another
connection (`stolen`). `batch` holds the events a loop has fetched, each with the connection it
was reported for; `Dispatch` looks its number up when its turn comes, in whatever the map holds
then. `Open` may return an error, and then the connection is not counted (`RegError`). A
write of the plain map and an update of `ConnCount` have a beginning and an end; when
two overlap, the runtime ends the process or an update is lost, and `clash` or `raced`
remembers it; a lookup beside a write may end the process or find nothing. Numbers are
given away lowest first. User code closes a connection in its callbacks and tasks
only. `LeastConn` reads the counters in one step: a connection counts only after `Open`,
so a burst of accepts goes to one loop.

`HttpRequest` has one connection with `DoFast`. The stream is a sequence of tokens (a
line, or a byte of a body). `rbuf` is what bufio.Reader holds, with its exact rules of
when it reads, how much, and when it goes past its buffer; `hpc` is where `OnTrack`
is; `header` is the key set of the Header map, in use or recycled. A request line that
is not the peer's may be accepted or refused (it depends on its spaces). `Overwritten`
is the effect of a fill on keys that share the reader's array (request.go:98 and 117);
that a later fill brings the same text back to the same place is left out.

In `HttpResponse` the methods are operators on a record, because one goroutine
runs them in sequence; the actions are the calls of the user's handler. Header
fields that do not decide the framing, a Transfer-Encoding other than chunked, a
Content-Length that is no number (`WriteHeader` deletes it, response.go:251), pools
other than the buffer's, and failing socket writes are left out.

In `Engine` a loop is "none", "wait", "accept" ("accept2" with a second call to
follow) or "ended". The listener is in blocking mode, because `GkListener.GetFd` calls
`File.Fd`; `accept` returns when there is a client, or fails on an open listener
(`AcceptFails`), which ends the main loop; so does an error of `OnAccept` or of `Open`. A loop in `deaf` has read a wake-up that was
not the last event of its batch: `toTrigger` stays 1 and no task of it runs any more,
the shutdown task included (`SubForgets`, `MainForgets`; the run `poller_busy` shows it in the poller itself).

Operators whose comment begins with "Defect:" are variants of the definition that
follows them, each with a plausible programming error. They are not part of any
specification; PROJECT.json says which property each of them breaks, which shows
that the property depends on that line of the code.

## 3. Runs

| run | bounds | what it shows |
|---|---|---|
| `queue` | 2 producers, 2 consumers, 3 tasks | every interleaving of the loads and swaps keeps one list from `Head`, never dereferences nil, answers "empty" only if the queue was empty during the call, keeps `Length` accountable to the operations under way, never moves `Head` or `Tail` back (`PointersMoveForward`), and refines `TaskQueue` |
| `poller` | 2 producers, 2 tasks, 1 connection or the listener, pool of 2 shared with up to 2 jobs of other loops, `MaxTasks` 1, events slice 2 to 4 | `TasksAlone`, `WakeupHandedOver`, `NoStaleStop`; the loop does not sleep on a queued task and every task runs, unless WaitPoll has dropped a wake-up; `ShutdownEndsLoop` |
| `poller_busy` | 1 producer, 1 task, 1 connection | **violated**: `TasksRun` with a connection event in the batch of the eventfd |
| `conn_sync` | 2 messages of 3 bytes, chunks of 2, send buffer of 2, 2 requests, `OnTrack` may close, epoll and kqueue | `StreamIntact`, `InterestMatchesBuffer`, `BufferDrains` and `FinCloses` when `OnTrack` writes itself |
| `conn_async` | a task and data of OnOpen, 2 bytes each, chunks of 1, send buffer of 1, 1 request, resets, OnOpen, OnTrack and the hook may close, and write afterwards; epoll | `NoByteTwice`, `ClosedOnce`, `CountIsConnections`, `NoForeignAccess`, `TrackHasContext`, each with the cases in which it is lost |
| `conn_reset` | one connection that the peer may reset, epoll | **violated**: `ResetCloses` |
| `registry` | 2 connections, 2 loops, handler and one more job per turn, 3 calls of Close, both balancers | `EventReachesOwner`, `ListedUnlessReused`, `ClosedIsForgotten`, `CountAccountsForAll`, each with its exceptions |
| `registry_next` | round robin, 2 loops, 3 connections | **violated**: `NextIsALoop` |
| `http_server` | 2 requests with bodies of 0 to 3 bytes and both spellings of the key, bufio.Reader of 3 tokens, read buffer of 5, handler reads of 1 and 3 | `ReadStreamIntact`, `BodyIsOwn`, `HeaderIsOwn`, `ServedInOrder`, `WholeUnlessCut` |
| `engine` | 2 sub loops, 2 callers of Stop, 2 clients, failing start, accept, OnAccept and Open, forgotten wake-ups | `LoopsEndFirst`, `PollersAreReleased`, `ServeReturns` |
| `engine_stop` | 1 sub loop, 1 caller of Stop, no client | **violated**: `StopIsSeen` |
| `http` | cache of 2 bytes, 5 bytes written in any pieces, Content-Length 0, 2 or 4, GET and HEAD, statuses with and without a body | `FramingMatches`, `BodyIsWhatWasWritten`, `FinishedOnce` |

Why the bounds are enough. The queue's races are between one operation and a
second that overtakes it, with a third needed for a lagging tail: four goroutines
have all of these. In the poller, two
tasks exceed `MaxTasks`, so a turn leaves work behind; one connection and the eventfd
fill the events slice, so `expand` and `shrink` both happen, and the eventfd is first
and last in a batch; the other loops can fill the pool and empty it again.
The theorems of section 5 lift most of the safety properties beyond these bounds. In
`ConnIO`, a message is longer than the send buffer, so complete, partial and
refused writes occur and a second write meets a non-empty `OutBuffer`. In `conn_async` the
opener, the handler and a task can be inside `write`, `Close` and `OutBuffer` in pairs, and
OnOpen's message meets all of them. The same invariants were checked with two tasks (one byte
each with OnOpen's data, or two bytes without it), with a message of the hook, and with a
message of `OnTrack`, which are too large or too slow to repeat each time; the theorems cover
them all. In `Registry`, the second connection can take the number of the first one before, between and after two
calls of its Close, in the same loop (`LeastConn`) or in another; with three connections,
checked once with two calls of Close, a third takes the number of a closing one while a
second is being registered. In `registry_next` the round-robin index reaches its end. In `HttpRequest`, a
request's lines just fill the bufio.Reader, so fills happen inside lines, headers and
bodies; a body is as long as the reader, so that it is read past the buffer and so
that `isPrefix` occurs; every cut into segments is a behaviour. In
`HttpResponse` the writes end below, at and above the cache's size, alone and
together.

Deadlock is not checked in the runs whose system really may come to rest (all tasks
added and run, the connection closed, Serve returned).

## 4. Fairness

- `Poller`: the Go scheduler runs the loop, a producer inside `AddTask` and a job
  the pool has accepted; user code returns. New calls of `AddTask`, new events and
  `accept` on the main loop are not fair: no client need ever come. The jobs of other
  loops end, and there are finitely many of them, so endless starvation by another
  loop is excluded.
- `ConnIO`: the opener, the handler and every goroutine inside `write` or `Close`
  go on, and user callbacks return; the peer keeps reading (without that, nothing can drain). Requests, FIN and
  RST are not fair. An event that is ready again and again is fetched (strong
  fairness of `FetchIn` and `FetchClosed`): kevent reports every filter that is ready, and on a
  kqueue whose write filter is never deleted a readable connection is reported beside it.
- `Engine`: Serve, the callers of Stop, and the loops that still hear of their tasks
  go on. That such a loop runs its shutdown task and ends is not assumed of the engine
  alone: it is `TasksRunUnlessForgotten` and `ShutdownEndsLoop` of `Poller`. A loop that has
  forgotten a wake-up gets no fairness, and `ServeReturns` names it. Clients are not fair.

Apart from `FetchIn` and `FetchClosed`, all are weak fairness of goroutines that are enabled until they move.

## 5. What is proved

Every theorem below is proved for all values of the constants that satisfy the
module's assumption, and for two theorems on a connection the hypothesis stated. The assumptions say that sets of goroutines and connections are
finite, sizes are natural numbers (positive where the code divides work by them), and
names are distinct. An inductive invariant was checked by TLC on a small
instance before it was proved; a proof has one step per action and below it one per
part of the invariant the action can disturb.

**Poller** (`PollerProofs`; any number of producers, tasks and descriptors, any pool
and any `MaxTasks`):

- `TypeCorrect`: `[]PTypeOK`. The part that is not only typing is
  `idx \in 1..Len(batch)`: the loop never indexes outside the batch. Resizing is
  kept within its bounds by the lemma on `Resize`.
- `TasksRunAlone`: `[]TasksAlone`. Not inductive: it needs that trigger is passed on
  only for the last event of a batch and that this event is then the eventfd, that
  the loop waits for the handler before it goes on, and so that at the label where
  tasks are submitted no handler runs (`TriggerInv`). This is what justifies
  `asyncWrite` having no lock, and the remark "can be removed." at the lock of
  conn/conn_handler.go:78.
- `StopSeenInItsTurn`: `[]NoStaleStop`. Needs where in its turn the loop may have jobs
  running and errors left (`TurnInv`): an error of a task can only appear between the
  submission and the `select`, one of a connection only between its dispatch and
  the callback.
- `WakeupAlwaysHandedOver`: `[]WakeupHandedOver`. The counter of a queue may lag
  behind or be negative, so that `IsEmpty` can answer either way for a queue that is
  not empty. `CountInv` says what saves the algorithm: the counter and the length of
  the queue differ exactly by the producers that are between linking and counting, and
  each of these will look at `toTrigger` later.
- `NoTaskIsStranded`: `[]NoStrandedTask`, for the loop asleep. `WakeInv` adds who has the
  duty to write the eventfd while `toTrigger` is 1; with `WakeupHandedOver` it leaves
  `forgotten` as the only way to lose a task.

**Task queue** (`LockFreeQueueProofs`; any number of producers, consumers and nodes).
The history `order` is the sequence of nodes ever linked, and the argument compares
pointers by their place in it. `OrderInv` says that the links follow `order` and that
no node occurs twice; `EnqInv` and `DeqInv` say of each goroutine that what it loaded
earlier is not ahead of what is there now, and that a `next` that is not nil is the
successor of the node it was loaded from, for ever. From `QInv`, their conjunction:

- `ListAlwaysIntact`, `NeverDereferencesNil`, `EmptyAnswersAreTrue`, `QueueTypeCorrect`;
- `QueueImplementsTaskQueue`: the refinement of `TaskQueue`. The successful link is the
  abstract Enqueue, the successful swing of `Head` the abstract Dequeue, and every other
  load and swap a stutter or the abstract update of the counter;
- `LengthAlwaysAccounts`, which is about the cardinalities of the sets of operations that
  have not counted, and so comes from the abstract counter;
- `PointersOnlyMoveForward`, an action property: no compare-and-swap, however late, takes
  `Head` or `Tail` back.

**Registry** (`RegistryProofs`; any number of connections, loops, jobs and calls of Close,
both balancers). `RInv` has eight parts: the types; what the progress of `RegisterConn` says
about the Closes of a connection (`LifeInv`); which connection a number stands for
(`HolderInv`) and which loops watch it (`WatchInv`); how the Closes of a connection can stand when another
one has its number (`NumberInv`); that entries of a map are the loop's own, under
their number, not of a closed connection and not missing (`ListInv`); what a batch, a
handler and the jobs of a turn can be together (`TurnInv`: no job has begun to close the
owner of an event that is still to be dispatched); and that an update of a counter under
way is the only one and stores what the counter shows (`CounterInv`). They give:

- `EventsAlwaysReachOwner`. An event of a batch reaches the connection it was fetched for or none,
  unless RegisterConn has closed the owner (its failed `AddRead`, or a Close inside `Open`),
  which happens beside the loop's turn, or a second Close of some connection has closed the
  descriptor of the owner or of the one found. In each case TLC reaches the stale event.
- `OpenIsAlwaysListed`: an open connection that holds its descriptor is listed, unless it got
  a number some RemoveConn, of a first or a later Close, was still to delete.
- `ClosedAlwaysForgotten`, and `CountAlwaysAccounts`: the counter is the number of connections that were counted
  minus the number of calls of RemoveConn. It is not the number of open connections: a
  failed `Open` and a repeated Close take back what was not added.
- `RegistryTypeCorrect`, in which the hard part is that accept finds a free number.

Each holds for a loop until two writes of its map, or two updates of its counter, overlap.

**Engine** (`EngineProofs`; any number of loops, callers of Stop and clients, with and
without failing steps). `EInv` says that the wait group is the number of live loops
(`WaitGroupInv`), that nothing is closed before Serve returns and no loop lives then
(`StopInv`), and that a connection is counted once on its way to its loop (`ClientInv`); which
loops are deaf, and how accept fails, does not matter for any of them.
It gives `LoopsAlwaysEndFirst`, `PollersAlwaysReleased` and `EngineTypeCorrect`.

**HTTP response** (`HttpResponseProofs`; any size of the cache, any lengths, statuses and
number of bytes). The operators are described by lemmas on what each method does to a
Response (`writeHeader`, `Write`, the chunk writer, `FinishRequest`), and the steps cite
those. `BodyInv` says that the bytes on the wire followed by the cached ones are the
accepted ones; `FrameInv` which framing is decided, or is going to be by the header that
is set. They give `PeerFindsTheEnd`, `EveryByteIsDelivered` and the action property
`NothingAfterTheEnd` (nothing changes a finished response).

**Flattening** (`FlattenLemmas`). The stream of the requests and the rest of a vector after
a partial `writev` are flattenings, and `FlattenSeq` is recursive. The lemmas describe it
by offsets: part i of the sequence lies behind offset i, the offsets add up the
lengths, and no other sequence of that length has the parts there. The induction is written out as the
choice of a least counterexample (`LeastNat`, from the well-foundedness of `<`), because
the induction rule itself takes an operator as a parameter.

**Reading and the HTTP server** (`HttpRequestProofs`). `EveryReaderSeesTheStream` is about
`ReadSpec`: the actions of `ConnRead` with an `OnTrack` that may call `Read` with any
length, any number of times. `StreamInv` says that what was consumed, `InBuffer`, what
OnTrack has left of `Buffer` and the kernel's bytes are together the stream. The other
theorems are about the server of `HttpRequest`, for any number and lengths of requests, any cut of the
stream into segments, any way the keys are written and any sizes of the buffers. The
argument follows one number, `Cursor`: how far in the stream the parser is, which is what
was consumed less what the bufio.Reader holds. `ServerInv` has seven parts:

- `ReadInv`, which is `StreamInv` with the types, and `RequestTypeOK`;
- `BufferInv`: the bufio.Reader holds the stretch of the stream that begins at `Cursor`;
- `LineInv`: what is known of the line, the fragment and the body in each phase;
- `HeaderInv`: a request whose own line was parsed has `Cursor` at the offset of its
  header or inside its body, and the recycled Header map holds no length of another;
- `OrderInv`: every line that was served lies before `Cursor`, which never goes back;
- `WholeInv`: as long as nothing was cut, `Cursor` is where the served requests end, or as
  far behind it as the request being served has got.

They give `ServerSeesTheStream`, `HandlerReadsItsOwnBody`, `RecycledHeaderIsClean`,
`RequestsServedInOrder` and `RequestsServedWhole`, the five invariants of the run
`http_server`.

**The connection** (`ConnIOProofs`; any messages, any number of tasks, any sizes and user
code, both platforms).

| Hypothesis | Theorems | What they leave open |
|---|---|---|
| none | `EachByteInOnePlace`, `NothingSentTwice` | two goroutines inside `OutBuffer` at once (`raced`) |
| none | `LifeInvariant`, `CountFollowsTheConn` | two overlapping calls of Close (`overlapped`) |
| none | `DescriptorInvariant`, `OthersAreLeftAlone`, `ContextComesFirst` | a reset, a Close of OnOpen or of a hook, a write after Close (`disturbed`) |
| none | `OnCloseRunsOnce` | the overlap, which needs `disturbed` or a write of OnOpen |
| `Synchronous`: no `asyncWrite` tasks, no data of OnOpen, no reset, OnOpen does not close, OnTrack does not write after its Close | `PeerReceivesTheStream`, `BufferedBytesAreWatched` | two writers mix their bytes: TLC refutes `StreamIntact` with two tasks, and `InterestMatchesBuffer` with data of OnOpen |

TLC reaches a violation of the unconditional statement in each row, so that none of the exceptions is
idle.

- *Places.* `PlacesInv` says where each goroutine can be and where its call of `write` or
  `Close` returns to, and that no task is under way while the handler is (the rule of
  `TasksRunAlone`). Every step is described once, by what it does to the places
  (`OthersStay`), the bytes and the life of the connection, and the invariants below use these
  descriptions instead of the actions.
- *Bytes.* Lemmas say what `SplitDataForWritev` and `Remainder` do to the bytes of a vector:
  splitting keeps them, and what a `writev` took followed by the remainder is what there was. So a step
  either keeps the bytes, hands a message to a goroutine, moves a beginning of what a
  goroutine holds to the wire, all of it to `OutBuffer`, drops it, or flushes a beginning
  of `OutBuffer`. `OnceInv` says that each byte is in one place and once there (`Once`), that
  it is a byte of a message that was written (`Known`), both until `raced`, and that the message of a task
  that is still to start is new.
- *Opening and closing.* `LifeInv`: until two calls of Close overlap, one goroutine at a time is past the test
  of `Opened`, which stays true until it ends, and `count` is what RegisterConn has added
  less what a Close has taken back.
- *The descriptor.* `DescriptorInv` is about a connection that is not `disturbed`, and splits on whether
  it holds its descriptor: while it does (`HoldsInv`), nobody but the handler
  closes; afterwards (`GoneInv`), the handler and the tasks are past every use of the
  number, and the opener may still reach for it, but the next accept waits for the opener.
- *Stream.* Under `Synchronous` nobody is beside the handler (`HandlerIsAlone`). `StreamInv`: wire, `OutBuffer` and what the handler holds, in this order, are
  what was written; and the direct system call is made for an empty `OutBuffer` only.
- *Interest.* `InterestInv`: from RegisterConn to CloseFd the descriptor is watched for
  reading, and for writing according to `OutBuffer`, except between the change of the one
  and the change of the other; and the handler gets to `ModReadWrite` and to the flush
  only with something buffered.

Only model-checked: the liveness properties (`TasksRunUnlessForgotten`,
`ShutdownEndsLoop`, `BufferDrains`, `FinCloses`, `ServeReturns`), because fairness and
ENABLED are beyond the prover. The properties of the runs that TLC must find violated
(section 6) are not theorems.

## 6. Disagreements between the code and what it says

Kept as runs that TLC must find violated:

- `poller_busy`: WaitPoll reads the eventfd, and the callback of the next event in
  the batch overwrites `trigger` with false (sys/sys_poll_linux.go:121). `toTrigger`
  stays 1, so no later `AddTask` writes the eventfd either, and the task never runs.
  On the main loop a batch of the eventfd and the listener does the same, and no
  `RegisterConn` runs any more. `NoStrandedTask` and `TasksRunUnlessForgotten` say that
  this is the only way to lose a task.
- `conn_reset`: EPOLLERR and EPOLLHUP are part of `OutEvents`, so a reset connection
  with nothing to write goes to the write handler, which indexes an empty vector
  (conn/conn_handler.go:184). It is never closed and is reported again for ever.
- `engine_stop`: a `Signal` before `Wait` is lost, and `once` keeps every later Stop
  from repeating it (engine/engine.go:84).
- `registry_next`: the round-robin index wraps only beyond the number of loops, so the
  connection after `NumOfLoops` others is looked up out of range, on the main loop's
  goroutine, which ends the process (balancer/round_robin.go:37).

Seen while modelling, and excluded by the statement of a property or by a run's
bounds rather than kept as runs:

- Two `asyncWrite` tasks of one connection run at once, and their bytes mix on the
  wire (conn/conn_write.go:38; `StreamIntact` fails with two `TaskMsgs`). If both
  writes fail, both may get past the test of `Opened`: `OnClose` is called twice
  (conn/conn.go:131; `ClosedOnce` fails on the constants of `conn_async`).
- The data of `OnOpen` is written on the main loop's pool while the sub loop may
  already flush `OutBuffer`: bytes appended after the handler has seen it empty are
  watched by nobody (conn/conn_write.go:15; `InterestMatchesBuffer` fails on the
  constants of `conn_async`).
- Data of `OnOpen` beyond the send buffer makes epoll's `AddWrite` fail with EEXIST: the open
  connection is not counted, and its Close counts down (conn/conn.go:181,
  eloop/eventloop.go:44). `CountIsConnections` says so with `openErr`.
- After a failed write the descriptor is closed and `write` returns `(-1, nil)`; the
  next write of the same `OnTrack` may reach another connection
  (conn/conn_write.go:25; `NoForeignAccess` needs `CanReset = FALSE`).
- `Read` outside `OnTrack` returns bytes twice, because `Buffer` keeps what was
  appended to `InBuffer` (conn/conn_handler.go:97; `Read` is an action of `OnTrack` only).
- A main loop that sits in `accept` is not woken by closing the listener, so
  `wg.Wait` needs one more client (engine/engine.go:109-114; the exception in
  `ServeReturns`). "close all connections." and "wait for all connections to close."
  (engine/engine.go:99 and 113) do not happen: `CloseAllConn` has no caller.
- If adding the listener fails, the main poller is leaked (engine/engine.go:161-163;
  the exception in `PollersAreReleased`).
- `Flush` before the handler ends sends a header with neither a length nor chunking,
  and a Content-Length set after WriteHeader suppresses the automatic one
  (gkhttp/response.go:456; the histories `flushed` and `late`). A refused Write still
  advances `written`, so bytes of the pooled buffer that nobody wrote are sent, or the
  slice panics (gkhttp/response.go:216 and 289; `exceeded`). A HEAD response in chunked
  mode still gets its last chunk (gkhttp/response.go:422). `FinishRequest` writes a
  header onto a connection that was hijacked before any header
  (gkhttp/response.go:302).
- With kqueue, `ModRead` and `ModReadWrite` do not store the new interest
  (sys/sys_poll_darwin.go:81-109): after a partial write the write filter stays, is
  reported for an empty `OutBuffer` for ever, and each report panics in the pool. After
  `Open` has stored `OutEvents` alone, a later `ModReadWrite` no longer adds the write
  filter once it is gone, and buffered bytes stay (`FilterForgotten`). EV_EOF closes the
  connection before what has arrived is read.
- `SplitDataForWritev` slices a whole chunk while more than one byte is left over, and
  panics when that is less than a chunk (utils/utils.go:39-40; `SplitPanics`).
- The TLS handshake of `InitContext` reads from the connection's empty buffers and fails
  before the first read(2); `RegisterConn` overwrites the error and opens a connection
  whose `Ctx` is nil (conn/conn_context.go:15, eloop/eventloop.go:38-42).
- `ConnList` and `ConnCount` are written by the main loop's tasks and by Close without a
  lock (eloop/eventloop.go:41, 44, 111, 112): overlapping map writes end the process or
  lose an entry, overlapping counter updates lose a count (`clash`, `raced`). The
  delete by number may remove the entry of a connection that has just reused the
  number, which is then never served (`reused`).
- A request cut by the end of a segment is given up, and its rest is parsed as a new
  request (gkhttp/http_server.go:42-48, `spoiled`); a second request of the same segment
  waits in the bufio.Reader until more data arrives. With `DoFast`, a key that is not
  written canonically is not recognised, and stays in the recycled Header, because
  `Header.Del` looks for the canonical one (gkhttp/request.go:57); the strings of a
  request point into the bufio.Reader, so that reading a large body changes the
  method, the URL and the keys under the handler, and a header longer than the reader
  loses its keys (gkhttp/request.go:98 and 117). A chunked body is not decoded.

## 7. Not modelled, and what could come next

Not modelled: UDP; the handlers and callbacks without Wait (`HandleEvents`,
`AsyncCallback`), `CloseAllConn` and the adapter `WritevConn`, which nothing calls; the
poller's path for a nil pool, which the engine never uses; the TLS handshake, which
ends before any state of the connection is made; a read of `ConnList` that
overlaps a write (the runtime may end the process for it too); the parser of `net/http`
(`DoFast` unset), and header lines that the fast parser indexes out of range; Header
maps that the pool hands from one connection to another; a panic of user code;
byte-slice and object pools; address conversion, socket options, the listener's
set-up and the gin adapter, which forward to the system or to another package; the
examples. `Stop` before `Serve` dereferences a nil cond (engine/engine.go:83).

Next:

1. A module that composes several loops on one shared pool whose jobs wait for another
   loop.
2. `InterestMatchesBuffer` with tasks: it needs an invariant on what each task
   will still append or watch for, which says who repairs the interest after a lost append.
