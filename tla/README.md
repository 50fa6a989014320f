# A TLA+ verification of srcrd

srcrd is a commented re-implementation, in Go, of pieces of the standard
library and of well-known servers: `sync`, `singleflight` and `errgroup`,
fasthttp's worker pool, the runtime's network poller, gin, `bufio`, `strconv`,
`strings`, `fmt` and `log`.  The parts do not call each other, except that
`xsync` is built on the sleep primitives in `sema.go`; each is verified on its
own, and those that a client puts together are also verified together.

## 1. The system

| Component (source) | State | Operations | What is hard | What makes it correct |
|---|---|---|---|---|
| `xsync.RWMutex` (`xsync/rwmutex.go`) | inner mutex `w`, `readerCount`, `readerWait`, two semaphores | RLock, RUnlock, Lock, Unlock | readers leave while a writer announces itself; wake-ups race with arrivals | exclusion, no spurious panic, each wake-up used by its round, nobody waits for ever |
| semaphores (`xsync/sema.go`) | a `uint32` | Semacquire, Semrelease, notify lists | the bodies are empty | acquire waits for a positive count |
| `xsync.Map` (`xsync/map*.go`) | atomic `read` snapshot, `dirty` map under `mu`, `misses`, one shared `entry` per key | Load, Store, Delete, LoadAndDelete | stale snapshots, compare-and-swap on entries against the copying of `read` into `dirty`, promotion | linearizable; `dirty` never misses a live entry; no write to a nil map |
| `xsync.Pool` (`xsync/pool.go`, `pool_cleanup.go`) | per-P `private` and `shared`, victim cache, global pool lists | Get, Put, pin, pinSlow, getSlow, poolCleanup | steals, the collector between any two pins, GOMAXPROCS changes | an item is handed out once |
| `poolDequeue`, `poolChain` (`xsync/pool_queue.go`, `pool_chain.go`) | ring of slots and a packed `headTail`; doubly linked list of rings | pushHead, popHead, popTail | one producer against many consumers on the last element, slot hand-over, dropping of drained rings | no item lost, none taken twice, FIFO at the tail |
| `xsync.WaitGroup` (`xsync/waitgroup.go`) | counter and waiters in one 64-bit word, a semaphore | Add, Done, Wait | Add at zero against Wait, reuse | Wait returns when the counter reached zero |
| `xsync.Once` (`xsync/once.go`) | `done`, a mutex | Do | the slow path, a panic in `f` | `f` runs once and before any Do returns |
| `xsync.Cond` (`xsync/cond.go`) | a notify list | Wait, Broadcast | a Broadcast between unlock and sleep | no lost wake-up |
| `xsync1.SingleFlightGroup` (`xsync1/singleflight.go`) | a map of calls under a mutex | Do | late duplicates, a panic in `fn` | one execution per flight |
| `xsync1.ErrGroup` (`xsync1/errgroup.go`) | a wait group, a once, the first error | Go, Wait, WithContext | first error against cancellation | Wait returns the first error |
| `xfasthttp` worker pool and server (`xfasthttp/workerpool.go`, `server.go`) | LIFO of ready workers, counters, stop flags | Serve, getCh, release, workerFunc, clean, Stop, Server.Serve | worker leaving against being handed a connection, cleaner, Stop | a connection accepted is served once; limits hold |
| `netpoll` (`netpoll/*.go`) | per-descriptor semaphores `rg` and `wg` (nil, ready, wait or a G pointer), poll-descriptor cache, wake signal | init, open, block, unblock, ready, break | readiness against parking | no lost wake-up, a parked goroutine is resumed once |
| `xgin` (`xgin/*.go`) | a router group, the int8 handler index of a pooled Context, a response writer | Use, GET, Next, ServeHTTP, Set, Write, WriteHeader, Flush, Hijack | stale data in pooled Contexts, the index, panics with several Nexts under way | each handler runs once, in order; a request sees its own data; one status code, before the body |
| `xbufio` (`xbufio/*.go`) | buffers with read and write cursors, an error each | Read, Write, Flush | partial writes, errors that come with data, calls after an error | the byte stream is preserved |
| `xfmt`, `xlog` (`xfmt/print.go`, `xlog/log.go`) | a pool of printers; one buffer per Logger under a mutex | Fprint, Output | what is left in a pooled buffer; the buffer that all share | whole lines |
| `xstrconv`, `xstrings`, `xrand` | none | Atoi, Itoa, FormatInt, Join, Grow, Shuffle | the least int, digit boundaries | result equals the definition |
| `main.go` | none | starts a gin server with one route and one middleware | none | none |

The components interact in few places.  `RWMutex` (and `WaitGroup`) sleep on
`sema.go`.  `Pool` keeps its shared items in a `poolChain` per P, which is a
list of `poolDequeue`s.  `Server.Serve` gives what it accepts to the worker
pool, which calls back `serveConn`.  `netpoll` is called by the scheduler and by
`internal/poll`, which are not in the repository.  `xfmt`, `xlog`, `xbufio` and
`Cond` meet only in programs that use them together.  `xsync1`, `xfasthttp` and
`xgin` use the standard library's `sync`, not `xsync`.

## 2. Modules

| Module | Models | Role |
|---|---|---|
| `Sema` | `xsync/sema.go` | the semaphore operators used by the modules that sleep |
| `RWMutex` | `xsync/rwmutex.go` | detailed; implements `RWLock` |
| `RWMutexOrder` | same | `RWMutex` with a history of blocked writers |
| `SyncMap` | `xsync/map*.go` | detailed |
| `SyncMapLin` | same | `SyncMap` with a history of the values a pending call may return; implements `AtomicMap` |
| `PoolDequeue` | `xsync/pool_queue.go` | detailed; implements `Deque` |
| `PoolChain` | `xsync/pool_chain.go` | detailed, on atomic dequeues; implements `Deque` |
| `Pool` | `xsync/pool.go`, `pool_cleanup.go` | detailed, on atomic chains |
| `WorkerPool` | `xfasthttp/workerpool.go` | detailed; implements `Dispatcher` |
| `Server` | `xfasthttp/server.go` | extends `WorkerPool` |
| `NetPoll` | `netpoll/*.go` | detailed; implements `Semaphores` |
| `WaitGroup` | `xsync/waitgroup.go` | detailed; extended by its clients |
| `SingleFlight` | `xsync1/singleflight.go` | extends `WaitGroup` |
| `ErrGroup` | `xsync1/errgroup.go`, `xsync/once.go` | extends `WaitGroup` |
| `Groups` | both groups of `xsync1` | composes `ErrGroup` and `SingleFlight` |
| `Text` | `xstrconv/*.go`, `xstrings/join.go`, `builder.go`, `itoa` of `xlog` | pure functions on sequences of bytes |
| `Bufio` | `xbufio/*.go` | the Writer and the Reader in front of any stream |
| `Cond` | `xsync/cond.go` | Wait and Broadcast, extended by their client |
| `Logger` | `xfmt/print.go`, `xlog/log.go` | extends `Bufio` and `Text` |
| `Stream` | a program | composes `Logger`, `Bufio`, `Text` and `Cond` |
| `Shuffle` | `xrand/shuffle.go` | a pure function |
| `Gin` | `xgin/*.go` | detailed |
| `SyncMapProofs`, `PoolDequeueProofs`, `PoolProofs`, `ServerProofs`, `NetPollProofs`, `GroupsProofs`, `RWMutexGinProofs`, `PoolChainStreamProofs` | the source of the module they name (`SyncMapProofs`: `SyncMap` and `SyncMapLin`; `ServerProofs`: `WorkerPool`, then `Server`; `GroupsProofs`: all of `Groups`; the last two are each about two models that share nothing, and `PoolChainStreamProofs` also about `Text`, `Bufio` and `Logger`) | theorems |
| `RWLock`, `AtomicMap`, `Deque`, `Dispatcher`, `Semaphores` | what a component promises | abstract, they stand for no code |
| `MC*` | | constants and symmetry for the configurations of the same name |

The state variables carry the names of the fields they model, an action the
name of the function it is part of or of what that part does, and `pc` (`wpc`,
`apc`, `tpc`, ...) says where a goroutine is in it.  Each module's header says
what one step is.  The rule everywhere: one step is one atomic operation that
another goroutine can see, or one section under a lock; plain accesses that
nobody else can see in between belong to the step before or after.
`PROJECT.json` gives the lines of the source for each definition.

### RWMutex

One action per atomic operation of RLock, RUnlock, Lock and Unlock; `r` is the
local of Lock and Unlock.  An element of `Goroutine` is one locking session.
The semaphores are counters without a queue, which is all that the contract in
`sema.go` says, so a token may be taken by whoever comes first.

### xsync.Map

A step is an atomic load, store or compare-and-swap on `read` or on an entry,
or a stretch under `mu` with at most one of these.  `dirtyLocked` takes one
step per entry it looks at, since goroutines outside `mu` write to entries
meanwhile.  Go maps are functions, `entry`s are heap cells that are reused only
when nothing refers to them.  Two equal values are one pointer: that lets a
compare-and-swap succeed which the code would retry to the same effect.

### poolDequeue, poolChain, Pool

Three layers, each shown to be what the next one assumes.  `PoolDequeue` has
the ring with the two words of each slot, and indexes of `Bits` bits that wrap
around; it implements `Deque`.  `PoolChain` uses a dequeue as one step, except
that a push may find a ring full although an item has been taken out, because
the slot is still being emptied, as `PoolDequeue` allows; it too implements
`Deque`.  `Pool` uses a chain as one step.  In return, the single producer that
`poolDequeue` demands is the property `SingleProducer` of `Pool`.
`procPin` keeps the P and keeps the world from being stopped; `poolCleanup` and
changes of GOMAXPROCS happen when nobody is pinned.  In the repository nothing
registers `poolCleanup` with the runtime (pool.go:234 declares the function that
would and nobody calls it); the model runs it as the comments of pool_cleanup.go
say.

### Worker pool and server

The acceptor, the workers, the cleaner and the clock are processes.  A channel
of capacity 0 is a rendezvous, one of capacity 1 a buffer; `Procs` is the set of
values GOMAXPROCS may have, which fixes the capacity (`workerChanCap`).
`Stop` sends to idle workers while it holds the lock, one step per channel.
`Server` weaves Serve and serveConn between the steps of the pool: Serve is its
acceptor and serveConn its WorkerFunc.  acceptConn makes every error of the
listener io.EOF, so that Serve returns nil (`AcceptFails`), and panics if it gets
neither a connection nor an error (`AcceptNil`).

### netpoll

`word` is `rg` and `wg`, `edge` is what epoll has to report of a descriptor
(edge-triggered, so reported once), `pipe` counts the bytes in the pipe of
netpollBreak.  A loop that ends in a successful compare-and-swap of what it
loaded is the step of that swap.  External are: the network (`Arrive`), the
call of netpollBreak, and gopark, whose commit function is modelled from the
comment at netpoll0.go:44-48, since its body is not in the repository.
`everr` is written without a lock by threads that may handle two events of the
same descriptor at a time; the model has these writes as steps of their own.
Deadlines and closing are not in the code (netpoll4.go is a TODO).

### WaitGroup, SingleFlight, ErrGroup, Groups

`xsync1` uses the standard library's WaitGroup and Once.  `xsync` has the same
code, and the modules of the groups stand on it: a client of `WaitGroup` calls
`Add` or `WaitCall` in a step of its own, and the call is over when `wgpc` is
idle again.  `Groups` is a client that uses both groups at a time: the tasks of
an ErrGroup, started by the owner or by tasks that run, all call Do, and fail if
Do does.  The owner and a second waiter call Wait, and the tasks may be started
again when both have returned, as waitgroup.go:40-41 demands.  A panic of `fn`
or of a task is not modelled.

### Text, Bufio, Cond, Logger, Stream, Shuffle

`Stream` is a program that uses these packages together: tasks join numbers with
`Join` and `Itoa`, print them with `Fprint` into a Builder of their own and log
the result; the Logger writes to a `bufio.Writer`, that to a pipe, and a receiver
reads the pipe through a `bufio.Reader` and parses with `Atoi`.  The pipe is
external.  It locks a mutex, waits on a `Cond` while it is empty and notifies when
it has been written to or closed; it may take or give only a part of what it is
asked for, fail, or give its last bytes together with EOF.  A step of `Bufio` is
what it does between two calls of the stream, so the partial answers come between
its steps.  `wp` and `wnn` are the locals `p` and `nn` of Write.  `Text` has the
functions in the width `Width`, with the negation of the least int taken in that
width as the code does; what they promise is compared with decimal notation on
every int when TLC starts (the ASSUMEs of `MCStream`, and so is `ShuffleUniform`:
every order of up to five elements comes from exactly one way to draw).  sync.Pool
is used through its contract: Get returns any printer of the pool or a new one.
`cap(p.buf)` is taken to be the length.

### Gin

A step is what a request does between two calls its handlers make of the Context;
`frames` is the stack of handlers that run, and `Advance` is `c.index++` with the
condition of the loop, which is all that Next does between two handlers.  Handlers
are external: they may call Next as often as they like, Set, WriteHeader with any
code, Write, WriteHeaderNow, Flush and Hijack, return or panic.  A panic goes to a
handler that is in Next and recovers, or to net/http, and then ServeHTTP does not
reach its Put.

net/http is external too, and may refuse what it is asked: WriteHeader panics with a
status outside 100 .. 999, Hijack returns an error or is not there at all, nor need
Flush be.  By then the response writer has set its size, so the header counts as
written although it has sent nothing (`missed`), and what follows goes out with the
200 that net/http puts before the first byte (`Implicit`).  After such a call the
handler goes on or panics (`Failed`).  A status from 100 to 199 counts as the answer,
as it does in the Go 1.16 of go.mod.

A position in the chain stands for the handler there.  Paths are left out because
addRoute fills the one node of the method and getValue returns it whatever the path.

## 3. Runs

| Run | Instance | What is checked | Why the instance is enough |
|---|---|---|---|
| `rwmutex` | 4 goroutines that may read and write | exclusion, no spurious panic, no wake-up left over, the inductive invariant, refinement of `RWLock`, a writer gets the lock, no deadlock | a writer that holds, one that waits, a reader that waits and one that leaves, all at once |
| `rwmutex_order` | the same with history | violation: a blocked writer can be overtaken by a later reader | |
| `syncmap` | 2 goroutines, 2 keys, 2 values, 5 entries | well-formedness, entry states of map.go:80-90 and ownership of removed entries, linearizability | the dirty map is built, promoted and rebuilt with one goroutine anywhere in its call; an entry per key, per goroutine and one spare |
| `dequeue` | a producer, 2 consumers, a ring of 2, 3-bit indexes, an item that is nil | bookkeeping of items, hand-over of slots, refinement of `Deque`, the producer's operations end | the indexes wrap around; two consumers and the producer meet at the last item |
| `chain` | a producer, 3 consumers, 4 items, up to 4 dequeues of size 1 and 2 | drained dequeues, popHead, links, refinement of `Deque` | two consumers race to drop a dequeue while a third is behind both and the producer appends |
| `pool` | 2 goroutines, 2 items, GOMAXPROCS 1 or 2, 3 arrays | an item is handed out once, indexes in range, one producer per chain, lists of pools | a primary and a victim array and the one being made; GOMAXPROCS shrinks and grows between any two pins |
| `server` | 3 connections, at most 2 workers, both channel capacities, clock to 2 | limit, counters of the pool and of the server, one handle per worker, where the binary search ends, refinement of `Dispatcher`; in the end every connection answered, the pool empty, the counters zero | more connections than workers; a worker can be idle, cleaned and replaced (what the search does in longer lists is proved); the panic at the limit and an error of the listener happen with connections in every state |
| `netpoll` | 2 initializers, 1 descriptor, 2 polling threads, 1 breaker | initialization once, semaphores, one wake-up, readiness and interruption arrive | two threads handle edges of one descriptor at once, with every step of the waiter in between |
| `groups` | 3 tasks, 2 waiters, 2 rounds, one key, 2 errors | the WaitGroup's checks never fire, Wait returns after all tasks with the first error, which stays, one execution of fn for all callers, no deadlock | a leader and two callers that join it; two tasks that fail at once; a waiter that wakes up late in a group used again |
| `stream` | 2 tasks, lines of 22 and 28 bytes, buffers of 24 and 16, ints of 12 bits, 2 printers | order and completeness of the bytes, whole lines that parse back, sticky errors, the receiver sees the end | a line that fits the buffer, one that is larger, both orders, every partial answer next to none and to all, a failure at any write; reads smaller than, and as large as, the Reader's buffer |
| `gin` | 2 requests, 2 Contexts, up to 2 handlers, 3 calls of Next and 2 other calls per request, codes 1 and 500, an index from -5 to 4 | ownership of Contexts, order of handlers, own data, one status code before the body | a Context passes from one request to another, also when one has died; a handler calls Next again, also after one that it has called has panicked; the index comes to the end of its range, and past it; a status that net/http refuses and one that it takes, and a Hijack that succeeds or fails, each before and after a byte |
| `gin_limit` | 1 request, up to 3 handlers, 2 calls of Next, 3-bit index | violation: a chain within the documented limit makes the index wrap around | |

Bounds: `MaxTime` stops the clock, `MaxElts` bounds the dequeues allocated (a
push that would need one more does not begin), `MaxPipe` is the size of the
pipe, `MaxHandlers` bounds a chain, `MaxNexts` the calls of Next of a request,
`MaxCalls` its other calls, `Entry`, `Array`, `PD`, `Chan`, `PP`, `Contexts` are the
cells an allocator may hand out, and `Rounds` bounds how often a group is used.
No other counter needs a bound.  Symmetry is used only in runs without liveness, and in `gin` a view leaves out the
group's handlers once requests are served, and the Contexts that have been dropped,
which nothing reads.  Deadlock is checked in all passing runs but `server`, which stops when Serve has ended, and
`stream`, whose program ends.

The check for deadlock carries more than it seems: that no wake-up is lost in
`RWMutex`, `NetPoll` and `WaitGroup`, and no lock kept in `SyncMap`, shows as
the absence of a state in which everyone waits.

Larger instances were checked once and are not among the runs, for their
length: `NetPoll` with the modes r and w and the safety properties only (2.1
million states), `Groups` with two keys (5.5 million), the handlers of one request of
`Gin` with up to 4 of them and 5 calls of Next, so that three handlers are in Next when
the fourth panics (16 thousand), and `Stream` with a Writer
of 4 and a Reader of 3 bytes, so that every line takes many writes (2.2 million).

### Fairness

A goroutine that can take a step takes it in the end (weak fairness per
goroutine), which Go's preemptive scheduler gives.  Calls are never fair: nobody
need lock, push, wait or connect, but who holds a `RWMutex` releases it and
WorkerFunc returns.  Acquiring the inner sync.Mutex of `RWMutex` is strongly
fair, since that mutex hands over to whoever has waited a millisecond.
`netpoll` is called again and again by the scheduler.  In `Stream` the owner's code
and the receiver's loop run on; the pipe answers.  In `Server` no connection need
come, so `ComesToRest` says what is so from some moment on.

### Where the code and the comments disagree

- `rwmutex_order`: rwmutex.go:21-22 promises that a blocked Lock excludes new
  readers.  A reader that comes after it may take the token that the previous
  Unlock released for an older reader, and read first.
- `gin_limit`: xgin/README.md:7 allows a route 127 handlers, the greatest int8.
  The index goes on counting after the end of the chain, once for each call of
  Next (context.go:60-63), so 64 handlers that all call Next, or a single one that
  calls it 127 times, bring it to -128, and Next calls handlers[-128].  `GinInv` and
  `InOrder` hold of a request as long as its handlers and their calls of Next are
  together at most as many as the index has positive values (`InRange`).

Noticed without a run:

- clean may retire workers that have just served, against workerpool.go:130-131.
  release reads the clock before it takes the lock (workerpool.go:213-214), so `ready`
  need not be in the order of the times, and the binary search may end behind a worker
  that has just been used (TLC shows it with three workers).  What the search does find
  on any list is `CleanCutsRight`: a boundary between an expired worker and one that is
  not.
- workerpool.go:17-18 says that WorkerFunc must leave the connection unclosed.  The
  server's is serveConn (server.go:343), which closes it (server.go:394), and
  workerFunc never does.  `ServerInv` states what the code does, that a connection is
  closed before it is counted out.
- response_writer.go:35 says that WriteHeaderNow forces the header out.  Hijack sets
  the size before it asks net/http (response_writer.go:95-97), and when net/http
  refuses, the header counts as written: the WriteHeaderNow that ends the request does
  nothing, the status asked for is lost, and the client gets 200.  `ResponseRight` says
  what it gets in this case too.  The same happens when net/http refuses the status
  itself (response_writer.go:61-62).

Also: a key never leaves the map of a SingleFlightGroup
(singleflight.go:64), so later callers get the result of a flight whose first
caller has returned shared = false, against singleflight.go:48; a handler's
recovered panic does not end the chain, since nothing aborts it
(context.go:61-64); a request for a method without a route is left to net/http,
which answers 200 (gin.go:183-201); Status() changes when WriteHeader comes too
late (response_writer.go:55), and no longer is what was sent; Reader.Read may
return data together with io.EOF when it reads directly (bufio_reader.go:66-74),
where :48 says that at EOF the count is zero; Atoi answers texts of 19 bytes and
more, and the empty text, with an error "todo" (atoi.go:37); the bodies of sema.go are empty, so that nothing that
sleeps works as it stands; an RUnlock too many while a writer holds the
lock and readers wait for it passes the check of rwmutex.go:81; acceptConn turns
every error into io.EOF (server.go:310), so Serve reports none; Serve panics
about too many connections (server.go:371) when fewer are open, because a worker
counts until it has put its channel back or has left; a panic of fn that the
caller recovers from leaves everybody else who calls Do with its key asleep
(singleflight.go:68-69).

## 4. Proofs

`RWMutexGinProofs` proves, about `RWMutex`, for any finite set of fewer than `MaxReaders`
goroutines and from `RWMutexAssumption` alone:

| Theorem | States |
|---|---|
| `Invariance` | `Spec => []IInv` |
| `TypeCorrect`, `PanicFree` | `[]TypeOK`, `[]NoPanic` |
| `MutualExclusion` | `[]Exclusion` |
| `NoWakeupLeft` | `[]NoStaleWakeup` |
| `Refinement` | `Spec => ImplementsRWLock` |

`Exclusion` is not inductive: it does not say why the last reader has left when
the writer wakes up.  `IInv` counts.  `Num(l)` is how many goroutines are at the
point `l`; `CountInv` says that `readerCount` is the number of readers that read
or wait, less `MaxReaders` while a writer is announced; `QuietInv`, that without
an announced writer each waiting reader has a token or is owed one, and nothing
is under way on the slow path; `DrainInv`, that `readerWait`, or `readerWait`
plus the writer's local `r` before they are added, is the number of readers the
writer has to wait for, and that the wake-up of the writer exists exactly when
that number is zero.  Every step moves one goroutine between two points, so
lemma `NumMove` gives the new counts and each action's lemma is arithmetic on
them.  `NumFacts` bounds the sum of three counts by the number of goroutines,
which keeps `readerCount` away from the overlap of the two ranges: this is where
`Cardinality(Goroutine) < MaxReaders` is needed.  `Refinement` is by cases on the
actions: those that change who holds the lock are steps of `RWLock`, by
`Exclusion` before and after.

`RWMutexGinProofs` also proves every property of the run `gin`, for any
sets of requests, Contexts, handlers and codes, any width of the index and any number of
calls, from `GinAssumption`:

| Theorem | States |
|---|---|
| `DataCorrect`, `OwnDataAlways` | `GinSpec => []DataInv`, `[]OwnData` |
| `GinCorrect` | `[]GinInv` |
| `InOrderAlways` | `[]InOrder` |
| `ResponseRightAlways` | `[]ResponseRight` |

`DataInv` (types, `Owners`, `OwnData`) is inductive by itself: a response writer
belongs to the request whose Context it is in, so what a handler writes reaches its
own client.  The order of the handlers needs the index: `Chain` says that it is at
the last handler called while any are left, and that
`index + Len(frames) <= nexts + Len(ran)`: a call of Next adds one to the index and one
for each handler that it runs, and the handlers that are running have not added theirs
yet.  So as long as `Len(route) + nexts < Half` (`InRange`; 128 in the code), however
the calls are shared out among the handlers, it does not wrap around (`NoWrap`), and
the run `gin_limit` shows what happens beyond.  `nexts` only grows while a request
lasts, so one that is in range has always been (`RangeBack`).  `Ready` is what `Advance`
needs, and the three steps of Next (`Found`, `CallNext`, `HandlerReturns`) establish it.
`AnswerInv` relates the writer's size and status to what the client has: nothing was
sent while the size is -1, and then the status is the code last asked for; from then on
a code was sent, or the connection is hijacked, or the header was missed.

`SyncMapProofs`, for any goroutines, keys and values, from `SyncMapAssumption` and
`CallAssumption`:

| Theorem | States |
|---|---|
| `Invariance` | `Spec => []IInv` |
| `MapWellFormed`, `EntriesAreRight` | `[]WellFormed`, `[]EntriesRight` |
| `MapIsLinearizable` | `LinSpec => Linearizable` |

`EntryStates` is not inductive: goroutines outside `mu` act on entries that they found
in an old `read`.  `IInv` says what they may still meet: `Maps`, that a key has the same
entry in both maps and no other has it; `Stages`, what the dirty map is while it is
there and while `dirtyLocked` copies into it; `Phases`, where a goroutine is in which
call and who has `mu`; `Owners`, whose entry is whose, and that an entry in neither map
that is still live will be taken by exactly one Delete.
Linearizability needs one invariant more,
`SeenRight`: what a call may return is among the values its key has had since the
call began, even if the entry it looks at is in neither map any more.  Then each step
is the one effect of a call, its return, or nothing that a caller sees; where the
step of one goroutine is the effect for the other too (a promotion, an entry that
becomes unreachable) lemmas show that `Contents` does not change.

`PoolDequeueProofs`, for any consumers, items, width of the indexes and size of the
ring that divides their number and is at most a quarter of it, from
`DequeueAssumption`:

| Theorem | States |
|---|---|
| `Invariance` | `Spec => []IInv` |
| `SlotsAreHandedOver`, `RingIsRight` | `[]SlotsHandedOver`, `[]RingInv` |
| `DequeueImplementsDeque` | `Spec => ImplementsDeque` |

The first part is arithmetic: `Division`, `Multiples` and `Neighbours` say what the
proofs need of remainders, and `Distances` what follows for a head and a tail that
wrap around: their distance tells where the head is and whether the ring is full or
empty, and it moves by one.  That the size divides the number of indexes is what lets
a slot be found from an index that has wrapped; the code has powers of two for it.
`Owners` says who has which slot: the ring those from tail to head, the producer the
one at the head between writing it and moving the head, or between moving the head
down and clearing it (`ProducerRight`), a consumer the one it moved the tail past
until it clears the type word (`ConsumerRight`, `Apart`); any other is clear.  A
loaded `headTail` may be old: `ProducerRight` keeps of it only that its head is the
current one, as nobody else moves the head, and a successful exchange that it is
current altogether.  `One(x)` says without counting that the item is outside, pushed,
at one place of the queue or popped by one process.  Each step is then one of seven
things that can happen to the items (`Effect`: it begins or fails to be pushed, joins,
is taken at either end, is returned, or nothing), `One` survives each of them, and
each is a step of `Deque` or a stutter.

`PoolProofs`, for any goroutines, items, arrays and any set of values of GOMAXPROCS,
from `PoolAssumption`:

| Theorem | States |
|---|---|
| `Invariance` | `Spec => []IInv` |
| `FieldsAreRight` | `[]FieldsRight` |
| `OneProducer` | `[]SingleProducer` |
| `HandedOutOnceAlways` | `[]HandedOutOnce` |

`Bookkeeping` says of each goroutine where it is pinned, whether it has an item, and
that the array and the size it has loaded fit each other.  They do although they are
two loads, because `localSize` is loaded first and nobody makes it smaller while
anybody is pinned.  Pins make a poolLocal its user's own (`OwnP`), so what was read
from a private field is there until it is cleared.  `Once(x)` says without counting
that an item is with a user, in a hand, in a private field or at a position of a
shared list, and in one place only; each step that moves an item leaves it in one
place by a lemma for that kind of place (`OnlyHeld`, `OnlyInHand`, ...), and all
others leave it where it was or lose it (`Fewer`).

`ServerProofs`, about the worker pool and then the server, for any connections,
workers, limits and clock, from `WorkerPoolAssumption`:

| Theorem | States |
|---|---|
| `BinarySearchCuts` | `TypeOK => CleanCutsRight` |
| `PoolIsRight`, `OneHandleAlways` | `Spec => []PoolInv`, `[]OneHandle` |
| `PoolImplementsDispatcher` | `Spec => ImplementsDispatcher` |
| `ServerImplementsPool` | `SSpec => Spec` |
| `ServerIsRight`, `ServerKeepsOneHandle`, `ServerCleanCuts` | `SSpec => []ServerInv`, `[]OneHandle`, `[]CleanCutsRight` |
| `ServerImplementsDispatcher` | `SSpec => ImplementsDispatcher` |

`IInv` of the pool is `PoolInv`, `OneHandle` and that the workers alive are finitely
many, so that `workersCount` is a cardinality that moves by one.  `OneHandle` is what
the rest depends on: the acceptor, the cleaner and Stop send on channels without
asking, and a worker waits exactly if one of them, or `ready`, has its channel.  The
binary search is proved right by induction over the length of the interval that is
left; the library's induction theorems cannot be used here, so the module has one
about a set of numbers (its least element).  `SInv` adds `ServerInv` and that the
connections counted are finitely many.  `ServerLifts` shows that under it every step
of the server is one of the pool or leaves the pool alone, so what was proved of the
pool holds of the server; only the server's own counters are proved anew.

`NetPollProofs`, for any descriptors (fewer than 128, the size of the event array,
and no more than there are pollDescs), threads, breakers and initializers, from
`NetPollAssumption`:

| Theorem | States |
|---|---|
| `PollerIsRight` | `[]PollerInv` |
| `EachWokenOnce` | `[]WokenOnce` |
| `PollerImplementsSemaphores` | `Spec => ImplementsSemaphores` |

`IInv` is `TypeOK` and the parts `InitStages` (how far the one initializer is),
`BreakAnnounced` (while `netpollWakeSig` is raised, a byte is in the pipe or somebody
is about to write one or to lower the flag), `OwnDesc` (a pollDesc has one
descriptor), `Quiet`, `SemFits` and `ListsRight`: what the word of a semaphore says
fits the step of its waiter, and a goroutine parked in `G` that has been taken out of
the word is in one thread's list.

`GroupsProofs`, for any tasks, waiters, keys, rounds and errors, from
`WaitGroupAssumption`, `ErrGroupAssumption`, `SingleFlightAssumption` and
`GroupsAssumption`:

| Theorem | States |
|---|---|
| `Invariance` | `Spec => []IInv` |
| `NobodyPanics`, `WaitsForAll`, `OneExecution` | `[]GroupsInv`, `[]WaitIsRight`, `[]SameResult` |
| `FirstErrorWins` | `Spec => FirstErrorStays` |

`WGSound` is about any WaitGroup whose clients keep its rules: one goroutine at a
time ends a round, and those that sleep are as many as the tokens of the semaphore
and the wake-ups that are due.  `Counts` ties the counter of the
ErrGroup to the tasks that have begun and not left, `Callers` says which call a
goroutine may be in, `OnceRight` who is in the Once, and `Flights` that a call counts
its one leader and has its result when the counter is zero.  So the rules are kept,
the checks do not fire, and who has passed a Wait finds no task left; this is also why
the cancellation at the end of Wait (errgroup.go:41-43) comes when no task is running.

`PoolChainStreamProofs`, about the chain, for any consumers and items, any number of
dequeues and any sizes of them, from `ChainAssumption`:

| Theorem | States |
|---|---|
| `TypeCorrect`, `ChainRight` | `Spec => []TypeOK`, `[]ChainInv` |
| `LinksOneWay` | `Spec => LinksMoveOneWay` |
| `ChainImplementsDeque` | `Spec => ImplementsDeque` |

`IInv` numbers the dequeues in the order of their allocation: `EndsRight` (the newest
is the head, or about to be), `NextRight` and `PrevRight` (a link leads to the
neighbour; next lacks only where the producer has still to store it, prev only at the
tail and before), `RingsRight` (what is before the tail is drained),
`ProducerRight` (what the producer has passed on its way back is empty, and so is the
dequeue it has just allocated) and `ConsumerRight` (a consumer is at the tail or at what
was the tail, and drops only what is drained).  The dequeue that a consumer finds empty
stays empty because next was loaded before the pop and was not nil: the producer has
left it for good.  The abstract queue is the contents of all dequeues, one after the
other (`FlattenSeq(q)`).  `FlattenSeq` is recursive; `JoinExists` shows that its function
is defined and `UptoIs` what it does, and from that come the lemmas about one changed
part.  With them a push appends (`PushAppends`), a pop takes the newest or the oldest
(`HeadPopTakes`, `TailPopTakes`), since the dequeues beyond the one it is at are empty, and
every other step leaves the queue alone.

`PoolChainStreamProofs`, about the program of `Stream`, for any tasks and numbers,
printers, formats of the header, sizes of the two buffers and of the reads, and any
failures of the pipe, from `TextAssumption`, `BufioAssumption`, `LoggerAssumption` and
`StreamAssumption`:

| Theorem | States |
|---|---|
| `StreamRight` | `StreamSpec => []StreamInv` |
| `WholeLines` | `StreamSpec => LinesGoWhole` |
| `ErrorsAlwaysStick` | `StreamSpec => ErrorsStick` |

`StreamInv` is not inductive: a partial answer of the pipe is right only if it is the
answer to what was asked.  `WriterStages` says that the pipe is asked by a Writer that
has not failed and for at least one byte, that its answer is within that, and that
nothing is left of a Write that has ended without an error; `ReaderStages`, that a
Reader asks only when it has neither bytes nor an error left; `OwnerStages`, that the pipe
is closed when the Writer is at rest for good, so that EOF is the end; `PrintersRight`,
that no two tasks have one printer and none in use is in the pool; `LinesRight`, what is
in a printer, a Builder and the Logger's buffer at each stage of a task.  Each step then
cuts and joins sequences, which the lemmas from `JoinBytes` to `Beginning` are about.
That texts are sequences at all is a statement about recursive functions
(`two` of formatBits, `digits` of xlog's itoa, `upTo` of Join).  `Followed` proves that a
definition that goes down along a measure defines a function, `BytesAllTheWay` that
its values are bytes if each is so when the smaller one is; the three are
instances of it (`DigitsAreBytes`, `itoaIsBytes`, `JoinIsBytes`).

In all these modules TLC checked the inductive invariant on the instance of the run
before it was proved (for `Pool` with the positions of a list bounded).  It checked
`LinesGoWhole` too, which is no property of the run because `LinesWhole` says more of it.

Some assumptions on constants were made explicit for the proofs: that the goroutines
of a WaitGroup are finitely many (a program's are) and an ErrGroup is used at least
once; that `Nil`, `Expunged` and `None` are not confused with each other or with a
map or a call; that `None` is not a number and `Nil` neither a task nor a printer; that
the numbers logged are ints and the parts of a time natural numbers; that `2 ^ Width` is a
positive natural number, since the provers know nothing about powers.

What stays with TLC: liveness (`WriterGetsLock`, `AllDelivered` and their like) and
anything with ENABLED, which are out of this prover's reach, and what the functions of
`Text` and `Shuffle` compute, which is induction over data: that Atoi reads back what
Itoa wrote, so `LinesWhole`, which parses what has arrived (`WholeLines`
and `StreamRight` prove what comes before the parsing).  The library's
induction theorems take an operator, which the provers here cannot instantiate; where
the proofs need induction they use sets of numbers and their least elements
(`CountingUp`, `LeastNumber`).

## 5. Not modelled

`noCopy` and `Locker` have no behaviour.  `main.go` is one of the programs that
`Gin` is about: a middleware that calls Next and a handler that writes.  Of
`Once`, the steps of Do are in `ErrGroup`, but for a panic of `f`; a panic of
`fn`, of a task or of WorkerFunc is not modelled.  Of `Server`, configuration that
no code reads is left out.  Of `xgin`, the joining of paths (util.go), whose
result no lookup uses, `Params`, which nothing fills, and the concurrent use of a
Context by goroutines of a handler (Set and Get are one step each, under their
mutex).  Of `xbufio`, the fields that nothing reads and the panic on a stream that
returns a negative count.  The texts of errors are left out everywhere.

## 6. What is left

Every component with behaviour is modelled, and every safety and action property and
every refinement that a passing run checks is proved, but for `LinesWhole`.
To prove it too, one would show with `Followed` that the value of what `two` returns is its
argument, which is the induction of `BytesAllTheWay` with values instead of types, and then
the same of `Pieces`.
