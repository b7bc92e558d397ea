# Verification of nattan and libcask

nattan is a C++ network library on top of libcask, a C library of stackful
coroutines ("tasks").  Each thread has one scheduler; tasks never move between
threads, but mutexes, wake-ups and the await pool cross threads.  This directory
holds TLA+ modules of the concurrent core and of the network, TLS, HTTP, DNS and utility
layers on it, TLC configurations for small instances, and TLAPS proofs for all instances
of the core, of what tasks and threads wait on, of what must outlive its users, of the
tunnel and the resolver, of the buffers, the identifiers and the hash map, of base64 and of the
configuration.

Paths below are relative to `src/nattan/src/`; `libcask/` is `deps/libcask/`.

## 1. Inventory

| Part | State | Operations | Interacts with | What makes it correct |
|---|---|---|---|---|
| Lists `libcask/list.c` | links inside tasks | add, delete, next, empty | everything below | a link is in one list at a time |
| Mutex `libcask/co_mutex.c`, `sync/TaskMutex.h` | lock word, wait list, spin lock | lock, try_lock, unlock, lock_wait | scheduler (park, `co_resume`) | exclusion, no lost wake-up |
| Scheduler `libcask/task_sched.c`, `sched_RR.c`, `task.c` | run queue, current task, status, wake-up pipe | schedule, picknext, enqueue, create, exit | epoll, all blocking primitives | never sleeps on work, forgets no task |
| Events `libcask/event.c`, `inner_fd.c`, `sys_hook.c` | epoll set, per-descriptor task, error, time-out | event_poll, event_wait, hooked calls | scheduler, time wheel | each waiter resumed once, with the right error |
| Time wheel `libcask/time_wheel.c`, `timer.c` | slots, position | update, rotate, delete | events | no time-out early, none lost |
| Condition, semaphore, barrier, rwlock `libcask/co_*.{c,h}` | counters, wait lists | wait, signal, post | mutex, scheduler | no lost wake-up, counts exact |
| Channels `libcask/chan.c`, `sync/Chan.h` | ring or queue | send, recv, timed forms, close | condition, mutex | FIFO, nobody stuck |
| Await `task/Task.cpp`, `task/Task.h`, `libcask/co_await.c` | runner, result | await, wakeup | pool, scheduler | returns exactly after the job |
| Blocking queue `thread/ArrayBlockingQueue.h` | ring, mutex, two conditions | put, take, offer, poll | pool, task thread | bounded FIFO, lock released |
| Thread pool `thread/ThreadPool.h`, `Thread.*` | running, bStarted, workers | start, put, stop | queue, await | every accepted job runs, stop returns |
| Task thread `task/TaskThread.h` | queue, boss, idle workers | submit, keep-alive | queue, channel, scheduler | every submitted runner runs |
| Identifiers and containers `libcask/cid.c`, `heap.c`, `hash_map.c`, `array.c`, `bit_map.c` | next id, heap of freed ids, buckets | alloc, free, put, get, del, clear | tasks, task-local storage | no identifier in use twice, a get finds what was put |
| Future `thread/Future.h`, Singleton `base/Singleton.h` | result, flag; pointer, spin lock | run, get; getInstance | threads, await | no result before it is there, one instance |
| Buffers `core/Buffer.h`, `TempFile.h`, `File.h` | indices, memory or file | write, read, receive, spill, send, clear | HTTP bodies, sockets | bytes kept, in order, inside the vector |
| Sockets `net/Socket.h`, `SocketHelper.h`, `Unhook.h` | descriptor numbers, tables of addresses and handlers, hook flag | connect, accept, listen, readTill, tunnel | hooked calls, TLS | tables follow the connections, the hook comes back |
| TLS `net/ssl/*` | context tables, handlers, certificates | context lookup, open, close, signCert, parse of a hello | OpenSSL, sockets | right context, objects freed once, hello of this connection |
| HTTP `proto/http/*`, DNS `proto/dns/DNS.h` | message being filled, body; channel, results | recv, send, callbacks; resolve | buffers, sockets, vendored parsers | messages whole however the stream is cut; the answer of this name |
| Configuration `core/ConfigParser.cpp` | map of sections | load, reload, look-up, dump | files | agrees with the text |
| Utilities `util/Base64.h`, `UUID.h` | -; last time and sequence number | encode, decode; next id | - | round trip; unique ids |

Hard behaviours: a task can be woken from another thread while it still runs on its
stack; `co_resume` is two steps; the scheduler decides how long to sleep from a look
at the queue that is stale when it sleeps; descriptor time-outs race late events; the
pool starts and stops concurrently with its users; objects are reused from message to message
and descriptor numbers from connection to connection; one step of several fails.  `PROJECT.json` lists each hazard
with its line and the properties aimed at it.

## 2. Modules

| Module | Models | Checked by | Proved in |
|---|---|---|---|
| `CaskList` | list operations as operations on sequences | through its users | `ListLemmas` |
| `CoMutex` | `co_mutex.c` with cross-thread `co_resume` | `MCCoMutex` | `CoMutexProofs` |
| `CoSched` | one scheduler thread, epoll, active task and pipe, await pool threads | `MCCoSched` | `CoSchedProofs` |
| `BoundedFifo` | abstract bounded FIFO | as `IsFifo` | - |
| `ArrayBlockingQueue` | the ring with put, take, offer, poll | `MCArrayBlockingQueue` | `ArrayBlockingQueueProofs` |
| `ThreadPool` | composes the queue with workers, `start`, `put`, `stop` and `Task::await` | `MCThreadPool` | `ThreadPoolProofs` |
| `Chan` | `sync/Chan.h` with its timed waits and close | `MCSync` (refines `BoundedFifo`) | `SyncProofs` |
| `TaskThread` | boss, workers, keep-alive, submit | `MCSync`, `TaskThread_outside.cfg` | `SyncProofs` |
| `CoSem` | `co_sem.c`, one step per atomic instruction, with cross-thread `co_resume` | `MCSync` | `SyncProofs` |
| `CaskChan` | `chan.c` with `co_cond.c` | `MCSync` | `SyncProofs` |
| `EventPoll` | `event.c`, `time_wheel.c`, `inner_fd.c`, hooked `close` | `MCResources` (safety), `MCNet` (liveness) | `ResourcesProofs` |
| `HookedIo` | hooked `read`, `co_read_till`, `co_poll` | `MCResources` | `ResourcesProofs` |
| `Future`, `Singleton` | `thread/Future.h`, `base/Singleton.h` with `co_spin_lock.c` | `MCSync` | `SyncProofs` |
| `Cid`, `HashMap` | `cid.c` with `heap.c`; `hash_map.c` | `MCData` | `DataProofs` |
| `Buffer`, `BodyStore` | `core/Buffer.h`; `HttpBody`, `TempFile`, `File` | `MCData` | `DataProofs` |
| `SocketTable` | `net/Socket.h`, `SocketHelper.h` | `MCResources` | `ResourcesProofs` |
| `Tunnel` | the splice functions of `SocketHelper.h`, `Unhook.h` | `MCData` (safety), `MCNet` (liveness) | `DataProofs` |
| `SslSession`, `CertSign`, `ClientHello` | `net/ssl/` | `MCResources` | `ResourcesProofs` |
| `HttpParser` | `HttpParser.h`, headers, bodies, and the calls `http_parser.c` makes, as operators | through the next two | - |
| `HttpServe`, `HttpFetch` | a server's and a client's connection | `MCNet` | - |
| `DNS` | `proto/dns/DNS.h` | `MCData` (safety), `MCNet` (liveness) | `DataProofs` |
| `Base64`, `UUID` | the files of these names | `MCData` | `DataProofs` |
| `ConfigParser` | `core/ConfigParser.cpp` | `MCData` | `DataProofs` |

### CoMutex
`pc[t]` follows a task through `co_mutex_lock` / `unlock`; `target[t]` is the waiter an
unlocker has taken off the list.  The two halves of `sched_rq_enqueue` (store RUNNABLE,
link into the run queue) are the actions `ResumeMark` and `ResumeLink`; the switch-out of
a parked task (store SYS_BLOCK, then the scheduler's look at the status) is
`StoreBlocked` and `SwitchOut`; a task that was resumed in between is enqueued by its own switch-out, which like
every `RR_enqueue` takes the link out of any list it is in.  Spin-locked regions are single steps.  `ThreadOf` says on which thread
each task runs: tasks do not move, so it is chosen at the start, among `Placements`, and never changes.

### CoSched
`spc` follows `schedule` / `RR_picknext` / `event_wait`; `timeout` is the argument of the
next `epoll_wait`.  `DelayEvent` and `PickNext` are the two separate looks at the run
queue.  The active task (`apc`) reads the pipe through the hooked `read`; `WorkerLink` and
`WorkerWrite` are the two halves of `Task::wakeup`.  The one-second timer of the time wheel
is left out on purpose: it would end any sleep and hide a lost wake-up.  Error events and
descriptor time-outs are in `EventPoll`; `epoll_wait` returning -1 ends the process and is
left out.

### ArrayBlockingQueue and BoundedFifo
Each call is cut into the unlocked look, the (try-)lock, the body and the unlock.  The body
is one step because the ring is only touched under the lock (`LockHeld`, checked and proved).
The early return of `offer` and `poll` after their second look leaves the lock held in the
code and in the model.  `pthread_cond_wait` may wake up spuriously.  `use` says which of the four operations
each thread ever calls; it is chosen at the start, among `Uses`, and never changes.

### ThreadPool
Every `Task::await` runs `start()` (four separate steps), `put()`, and waits.  `running` starts
with any value, since the class does not initialise it.  Two threads in `start()` may race on the
vector of workers and lose an entry.  `Main` runs `stop()`.  `Casts` says which threads ever take part.

### Chan, CaskChan, CoSem, TaskThread
Tasks of one thread give up the processor only in a wait, so in `Chan`, `CaskChan` and `TaskThread`
everything between two waits is one action.  The timer of a timed wait takes its task off the wait list
and may expire at any time.  `CaskChan` has both kinds of channel; each task makes one call and a message
is its sender.  `CoSem` is used across threads: every atomic instruction is an action, and a post takes a waiter
off the list under the lock, gives the lock back, stores RUNNABLE and links it, in that order and as separate steps, so that
another thread's late link meets a task that has put itself on the list again.  As in `CoMutex` the model stops when a link
is in two lists (`Intact`): from there on the pointers are garbage.  `TaskThread`
composes the boss's channel, the blocking queue and the idle set; `submit` from a task sends, from a thread offers; the boss
is there before it is started and `fSched` is set, as in `run()`.

### EventPoll and HookedIo
`TimerExpires` is the one-second timer of the wheel; `timeout_task` reads the expirations that have accumulated as one
tick.  The memory of an `inner_fd` has an address: `close` frees it under a waiter, `new_inner_fd` may get the same address
for another number, or the same number another address.  A task that returns from its yield goes on through the pointer
it kept (`ptr`): `PollReturnFreed` takes the link of whatever is at that address out of the wheel and the number it finds there out
of the epoll set, so it can strip another task of its wait; memory that was given to an object of another kind is left
out.  The histories `shared` and `freed` name the tasks this can happen to.  `HookedIo` follows the hook flag of a task through
`co_read_till`, and its reads through bytes, time-outs, the end of the stream and errors.

### Future, Singleton, Cid, HashMap
`Future` and `Singleton` have unlocked first looks; their stores are taken to be seen in program order
(x86).  `Cid` keeps the identifiers and the array heap with its two repair loops; -1 is 2^64 - 1 when it is
reduced.  `HashMap` is a table of buckets with a ghost map of what was put.

### Buffer, BodyStore, SocketTable, Tunnel
`Buffer` computes its indices modulo a small word, as `size_t` does.  Its peeks read and then write at the end:
`peekLong` goes through the `int` of `readLong`, so that it puts back the low bytes with the sign in the others, and a peek
beyond the content puts back what was on the stack.  `BodyStore` keeps bytes in memory or in
a file whose unlinked contents stay readable; a send can fail at every byte, the final line break included (`sendFails`),
and a write that returns 0 ends the send of a buffer as a success (`sendStalls`; of a file it is tried again).  `SocketTable` numbers
connections apart from descriptors, whose numbers the kernel reuses, and TLS handlers apart from connections: `setSSLHandler` takes an
entry whether or not there is a handler in it, and `close` of a connection with a handler empties the entry, yields in
`SSL_shutdown` (`shut`) and then deletes and closes (`CloseEnd`).  `Tunnel` has every exit of the splice functions; a poll
can time out while bytes wait inside the SSL object.

### SslSession, CertSign, ClientHello
OpenSSL is external: `SslSession` names contexts and SSL objects by order of creation, `CertSign` counts references
of each kind and lets every call fail, `ClientHello` keeps the in-place byte-order conversions, which is what a
second `parse()` meets.

### HttpParser, HttpServe, HttpFetch, DNS, ConfigParser, Base64, UUID
A stream is a sequence of units, separators of tokens among them, which the network cuts into chunks.  Of the vendored
`http_parser.c` the module has the states between tokens and the data callbacks it makes: one for what a chunk holds of a
token, and an empty one when the chunk before ended exactly where the token does.  Its tables of characters, folded values,
chunked bodies and upgrades are left out.  Bodies are those of `BodyStore`: one that goes over the memory limit goes
to the file, and a reset leaves there what nobody has read.  c-ares is external.  `ConfigParser`, `Base64` and `UUID` are checked against reference
definitions (a declarative reading of the text, radix 64, uniqueness).  `Base64` writes shifts and masks of a char as `\div`
and `%`; in `UUID` a number is the set of its bits, so that `|` is a union, and `tids` are the threads of a
behaviour, chosen at the start among `Crews`.  Every access of the two shared variables of `UUID` is a step (the sequence
number is stored unmasked, loaded, stored masked and read again), and the clock is the wall clock: it can be set back.

## 3. Runs

Components that share no state share a run: `MCSync`, `MCResources`, `MCNet` and `MCData` instantiate
several components with variables of their own, `part` says which of them moves in a behaviour, and the
others stay in their initial state.  `MCSync`, `MCResources` and `MCData`
take the constants of the components that are proved about as their own and the cfg gives them values, so that the
proofs speak of every value.  A behaviour with `part = "chan"` is thus a behaviour of `Chan` and nothing else; `part = "x" => P` says `P` of component x.  The properties of these runs are conjunctions of
properties that the component modules define and comment (`ChannelsSafe`, for instance, of `SleepersJustified` and
`RingConsistent` of `Chan` and of `ChanInOrder` and `Rendezvous` of `CaskChan`), with the types of the component
among them; the liveness properties are gathered in `WaitsEnd` and `CallsEnd`.  `MCArrayBlockingQueue` and `MCCoMutex` only
give constants: who calls what and which task runs where are the variables `use` and `ThreadOf`, and `LockGivenBack`, `OneThreadSafe`
and `OneThreadServes` say what holds of the behaviours with one producer and one consumer, and with one scheduler.

| Run | Instance | Result |
|---|---|---|
| `mutex` | 3 tasks on 2 threads; 3 tasks on 1 | exclusion, no lost wake-up, no forgotten task; on one thread no link in two lists, no freed target, the last waiter gets the mutex |
| `mutex_link_two_lists` | 3 tasks, 2 threads | violation: a late `RR_enqueue` puts a link into two lists |
| `sched_loop` | 2 tasks, 2 pool threads, pipe of 2, reads of 1 | no sleep on work, every await returns |
| `queue` | ring of 2: every call; 2 producers and 2 consumers that block; one of each | bounded FIFO, lock respected; no stale wait, the queue moves; the lock is given back |
| `pool_await` | 2 users, or 1 and a stop at any time; 1 worker per start, ring of 2 | no accepted runner lost, none run after its await returned, every await that finds the pool started returns |
| `pool_first_await` | unstarted pool, 2 users | violation: the second first await can hang |
| `pool_stop` | 1 user and a stop, 2 workers, ring of 4 | violation: `stop()` can wait for a worker that never ends |
| `taskthread_outside` | one runner from a thread without tasks | violation: the runner never runs |
| `sync` | see below | channels, semaphore, task pool, future and singleton |
| `resources` | see below | waits for descriptors, tables by descriptor, TLS sessions and certificates |
| `net` | see below | calls on a connection end and answer right |
| `data` | see below | data structures agree with what they stand for |

| Run, part | Instance | What is shown |
|---|---|---|
| `sync`, `Chan` | 1 sender, 2 receivers, timed and not, close() at any time, ring of 2 | a bounded FIFO that close() may empty; the head is taken; only senders can be left asleep, after close() |
| `sync`, `CaskChan` | 3 senders, 3 receivers, 2 slots and none | order; a send without buffer returns after its message was received; every call returns |
| `sync`, `CoSem` | 3 tasks, count 1, 4 posts, 5 waits and tries | never too many inside; exactly one unit lost per sleep; no sleeper forgotten |
| `sync`, `TaskThread` | 2 runners from tasks, 1 from a thread, 3 workers, keep-alive | no runner lost or run twice; runners from tasks run; idle workers die |
| `sync`, `Future` | 3 getters, 2 spurious wake-ups | no early result; who can be left waiting |
| `sync`, `Singleton` | 3 threads, 2 calls each | one instance; every call returns |
| `resources`, `EventPoll` | 2 tasks, 2 descriptors, 2 addresses, wheel of 5 | nobody forgotten but by a shared or freed descriptor, no stray or early wake |
| `resources`, `HookedIo` | 3 bytes, 5 calls, the end at any time | bytes in order; the hook is lost only by an expiry |
| `resources`, `SocketTable` | 2 tasks, 3 numbers, 4 connections, 2 TLS handlers | tables current, nothing lost or dangling, handlers owned or overwritten |
| `resources`, `SslSession` | 2 threads, 3 versions, 3 opens | right context, few wasted, SSL objects owned, ciphers in order |
| `resources`, `CertSign` | every failure, extension lists of up to 3 | everything freed, honest answer, names copied |
| `resources`, `ClientHello` | 3 connections, reads of any size | ciphers and name of this hello; a hello in one read is whole |
| `net`, `EventPoll` | 2 tasks, 1 descriptor, events and errors | waits end |
| `net`, `Tunnel` | as in `data` | the calls end |
| `net`, `DNS` | as in `data` | the calls return |
| `net`, `HttpServe` | 3 requests of a client that waits; 2 of one that sends ahead | heads intact when no chunk ends in or right after a token, else ends of their own tokens; bodies whole, after what is left in the file; answered or closed; no double answer |
| `net`, `HttpFetch` | 3 requests on one connection | responses whole, after what is left in the file; recv() returns |
| `data`, `Cid` | 6 tasks, 5 identifiers | heap order; ids conserved or, after a failed allocation, bounded; distinct until then |
| `data`, `HashMap` | 5 names, 2 to 8 buckets | what was put is found; count right |
| `data`, `Buffer` | vector of 3 to 12 bytes, prefix of 2, int of 2 and long of 4 bytes | a byte queue, with real room until a resize shrinks it |
| `data`, `BodyStore` | 2 bytes of memory, chunks of 2, 4 bytes of file | bytes in order across spill, failed sends and resets; sent whole unless the peer took nothing |
| `data`, `Tunnel` | 5 bytes, 3 calls, TLS and not | carried in order, hooked outside |
| `data`, `DNS` | 2 names, 4 calls, answers in time, late or never | first call right, no stray answer, channels destroyed once |
| `data`, `Base64` | texts up to 5, coded texts up to 6 | radix 64, round trip, inside the buffers |
| `data`, `UUID` | 3 threads, one with a number too large for its field, or one thread; a clock of 3 values that can go back, 9 ids in all (3 per thread of three) | ids repeat only when calls or bits overlap or the clock goes back |
| `data`, `ConfigParser` | 2 files, 4 lines, 8 kinds of line | look-ups and dump agree with the text |

Bounds.  Two threads are enough for every pair of interleaved steps, and the third task of the
mutex run gives a holder, a waiter and a newcomer.  In `sched_loop` the pipe (2 bytes) fills and
is read in several turns, both tasks can be in the pool at once, and both pool threads can be
between their link and their write.  Rings of one and two slots wrap and fill.  In `pool_await`
the ring has a slot per user, so `put` never waits (the code has 64 slots).  With more awaits under
way than slots, a blocked `put` can be overtaken for ever, which pthread conditions allow, and
`StartedAwaitReturns` fails; `queue` covers the full queue.
In the channels there are tasks enough on each side for a waiter, a woken task and a newcomer.  The wheel
has five slots, so that a time-out of three reaches round it; two addresses are enough for a freed one to be given to the other
descriptor.  Buffers are a few bytes long, so that every index
meets every other; streams are cut at every place, and in `net` one byte of a body stays
in memory, so that bodies of two go to the file.  Fields of `UUID` and the word of `Buffer` are narrowed so that
they overflow.  Six tasks give a heap of three levels.
`CHECK_DEADLOCK FALSE` is set where the clients may stop by design: threads that all block in `put`, a pool
that has been stopped, a bounded number of calls that have all been made, a peer that has gone.

Fairness.  Weak fairness on every thread's next step: threads run.  Strong fairness on taking the
queue's mutex: `pthread_mutex_lock` does not refuse one thread for ever.  `sched_loop` has no fairness on
the 60-second expiry of `epoll_wait`, so every await must return without it, and none on users or peers.
In `queue`, `PutTakeMoves` also assumes that its clients go on calling.
In the modules of one scheduler thread (`Chan`, `CaskChan`, `TaskThread`, `HttpServe`, `HttpFetch`, `Tunnel`, `DNS`) a
runnable task runs, since the run queue is served in turn, and timers expire.  `Chan` assumes
that receivers go on receiving; `HttpFetch` that the server answers or closes.
`EventPoll` assumes that seconds pass, that the timer task runs and that a woken task returns; events need not come.
`Future` and `Singleton` assume only that threads run (weak fairness): the spurious wake-ups of `Future` are bounded, so
that its mutex comes free for good.

## 4. Findings

Four runs show a violation:

- `sched_rq_enqueue` marks a task RUNNABLE before it links it; across threads the task can run, park
  or be freed in between (`mutex_link_two_lists`).  On one thread it cannot (`OneSchedulerIsSafe`).
- `ThreadPool::start` sets `bStarted` before `running` (`pool_first_await`).
- `ThreadPool::stop` offers one empty job per worker without a look at whether the offer was taken, and joins (`pool_stop`).
- `TaskThread::submit` from a thread without tasks wakes nobody (`taskthread_outside`).

Other limits of the code are what the qualifications of the passing properties are about:

- `offer` and `poll` return with the lock held when their second look fails; it takes two
  producers or two consumers, and `LockGivenBack` is said of one of each.
- RUNNING is set before the boss of a `TaskThread` and its scheduler are: a `submit` in between ends in the state "crashed".
- `co_sem_post` does not look for a waiter when it brings the count to zero, and each sleep costs a unit: `SemAccount` counts it.
- The unbuffered C channel signals twice where it must reach one particular sender; without a buffer `CallsReturn` is
  checked with three senders, since a fourth can take the second signal.
- `co_sem_post` resumes after the unlock, with the two steps of `sched_rq_enqueue`: `SleepersListed` holds up to the first link
  that is in two lists.
- `event_poll` returns through the `inner_fd` it had before its yield, and two tasks may poll one descriptor: `NobodyForgotten`,
  `WaitEnds` and `NotEarly` are said of the tasks whose descriptor no other task has polled or closed, or returned to through
  freed memory.
- A time-out counts expirations of the timer, the first of which can come at once: FD_TIMEOUT is 3, and a wait may end after little
  more than 2 seconds (`NotEarly`).  The comment at `libcask/inner_fd.c:11` says 5 seconds.
- `setSSLHandler` drops a handler that is in the table already (`HandlersOwned` counts it as overwritten), and a Socket
  left from a failed `TcpListen` closes the connection that gets its number next (`TablesCurrent`, `NoneDangles` and
  `NoDescriptorLost` hold until then).
- `peekLong` changes the bytes it puts back, and every peek puts them behind what is there already (`ByteQueue` takes a peek for a read and a write).
- `HttpBody::sendTo` takes a write of 0 bytes for success (`SentWhole` excludes it).
- Ids of `UUID` repeat when calls overlap, when the clock is set back, and when the 13 bits of the sequence number cover those of
  the thread or the thread's those of the time (`UniqueUnlessMixed`).
- `co_read_till` leaves the hook off when it times out (`UnhookedByExpiry`).
- The -1 of a failed `alloc_cid` is freed as an identifier in use (`IdsDistinct` holds until then).
- `Buffer::makeSpace` can shrink the vector below two prefixes, and a Buffer can be created that small; then `right()`
  wraps (`RoomUntilShrunk` holds until then).
- HTTP tokens cut by a chunk lose their beginning, and one that ends with its chunk may be emptied (`RequestIntact` excludes
  both, `TornToSuffixes` says what is left); a spilled body that nobody read comes before the next one that spills
  (`BodyWhole`, `ResponseWhole`); and a body that ends with
  the stream is reported as a failure (`ResponseWhole` is about what is reported as received).
- `DNS::resolve` keeps the results of earlier names (`FirstIsRight` is about the first), and `ClientHelloParser::parse`
  converts in place and cannot be called again on the same buffer (`WholeInOne`).
- `Future::run` wakes one getter (`GetReturns` excludes the others), and `TempFile::clear` keeps the unlinked file's
  bytes (`BodyInOrder`, `SentWhole`).

## 5. Proofs

All theorems are for every value of the constants under the named assumptions of the modules
(distinct model values, positive capacity, pipe size and read size, finitely many threads where something
is counted).  Each safety theorem has the same shape: an inductive invariant that contains the property, one
lemma that Init implies it, one lemma per action that keeps it, and a last step that combines them.

- `ListLemmas`: what append, removal and head/tail do to a list without repetitions; how the runs of a
  ring grow and shrink at their ends; that moving a prefix from one sequence to another keeps their concatenation.
  Also what stands in for induction: a set of numbers has a least element (`LeastNumber`), so what holds at 0 and
  is kept by a step holds up to n (`UpTo`), and a loop written as a recursive function has a value after each turn (`LoopExists`).
- `CoMutexProofs`: the inductive invariant says for every program counter which list the task's
  link is in, who holds the lock word and which waker owns which target.  From it: `TypeCorrect`,
  `MutexIsExclusive`, `MutexLosesNoWakeup` (a free mutex with sleepers has an unlocker about to
  serve them) and `MutexForgetsNoTask`.  `OneSchedulerIsSafe` adds to it what holds when all tasks run on one thread
  (`OneScheduler => Solo`: a task that runs is in no run queue, and the target of a waker sleeps outside every list).  Like the model it
  speaks of behaviours up to the first damaged list.
- `CoSchedProofs`: `LoopInv` ties the long timeout to the registered pipe and a byte in it or on
  its way (needed because the look at the queue is stale); it gives `SchedulerNeverSleepsOnWork` and
  `ActiveTaskLives`.  `AwaitInv` gives the one place of every job and of its task; from it
  `AwaitIsSynchronous` and `AwaitLosesNoTask`.
- `ArrayBlockingQueueProofs`: `RingOK` (the put index is `count_` places after the take index) makes the
  refinement inductive: a store appends, a removal drops the head.  `QueueIsFifo` is the refinement
  theorem; `QueueLockRespected` and `QueueWakesWaiters` come from the same invariant.
  `QueueGivesLockBack` adds `OneEach => OneEachInv`: when at most one thread inserts and one removes, what `offer`
  or `poll` saw at the first look (`LooksHold`) still holds at the second, and the early return with the lock held is not taken.
- `ThreadPoolProofs`: `PoolInv` puts `QInv` of the queue next to where every thread of the pool is (`Places`) and
  the one place of every runner (`Jobs`: in the queue, with one worker, or run).  `PoolKeepsJobs` and
  `PoolRunsLiveRunners` follow, for any number of racing `start()`s and a `stop()` at any moment; `PoolTypeCorrect` shows that their
  loops never count below zero.
- `SyncProofs`, about the components that `MCSync` gathers.  `PublishedSafely`: the singleton's lock is exclusive and an
  instance is built only when there is none; the flag of a future is set after its result.  `SemaphoreCounts`:
  `sem` is the initial count plus posts less takes, tries that are undecided and sleeps (a counting argument over
  the set of undecided tasks); and for every program counter, where the link of a task may be and whether a post holds it
  as its target, up to the first link that is in two lists.  `ChannelIsFifo`: the second refinement of
  `BoundedFifo`, with timed waits and `close()`.  `ChannelsKeepOrder`: what was pushed into the C channel is what was taken
  followed by what is in it, and without a buffer a sender sleeps until its message is taken.  `RunnersSafe`: the queue,
  the boss's channel, the channels and the jobs of the workers are disjoint and together are the accepted runners (`Apart`).
- `ResourcesProofs`, about the components that `MCResources` gathers.  `ReadsInOrder`: bytes got, followed by the
  bytes waiting, are the bytes sent.  `SocketsKeptApart`: no two Sockets or connects under way have one number, and
  an entry of the tables is of the connection that has the number (`Numbered`, `Paired`); the handlers in the table and those of
  tasks inside `close` are disjoint, and with the overwritten ones they are all that were not deleted (`Handled`, `Owned`).
  `NobodyIsForgotten` and `TimeoutsNotEarly`: where the pointer of a waiter leads while its descriptor is its own (`Polling`,
  `Polled`), which is what lets a return through freed memory disturb only tasks that are then in `shared`; an entry of the
  wheel is d slots ahead when at most d expirations are missing, one more if one has not been read (`Timed`); this is
  what makes the action property provable, since the wheel itself keeps no dates.
  `TlsIsRight`: the number of contexts made for a place plus the threads that found it empty never exceeds the
  number of threads (`SslFew`); what signCert holds is a function of where it is (`CertRefs`, `CertSteps`); the length field of a
  hello is converted by an involution (`SwapTwice`), so that a complete hello has been converted once.
  `ListsAreRight`: after n codes the list of ciphers holds the names of the first n, each once and in order; the place of a
  name is the number of named places up to its own (`Listed`), and the loop over the codes is by `UpTo`.
- `DataProofs`, about the components that `MCData` gathers.
  `TunnelAndResolverRight`: `TunnelInv` reads what was written,
  the buffer and what waits as one stream of increasing numbers which, with the bytes lost, are the bytes sent; a
  byte sent adds to its end (`StreamGrows`), a call that gives up cuts a piece out of its middle (`StreamCut`), and reads and writes
  move its inner borders.  `DnsInv`: the only query that can be open is that of the current call, an answer ends the
  loop of its call, and `bInited` stands for a channel that is gone only after a failed `init()`.
  `BytesKeptInOrder`: `BufInv` has the indices in order and, until the vector has been made too small, the bytes between them
  and the write index a prefix away from the end, which is what keeps `right()` from wrapping (`PeekBytes` follows a peek); `BodyInv` says that a TempFile
  in memory has read its file to the end, which is what makes the spill keep the order, and that what a send left unsent was a stall (`BodyStalls`).
  `IdentifiersAndMapRight`: `CidInv` is the heap order with counts of identifiers that are free, in use and handed out;
  `heap_push`'s sweep and `heap_pop`'s walk are followed turn by turn with the one place where the order may still
  be broken.  `MapInv` says of every bucket that it holds each name once, with its last value, and only names whose
  hash leads there; when the map doubles, a bucket comes from one bucket before (`HomeBefore`).
  `CodesAreRight`: `UidInv` says that, while no two calls overlapped, one thread at most is inside `get` and the sequence number passes the
  mask only between its two stores (`UidAlone`, `UidMasked`), and while the clock was not set back either and no field spilt,
  every id was made of a time and a number that lie before those of the next (`UidTimes`, `UidMade`); the bits of a number determine it, by halving (`BitsTell`), so that ids of different
  pairs differ.  For base64 each char of code is six bits of the text (`Six`), and arithmetic on one group of three chars
  gives the radix and the way back.
  `LookupsAreRight`: `ConfInv` says that the map is what the text read last makes of it.  What that is, is followed line by
  line (`ReadTo`): the settings of the current block so far are in `kvMap`, the blocks before it in `configMap`, each key and
  each name with the first of its values; a further header completes a block because no later line stands under it
  (`HeaderNext`).  For the dump, a printed line is recognised for what it is and split where it was put together
  (`PrintedHeader`, `PrintedKey`), in whatever order keys and sections are printed.

Only model-checked:

- every liveness property (fairness is outside the prover): `WaitsEnd`, `CallsEnd`, `AwaitReturns`, `PutTakeMoves`,
  `StartedAwaitReturns`, `OneThreadServes`;
- `MessagesWhole`, since the HTTP parser is a recursive function over the units of a chunk, with the callbacks it makes on the way.

## 6. Plan

The modules above are the ones planned.  What is left is the proof of `MessagesWhole`, which begins
with `OneAnswerEach` of `HttpServe`, the part of it that does not depend on what the parser computes.

## 7. Not modelled

- The barrier (`co_bar.h`, used by test programs only), the read-write lock (`co_rwlock.h`, which does not compile),
  the bit map (unused), `async_wait` (unused C counterpart of `Task::await`), `co_mutex_lock_wait` and `chan_close`.
- The pointers of `list.c`: a list operation is one step, so two that overlap on different threads
  (`RR_enqueue` against `RR_dequeue`) are listed as a hazard without a property.
- Hooks that only forward a system call, socket options, addresses as text, file locks, logging.
- OpenSSL, c-ares, hiredis and jsoncpp: third-party code; the first two are modelled by the calls
  and callbacks the code uses.  Of http-parser only what decides which callbacks are made is modelled.  The table of cipher names is data.
- What a task does to memory of another kind through a freed `inner_fd`, and what a program does after a list has been damaged.
- The stop of a scheduler (`CO_SCHED_STOP`), which is not compiled in.
