# A verification project for novaio

novaio is a C++20 coroutine runtime on io_uring: one thread per core runs a
`Scheduler`, schedulers wake each other with `msg_ring` requests, and coroutines
use timers, an async mutex, an event, `when_all` and I/O awaiters. This directory
holds TLA+ modules that model it, TLC configurations that check them on small
instances, and TLAPS proofs that hold for every instance. `PROJECT.json` lists the
components, the runs, the source lines behind each definition, the hazards and the
theorems.

    tlc -config CoMutex.cfg MCCoMutex        # a run (PROJECT.json has the pairs)
    tlapm CoMutexProofs.tla                  # a proof module

## 1. The system

| Component | State | Operations | Interacts with |
|---|---|---|---|
| `Runtime` | `is_running_`, the schedulers, their threads | `start`, `dispatch_on`, `notify_target_ring`, `stop` | pushes to inboxes, sends `TAG_INBOX` and `TAG_CORO` messages between rings |
| `Scheduler` | `runnext_`, `local_queue_`, `inbox_`, wheel, engine | `run`, `schedule`, `try_dequeue_batch`, `process_inbox`, `process_io_events` | drives the engine, the wheel and all coroutines of its thread |
| `SpscQueue` | `head_`, `tail_`, slots | `push`, `pop`, destructor | the inbox: pushed by other threads, popped by its scheduler |
| `LocalQueue` | `head_`, `tail_`, buffer | `push`, `pop` | ready coroutines of one scheduler |
| `IoEngine` | the rings, `initialized_`, the buffer ring | `init`, `poll`, requests, `send_msg_ring`, `return_buffer` | kernel; schedules coroutines whose I/O is done |
| `SafeIoAwaiter`, `IoContext` | result, handle, cancelled flag | suspend, complete, destroy | engine and coroutine share the context |
| `TimeWheel` | five levels of lists, `current_tick_`, `active_timers_` | `add_timer`, `remove_timer`, `tick`, `next_timeout` | decides how long a scheduler waits |
| `CoMutex` | `state_` (one atomic word), `waiters_head_` | `lock`, `unlock` | resumes waiters locally or by a ring message |
| `Event` | `signaled_`, a list under a mutex | `co_await`, `set` | resumes waiters locally, through `dispatch_on`, or inline |
| `Task`, `DetachedTask`, `when_all` | continuation, result, counter | start, finish, throw | frames and their continuations |
| the HTTP server example | a multishot accept, a `handle_client()` per connection | accept, receive, send, close | engine, buffers, direct descriptors |
| `Metrics` | one record per thread, a registry | register, unregister, snapshot | scheduler threads |

What is hard in it: everything that crosses threads. `CoMutex` is lock-free, with a
chain that is pushed by anybody and taken by the holder. An inbox has one consumer
and, by design, one producer. A scheduler goes to sleep after looking at its inbox,
and depends on a message to be woken. Requests that a scheduler prepares are
submitted only when it has nothing to run. Timers of the upper levels must come down
in time though `next_timeout` looks at level 1 only. Fixed-size queues and 16-bit
tails have limits. An `IoContext` is shared by a coroutine, which may be destroyed,
and by the kernel, which has its address; a direct descriptor is given to the next
client as soon as it is closed. The last child of a `when_all`, on whatever thread,
lets the parent destroy what the children and `await_suspend()` have just used.

What makes the parts correct: a mutex has one owner, loses no waiter and serves in
order; an event resumes whoever waits for it and nobody before it is set; a queue is
a queue; a timer fires at its tick; a scheduler never sleeps on work that nobody will
announce; a coroutine that is woken runs, once; `stop()` ends; a buffer has one user;
a context is freed once, when nobody refers to it; a response reaches the client that
asked; `when_all` goes on once, with every result.

## 2. The modules

| Module | Models | Checked by | Proved in |
|---|---|---|---|
| `CoMutex` | `comutex.hpp`, `comutex.cpp` | `comutex` | `CoMutexProofs` |
| `FifoLock` | what a CoMutex promises | refinement in `comutex` | `CoMutexProofs` |
| `SpscQueue` | `SpscQueue` in `concurrent_queues.hpp` | `spsc_one`; `SpscQueue_two.cfg` | `SpscQueueProofs` |
| `BoundedFifo` | what an SpscQueue promises | refinement in `spsc_one` | `SpscQueueProofs` |
| `Event` | `event.hpp` | `event`, `event_full` | `EventProofs` |
| `TimeWheel` | `time_wheel.cpp`, the clock side of `Scheduler::run` | `wheel` | `TimeWheelProofs` |
| `TimerSet` | what a wheel promises | refinement in `wheel` | `TimeWheelProofs` |
| `BufferRing` | the provided buffers of `IoEngine` | `buffers_held`, `http_server`; `BufferRing_spare.cfg` | `HttpServerProofs` |
| `IoRequests` | `io_context.hpp`, the requests and `TAG_IO` completions of `IoEngine` | `io_requests`, `http_server` | `HttpServerProofs` |
| `HttpServer` | `examples/http_server.cpp`, on `IoRequests` and `BufferRing` | `http_server`; `HttpServer_sq_full.cfg` | `HttpServerProofs` |
| `WhenAll` | `when_all.hpp`, `task.hpp` | `when_all` | `WhenAllProofs` |
| `Runtime` | `runtime.cpp`, `scheduler.cpp`, the messages of `IoEngine` | `runtime_live`, `runtime_queues`, `runtime_boot` | `RuntimeProofs` |
| `SeqFacts` | lemmas on `Reverse`, `Cons`, `Range`, injectivity | | itself |

`MCCoMutex`, `MCEvent` and `MCRuntime` give the constants of their modules values.

**CoMutex.** `locked` and `stack` together are `state_`: `Word` is the value of the
atomic. Each load, CAS and exchange is an action. A CAS compares `Word` with the
value read earlier, that is, an address: the chain below it may have changed in
between, as in the code. `taken` is `unlock()`'s `old_state`, and `route` says how a
resumption travels (local queue, ring message, or nowhere if the waiter had no
scheduler). Coroutines interleave as if each had its own thread.

**SpscQueue.** One action per load, store and slot access; the counters wrap at
`Wrap`. The acquire and release orders of the code make these interleavings exact.
`Producers` is a parameter because `dispatch_on()` may be called by any thread.

**Event.** One action per access to `signaled_` and per critical section. Resuming
goes to the local queue, through a bounded inbox, or inline, as in `resume_waiter()`.
A waiter whose task found no room in the inbox is in no list, no inbox and no ready
queue any more, and still suspended.

**TimeWheel.** A timer's `place` is the level and slot whose list it is in; `Tick`
is one round of `tick()`'s loop with its cascades. `phase` follows `run()`: catch up
with the clock, run the tasks, wait. `Sleep` lets the clock advance by at most what
`next_timeout()` returned.

**BufferRing.** Entries hold buffer ids. `EntryFor` and `Advanced` are liburing's
`io_uring_buf_ring_add()` and `io_uring_buf_ring_advance()`, modelled from their
documented effect: the offset is relative to the tail.

**IoRequests.** `heap` is what is at the address of each context, `sq`, `inflight`
and `cq` are the requests on their way, `awaiting` is the `ctx_` of each coroutine's
awaiter. A freed address is free for the next request at once. `IoSpec` has
coroutines that request, are resumed, or are destroyed while they await, in any
order; one that poll() has already queued is not destroyed, which the code asks of
its callers (the queue would hold a dangling handle).

**HttpServer** composes the two: its handlers are the coroutines of `IoRequests` and
the receivers of `BufferRing`, and its actions are theirs, conjoined with what
`handle_client()` does next. `stage` is the await a handler is at. The kernel and the
clients are modelled from how the code uses them: a direct descriptor is chosen among
the free ones, a close frees it before the handler learns of it, a receive takes a
buffer or fails with ENOBUFS, a multishot accept ends when there is no descriptor. A
client may leave at any time. `SqSize` is the number of entries of the submission
queue; nothing bounds the handlers by it, since the code does not.

**WhenAll.** `next` and `nested` are `start_tasks()`: a child runs inside it until it
first suspends. `child` follows a child and then its helper: `"final"` when the
promise has its value or exception, `"stored"`, and `"last"` for the helper whose
`fetch_sub` found 1. `on` is the thread. Children may be resumed by any thread that
is free to. The DetachedTask and the Task<void> around it are `root` and `parent`.

**Runtime.** `pc` follows a scheduler round `run()`; `sq` and `cq` hold the messages it
has prepared and those it has yet to poll. `call` is a `dispatch_on()` between its push
and its look at `ring_fd()`. That look is a plain read of `initialized_` with no order
between it and the push, so that it may come first: then `call` is a "late push". A
coroutine whose task a full inbox refused is `refused`: its only handle is destroyed,
and nobody can wake it again. A scheduler that exits leaves its unsubmitted requests
unsubmitted.

**How the modules fit.** `Runtime` uses an inbox whose push and pop are atomic;
`SpscQueueProofs!Refinement` is what justifies that, with one producer. `CoMutex`
assumes that a `TAG_CORO` message arrives and `Event` that a scheduler empties its
inbox; `Runtime`'s `EveryWakeupRuns` says when they do. `TimeWheel` has the timed
waits that `Runtime` leaves out; a scheduler with a timer wakes up more often, not
less. `IoRequests` and `HttpServer` leave the order in which `run()` takes ready
coroutines and completions open, so that what they show does not depend on it.

## 3. The runs

| Run | What it shows | Bounds |
|---|---|---|
| `comutex` | One owner at a time, no waiter lost or chained twice, `unlock()` never follows 0 or 1 as an address, a FIFO lock; whoever calls `lock()` gets it | four coroutines: two on one scheduler, one on another, one on none. Two waiters behind a holder and a newcomer need four |
| `spsc_one` | A bounded FIFO, slots constructed and destroyed in turn, nothing leaks, an accepted task is at the end of the queue | capacity 4, counters modulo 8, so that both wrap again and again; no bound on operations |
| `event` | Nobody is stranded, each node belongs to a suspended coroutine, and whoever is suspended when the event is set goes on | four waiters and two callers in all placements, inbox of 2: room for the two waiters of its scheduler |
| `event_full` | **violation**: a waiter whose task the inbox refused never goes on (`AllWaitersResumed`) | the same, inbox of 1 |
| `wheel` | A timer fires at exactly its tick; a scheduler never waits without a limit while a timer is pending, and oversleeps none by more than a turn of level 1 | two timers, slots 2/2, so that the spans are 2 to 32; delays 5 (level 3, or behind a nearer one) and 33 (beyond the fifth), set at any tick; 35 ticks |
| `buffers_held` | **violation**: two receives hold one buffer | two receives, four buffers |
| `io_requests` | A context is freed once, after its completion, by one party; a queued coroutine exists and has its result; none leaks | three coroutines, four contexts: one more than coroutines, so that a destroyed one's is in flight while its frame is used again |
| `http_server` | A handler is in one place that will resume it, no descriptor leaks or is shared, a response reaches the client that asked, a handler past its loop holds no buffer, every accepted client is answered or closed | two handlers, two descriptors, one buffer (so ENOBUFS happens), tail modulo 2, three clients (one waits while the others hold the descriptors) |
| `when_all` | The parent goes on once, with all results, when nobody uses the awaiter any more, and does go on | three children, two schedulers and a thread outside; from each as home |
| `runtime_live` | No lost wake-up, each coroutine in one place; every coroutine that is woken runs; `stop()` ends | two schedulers, the main thread, two coroutines, an inbox of 4, rings set up |
| `runtime_queues` | Each coroutine in one place, while a scheduler boots and with a full inbox | three coroutines of one scheduler, inbox of 1 |
| `runtime_boot` | **violation**: a task dispatched while the scheduler boots is never run | as `runtime_live`, rings not set up |

Three more configurations stand beside these runs, each a small instance in which TLC
finds a property violated: `SpscQueue_two.cfg`, `HttpServer_sq_full.cfg` (of
`HttpServer`) and `BufferRing_spare.cfg`. Section 4 says what they show and why they are
kept apart.

Every property of a passing run has a mutant: a definition changed the way a slip in
the code would change it (`<Definition>_<Variant>`, before the definition), under
which TLC finds the property violated.

`TimeWheel` cannot be over-slept by more than a turn of level 1 (256 ms), but it can
by more than the 50 ms of the fallback: a timer of level 1 hides one of level 2 that
is due before it. `comprehensive_test.cpp:105` expects 50 ms of a case in which all
timers start together, where this does not happen.

**Fairness.** Threads run. A coroutine inside `lock()`, `unlock()`,
`await_suspend()`, `set()` or `dispatch_on()` is not stopped there. A holder unlocks
and a coroutine does not run for ever, which is asked of the program that uses the
library. A CAS that can succeed again and again finally does, and a `std::mutex` that
is free again and again is finally obtained (strong fairness): no thread loses every
race. The kernel delivers a message that was submitted. Nobody is obliged to wait, to
set, to wake or to stop. `EveryWakeupRuns` has one more premise, `IdleOften`: a
scheduler submits what it has prepared only when it has nothing to run
(`scheduler.cpp:113`), so that a wake-up is delivered if the sender becomes idle
again. `EveryLockSucceeds` rests on the same premise, in the fairness of `Poll`.

For `io_requests` and `http_server`: the scheduler's thread keeps running, polls every
completion and resumes every ready coroutine, and the kernel completes what it can.
Weak fairness of the submission, which needs a moment without ready coroutines, is
enough: without it the requests in flight run out and the moment comes. For
`when_all`: threads go on; nothing is assumed of the children, and `WhenAllReturns` says
what follows when all have returned.

**Deadlock.** The check is off where the system may stop: coroutines need not lock, a
destroyed queue does nothing, a `when_all` ends, the clock ends at its bound, a stopped
runtime stays stopped.

## 4. What the runs disagree with

1. `event_full`: `ENGINEERING_UPGRADE.md:56` has `set()` take off all waiters and
   resume them, line 57 those of other schedulers through `dispatch_on()`. With a full
   inbox `dispatch_on()` destroys the task, which holds the only handle of a waiter that
   is in no list any more, and tells nobody (`event.hpp:76`, `runtime.cpp:33`). With room
   in the inbox the same property holds (`event`).
2. `buffers_held`: `return_buffer()` (`io_engine.cpp:189`) passes the tail as an
   offset from the tail.
3. `runtime_boot`: `dispatch_on()` reads `initialized_` (`runtime.cpp:34`) without
   synchronisation, and a task given to a runtime that is starting may be missed.

Three limits that the models show and that no document denies:

* `SpscQueue_two.cfg`: `dispatch_on()` pushes to a single-producer queue from any thread.
  With two producers a `push()` that returns true loses its task (`AcceptedIsQueued`).
  `ENGINEERING_UPGRADE.md:104` lists an MPSC inbox as work to come. Everything else that
  is said here of an inbox holds with one producer.
* `HttpServer_sq_full.cfg`: no request tests what `io_uring_get_sqe()` returns
  (`io_engine.cpp:157`, as in the other three and the accepts), and requests are
  submitted only when no coroutine is ready. The queue has 4096, 1024 or 256 entries for
  65536 descriptors, so `SqNeverFull`, which the code takes for granted, is false; in the
  instance, two handlers on one entry, as 257 on the 256 the code falls back to. Nothing
  in `HttpServer` assumes the bound: its run has an entry for each handler, and where
  entries run out the model goes on as if there were one, so that what is proved of the
  server holds of the program up to that point. `OneRequestEach` says what is needed.
* `BufferRing_spare.cfg`: of the line of number 2, a buffer that is given back may be in
  no entry, so that ENOBUFS does not mean that all buffers are in use
  (`EmptyOnlyWhenAllUsed`). The count of entries and receives is kept (`EntriesKept`),
  which says nothing of the buffers.

The following look like disagreements and are none, because nothing in the repository
says otherwise: a receive of the example that finds no buffer closes its connection
unanswered, which `AnsweredOrClosed` accepts (the benchmark's handler waits and tries
again); a scheduler that is never idle submits nothing, which `IdleOften` assumes away;
a waiter of a `CoMutex` that runs outside every scheduler is resumed by nobody, which
`EveryLockSucceeds` excepts (`Abandoned`).

## 5. The proofs

Proved for every value of the constants, from the named assumptions of the modules
(`WordsDistinct`, `NoCoroIsNone`; `CapacityDivides`, `RawIsNoItem`;
`ThreadsDistinct`, `Placed`; `Setup`, `NoneIsNoCall`; `Sizes`; `Addresses`; `RingSizes`,
`NoIds`; `Program`; `SomeChildren`). Three theorems have a hypothesis of their own:
`SpscQueueProofs` wants one producer where it says so, `WakeupsKept` rings that are set
up, and `EachInOnePlace` queues with room. `Sizes` wants the fallback of `next_timeout()`
(50) to be shorter than a turn of level 1 (256), and `Program` that the handlers are
also the ones who receive; the rest says that values are of different kinds.

* **CoMutexProofs**: `TypeCorrect`, `Exclusion`, `WaitersKept`, `AddressesOnly`,
  `Refinement`. Mutual exclusion is not inductive: whether the CAS from 0 makes a
  second owner depends on the lock being free exactly when nobody owns it or is being
  handed it (`LockState`); whether a hand-over does, on what the holder's position in
  `unlock()` says of the chains (`UnlockState`), and on a waiter being in one chain or
  on its way (`WaiterState`). `IInv` is their conjunction. For the refinement, each
  step leaves `Holder` and `Queue` alone or is one of `FifoLock`: a push appends,
  taking and reversing the chain leave `Queue` as it is, a hand-over takes its head.
* **SpscQueueProofs**, with one producer: `TypeCorrect`, `SlotsSafe`, `NoLeak`,
  `Refinement`, `Accepted`. `IInv` says that the distance of the counters, modulo
  their range, is at most the capacity; that exactly the slots between them hold
  items, but for the one a push has constructed or a pop has emptied; and that a
  producer past its test has room, though the consumer may have moved on. The lemmas on
  remainders say that a wrap does not change the slot, and that items queued at once
  have different slots.
* **EventProofs**: `TypeCorrect`, `NoneStranded`, `EachWaiterOnce`, `NotEarly`. The
  strengthening is `PushState`: a coroutine that read false under the mutex, and is
  about to join the list of an event that is now set, still has the call of `set()`
  ahead of it, waiting for that mutex.
* **RuntimeProofs**: `TypeCorrect`, which needs that a scheduler in its loop over a
  batch has a coroutine left (`BatchState`); and `WakeupsKept`, for a runtime whose
  rings are set up. A message under way is either `Announced`, in some queue of the
  rings, or will be sent by a thread between its push and its look at `ring_fd()`. No
  submission loses an announcement (`DeliveredKeeps`, `NotifyKeeps`), only the
  addressee takes one, and it does so while it is not on its way to the wait.
  `EachInOnePlace` is `OnePlace` for schedulers that have no more coroutines of their
  own than `local_queue_` and `runnext_` hold (`Fits`), which is as many as the runs
  have, and in the code 65537. Its invariant `PlaceInv` says of each coroutine that one
  structure has it (`InOneBox`) and has it once (`NoRepeat`), that it is queued by its
  own scheduler only (`HomeBound`), and that a batch is empty when the next is taken
  (`BatchDone`): `try_dequeue_batch()` overwrites what is left of one. `Fits` is used in
  one place: the queue, the coroutine in `runnext_` and the one being pushed are all
  different and all of one scheduler, so the unchecked `push()` overwrites nothing
  (`RoomForIt`).
* **TimeWheelProofs**: `TypeCorrect`, `SleepHasLimit`, `OversleptLessThanTurn`,
  `WheelImplementsTimerSet`. What the tests of level and slot have to ensure is `Wheel`:
  a timer at level 1 is due within a turn, and the slot of one above level 1 is
  cascaded, at `CascadeAt` or later than now, before the timer is due (`MayBeAt`). No
  upper bound is needed above level 1: a slot that comes round early only sends the
  timer to a slot again. So a slot of level 1 holds, when its tick comes, what is due at
  that tick and nothing else, and that is the refinement. For the sleep, `Counted`:
  `active_timers_` only errs upwards (an expiry does not subtract from it, a cascade
  adds its timers again), so that zero means that no timer is pending. For the
  oversleep: a timer that `next_timeout()` does not see is hidden by the fallback or by
  a timer due within a turn of level 1, and the tasks of a round take at most `MaxBusy`.
* **HttpServerProofs**, of the server and of what it is made of.
  - The requests alone (`IoSpec`): `IoTypeCorrect`, `EachContextOwned`,
    `ReadyCoroutines`. That a context is freed once depends on more than who frees it: a
    request is in one place only (`RequestState`), a context that is not cancelled
    belongs to the coroutine whose handle it has (`OwnerState`), and what an awaiter
    refers to is its own and has no request on its way once the coroutine is ready
    (`AwaiterState`). So an address that is given out again has nobody left who refers
    to it.
  - The buffer ring alone (`RingSpec`): `EntriesKept`. It counts entries and receives
    and does not say which buffers they carry (`buffers_held` and `BufferRing_spare.cfg`
    show what becomes of those). `EntriesConserved` is inductive with the types; the
    arithmetic is that the distance from head to tail, modulo the tail's range, grows by
    one when a buffer is returned, since it is then at least two short of the range.
  - The server: `ServerTypeCorrect`, `NoHandlerStranded`, `OneRequestEach`,
    `EachDescriptorOwned`, `EachAnswerItsClient`, `EachBufferReturned`,
    `ServerKeepsEntries`. `ServerInv` is about one ring: all that is on its way is the
    accept or the one request of a handler that awaits it (`AllAwaited`), in one place
    (`InOnePlace`), and the accept goes out before there is any connection
    (`AcceptFirst`). So none is stranded, and the submission queue holds at most one
    request for each handler, which is all that can be said of it: the code has no other
    bound. Each step of the server is a step of `RingSpec` or leaves the ring alone
    (`RingOfServer`), so the ring's invariant holds in it. `NetInv` adds descriptors and
    clients: an open descriptor belongs to one handler whose close has not reached the
    kernel, or to one completion of the accept that nobody has polled
    (`DescriptorsOpen`), and the client behind a handler that has read something waits
    for its response (`ClientWaits`). A response can reach the wrong client only if a
    descriptor is given out again while its old owner may still send, and the old owner
    is then past its close.
* **WhenAllProofs**: `TypeCorrect`, `AllResults`, `ResumedSafely`. `CountState` says that
  `count_` is the number of children not yet counted, `LastState` that the helper which
  found 1 is alone and the parent still suspended, `StartState` that `start_tasks()` is
  past every child that has run.
* **SeqFacts**: the facts about sequences these rest on.

Only model-checked: liveness (`EveryLockSucceeds`, `AllWaitersResumed`,
`EveryWakeupRuns`, `StopEnds`, `EveryContextFreed`, `AnsweredOrClosed`,
`WhenAllReturns`), which is out of the prover's reach. Every invariant and every safety
property of a passing run is proved, `NoLostWakeup` under the hypothesis that the rings
are set up (`runtime_boot` shows what happens without it).

## 6. What is not modelled

* `examples/http_server_multirecv.cpp` and `recv_multishot()`, which only it uses: its
  schedulers share one array of connections indexed by descriptors of different rings,
  and it closes descriptors that coroutines still send on. No document or test says
  what it should do; the hazards name the lines.
* The buffer of a receive whose coroutine is destroyed (poll() frees the context and
  not the buffer), and a coroutine destroyed after poll() has queued it: nothing in the
  repository does either.
* `IoBuffer`, which nothing uses, and `UniqueTask`: ownership that the C++ types decide.
* `when_all` of no tasks, which does not suspend.
* `Metrics`: counters that nothing acts on.
* The end of an `Event`'s life, and of a `CoMutex`'s: the repository has only globals.
* `LocalQueue` beyond its capacity: its overwriting `push()` is modelled, no run
  over-fills it (65536 ready coroutines), so neither run of `OnePlace` would notice, and
  its proof has the hypothesis `Fits`. The benchmark starts its coroutines in batches for
  that reason (`production_benchmark_test.cpp:222`).
* `remove_timer()` of a timer that has fired, whose stale `prev` and `next` it follows
  (`time_wheel.cpp:33`). Nothing in the repository calls `remove_timer()`; `RemoveTimer`
  is the removal of a timer that is in the wheel.
* Memory orders weaker than interleaving, but for the two places in which the code
  has no order at all (`initialized_`).
* `Serializer` (byte copies with no state), NUMA and affinity (the operating system),
  the benchmark.

## 7. Plan

In this order, most important first; all are done.

1. `CoMutex` with `FifoLock`, and its proofs.
2. `SpscQueue` with `BoundedFifo`, and its proofs.
3. `Event` and its proofs.
4. `TimeWheel` with `TimerSet`.
5. `BufferRing`, and its proofs.
6. `Runtime`, and the proofs of its types and of `NoLostWakeup`.
7. `IoRequests`: the life of a request, and its proofs.
8. `HttpServer`: the composition of requests, buffers and a program.
9. `WhenAll` with `Task`, and its proofs.
10. Proofs of `OnePlace`, of `TimeWheel` with its refinement of `TimerSet`, and of
    `HttpServer`.
11. Proof that a handler of the server is always in one place that will resume it.

Left: proofs that the inbox of `Runtime` may be replaced by an `SpscQueue`, and of what
is known of the schedulers and their queues when `stop()` returns.
