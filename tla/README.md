# TLA+ models of Dao8

Dao8 (`src/ext`) is a PHP extension: a web framework (MVC, ORM, caches, views,
forms) with an asynchronous runtime (`ext/async`) and process-shared locks
(`ext/sync`) in the same library. Most of the framework is request-scoped,
sequential code over PHP values. What is hard to test is the asynchronous
runtime: fibers that resume each other in the middle of library loops, waiter
lists that change under the loop that walks them, timers, cancellation and the
order in which a program is shut down; and, between processes, the locks in
shared memory. This project models both, model-checks them with TLC and proves
with TLAPS, for any number of fibers, objects and calls, the safety properties of
conditions, channels, tasks, watchers, deferreds, streams and the reader-writer
lock.

## 1. Inventory

| Part | Source | State it keeps | Operations | Covered by |
| --- | --- | --- | --- | --- |
| Scheduler and fibers | `async/task.c`, `async/fiber/asm.c` | current fiber, list of interrupted fibers, ready list, busy count, disposal flag | enqueue, dispatch, switch, suspend, await an operation, dispose | `AsyncScheduler` |
| Cancellation scope | `async/context.c` | callbacks of a scope, triggered flag | cancel (by hand or by timeout), register and unregister an operation | `AsyncScheduler` |
| Condition | `async/sync.c` | waiter list, broadcast counter, closed | wait, signal, broadcast, close, shutdown | `AsyncCondition` |
| Channel and iterators | `async/channel.c` | ring buffer, senders, receivers, closed, error, send timers | send (with or without timeout), next, close, shutdown, timer callbacks | `AsyncChannel` |
| Channel group | `async/channel.c` | entry list, pending count, flags | select, send, timeout, compaction, shuffle | `AsyncChannelGroup` |
| Task and await | `async/task.c` | operations awaiting the task, status, fiber or inline execution | await, inline execution, settle, trigger | `AsyncTask` |
| Timer, signal, poll, monitor; sleep | `async/watcher/*.c` | waiter lists, 8-bit count of referenced waiters, mask of observed sides | await, callback of the handle, close, shutdown | `AsyncWatcher` (a timer of one task also in `AsyncTask`) |
| Deferred, combinators | `async/deferred.c` | status, operations, counters of combine, cancellation handlers | resolve, fail, combine, transform, await, destruction, shutdown | `AsyncDeferred` |
| Streams | `async/stream.c`, `async/async_buffer.h` | ring buffer, pending read, write queue, flush list, flags | read (with or without timeout), write, asynchronous write, flush, shutdown, close | `AsyncStream`, `AsyncRingBuffer` |
| Context tree | `async/context.c` | parents, variables, nested scopes | with, background, cancel | not modelled (one scope in `AsyncScheduler`) |
| Ticks and events | `async/event.c`, `async/helper.c` | tick list | tick, emit | not modelled |
| Sockets, TLS, DNS, files, processes, threads | `async/*.c`, `async/ssl`, `async/process` | libuv handles, OpenSSL sessions | I/O | not modelled: I/O, third-party state |
| Reader-writer lock | `sync/readerwriter.*`, `sync/common.h` | two binary semaphores, an event and a reader count in shared memory; locks of each object | readlock, readunlock, writelock, writeunlock, destructor | `SyncReaderwriter` |
| Named shared memory | `sync/common.h` | status byte, mutex, reference count | create, attach, ready, unmap | `SyncNamedMemory` |
| Mutex, semaphore, event and shared memory classes | `sync/mutex.c`, `semaphore.c`, `event.c`, `sharedmemory.c` | owner and count, units held, automatic events | lock, unlock, wait, fire, reset, read, write | planned |
| Database layer, models | `db/`, `mvc/model*` | connection, transaction level | begin, commit, rollback with savepoints; SQL generation | nested transactions planned, the rest is text |
| MVC, routing, HTTP, views, forms, tags, filters, ... | `mvc/`, `http/`, `forms/`, ... | request-scoped arrays | sequential transformations | not modelled |
| DI, events, loader, config, ACL, AOP | `di/`, `events/`, ... | look-up tables | sequential | not modelled |
| Cache, session, queue, logger, storage | `cache/`, `session/`, `queue/`, ... | external stores | client I/O | not modelled |
| Security, crypt, JWT, kernel glue | `security/`, `crypt/`, `kernel/` | none of interest | third-party algorithms | not modelled |
| Query, annotation, Volt scanners and parsers | generated (`re2c`, `lemon`) | parser tables | parse | not modelled: generated code |

`PROJECT.json` lists the parts with the reason for each that is left out.

### How the parts interact

There is one OS thread. Every task has a native fiber, the main script has the
root fiber, and the libuv loop runs on a fiber of its own. A blocking call
builds an *operation*, appends it to a list (waiters of a condition, senders or
receivers of a channel, operations of a task, waiters of a timer, callbacks of
a cancellation scope) and suspends its fiber. Whoever completes the operation
calls `ASYNC_FINISH_OP` or `ASYNC_FAIL_OP`; its callback **switches to the
waiting fiber at once**. The completing fiber is pushed on a stack of
interrupted fibers and goes on only when that one suspends. So a library loop
("while the list is not empty, complete its first operation") is interrupted
after each element, and arbitrary user code runs between two turns: it may
close the channel that is being closed, wait on the list that is being walked
or cancel those that come next. Only the broadcast of a condition defers its
wake-ups to the ready list.

The busy count keeps the loop alive while a foreground fiber waits. When the
main script ends, the loop runs until nothing keeps it alive; the scheduler is
then marked disposed, shutdown callbacks fail what is still waiting (background
tasks), and the loop runs a second time.

### What is hard, and what makes each part correct

* **Scheduler** - interleavings inside loops; a fiber resumed twice on one
  stack or never again; a busy count that drifts; tasks left over at the end.
  Each fiber is in exactly one place, the count equals the waiting foreground
  fibers, a settled outcome is not overwritten, the program ends clean.
* **Condition** - signal overtaking a broadcast; waiters that leave by
  cancellation while the broadcast counter counts them; a close loop that runs
  the fiber of each waiter before it comes to the next.
* **Channel** - first-in first-out delivery through a ring buffer that is
  refilled from blocked senders; timeouts and cancellations of senders whose
  operation outlives the call; closes that race with all of it.
* **Group** - one operation on several lists: exactly one channel may complete
  it and the other entries must go.
* **Task** - two ways to execute a task, nested inline execution on one stack,
  awaiters registered while the trigger loop runs.
* **Watchers** - a callback that stops at a remembered operation, which may be
  freed, and its address used again, before the loop comes to it; a handle that
  is stopped, restarted, referenced and released by whoever comes and goes
  inside. Everybody who waited is served, nobody twice, whoever waits is
  observed, and the loop lives exactly as long as a foreground fiber waits.
* **Deferred** - loops over operations nested in each other through fibers and
  continuations; a continuation that settles what its own loop is about; inputs
  and sources, such as tasks, that end after the disposal. A state is settled once
  and nobody stays on a settled one.
* **Stream** - bytes, end of stream, errors, timeouts, cancellations and closes
  compete for one pending read; writes, flushes and shutdowns are made inside
  the callback that completes a write.

* **Reader-writer lock** - processes that stop anywhere between two pthread
  calls, or inside an increment of the shared count; an event and a count that
  are changed one after the other; timeouts that must give back what was taken,
  and that may end just as the process is woken. A writer is alone, readers are
  counted, no wake-up is lost, readers do not overtake a writer that has W.
* **Named memory** - first and last opener racing: who opens the object finds it
  initialised.

The list of hazards with their lines is in `PROJECT.json`.

## 2. Modules

```
AsyncScheduler            fibers, ready list, busy count, cancellation, disposal
  AsyncSchedulerProofs    lemmas about lists, places and counts of fibers
  AsyncCondition          Condition                <- MCAsyncCondition
    AsyncConditionProofs
  AsyncTask               Task, await, own timer   <- MCAsyncTask
    AsyncTaskProofs
  AsyncWatcher            Timer, Signal, Poll, Monitor, sleep <- MCAsyncWatcher
    AsyncWatcherProofs
  AsyncDeferred           Deferred, combine, transform        <- MCAsyncDeferred
    AsyncDeferredProofs
  AsyncStream             streams                  <- MCAsyncStream
    AsyncRingBuffer       the buffer of a stream
    AsyncStreamProofs
  AsyncChannel            Channel, iterators       <- MCAsyncChannel
    FifoChannel           abstract queue that AsyncChannel implements
    AsyncChannelGroup     ChannelGroup             <- MCAsyncChannelGroup
    AsyncChannelProofs
SyncReaderwriter          Readerwriter over semaphores and event <- MCSyncReaderwriter
  SyncReaderwriterProofs
SyncNamedMemory           life of a named object <- MCSyncNamedMemory
```

Each asynchronous component extends the scheduler, adds its variables and has one action per
operation, from a call to the point where its fiber suspends, or from the point
where it was resumed to the next suspension. Names are those of the C code
where TLA+ allows it; definitions named `...Keeps...`, `...Early...` etc. and
commented "Mutant" are deliberately wrong variants used to test that a property
can fail; no specification uses them.

### AsyncScheduler

| Model | Code |
| --- | --- |
| `cur`, `fibers` | `ASYNC_G(fiber)`, `scheduler->fibers` |
| `ready`, `status` | `scheduler->ready`, `task->status` |
| `pc[f]` | where fiber `f` continues: `"run"` is user code, everything else library code after a suspension or inside a loop |
| `op[f]`, `defer` | status and DEFER flag of the operation `f` awaits (a fiber awaits at most one) |
| `busy` | `scheduler->busy_count` (`ASYNC_BUSY_ENTER`, `ASYNC_BUSY_EXIT`) |
| `callbacks`, `triggered` | the one cancellation scope that the fibers in `Cancellable` share |
| `async_fiber_switch`, `async_fiber_suspend` | `fiber/asm.c` |
| `reschedule_task` | the continuation of an operation: switch, or enqueue when deferred |
| `AwaitOp`, `AwaitDone` | `async_await_op` before and after the suspension, with the busy count of its callers |
| `dispatch_tasks`, `run_task_fiber` | loop callback and fiber function of a task |
| `CancelInvoke`, `CancelLoop` | `CancellationHandler::__invoke` or a context timeout, and its loop |
| `async_task_scheduler_dispose`, `run_scheduler_fiber`, `DisposeDrain` | end of the main script, both runs of the loop |

The root fiber is one of the `Fibers`, `Runner` is the fiber of the loop.
Cancelling fibers resumes them inside `CancelLoop`, one per step. The loop ends
only when nothing is ready, no foreground call is pending and no timer of the
component is armed, which the component passes as a parameter.

### AsyncCondition

`waiting` is the waiter list, `broadcast` the counter of outstanding wake-ups
of a broadcast, `closed` the flag; `woken` is a history variable with the order
of wake-ups. `wait` suspends, `WaitReturns` is the rest of the call; `signal`
resumes the first waiter at once unless a broadcast is outstanding;
`broadcastAll` defers the wake-up of all; `close` and `shutdown_cond_cb` are the
loop that fails the waiters, one per step.

### AsyncChannel

`buffer[c]` is the ring buffer with `rpos`, `wpos`, `len` and slots;
`senders[c]`, `receivers[c]` the lists of pending operations. A message is the
pair of its sender and the number of the sender's call, so that each is unique;
a send operation is named by its message. The guards of `SendToReceiver`,
`SendToBuffer`, `SendBlocks` and `SendRefused` are the branches of
`Channel::send`; `SendReturns` is the code after the suspension. An operation
with a timer is freed by the timer's close callback, so one that was cancelled
or refused stays in `senders` with nobody waiting (`Dead`) until
`dispose_channel_send_timer_cb`. `fetch_noblock` refills the slot it frees from
the first sender and resumes that sender inside the call. `close` enters the
loop of `dispose_state`, whose turns are `DisposeReceiver`, `DisposeSender` and
`DisposeEnds`. `sent`, `got` and `dropped` are history variables.

### FifoChannel

What a channel promises to its users: a queue per channel from which messages
are delivered from the front, once, and which a message leaves otherwise only
when it was revoked. `AsyncChannel` maps to it by `INSTANCE FifoChannel WITH`:
the queue is the message handed to a receiver that has not yet returned, then
the ring buffer, then the pending send operations; `revoked` are the messages
given up by a timeout, a cancellation or a close. `ImplementsFifo` is the
refinement. That a revoked message may linger and be delivered is a weakness of
the code that the abstract queue has to allow (observation a in section 3).

### AsyncChannelGroup

Adds `group[f]` (the entries, compacted), `pending[f]` and `check`, the
CHECK_CLOSED flag. A scan (`Scan`, shuffled or not) is a sequence of channels;
`Kept` leaves those of some of its positions, which is what the loops that shift
the entries down do. A fiber blocked in `select` is in `receivers` of each of its channels, one
blocked in a group send is in their `senders`. `SendToSelector`,
`DisposeSelector` and `CompleteSend` (for `pc = "gsend"`) are the callbacks a
channel calls for such an operation; `SelectReturns` and `GroupSendReturns`
unlink the other entries. `compact_group` keeps the comparison of addresses as
the code makes it.

### AsyncTask

`native` are the tasks with a fiber, `stack[f]` the tasks that are executed
inline on fiber `f`, `operations[t]` those who await `t`. An await of a task
without a fiber is `async_task_execute_inline`; `Body(f)` is then the inlined
task and its context is the current one (which matters for the busy count). When
the callback of an inlined task returns a task, `async_task_execute_inline` first
leaves the busy count for the body below (task.c:538) and then awaits the returned
task (547): `InlineReturnsTask`, and from there `ChainInlines`, `ChainSettled` or
`ChainSuspends`, and `ChainReturns`. `returned[f]` are the positions of the stack
whose callback has returned. `trigger_ops` completes one awaiter per step. A timer of its own
(`awaitTimeout`, `trigger_timer`) makes a task take time. `pc = "null"` is the
state after a switch to a fiber that does not exist.

### AsyncWatcher

One module for the four classes, which share their algorithm: `waiters[w]` are
the waiter lists (two for a Poll), `active[w]` the sides the libuv handle
observes, `mask[w]` the copy of it that a Poll keeps (`poll->events`), `refs`
the 8-bit count and `held` whether the handle is referenced. `Start`, `Marked`
and `UpTo` hold what differs: a Timer and a Signal remember the last operation,
a Poll and a Monitor the first; only a Poll has two sides; a Monitor does not
count references and can be awaited after it was closed. `Trigger`,
`TriggerTurn`, `TriggerSide` and `TriggerEnds` are the callback; `Reallocate`
lets a new operation get the address of a freed one that the callback still
remembers. `close` and `shutdown` fail the waiters one per step; `asyncsleep`,
`sleep_cb`, `SleepReturns` and `DisposeSleeper` are `sleep()`. `due` and
`trigger.stray` are history.

### AsyncDeferred

`state` and `ops` are the status and the operations of each state. Loops and
continuations nest on the native stack of one fiber, so `stack[f]` holds the
library calls fiber `f` is inside of, innermost last: the loop of `trigger_ops`,
the loop of `combine` over its inputs, and the continuations of `combine` and
`transform` and cancellation handlers, in which user code runs. `Settle` sets
the status and unlinks the state from the shutdown list; `trigger_ops` is one
turn of the loop and resumes a fiber or calls a continuation. `combine`,
`CombineInput`, `ContinuationReturns` and `CombineCountdown` follow
`Deferred::combine` and `combine_cb` with its two counters. A fiber cannot await
inside a continuation (the code refuses it). `Outside` are tasks that are combined
and transformed: `TaskEnds` settles them, and they are not on the shutdown list.
`settled` is the history of who settled each state, the disposal or another call.

### AsyncRingBuffer and AsyncStream

`AsyncRingBuffer` has the operators of `async_buffer.h` on a record of cells,
positions and length: libuv writes only into cells that are free and contiguous,
a read copies in at most two turns. `AsyncStream` is a plain duplex stream:
`reader`, `want`, `alarm` are the one pending read and its timer, `reading`
whether libuv reads; `writes` the queue, `wire` what libuv has, `started` and
`detached` the flags of the operations; `flush`, `shutreq` and `handle` the rest.
`read_cb` is `ReadData`, `ReadEnd` or `ReadFails` and then the turns of its loops;
`write_cb` completes an operation, `process_write` starts the next,
`WriteFlushTurn` resumes the fibers in `flush()` and makes the delayed shutdown.
`stale` are cancelled operations whose callback still points to a fiber.
`taken`, `sent`, `issued`, `retried` and `late` are history. Bytes are numbered
in the order in which the peer sends them.

### SyncReaderwriter

| Model | Code |
| --- | --- |
| `count["W"]`, `count["R"]` | `MxCount[0]` of `MxPthreadWWaitMutex`, `MxPthreadRCountMutex` (maximum 1) |
| `signaled`, `RCount` | `MxSignaled[0]` of the manual event, `MxRCount[0]` |
| `ReadLocks`, `WriteLock` | `MxReadLocks`, `MxWriteLock` of each object |
| `asleep[c]`, `woken` | who is inside `pthread_cond_wait` of a condition, and who has left it and competes for the mutex |
| `wait[p]` | the waiting time: `INFINITE`, some or none |
| `temp[p]` | the value of `MxRCount[0]` between the read and the write of `++` or `--` |
| `pc[p]` | `rW`, `rR`, `rReset`, `rInc`, `rStore`, `rGiveR`, `giveW`: readlock in its order; `wW`, `wE`: writelock; `uR`, `uDec`, `uLoad`, `uStore`, `uTest`, `uFire`, `giveR`: readunlock |

A step is what happens under one pthread mutex, or one read or write of the shared
count, on which other processes may act in between. The tables `WaitsFor`, `Then` and `Else` say for
which object a place waits and where the call goes on when the wait succeeds or
fails. A signal moves one sleeper from `asleep` to `woken`; any other process
may take the semaphore before it. `Timeout` ends a wait at its deadline, also that
of a process that was signalled and finds the unit free: `dao_semaphore_wait` leaves
its loop on `ETIMEDOUT` without looking at the count (common.h:403), and POSIX lets
such a wait consume the signal. `missed` is the history of the semaphores whose last
signal went that way. `free_handler` starts the destructor, which
runs `readunlock` and `writeunlock` for every lock the object has, if it unlocks
automatically, before the object is `gone`. `held` is a history variable with
the read locks that were given. pthread and clock calls do not fail. Processes
in `Careless` call unlock without having the lock, which the code does not
refuse; processes in `Nesting` ask for a second lock without time limit, which
deadlocks with themselves.

### SyncNamedMemory

`status`, `mutex` and `RefCount` are the front of the mapping, `built` says that
the constructor has initialised what is behind. `Attach` is the code between lock
and unlock of the mutex, `Construct` the branch `Result == 0` of a constructor.

### Abstractions

* Values are message names; PHP reference counts, exceptions and results are
  reduced to the outcome RESOLVED or FAILED.
* User code is any sequence of at most `MaxCalls[f]` library calls per fiber,
  in any order and with any arguments.
* One cancellation scope; each fiber has its own iterator and its own group.
* A timer fires at any time the loop runs: durations are not modelled.
* Left out of the scheduler: ticks, fatal errors and `exit`, components.

## 3. Runs

`tlc -config X.cfg M` in this directory. `CHECK_DEADLOCK FALSE` everywhere: a
program really ends, and fibers that wait for each other really stop.

| Run | Config | Instance | Distinct states | Result |
| --- | --- | --- | --- | --- |
| `condition` | `AsyncCondition.cfg` | main script and 3 tasks, one in the background, two fibers cancellable, 2-3 calls each | 164,000 | all hold |
| `channel` | `AsyncChannel.cfg` | main script, a background and a cancellable task, a channel of capacity 0 or 2, 2 calls each | 155,000 | all hold |
| `channel_group` | `AsyncChannelGroup.cfg` | 3 fibers with a group each over an unbuffered and a one-slot channel, 1-2 calls each | 400,000 | all hold |
| `select_ready` | `AsyncChannelGroupReady.cfg` | the same | | **violated** (finding 1) |
| `task` | `AsyncTask.cfg` | main script and 3 tasks that hold each other without a circle, 2 awaits per task | 176,000 | all hold |
| `task_runs_once` | `AsyncTaskRunsOnce.cfg` | the same | | **violated** (finding 2) |
| `watcher` | `AsyncWatcher.cfg` | main script, a background and a cancellable task, 2 calls each; one open watcher of any of the four kinds | 197,000 | all hold |
| `deferred` | `AsyncDeferred.cfg` | main script, a background task and another one, 1-3 calls each; a deferred with a handler and a task, a combine of both, a transform of it and one of the task | 332,000 | all hold |
| `stream` | `AsyncStream.cfg` | a buffer of 2 bytes, 3 bytes from the peer; the main script writes asynchronously, one task reads and closes, one reads, writes and shuts down, 1-3 calls each | 705,000 | all hold |
| `stream_cancel` | `AsyncStreamCancel.cfg` | the same, the writer can be cancelled | | **violated** (finding 3) |
| `readerwriter` | `SyncReaderwriter.cfg` | 3 processes, 1-2 lock calls each, all waiting times, automatic unlocking | 443,000 | all hold |
| `named_memory` | `SyncNamedMemory.cfg` | 2 processes, 2 openings each | | **violated** (finding 4) |

What they check:

* `OnePlace` - a live fiber runs, or is interrupted, or is ready, or waits for a
  running operation, never two of these; the loop fiber is only ever at the
  bottom of the stack of interrupted fibers.
* `BusyExact`, `BusyBalanced` - the busy count is the number of foreground
  callers that wait, also with inline execution, where caller and fiber differ,
  but for the body below an inlined task that awaits what its callback returned.
* `OutcomeStable` - a late cancellation does not overwrite a result.
* `CleanEnd` - at the end nothing is ready, interrupted or registered and every
  task is over.
* `BroadcastCount`, `WakeOrder` - the broadcast counter counts exactly the
  deferred wake-ups not yet taken, and waiters return in the order in which
  signal and broadcast chose them.
* `ImplementsFifo` - the channel implements `FifoChannel`: messages that were not
  given up are delivered once and in order, across wrap-around, refill and direct
  hand-over. `NoStrandedPair` - a blocked sender and a blocked receiver never
  face each other.
* `ExactlyOnce`, `NoGhostEntry`, `SelectCanEnd` - a message is in one place, also
  when a group send offers it to several channels, and in none when the group send
  gave it up; no entry outlives its call, and a blocked select has a channel that
  can still complete it.
* `OneExecution`, `NoLostAwaiter`, `AwaitedOutcome` - a task awaited at most once
  is executed in one place, and each further await adds at most one; no awaiter is registered with a task that is over, and
  it takes the outcome of the task it awaits.
* `HeldByForeground`, `WaitersObserved` - the handle of a watcher is referenced
  exactly while a foreground fiber waits, and observes what is waited for.
  `NobodyForgotten`, `OncePerEvent` - one callback completes everybody who waited
  when it began, and nobody who came later.
* `SettledOnce`, `NobodyLeft` - a state is settled once, or twice in the one way
  named below, and nobody is left on a settled one when its loop is over. `CombineSound` - both counters of a combine
  match what is listed and running, and it is settled when all inputs are
  counted; an awaitable given twice counts twice. `HandlersPending` - only a pending deferred can be cancelled.
* `BytesInOrder` - what the reads returned, with what is buffered, is what the
  peer sent. `ReaderServed` - a waiting read has libuv reading, with room for a
  byte. `WritesOrderly` - writes go out in order and before the shutdown.
  `QueueMoves`, `ShutdownMoves` - a listed write is under way, nobody stays in
  `flush()` of an empty queue, a stream shut on both sides gets closed.
* `Exclusion`, `ReadersCounted` - a writer is alone; the shared count is the
  number of read locks out: no process writes it between the read and the write of
  another one. `NoSleeperForgotten` - nobody sleeps on something free unless
  somebody who was woken is about to look at it, or the signal went to a wait that
  timed out. `NoOvertaking` - no reader comes in while a writer waits for the
  readers to leave.
* Liveness: `ClosedReleases` (condition), `BlockedReturn` (channel), `AwaitEnds`,
  `TimersReturn`, `SettledReleases`, `CallsEnd` (stream), `CallsReturn` (lock).

Some properties name exceptions. They are defects of the code at the named line;
without the exception TLC shows the case, with it everything else is checked:

* `OncePerEvent` does not count a callback whose remembered operation left by
  itself, nor a side of a Poll on which nobody waited when it began.
* `WaitersObserved`: a Poll that had an error. libuv has stopped its handle, but
  `sync_poll` (`poll.c:176`) goes by `poll->events`, which nobody clears.
* `ReaderServed`: a read that a fiber retries inside `read_cb` when it gets an
  error (`stream.c:698`); libuv stops reading afterwards, the READING flag stays.
* `WritesOrderly`, `QueueMoves`, `ShutdownMoves`, `CallsEnd`: a write listed
  while `write_cb` resumes the fibers in `flush()` (`late`, `stream.c:1033`),
  behind the test that the queue is empty. Nothing starts it; a shutdown that was
  delayed is made with it still listed (`stream.c:1036`); and when it is cancelled
  nothing completes a later `flush()` or a delayed shutdown that waits for it.
  The proof attempt of `WritesOrderly` and `ShutdownMoves` showed the last two.
* `QueueMoves`, `CallsEnd`: a stream closed by the user with several listed
  writes, of which libuv refuses the second (`stream.c:989`).
* `AwaitEnds`: the switch to a missing fiber (observation c); what that switch does
  is not covered by any property.
* `BusyBalanced`: the body below an inlined task that awaits what its callback
  returned waits without being counted (`task.c:538`, observation k).
* `SettledOnce`: a transform of a task is settled twice when the disposal fails it
  and the task ends afterwards (`deferred.c:999`, observation l).
* `NoSleeperForgotten`, `CallsReturn`: a wait that times out as it is signalled
  consumes the signal (`common.h:403`, observation m); who then sleeps on the free
  semaphore is woken only by a later release.

### Why the bounds are enough

Three fibers are needed for one to interrupt a loop of the second that is about
to resume the third; with the loop fiber there are four. Three calls let a fiber
block, be resumed in the middle of somebody's loop and block again. A capacity
of 2 with up to six calls reaches full, partial and empty and wraps both
positions; capacity 0 is the direct hand-over and the corner of every index; the
group combines 0 and 1 so that one entry blocks where the other has room. Two
awaits per task reach the second inline execution and nested inlining. Two waits
per fiber let a waiter of a watcher be completed and wait again inside the same
callback, at the address of one that left; the watchers are independent, so one
open watcher at a time loses nothing. A combine of two inputs and a transform of
it nest three loops on one stack; the background task lets the disposal come while
the task that is combined and transformed has not ended. A stream buffer of two cells with three bytes
is full, is empty and wraps; `Low` = 1 stands for the 4096 bytes below which
libuv is not asked to read. The 8-bit count of a watcher does not wrap with three
fibers: `RefModulus` is a constant so that the wrap can be reached (below). The order
of the ready list is any order of the tasks, one order in `deferred` and `stream`. For the lock, three processes are a
reader that leaves, a writer that waits for it and a third that tries to come
between them; two calls let one of them hold two read locks, or come back. The
bound on calls matters to one property: at the semaphore W nothing but the end of
the calls stops readers that are each time faster than the writer that was woken
(observation n), so `CallsReturn` says nothing about an endless flow of readers.

### Fairness

`FairSpec` is `WF_vars(Next)`: some enabled step is eventually taken. The code
guarantees it: the fiber that has the CPU goes on (PHP code between two library
calls is assumed to return), a suspended fiber hands over to another one or to
the loop, and the loop fires its timers. Nothing is assumed about *which* step
is taken; because user code makes at most `MaxCalls` calls, every behaviour
comes to the end of them, so the bound stands for the assumption that user code
does not make library calls for ever in the same turn.

For the watchers only `Internal` is fair: fibers, timers and library code go on,
but no signal, no readiness of a socket and no change of a file is assumed ever
to come, so `TimersReturn` is about timers and sleeps. For the stream `Internal`
is what the library does, and what libuv does without the peer: the loop, the
callbacks of a shutdown and of a close. `WF_vars(timeout_read)` says that an armed
timer fires, `WF_vars(WriteCancelled)` that libuv ends the writes of a handle that
closes, with an error. The completion of any other write (`write_cb`) is the peer's
doing and has no fairness: a peer that does not read keeps the write, the flush
behind it and the program for ever, and the code has no timeout for it. So
`CallsEnd` says of timed reads that they end, whatever the peer does, and of writes
and flushes that they end under `PeerTakes`, if no write stays with libuv for ever.
Without `PeerTakes` TLC finds the write that never ends.

In `SyncReaderwriter` every process is a process of the operating system:
`WF_vars(Proc(p))` says that each is scheduled, with the destructor as the last
thing a program does with its object. Nothing is assumed about who wins a mutex,
so a process may be overtaken at a semaphore as long as the others have calls. `WF_vars(Timeout(p))` says that a deadline
is reached: it is computed once, as an absolute time, so spurious wake-ups do not
extend it. Spurious wake-ups have no fairness.

### Findings

1. **select does not see a blocked sender** (`channel.c:187`, run `select_ready`).
   The readability macro tests `receivers.first` where the senders matter; select
   blocks next to a waiting sender.
2. **A task is executed twice** (`task.c:150`, run `task_runs_once`) when it was
   executed inline and is awaited again.
3. **A cancelled write resumes its fiber a second time** (`stream.c:1180`, run
   `stream_cancel`). A write that libuv has is cancelled; its operation is reset
   but keeps the callback of the wait. When libuv is done with it, the fiber is
   resumed although it waits for something else or has ended.
4. **A named object is used before it is initialised** (`sync/common.h:270`, run
   `named_memory`): a process that reopens a name nobody has open releases the
   mutex before its constructor builds the object; status 2, "ready", is never
   set. Its `dao_namedmem_ready` then unlocks a mutex that it does not have.

Observations about the code that no run of its own shows:

* (a) A timed send that is cancelled or refused releases its value and stays
  listed until its timer is closed (`channel.c:575`); `fetch_noblock` takes it.
  `FifoChannel` therefore lets a revoked message be delivered.
* (b) Shuffling an emptied group starts at `count - 1` of an unsigned count
  (`channel.c:641`). The model stops the fiber there (`ShuffleEmpty`).
* (c) An inlined task that returns a task under way is continued by a switch to
  the fiber it does not have (`task.c:547`; `pc = "null"` in `AsyncTask`).
* (d) A timer of delay 0 has no repetition (`timer.c:277`): libuv stops it when
  it expired, and a fiber that waits again while another is still listed is never
  served. With `OneShot = {w1}` in `AsyncWatcher.cfg`, `TimersReturn` fails.
* (e) With 257 foreground waiters the 8-bit count of a watcher (`timer.c:53`) or
  of a stream (`async_stream.h:104`) has wrapped to 1, and the first to return
  releases the handle under the others. With `RefModulus = 2` and three
  foreground fibers (`MCBackground == {}`), `HeldByForeground` fails.
* (f) `compact_group` compares the address of the selected entry with entries
  that were already moved down (`channel.c:663`), so a failed channel may throw
  once more.
* (g) A plain close resolves blocked senders (`channel.c:283`): a send whose
  message was dropped returns as one that was delivered.
* (h) Fibers that share an iterator overwrite its entry, because `fetch_noblock`
  resumes a sender before the caller has counted its position (`channel.c:1292`).
* (i) The negative delay of a timer passes the check of an unsigned value
  (`timer.c:216`); the callback of an asynchronous write is called twice
  (`stream.c:943`).
* (j) In `sync`: unlocking without the lock takes it off another process
  (`readerwriter.h:54`, excluded by `Careless = {}`); elapsed seconds are
  subtracted from milliseconds (`readerwriter.c:208`); `Event::wait` takes the
  type tag of its argument for the time (`event.c:161`); `dao_semaphore_wait`
  returns with its mutex locked when the clock fails (`common.h:394`); a
  semaphore's count of held units wraps below 0 (`semaphore.c:213`).
* (k) A foreground body that executes a task inline is not counted any more once
  the callback has returned a task that is still to end (`task.c:538-547`); only
  the context of the inlined task counts. When that is a background context the
  busy count is 0 and the loop may end under a foreground fiber that waits.
* (l) The disposal fails a transform whose source is a background task; when the task
  ends afterwards, `transform_cb` calls the continuation and overwrites the status
  and the result (`deferred.c:999`), so that a FAILED transform becomes RESOLVED.
* (m) A signal on a semaphore may be consumed by a wait that reaches its deadline at
  that moment, because the count is not looked at again (`common.h:403-410`). On R a
  `readunlock` of another process, which waits without limit, then sleeps on a free
  semaphore, and a writer waits for the event that it would fire, until somebody
  releases R again. `NothingMissed` (section 4) is the converse.
* (n) "Guarantees that readers can't starve the writer" (`readerwriter.c:210`) is true
  once the writer has W. Before that, W goes to whoever gets its mutex first, which
  may be a new reader each time.
* (o) A write of no bytes that is listed behind others reaches `encode_buffer`, which
  asserts that there is a byte to write (`stream.c:91`); without assertions it is
  neither started nor completed (`stream.c:984`). The writes of the model have at
  least one byte.

`NoStrandedPair` is stated for channels that are used without groups; finding 1
is what breaks it in `AsyncChannelGroup`.

## 4. Proofs

### The channel

`tlapm AsyncChannelProofs.tla`. For any finite set of tasks, any channels with
any capacities, any background and cancellable fibers and any bounds on calls
(`SchedulerAssumption`, `ChannelAssumption`):

* `TypeCorrect`: `Spec => []TypeOK`, with the positions, lengths and slots of
  the ring buffers;
* `BusyCountExact`: `Spec => []BusyExact`;
* `NeverStranded`: `Spec => []NoStrandedPair`;
* `ChannelIsFifo`: `Spec => ImplementsFifo`, the refinement of `FifoChannel`.

`TypeOK` is not inductive alone: it says `busy \in Nat`, and a returning call
decrements the count. That the count is then positive is `BusyExact`, because
the returning fiber is one of those counted; so the two are proved together. The
invariant is regrouped as `Typed`: `FiberLists` (lists of fibers), `Counting`
(`pc`, `busy` and `BusyExact`), `Bookkeeping`, `ChannelTypes` and `Closers` (a fiber
inside a close loop has a channel to close, without which the loop would index
by `NoChan`). The counting lemmas (`MoveCounting`, `AwaitOpCounting`,
`AwaitDoneCounting`) say how the cardinality of the waiting set changes when one
fiber enters or leaves it; `WriteType`, `PutType` and `FetchType` are about
modular positions in a ring of any size. `StepTyped` goes through the actions
one by one. `NoStrandedPair` is inductive relative to it: `ShrinkNoPair` covers
the steps that only shorten lists, and the interesting cases are the two blocking
calls and the refill of a freed slot.

The refinement rests on a second invariant, `Orderly`, which TLC checked on the
instance of the run before it was proved. Its conjuncts are

* `Named`: nothing is listed, buffered, handed over or delivered but messages of
  calls already made, so the message of a new call is fresh;
* `Rings`: the write position lies `len` slots behind the read position;
* `Suspended`: a fiber inside `send` or `next` has a channel and is either
  waiting or the current one, and a close loop runs on a closed channel;
* `Sending`: a pending send is listed with the channel of its fiber, and a listed
  operation that nobody awaits has been given up (`dropped`);
* `Receiving`: receivers are listed once, with their channel, and a fiber holds a
  message exactly between the send that resumed it and its return, while the
  channel is open;
* `Ungrouped`: nobody waits for several channels. The other conjuncts are stated
  so that they hold with groups as well, where they are used again.

`RingPositions` and `RingPut`, `RingTake`, `RingRefill` say what a write, a read
and a refill do to the list of buffered messages for any capacity: positions
wrap, and the refill of a full ring goes to the slot just read. `ConcatAppend`,
`ConcatTail`, `ConcatMove` and `ConcatRemove` carry that over to the queue, which is
the concatenation of what was handed over, buffered and is pending. `FetchQueue`
combines them: a fetch takes the first message of buffer and senders, refilled or
not. The five lemmas `StepNamed` to `StepReceiving` show `Orderly` inductive, one
step per action; `StepFifo` matches each action with one of the queue: the four
sends with `Send` (a direct hand-over needs `NoStrandedPair`: the queue is empty
then), `NextFetches` and a `NextReturns` with a message with `Deliver`, the three
ways to unlink a send and a cancelled send with `Revoke`, `close` with `Close`, the
others with stuttering. None of this takes induction: `Revoke` removes one
position, so no recursive definition is involved.

### The group

In `AsyncChannelProofs.tla` too, for `GroupSpec`: any channels, capacities and
tasks, any groups without repetitions, shuffled or not (`GroupAssumption`):

* `GroupTypeCorrect` (`GroupTypeOK`), `GroupBusyExact` (`BusyExact`);
* `GhostFree` (`NoGhostEntry`): no entry of a select or a group send outlives the
  call;
* `SelectEnds` (`SelectCanEnd`): a blocked select is listed with as many channels as
  it counts, and with one at least;
* `DeliveredOnce` (`ExactlyOnce`): every accepted message is in one place until it
  is given up.

A step of the group is a step of the channel that at most regroups, or one of the
calls and returns of `select` and `send` (`GroupCases`), so what was proved about
the steps of the channel is used again. `GroupInv` consists of the types, the
busy count and three parts:

* `GroupOrderly`: the conjuncts of `Orderly` that hold with groups, and `Full` (who
  sends waits only at full buffers), `Unique` (an operation is listed once per
  channel) and `GroupLists` (a group lists a channel once). `Receiving` says what
  finding 1 leaves true: a listed receiver is in `next` of that channel or in a
  select. `compact_group` and the scans only ever leave some of the entries
  (`Kept`), which is all that is needed of them;
* `Counted`: while a select waits, `pending` is the number of channels that list it,
  and not 0. This is the invariant behind `DisposeSelector`, which ends the select of
  a closed channel exactly when it was the last;
* `Offering`: the messages of group sends are apart from those of sends on one
  channel, and no dead operation (observation a) belongs to a group send.

`ExactlyOnce` needs a second invariant, `Accounted`, which TLC checked on the
instance of the run first. It has two parts because a message that is offered is in
several lists at once and still counts once:

* `Holding`: what a channel has delivered, hands over or buffers (`Items`) is there
  once, and no two channels have a message in common;
* `Placed`, for each message: a blocked group send is listed with *all* channels of
  its group while its operation runs, so a channel that does not list it is the one
  that completed it (`Completer`); a message some channel has is listed nowhere, or
  only by such a completed group send that has not yet returned; and a message is
  with a channel, or given up, or still waits.

The steps are sorted by what they do to messages: nothing (`IdleAccounted`), a new
message to one channel (`GivenAccounted`) or to a list (`ListedAccounted`,
`OfferAccounted`), a listed message that a channel takes (`CompletedAccounted`), a
message whose operation ends (`EndedAccounted`, `OfferEndsAccounted`).
`OthersPlaced` says once for all of them that the other messages stay accounted for.
`OneCopy` and `OneWaiter` turn the invariant into the cardinality that
`ExactlyOnce` states. The last conjunct of `ExactlyOnce` is only about `offered`
messages: the message of a send on one channel may be given up and still be
delivered (observation a). That this cannot befall a group send is `Offering`.

### What the asynchronous components share

`AsyncSchedulerProofs` is extended by the proofs below. It has the lemmas about
lists of fibers (what appending, prepending, unlinking, removing the first or the
last does to the elements, their positions and their being distinct), about the
busy count (`BusyStays`, `BusyUp`, `BusyDown`, from the cardinality of the set of
waiting foreground fibers), and about places: `SuspendPlaces`, `SwitchPlaces` and
`EnqueuePlaces` say who runs, who is interrupted and who is ready after a
suspension, a switch and an enqueue, from `Single` - the running fiber, the
interrupted and the ready ones are distinct. The sets of fibers, contexts, objects
and bounds are arbitrary; the assumptions are `SchedulerAssumption` and those of
the component. All theorems are about `Spec`, without fairness.

### The condition

`AsyncConditionProofs`: `TypesHold`, `FibersInOnePlace` (`OnePlace`),
`BroadcastCounted` (`BroadcastCount`), `EndsClean` (`CleanEnd`),
`OutcomesStable` (`OutcomeStable`), `WokenInOrder` (`WakeOrder`).

One invariant `IInv` carries all of them. `Placed` ties the place of a fiber to
its code: in library code it runs, is interrupted or ready; with a running
operation it is nowhere; with a settled one it runs or is ready. `Listed` says
that the waiter list has exactly the running operations, and besides them only
the cancelled one of the fiber that runs, which is about to unlink it: this is why
the loops of `signal` and of the shutdown always complete an operation nobody has
completed, and why an outcome is not overwritten. `Deferred` is the broadcast
counter. `Ordered` relates the history of wake-ups to the ready list: the first
that was woken may run, the others are ready in the same order. `Closing` and
`Ended` are needed for `CleanEnd`: a closed condition with waiters has somebody in
its loop, so the disposal cannot be over while a background task waits.

### Watchers

`AsyncWatcherProofs`: `TypesHold`, `EverybodyObserved` (`WaitersObserved`),
`CallbackComplete` (`NobodyForgotten`), `CompletedOnce` (`OncePerEvent`) and,
under `Cardinality(Fibers) < RefModulus`, `ReferencesExact` (`HeldByForeground`).
The hypothesis is the real limit of the code: `ref_count` has 8 bits, and with 256
foreground waiters the equivalence fails (observation e).

The difficult part is `Callback`, what a callback still has to do while user code
runs inside it: those who are due are on the list of the side they wait on, or
running, in front of the remembered operation, and everybody in front of it is due
unless the remembered operation left by itself (`stray`). `Observed` follows from
which lists are non-empty. `Counted` says that the 8-bit number is the cardinality
of the foreground fibers inside an await.

### The deferred

`AsyncDeferredProofs`: `SettledAtMostOnce` (`SettledOnce`), `NobodyLeftBehind`
(`NobodyLeft`), `CancelledWhilePending` (`HandlersPending`), `CombineCounts`
(`CombineSound`), for any network of combines and transforms of deferreds and tasks
(`DeferredAssumption`).

`SettledOnce` is not obvious because `transform_cb` and the shutdown settle a
state without looking at its status. The invariant says when they meet a pending
one, or the transform of a task that the disposal has failed (`Due`), and what the
history of a state then is (`CountedAt`): a transform is either listed with its source or its continuation is on a
stack, never both and never twice (`Listed`, `OneTransform`, `Transforms`); the
shutdown list has exactly the pending states that are not tasks, a transform behind
its source (`Shutting`), so that the shutdown of the source has gone through the
transform before the loop comes to it - unless the source is a task, whose operation
stays listed and calls the continuation once; and the disposing fiber lies below every other one
(`Stacked`). `Rebuilt` compares a stack before and after a step: the lower frames
stay, what is above belongs to the step. `Served` is `NobodyLeft` while loops run.

`CombineSound` equates a counter of a combine with the size of sets spread over
the whole state: the operations of the combine in the lists of all states
(`Operations`), the callbacks that run in the stacks of all fibers (`Calls` of
`Running` frames), and what the loop of `combine` has not listed yet (`Remaining`).
`Balance` carries the equation through the steps as "l listed, n unlisted, r
running, and the counter is their sum". One step adds or removes one element of one
of the sets: `AppendOperation`, `TakeOperation`, `PushedCalls` and `PoppedCalls`
count it. When trigger_ops takes the head of a list, the other operations of that
list move by one position, which is a bijection between the old and the new set,
so their number is the same. At most one frame of a combine's loop exists, so `Remaining` is
a function of the state. Steps on frames of other combines are `PushNeutral` and
`BalancedSame`. The inputs need not be distinct: an awaitable that is given twice
has two operations, and both are counted.

### Tasks

`AsyncTaskProofs`: `TypesHold`, `ExecutedInOnePlace` (`OneExecution`),
`NoAwaiterLost` (`NoLostAwaiter`), `OutcomeOfAwaited` (`AwaitedOutcome`),
`BusyCountBalanced` (`BusyBalanced`), for any nesting of inline execution.

`Executed` bounds the places of a task by the number of its awaits; the places are
pairs of a fiber and a position in its stack, and `PairsAdd` and `PairsRemove`
count them. `Listed` and `Registered` are the two directions of "who awaits is
listed": a body that is executed inline and suspended (finding 2 and observation
c) has no fiber of its own, so both are about fibers that exist. `Over` says that
a task behind its trigger loop has an empty list, `Outcomes` that an outcome was
taken from the task that is awaited. `Passing` says that only the innermost inlined
task can be past its callback without being settled, and what its fiber then does;
`Release` counts the body below it out, as `task.c:538` does before the await.

### Streams

`AsyncStreamProofs`: `StreamTypes`, `StreamBytes` (`BytesInOrder`),
`StreamReaderServed` (`ReaderServed`), `StreamWrites` (`WritesOrderly`),
`StreamQueue` (`QueueMoves`), `StreamShutdown` (`ShutdownMoves`), for any size of
the buffer, any threshold, any number of bytes and calls (`BufSizeAssumption` and
the other assumptions of `AsyncRingBuffer` and `AsyncStream`), and also when
cancelled writes resume their fiber a second time (finding 3).

* `Ringed` is the ring buffer: the write position is the read position plus the
  length, wrapped once, and cell by cell the buffer holds the bytes that follow
  those taken. `ReadsNext` and `WritesNext` prove what a read in two turns and a
  write of libuv into the contiguous free cells do to it, `Turn`, `Counts` and
  `Around` are the arithmetic of the block's end.
* `Queued` orders the listed and the sent writes; libuv has at most the first
  listed one. `Mine` keeps the operation of a waiting fiber listed, so that the
  code behind the suspension finds what it removes. `Moving` is about
  `process_write` and `write_cb`: outside of it the first listed write is with
  libuv.
* `Closing` follows the flags of shutdown and close: a shutdown request, a delayed
  one with writes in front of it, or somebody inside a shutdown. `Stacked` says
  that at rest nobody is, because such a fiber lies above the loop's.
* `Served` is about the one pending read: without EOF libuv reads for it, or the
  loop of `read_cb` is about to complete it.

### The reader-writer lock

`tlapm SyncReaderwriterProofs.tla`. For any finite set of processes, any number
of calls and any waiting times (`ReaderwriterAssumption`), with `Spec`, that is
without fairness:

* `RWTypeCorrect`: `Spec => []RWTypeOK`, also with careless processes;
* under `Careless = {}` (a process unlocks only what it holds) `WriterIsAlone`
  (`Spec => []Exclusion`), `ReaderCountExact` (`Spec => []ReadersCounted`) and
  `ReadersNeverOvertake` (`Spec => NoOvertaking`);
* `NobodySleepsForever`: `Spec => []NoSleeperForgotten`, also with careless processes,
  and `NothingMissed`: if no call passes a waiting time, no wake-up is lost at all.

The first invariant, `RInv`, needs no care of the callers, because R is released only
by who took it: `OwnersR` - a process between its wait for R and its release of R is
the only one there, and R is taken; `Loaded` - what such a process has read of the
shared count (`temp`) is still the count when it writes, and is positive when it is
going to write the decrement. So an increment or a decrement is never lost and the count
does not go below 0, which is not true without `OwnersR`: the mutant `ReadunlockWithoutR`
loses updates.

`Exclusion` is far from inductive: that nobody has a read lock follows from the
event being signalled when the writer looked, and from nobody having reset it
since. The invariant `Inv` adds to `RInv`: `OwnersW` - while a process is inside the
part of readlock or writelock that W protects, or has the write lock, W is taken and
it is the only such process, which holds only if nobody unlocks what it does not hold;
`Readers` - the event is signalled only while there are no readers, it is not
signalled between reset and count, the count is 0 between the last decrement and fire
and while somebody has the write lock; `Tokens` - the count is the cardinality of the
history `held`, whose elements are fresh. A process between reset and count has both
semaphores, so there is no writer and nobody fires the event.

`NobodySleepsForever` needs only that the counts are 0 or 1: `Sleepers` says that who
sleeps on a condition waits for its object and has not been woken, and that who was
woken is still in its wait. The cases that matter are the release of a semaphore (it
wakes one sleeper, who then is the one that `NoSleeperForgotten` asks for), and the
end of that process's wait: it leaves by taking the unit, so that the semaphore is not
free, or by its deadline, and then the semaphore is in `missed`. Firing the event
wakes everybody. Without waiting times the last case does not exist, which is
`NothingMissed`.

### Only model-checked

* All liveness properties: fairness is beyond the prover.
* Properties expected to be violated; they are findings.

Every invariant and every safety action property of a passing run is a theorem.

## 5. Plan

Done: scheduler, condition, channel with the refinement of `FifoChannel`, group,
task, watchers, deferred, streams; reader-writer lock and named memory; theorems
about every component of these but named memory, whose run shows a finding.

Next, in this order:

1. The classes mutex, semaphore and event of `ext/sync`.
2. The context tree with nested cancellation scopes; completion callbacks of
   asynchronous writes.
3. Nested transactions with savepoints (`db/adapter/pdo.c`).

## 6. Not modelled

* Most of the lines of the repository are third-party or generated: libuv under
  `async/thirdparty`, lmdb and other stores under `storage`, the lemon and re2c
  output of the query, annotation and template parsers. libuv appears as external
  definitions, by what `ext/async` relies on.
* The web framework (MVC, models, SQL generation, HTTP, forms, views, filters) is
  sequential, request-scoped code that transforms strings and arrays; a model
  would repeat it, and tests reach it.
* Cache, session, queue and logger back ends are I/O to external services.
* TLS, DNS, file system, processes and threads of `ext/async` wrap libuv requests
  or OpenSSL; sockets and pipes are streams, which are modelled, plus connecting.
* Of streams: TLS, passing handles over a pipe, completion callbacks of
  asynchronous writes. Of watchers: `Timer::timeout` and `Signal::signal`, which
  are deferreds settled by the handle. Of the scheduler: ticks, components, fatal
  errors and `exit`.
* Of deferreds: inputs and sources that other parts settle from callbacks of the loop
  (`async_awaitable_impl`, `task.c:255-297`). Like tasks they are not on the shutdown
  list, and are settled once by a test of their status.
* PHP reference counts and pending exceptions of the engine.
