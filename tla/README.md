# A TLA+ verification project for ohos-ffrt

`ohos-ffrt` is a Tokio-style asynchronous runtime for OpenHarmony on top of the
FFRT C library: tasks run on FFRT workers, and the crate adds join handles,
locks, channels, timers, an I/O reactor, processes, signals and files. Most of
its code is concurrent: futures are polled by one task and woken by another, can
be dropped at any await point and can be moved between tasks. This project models
that code, component by component, checks it with TLC on small instances and
proves the most important properties with TLAPS for all instances.

`PROJECT.json` maps every definition to the lines it models and lists the
components, the runs, the mutants of each property, the hazards and the theorems.
Paths below are relative to `crates/ffrt/src/`.

## 1. The system: an inventory

| Component | State | Operations | What makes it hard | Module |
|---|---|---|---|---|
| Task runtime (`runtime/inner_runtime.rs`, `runtime/waker.rs`, `task/task.rs`) | runner position, `cancelled`, `finished`, the cancellation waker, `woken`, the join channel, `ACTIVE_TASKS` | spawn, spawn_blocking, run, poll, wait, abort, join, detach, destroy | an abort may fall between any two of the runner's operations; FFRT may destroy a task without running it | `TaskRuntime` |
| Mutex (`sync/mutex.rs`) | `locked`, waiter queue | lock, try_lock, poll, cancel, unlock | wakers are called after the lock is released | `AsyncMutex` |
| Semaphore (`sync/semaphore.rs`) | `permits`, `closed`, waiter queue | acquire_many, try_acquire, add, forget, split, merge, close | batches, the permit limit, close against acquisition | `Semaphore` |
| RwLock (`sync/rwlock.rs`) | `readers`, `writer`, `max_readers`, waiter queue | read, write, try_*, downgrade, cancel, release | readers pass the turn on one by one; the reader limit | `RwLock` |
| Notify (`sync/notify.rs`) | permit, generation, waiters | notify_one, notify_last, notify_waiters, poll, enable, drop | a chosen future may be dropped and owes its notification | `Notify` |
| Barrier (`sync/barrier.rs`) | generation, arrived, waiters | wait | reuse, and futures that are dropped | `Barrier` |
| OnceCell (`sync/once_cell.rs`) | flags, value, waiters | get_or_init, get_or_try_init, set, take | an initializer that fails or is dropped | `OnceCell` |
| SetOnce (`sync/set_once.rs`) | atomic state, value, waiters | set, wait, get | the state is an atomic beside the lock of the waiters | `SetOnce` |
| oneshot (`signal/oneshot.rs`) | slot, two alive flags, two wakers | send, recv, try_recv, blocking_recv, close, closed | a close or a drop racing a send | `Oneshot` |
| mpsc (`signal/mpsc.rs`) | queue, reserved, counts, wakers | send, try_send, reserve, permits, recv, recv_many, close, weak senders | capacity shared by values and permits; the end of the channel | `Mpsc` |
| watch (`sync/watch.rs`) | value, version, counts, waiters | send, send_if_modified, changed, wait_for, subscribe, closed | versions that wrap; what a receiver has seen | `Watch` |
| broadcast (`sync/broadcast.rs`) | ring, next sequence, cursors | send, recv, try_recv, subscribe, resubscribe, closed | receivers that lag behind | `Broadcast` |
| JoinSet (`task/join_set.rs`) | `pending`, abort handles, one tracker per task, their channel | spawn*, join_next, try_join_next, abort_all, detach_all, shutdown, drop | counts, handles and results must agree after detaching, aborting, dropping | `JoinSet` |
| LocalSet (`task/local_set.rs`) | local queue, `notified`, `run_waker` | spawn, one pass of `poll_tasks`, run_until, drop; wake and abort from other threads | a wake-up during the pass, or for a driver that was replaced | `LocalSet` |
| Timers (`timer/*.rs`, one-shot timers of `looper.rs`) | deadline, `TimerState`, the loop's timer, references to its data | poll, reset, drop, tick; the callback's steps | a stop against a callback that was entered; the deadline passes between check and registration | `Timers` |
| Reactor (`reactor.rs`) and what does I/O through it (`net*.rs`, the pipes of `process.rs`) | readiness and generation, armed directions, waiters | callback, wake_ready, poll_ready, clear_ready, register, deregister; the readiness loop of each operation | clearing readiness that is newer than the one seen; events for an earlier owner of the descriptor | `Reactor`, `Endpoints` |
| Sockets (`net.rs`, `net_tcp_socket.rs`, `net_unix.rs`) | descriptor, registration, owners | connect, split, reunite, shutdown, drop, into_std | attempts that fail late or are dropped | `Sockets` |
| Signals (`signal/unix.rs`) | socket pair, generations, waiters | handler, install, drain, poll_recv | one listener drains for all | `Signals` |
| Processes (`process.rs`) | child, its pipes, the handle, the reaper | spawn, wait, try_wait, kill, wait_with_output, drop | parent and child that wait for each other; a drop while the child runs | `Process` |
| Files (`fs.rs`) | pending operation, read buffer, cursor, pending seek | read, write, seek, sync_all, into_std | operations whose future was dropped | `File`, `FileData`; `AtomicFile` is the abstract one |
| I/O adapters (`io.rs`) | buffers, limits, the futures' progress | read\*, write\*, copy; `BufReader`, `Take`, `Chain`; `BufWriter`; `duplex`, `simplex`, `split`; `Stdin`, `Stdout` | partial answers, errors and drops in the middle | `Readers`, `WriterStack`, `ReadBuf`, `MemoryPipe`, `StandardStreams` |
| Closures given to FFRT (`queue.rs`, `task/task.rs`) | the storage's pointer, queue handles, task handles | submit, exec, destroy, wait, cancel, clone, drop | run, cancel, discard and destroy in several orders | `Closures` |
| select!, join!, try_join! (`macros.rs`, `ffrt-macros/src/select.rs`) | disabled branches, where a pass starts | one pass over the branches | a branch that is out, or whose waker is not registered | `Combinators` |
| Task-local storage, FFRT locks (`lock/`), attributes and builder, tracing, bindings, Node-API glue | | | see section 6 | not modelled |

How they interact: `spawn` gives the runner and the `JoinHandle` a oneshot channel
and a `CancellationState`; a `JoinSet` collects its results over mpsc; the async
locks, `Notify` and the channels only meet the runtime through `Waker`s, which for
spawned tasks end in `WakerState::wake`; sockets, signals and child pipes wait on
the reactor; files, standard streams and name resolution run on `spawn_blocking`;
`wait` of a child polls on a `Sleep`. A module that uses another component takes
it at the promise that component's own module is checked for: `JoinSet` receives
what was sent into its channel once and in order, `Signals` is woken when its socket
becomes readable.

## 2. How the models are written

*Steps.* Whatever happens while a component's internal lock is held is one atomic
step, and so is every access to an atomic outside of it. Where the code takes
wakers out under the lock and calls them afterwards (`mutex`, `rwlock`,
`semaphore`, `notify`), the calls are steps of their own (`Fire`), so the waiter can be
cancelled, polled or moved in between. Where the code calls them under the lock
(`oneshot`, `mpsc`, `watch`, `broadcast`, `barrier`), they belong to the step.

*Futures.* `Wakers` models what Rust guarantees about tasks: a future is polled
from some task, leaves that task's waker behind, and a wake-up counts only if it
reaches the task that polled the future last. Polls may also be spurious. Futures
may be dropped whenever their owner is not inside a call. `WaiterQueue` is the FIFO
queue that `mutex.rs`, `rwlock.rs` and `semaphore.rs` share in form; `WillBePolled(f)`
says that `f`'s current task was woken or that somebody is about to wake it.

*Data.* Values are identities (their sender, their sequence number); guards,
owned and borrowed variants are one thing when they share the code that changes
state. History variables, marked so in each module, record what the properties are
about and are read by no action.

*Blocking calls.* `blocking_lock`, `blocking_read` and `blocking_write` repeat the
`try_` operation and are modelled by it; `blocking_recv`, `blocking_send` wait on a
condition variable and are threads that sleep until they are woken.

*Reactor and endpoints.* Every operation of a socket, a pipe or an `AsyncFd` is one of
five loops around a system call: try first and wait on `WouldBlock` ("retry"), wait
first ("guard"), try only with cached readiness ("once"), only the system call
("direct"), only the wait ("ready"). `Endpoints` lists in `Methods`, for each endpoint type,
which of them its methods are, direction by direction; the steps of the loops, in
`Reactor`, are then the same for all. `Reactor` takes the table as a constant and assumes
only that an operation's direction is one its endpoint is registered for; that the
table of `Endpoints` satisfies this is evaluated in the run `runtime` (`EndpointsFit`), for
every type. One descriptor is modelled: registrations share nothing but the token. Events carry
the token they were armed with, and a registration takes one that no event under way
carries, which is what the counter of `next_token` achieves. That
`EPOLL_CTL` fails, that the descriptor number is used again, and that the generation
wraps are part of the model.

*I/O adapters.* In `Readers` and `WriterStack` the innermost reader or writer is external
and answers every poll as it likes: pending, an error, or any number of bytes the
contract of `AsyncRead` and `AsyncWrite` allows. A step is one poll of it; between two,
the future may be dropped. Bytes are numbered, or tell apart only what the code tells
apart (a newline, a carriage return, something that is not UTF-8). A result is compared with
what the same call would return if the whole content were there at once.

*Dropped futures of blocking work.* `File`, `Stdin` and `Stdout` keep the operation of a
future that was dropped. In `File` there is no future: an action is one poll,
and the next poll may be of any kind, so every drop is included. In `StandardStreams` the
future that is polled, and the room in its buffer, are part of the state, because the
next future collects the operation with a buffer of its own.

*Looks and what follows.* Where the code looks at an atomic and then acts on it, the two are
steps of their own: a blocking task looks at `cancelled` (`StartBlocking`) and then calls its
closure (`CallClosure`); a listener finds the signal socket empty (`DrainBlock`), polls the reactor
(`DrainPollReady`) and clears the readiness (`DrainClear`), and the reactor may report the socket
between any two of them. One pair is kept in one step: the part that `split` takes
off a permit is dropped at once. A part that is borrowed cannot outlive a change of the
permit it came from, and an owned one is like the permit of another future.

*Timers.* The clock advances by itself, up to a bound. Each reset starts a generation
with a `TimerState` and a loop timer of its own, so that the callback of the old one is
still under way while the new one is polled. `Millisecond` and `Tolerance` stand for the
resolution of the loop and the 5 ms of `Interval`; rounding is modelled exactly.

*External code* is modelled by the promises the code relies on:

* FFRT runs or destroys a submitted task; `cond_wait` may return spuriously; a
  queue that is destroyed may discard what is queued; cancelling succeeds only before
  the job starts.
* FFRT's loop is level triggered and reports a flag while it is armed. Stopping a
  timer waits for the callback's first step if that was entered already. Whether
  the library does that cannot be seen in this repository; without it the
  callback could duplicate a reference that is gone (`looper.rs:229`).
* The kernel: readiness, `connect` and `SO_ERROR`, `waitpid`, a pipe of fixed size. A child
  writes when there is room and ends when its input has ended, if it wants that.
* `std::task::Waker`: a wake-up reaches the task the waker was made for.

*Mutants.* Next to a definition there may be one marked `Mutant:`. It is a
plausible mistake in that piece of code. No specification uses it; replacing the
definition by it violates the property that `PROJECT.json` names with it, which
shows that the property can fail.

## 3. The runs

| Run | Instance | What it shows |
|---|---|---|
| `rwlock` | 3 futures, 1 task, reader limits 1, 2 and 3 | `RwLockIsSafe` (guards exclude each other, wake-ups, order); `WaitersAreServed`: whoever waits is served or gives up |
| `coordination` | semaphore: 3 futures, 1 task, amounts 1 and 2, limit 2, at most 3 in circulation; Notify: 2 futures, 2 tasks; Barrier: 3 threads, threshold 2, 2 rounds; cells: 3 callers | `PermitsConserved`, `NoLostWakeup`, `CloseReleasesWaiters`, `NoOvertaking`; `NoLostNotification`; `RoundsAreComplete`; `CellIsSetOnce` (`OnceCell`), `ValueIsSetOnce` (`SetOnce`) |
| `channels` | mpsc: 2 senders, capacity 2 and unbounded, reservations of 1 and 2, 3 values; the others: 2 receivers, versions modulo 8, 4 messages | `CapacityRespected`, `MpscDelivers`, `OneshotDelivers`, `WatchIsExact`, `LagIsExact`; each but the first includes that nobody sleeps through what they wait for |
| `task_runtime` | 2 tasks, 1 thread with abort handles | `FinishedMeansDropped`, `ResultIsFaithful`, `StopsAtPollBoundary`, `ActiveTasksCounted`; `AbortDecides`: where the runner was when the first abort came decides whether the task is reported as cancelled |
| `runtime` | JoinSet: 3 tasks; LocalSet: 2; closures: 2 jobs, 2 queue handles; macros: 3 branches; timers: 2 generations, clock up to 6; signals: 2 listeners, 2 kinds, 2 raised, room for 2; sockets: 2 addresses; reactor: the loop and 2 users, one of each direction or both readers | `JoinSetIsExact`, `LocalTasksAreRun`, `ClosuresRunOnce`, `CombinatorsAreExact`, `SleepsAreExact`, `SignalsWake`, `SocketsSound`, `ReadinessIsExact` |
| `io` | contents of 3 bytes of four kinds, buffers of 2, callers' buffers of 1 and 3; 4 bytes written in slices of up to 2; a `ReadBuf` of 3; pipes of 2; a standard input of 3 bytes, 3 writes and flushes, buffers of 1 and 2; files of 2 bytes | `ReadersAreExact`, `WritesAreExact`, `NoUninitializedByte`, `StreamsConserve`; `FileIsAtomic`: `File` implements `AtomicFile` |
| `live` | mutex: 3 futures, 2 tasks; semaphore: 2 futures, 2 permits; runtime: 1 task, 2 threads with abort handles; process: a pipe of 1, up to 3 bytes; reactor: the loop and 1 user of a `UdpSocket` or a `Sender` | `MutualExclusion`, `NoLostWakeup` (the front waiter of a free mutex is going to be polled), `NoOvertaking`; `LocksServe`: whoever waits for the mutex is served or gives up, and whoever waits for permits too, once their number is stable and if it suffices; `TasksComplete`, though nothing but the abort wakes the future; `ChildrenAreReaped`; `IoCompletes`, whatever the loop has cached or cleared meanwhile and even if arming fails |
| `rwlock_reader_limit` | 2 futures, limit 1 | violated: `try_read` does not look at `max_readers` |
| `barrier_alone` | 2 threads, threshold 2 | violated: a dropped `BarrierFuture` stays counted, so one thread passes alone |
| `set_once_error` | 2 callers | violated: `set` reports "already initialized" while the cell is only being written |
| `stdin_cancelled` | buffers of 1 and 2 | violated: the bytes of a dropped read do not fit the next caller's buffer |
| `signals_full` | 2 listeners, 2 kinds, room for 2 | violated: the first signal of a kind is lost when the socket is full of another kind |

Most runs hold several components that share nothing. The initial state picks one
(`which`), only that one steps, and the others are absent: their variables keep one
value throughout. This checks exactly the union of the separate state spaces, and a
property of a component that was not picked holds trivially. Some components stay in
an initial state where the others have no state at all: the file, whose refinement
mapping is evaluated in every state, and those whose module the MC module extends
(those with a theorem), so that the run and the proofs are about the very same
definitions.

*Bounds.* Three contenders are the least number with which a waiter can be
overtaken, cancelled in the middle of the queue, or need somebody else to hand on
a turn; two tasks are what a moved future needs. The semaphore's limit of two is
reached by two additions and lets both the limit and a batch that cannot be
satisfied occur. Broadcast keeps two messages of four, so a receiver can lag by
more than one; the watch channel's modulus only has to exceed the number of
versions that can be unseen (its constant assumption says so: the 64-bit counter of
the code cannot wrap between two looks). Three tasks in a `JoinSet` let `swap_remove`
move a handle that is neither the first nor the last into a gap. Two timer generations are one reset, with
the old callback under way; a period of two and a clock up to six let ticks be missed by more
than one period, and a clock of two ticks per `Millisecond` makes rounding matter. Two
listeners are what draining for another takes; that the socket fills up takes a third signal, which `signals_full` has.
Three calls of a writer are one that is dropped, one that gets its result, and one after it. Contents are longer than the `BufReader`, so it is
refilled, bypassed and left half full; `BufWriter` holds half of what is written. A pipe
of one byte and a child that writes three is the least in which the child blocks
more than once. Generations of readiness are taken modulo two: a smaller modulus than the
code's `u32` allows more stale clears to be mistaken for current ones, and the
properties hold even so.

*Endpoints.* `runtime` and `live` pick representatives of the endpoint types. `Receiver` and
`Sender` have one direction, `TcpHalves` and `UdpSocket` both. A `UdpSocket` has every kind of
operation any type has (`UdpSocketDoesAll`, an assumption TLC evaluates in `live`), so it
stands for all that are registered for both directions. In `live` there is one user: it
reads from a `UdpSocket` or writes to a `Sender`. In `runtime` two users read from a
`Receiver`, or one reads and one writes through `TcpHalves`.

*Symmetry* is used only in runs without liveness properties and over sets whose
members occur nowhere by name.

*Deadlock* is checked in `rwlock`, which has no bound that can be used up. The other runs
end when their bounds are used up or when everybody has dropped everything.

*Fairness* is weak, and stated for single steps: a woken task is polled, because FFRT
runs a signalled worker; a waker that was taken out is called, because nothing
blocks between the two; a guard or a permit is dropped at some time, which is the
duty of its owner and what any lock needs; FFRT runs submitted tasks; the loop thread
fetches and delivers events; a thread finishes the call it is in; the 5 ms timers of
`wait` and of the reaper go off; a child that can write or exit does. Nothing is
assumed about first polls, cancellations, the peer of a socket, or about what the future inside a task
waits for, so `AbortedTasksEnd` really depends on the abort's own wake-up. The
exception of `RwLock`'s `NoLostWakeup` is explained at its definition: a reader kept out
by the reader limit is told only when the last reader leaves, which delays it but
does not lose it (`WaitersAreServed`).

## 4. What is proved

Every property below is the definition a run checks, so each is model-checked on a
small instance and proved for all values of the constants. In each case the property is
not inductive alone; what the invariant adds, and why, is said with it. The
invariants are stated in the modules of the components or at the head of their proofs.

`WaiterQueueProofs` has the lemmas on the queue that the three locks share: what appending,
replacing and removing a waiter does to `QueueInv` (each waiting future is in the queue
once, with the waker of the task that polled it last).

`SyncProofs`, for any sets of futures and tasks:

* The mutex: `MutexIsExclusive` and `MutexLosesNoWakeup`, from `IInv == TypeOK /\ QueueInv /\
  MutualExclusion /\ NoLostWakeup`. `NoLostWakeup` needs `QueueInv`, or the wake-up given
  to a front waiter might go astray. `MutexIsFifo`: the action property
  `NoOvertaking`, from the same invariant.
* `BarrierRoundsAreComplete`, for any threshold and number of rounds. `RoundOK` says of each
  round, past, current or to come, how many arrivals and which leader it has; `ThreadOK`
  says that a future of the current round is registered with its last waker and one of an
  earlier round was woken. The case that matters is the arrival that completes a round.
* `NotifyLosesNothing`. `NotifyQueueOK`: a future is queued once, waits, belongs to this
  generation, and no permit is stored while anybody is queued. `StagesOK` ties each future's
  mark and generation to how far it has come. `SleepersOK`: a sleeping future has its own
  task's waker in the queue until it is notified, and is going to be polled afterwards. The
  step that matters is the drop of a future that `notify_one` chose: it passes the
  notification on to the next in the queue, or stores it as the permit.

`AccessProofs`, for any finite set of futures and callers, any tasks and any reader limits:

* `RwLockSafety`: exclusion, wake-ups and order in one, `RwLockIsSafe`. `IInv` has `QueueInv`
  and, with it, that `readers` and `writer` count the guards there are. The proof goes through
  each way a turn is passed on: a reader that lets the next reader in, a release
  of the last reader, a downgrade, and the cancellation of a front waiter that was
  woken already. Counting the readers takes the cardinality of the set of holders.
* `SetOnceIsSound`. One setter at a time, and what its place in `set` says of the state and
  the value (`SetterOK`). The value is announced outside the lock of the waiters; that
  nobody falls asleep behind it is `WaiterOK`: a future that looked before the
  announcement and still holds that lock is registered before the setter collects.
* `OnceCellIsSound`. The flag is set exactly while one caller initializes, and a caller
  that waits is awake or registered, so that an initializer that gives up finds a
  replacement.

`SemaphoreProofs`, for any amounts, limits and bounds:

* `SemaphoreLosesNoWakeup` and `CloseReachesEveryone`, from an invariant that adds
  to the queue's that a future waiting on an open semaphore is in the queue
  (`AllQueued`): this is what lets `close`, which drains the queue, reach it.
* `SemaphoreIsFifo`: the action property `NoOvertaking`, from the same invariant.
* `SemaphoreConservesPermits`: what is available and what is held, summed over all futures,
  is what was put in. The lemmas before it say what `SumFunction` of the community modules
  is for every finite set: its recursion has exactly one solution, any element may be taken
  out first, and changing one value changes the sum by the difference. Since the
  library's induction theorems cannot be used, they argue with a smallest
  counterexample among the subsets of the finite set (`LeastSubset`, from the least
  element of a set of cardinalities). The invariant adds that only the owner of a
  permit holds any. `supply`, what was put in, is a history: forgetting permits, and a drop that
  panics above `MAX_PERMITS`, lower it, since those permits are gone. The theorem adds that what is available
  stays within the limit.

`ChannelProofs`, for any handles, tasks and messages:

* `OneshotDeliversOnce`. `HistoryOK` ties what was sent and received to the slot, the two
  flags and the state of the receiver, a close that races a send included; `SleepersOK` says
  that whoever is parked has its last waker stored.
* `WatchTellsEveryChange`. `VersionsOK` says which versions a receiver can have seen, the one
  before 0 included; it needs that versions do not wrap onto one that is still unseen
  (`MaxVersion + 2 <= Width`, which the 64 bits of the code give). `CountsOK` makes
  the counters those of the handles, and `PendingOK` says that a pending future which is
  not awake is registered and would not return now.
* `BroadcastCountsItsLag`, for any capacity. `RingOK`: the ring holds the last messages, without a
  gap and as many as fit. `CursorOK`: what a receiver got and what it was told to have missed
  make up exactly what lies between its creation and its cursor. `RecvOK` and `ClosedOK`: a
  pending future is awake, or registered and has nothing to return.

`TaskRuntimeProofs`, for any finite set of tasks and any set of aborters:

* `FinishedTasksAreDropped`, `JoinResultIsFaithful`, `AbortStopsPolling` and
  `CounterIsExact`, from `IInv`, whose conjunct `TaskInv(t)` says for each position of the
  runner what the flags, the future, the channel and the join handle look like.
  The counter needs the cardinality of the set of counted tasks to follow each
  step, the release of the last reference to a destroyed task included.
* `AbortDecidesTheResult`: `AbortDecides`, from `IInv` and a conjunct on the history `fate`, which
  is set by the first abort to where it found the runner: an abort that is heeded keeps the
  runner before its next look at the flag, or its result is a cancellation; one that is
  late finds a runner that does not look again. During a poll of an async task it is open.
* `LocalSetRunsItsTasks`, for any set of local tasks. `QueuesOK`: the local queue and what a pass
  has taken out share no task and hold exactly those whose future is there. `NoticedOK`: when
  the driver sleeps, or goes on without the flag `notified`, each task is still to be visited in this
  pass or has its waker registered, and if it can go on, that waker was called.
* `JoinSetKnowsItsTasks`, for any finite set of tasks. `TrackersOK` says that what was sent or returned
  comes from a tracker that has ended, so no result is sent twice; `pending` follows the cardinality of
  what was inserted and not returned; `swap_remove` takes one handle and keeps the others
  (`WithoutHandle`).

`RuntimeProofs`:

* `SleepsEndExactly`, for any clock, durations, period, tolerance, resolution and number of
  resets. The invariant adds what each status of a loop timer says about its
  references and its flag (`LoopOK`, `FiredOK`), and that the timer of the current
  generation is not due before the deadline and was not stopped while the future is in
  use (`SleepOK`). Two facts of arithmetic carry it: rounding up to milliseconds never
  shortens a duration, and `Skip` moves a deadline by a multiple of the period to the
  first tick after now.
* `EveryClosureRunsOnce`, for any jobs and queue handles. `JobOK` says for each status of a
  job what the storage's pointer, the counts and the answers of its handle are; that only
  the last handle of an owned queue destroys it (`QueueOK`) is what makes the answer of
  `wait` true.
* `CombinatorsReturnRight`, for any number of branches. A branch is disabled when its
  precondition was false or its future has returned (`DisabledOK`), a result implies what
  it should (`ResultOK`), and every branch the pass has visited, wherever it started, is
  disabled or has the waker (`PassOK`). The last needs that `(start + offset) % N`
  visits all branches (`PassVisitsAll`).

`IoProofs`:

* `ReadinessReachesItsOperation`, for any threads, any table of operations and any width of the
  generation. `ArmedOK` says that exactly what is not cached is armed, and nothing after an
  error; `ParkedOK` says that a parked operation is awake or has its waker stored, and in
  the second case is not ready unless a `wake_ready` is on its way; `OperationOK` keeps every
  style at the places of its own loop. The steps to look at are `clear_ready`, where
  what is cleared is armed again or, if that fails, becomes an error that wakes
  everybody, and the registration of a new owner of the descriptor, whose token no
  event fetched before carries (`EventsOK`). The width does not matter: a clear that takes
  readiness of a wrapped generation for its own also arms it.
* `SocketsAreSound`, for any number of addresses. `SocketIInv` says for each place of the
  future of `connect` which descriptor and which owners there are; a Unix stream may be
  unconnected afterwards (its backlog was full), no other stream is.
* `NothingUninitializedIsRead`, for a `ReadBuf` of any size. The prefixes are nested, also
  those of a buffer that `take` opened (`Nested`), and the bytes such a buffer counts are
  there in the memory it shares (`TakenData`): without this, giving it back could
  count bytes nobody wrote.
* `SignalListenersAreWoken`, for any listeners, kinds and size of the socket. `SocketOK`: while the
  socket counts as ready nobody waits for it. `KnownOK`: who got as far as to wait is
  known to the reactor, then also to the signal, or is awake; so a listener is woken
  whether its byte is drained by itself or by another. A report of the reactor may be late,
  or about bytes that were read since; a listener that is known to the reactor gets it.

The proofs have one step per action. Assumptions on constants are named: tasks exist, permit
numbers are natural, sets whose members are counted are finite, sizes, periods and
thresholds are positive, a value that stands for nothing is not a value. They are
`ASSUME`s of the modules, or, where a component is instantiated under other names,
hypotheses of its theorems (`TimersAssumption`, `ReadBufAssumption`, `CombinatorsAssumption`,
`ReactorAssumption`) that the MC module assumes of the instance.

*Model-checked only:* all liveness properties (fairness is beyond the prover);
`FileIsAtomic`, a refinement whose mapping rewrites sequences of any length; `Readers`
and `WriterStack`, whose properties relate sequences put together over many polls; `Mpsc`,
`Process`, `MemoryPipe` and `StandardStreams`, for which there are no proofs yet. That the table of `Endpoints` fits `Reactor` is a fact about one table, which TLC
evaluates.

## 5. Findings and observations

Five runs show code that does something other than its documentation, or an assertion
of its own, says; the quotations are in `PROJECT.json`. None of them concerns the
guarantees above.

* `RwLock::with_max_readers` promises a limit on concurrent readers that `try_read`
  and `try_read_owned` do not respect.
* `Barrier::new` "waits for `n` tasks", but a wait that was cancelled counts as one.
* `SetOnceError` means "already initialized", but `set` also returns it while another
  thread is still writing, when `get` returns `None`.
* A read of `Stdin` that was dropped leaves an operation as large as its buffer. The
  next read, with a smaller buffer, meets the assertion of `put_slice` that the source
  fits. `File` handles the same case by keeping the rest. `Stdout` and `Stderr` have no buffer
  to overrun, but the next write is told how much the dropped one wrote, which may be more
  than its own buffer holds, and none of its own bytes are written. `StreamsConserve` states both:
  nothing else is lost, repeated or reordered, and both need a future that was dropped.
* A signal that finds the socket full is not recorded at all. The comment calls this
  coalescing, which it is only if a byte of the same signal is in the socket.

Five more things have no run of their own; for the first two the module states the
property that fails.

* `JoinSet` with `spawn_local`: when the `LocalSet` is dropped, the trackers are dropped with
  the tasks and send nothing. `len` still counts these tasks and `join_next` stays
  pending for ever (`PendingTasksCanBeJoined` in `JoinSet`).
* `File::into_std` panics while the blocking task of a dropped `sync_all` still holds the
  file (`IntoStdSucceeds` in `File`).
* `signal` tells a second caller that a handler is installed before the first caller
  has installed it (`signal/unix.rs:146`); a signal in between has its default effect.
* `Child::from_std` that fails to register a pipe leaves a running child to nobody, also
  with `kill_on_drop` (`process.rs:215`).
* A `File` that has read ahead goes back before a write. If that fails, or a seek does, the bytes
  read ahead are passed over (`fs.rs:737`, `fs.rs:786`); `AtomicFile` allows this to a
  write or seek that is reported as failed, and to nothing else. `BufReader` does the same in a
  seek whose inner reader fails. The owned-buffer operations (`fs.rs:543` to `577`), which are
  not modelled, do not look at what was read ahead: they go by the position of the operating
  system, behind those bytes.

## 6. Not modelled

* *Task-local storage* swaps a thread-local around one synchronous poll. What could go
  wrong depends on whether FFRT moves a running coroutine to another thread inside
  that poll, which cannot be seen here.
* *The FFRT locks* (`lock/`) are one call into the C library each. Their critical
  sections are the atomic steps of all modules.
* *Forwarding:* socket options, address accessors, `set_len`, metadata and path functions,
  the owned-buffer file operations (but see section 5), task and queue attributes. Each passes one call on
  to the system, to a blocking task or to the C library and has no state of its own.
  The implementations of the I/O traits for references, boxes and `Pin`, `BufStream`,
  `Join` and `copy_bidirectional` put modelled adapters side by side.
* *Loops:* running, stopping and destroying a `Looper`, and repeating timers, are calls into
  the C library on which nothing in the crate depends.
* *Compile-time code:* the parsing of `select!` and of the attribute macros; what they
  expand to is modelled.
* *Glue:* the bindings are generated; the state of the Node-API extension belongs to
  Node-API, and its protocol is that of the task runtime and the oneshot channel.
* *Numbers at the end of their range:* a relative seek that read-ahead bytes push below the least
  `i64` is refused (`fs.rs:780`, `io.rs:1559`); generations of `Notify`, `Barrier` and signals are
  bounded instead of wrapping.
* *Waiting for a cancelled job:* `wait` after `cancel` succeeded depends on what the C library
  then does.
* Tracing, error texts, re-exports.
* `LocalSet` is driven by one future at a time. Two `run_until` futures on one set share
  `run_waker`, and the one that ends takes the waker of the other with it
  (`task/local_set.rs:271`); the model does not include this use.

What would come next: proofs for the queue of `Mpsc` and for the pipes; an abstract FIFO lock that the mutex and the write side of
`RwLock` implement.
