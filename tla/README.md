# V² Engine: TLA+ models, checks and proofs

This directory holds TLA+ models of the V² Engine (`src/src`): the actor engine,
its timers, memory and start-up, and the service actors built on it, with the
TLC configurations that check small instances and TLAPS proofs, for every size, of
the safety properties of the dispatcher, the queues, supervision, timers, the life of
the program, the metrics and the services. `PROJECT.json` maps each definition to the lines
it models and lists runs, seeded faults, findings, hazards and theorems.

Run a check with `tlc -workers 2 -config X.cfg M`, a proof with `tlapm M.tla`.

## 1. The system

V² Engine is a C++ actor engine for Linux daemons. Actors own a mailbox and run
on a fixed pool of workers; a supervisor restarts them; timers and an epoll loop
feed them; services (IPC, commands, monitoring, network, D-Bus) are actors. Two
client programs talk to the daemon over unix sockets: `v2` (command line) and
`v2_tui` (monitor).

| Component | State | Operations | Interacts with |
|---|---|---|---|
| WorkDispatcher | one MPMC queue and one semaphore per worker, in-flight slot per actor, pended list under a mutex, `pendingWork_`, `running_`, `draining_` | dispatch, redispatch, acquire, settleToken, drainPendedActor, beginDrain, start, stop | called by every thread that enqueues, by workers, by ActorSystem |
| Worker | `running_`, thread | start, stop, runLoop | acquires from the dispatcher, runs an ActorRuntime |
| ActorRuntime | mailbox, `stopped_`, `restartCount_`, timer ids | enqueue, run, lifecycle messages, tryRestart, shutdown, timers | dispatcher, supervisor, scheduler, registry |
| Supervisor, DeadLetterQueue | policies and budgets under a mutex, statistics; a bounded queue | onActorFailed, policy setters | called by the worker of a failed actor; calls back into ActorRuntime and, for one-for-all, enqueues to every actor |
| LockFreeMpmcQueue, LockFreeMpscQueue, RingBuffer | ring of slots with sequence numbers; ring of bytes | push, pop, reset | worker queues; mailboxes, dead letters, event-loop operations |
| ActorSystem, MainApp, SignalHandler | the actors in creation order, workers, a self-pipe | open, start, run, stop, close, destruction | main thread, which is also the event loop |
| ActorRegistry, ActorHandle | id and name maps, generations | add, remove, resolve | everyone who sends by name or handle |
| Timer, Scheduler | heap and pool of nodes, id map, contexts | add, cancel, collect, call back, re-arm | callback enqueues a message |
| EventLoopEpoll | handlers, queue of posted operations | run, subscribe, unsubscribe, post | handlers run on the loop thread |
| Message, MemoryPool | storage mode; thread caches, central caches, slabs | make, clone, move, destroy; allocate, deallocate in batches | every thread |
| Metrics | counters and peaks | record calls, enable, disable, reset, snapshot | senders, workers, CmdActor |
| CLI, IpcServerActor, CmdActor | connections, a pending PMU request | accept, receive, dispatch, answer | socket, event loop, device manager |
| Monitor, bridge, managers, TUI | subscribers, timers, connections | subscribe, unsubscribe, poll, publish | each other by name, socket |
| NetworkManagerActor, WifiHandler | device found, connection state, refresh flag | wifi commands, Tick, open, close | NetworkManager over D-Bus |
| DbusActor | pending calls, methods, signal subscribers | register, call, answer, subscribe | sdbus thread, other actors |

What is hard here, and what would make each part correct:

- **Dispatcher.** The execution token of an actor passes between producers,
  queues, thieves and the settling worker through one atomic flag. Correct: at
  most one token per actor (else two workers run one handler), none lost (else
  the actor is deaf), no message without a wakeup, an exact count of live tokens,
  a drain that ends and leaves nothing.
- **Ring queues.** Several threads race on a slot. Correct: a bounded FIFO, one
  user of a slot's storage at a time, refusals only for a reason.
- **Supervision.** onActorFailed nests when a restart fails, runs on several
  workers at once and broadcasts to all, and a batch reads `stopped_` only once.
  Correct: failures bounded by the budget, every failure ends in a restart or a
  shutdown, a shut-down actor is not revived beyond what is left of its batch.
- **Timers.** Callbacks run outside the lock on pool nodes that may be freed and
  reused. Correct: nodes never alias, the clock is armed for the next expiry, a
  cancelled timer is silent, a due one fires.
- **Start and end.** Exceptions, signals and pointers meet in the main thread.
  Correct: everything opened is closed, nobody holds a destroyed actor.
- **Memory, metrics.** Blocks wander between threads; counters of several threads
  must tell one story.
- **Services.** Every hop is a message; descriptors and call numbers are reused;
  the other side changes at will, and clients leave at any moment. Correct: an answer
  reaches its own client (what the code keeps of this is `StrangersGaveUp`), data is
  collected exactly on demand, the state shown catches up with the device.

The hazards are listed at their lines in `PROJECT.json`.

## 2. The modules

| Module | Models |
|---|---|
| `WorkRouting` | `pickWorker`, `pickLeastLoaded` as operators |
| `WorkDispatch` | the token protocol: enqueue, dispatch, acquire, run, settle, drain, start and stop |
| `ActorExecution` | abstract: an actor has at most one owner, only the owner takes messages, in one batch; an owner that finds the actor stopped takes none |
| `WorkDispatchProofs` | the proofs about `WorkDispatch` and `WorkRouting`: types; tokens and wakeups; ownership, accounting and drain; routing |
| `RingQueueProofs` | the proofs about `RingQueues`: both lock-free queues and the byte ring |
| `SupervisionProofs`, `TimersProofs`, `ApplicationProofs`, `IpcProofs` | the proofs about `Supervision`, `Timers`, `Application`, `Ipc` |
| `ServiceProofs` | the proofs about the services: `Monitoring`, `Network` and `DbusService` |
| `MessageResourcesProofs` | the proofs about `MessagePool` and `Metrics` |
| `RingBufferSlots` | the slots of both ring queues and `push` |
| `LockFreeMpmcQueue`, `LockFreeMpscQueue`, `RingQueues` | the two versions of `pop`, and both queues side by side, with the byte ring |
| `BoundedFifo` | abstract: a bounded FIFO |
| `RingBuffer` | the byte ring, as operators against the sequence of bytes it holds |
| `Supervision` | lifecycle messages, restart, shutdown, onActorFailed, broadcast, open and close at start and stop |
| `Timers` | ActorRuntime's timer methods, Scheduler, TimerBase with both back ends |
| `Application` | main() to its end: MainApp, ActorSystem, registry and handles, signals |
| `MessagePool`, `Metrics`, `MessageResources` | messages and the slab allocator; the counters; both |
| `CommandLine`, `Ipc` | command lines and commands as operators; the path of a command and its answer |
| `Monitoring` | the demand cascade from client to managers, and the snapshots back |
| `Network`, `DbusService`, `BusClients` | network manager and WiFi handler; the D-Bus actor; both |
| `MC...` | small instances; `MCDaemon` also puts `Application` and `BusClients` into one run |

A composed module checks parts that share nothing by letting a behaviour be one
part's or the other's (`kind` in `RingQueues`, `part` in `MessageResources`,
`BusClients` and `MCDaemon`): the product of their states would add nothing.

**WorkDispatch.** A thread's place in the code is `pc`; each atomic
read-modify-write, queue operation, semaphore operation and flag store is a step.
`cur` is the actor a worker acquired, `tgt`, `dst` and `ret` are the registers of
an enqueue, dispatch or redispatch. A mailbox is the number of published
messages; slots reserved and not yet published are counted from the producers'
`pc`. Queue operations are atomic here, but fail in every way the ring lets them
fail: a pop behind an unpublished push, a push into a slot a stalled pop has not
given back (`StalledPop`). `LateProducers` lets threads outside the engine (the
D-Bus thread) send while the system drains; `DrainWindow` lets others run between
the two stores of `beginDrain`. A failure is abstracted to `Fails`, which may repeat:
the supervisor empties the mailbox and the actor is restarted or stopped. An exception
of the handler then ends the batch (`FailureHandled`); what `open()` throws in a
restart request is caught inside, and the batch goes on, also for an actor that was
just stopped (`FailureCaught`). Module `Supervision` has the details. Left out:
`idleBackoff_` and spin lengths (timing), `graceSpin` (it only waits).

**Queues.** Each load, store and compare-and-swap of `push` and `pop` is a step,
as are constructing and moving an element; compare_exchange_weak may fail without
reason. Steps are sequentially consistent: what a release store of a sequence
number publishes is visible to the acquire load that reads it. Positions are
naturals.

**Supervision.** One program counter per actor, which `TokenUnique` justifies. `frames` is
the stack of nested onActorFailed calls with their policy snapshots. processBatch looks at
`stopped_` before its first message only (`TakeFirst`) and goes on up to `MaxBatch`
messages (`TakeNext`, `taken`); `reopened` is history and counts how often an actor came
to be Opened after its shutdown. `open()` and `close()` follow the pattern of the service
actors: `open()` may return Fail with the actor Closed or throw half way (state Opening),
`close()` may throw half way (Closing); handlers of an actor that is not Opened return at
once. A scenario fixes the strategy, the budget, how often policies change and which
failures there are.

**Timers.** A step is a section under `TimerBase::mutex_`. The vector of collected
timers, the callback and the re-arming are separate steps, so that actors add and
cancel between them. `cancelAllTimers` cancels one timer after another and the lock
is free in between, so it is a sequence of `CancelTimer` steps. `ExactHits` says whether
a reading of the clock may equal an expiry to the nanosecond.

**Application.** The main thread's `pc` runs through the constructors, `open`,
`start` with its catch clauses, `run`, `close` and the destructors. Workers and the
D-Bus thread look actors up (pointer) or take a handle (id and generation) and send
later. Signals may come at any moment.

**MessagePool, Metrics.** A call touches the central cache at most once, under its
mutex, so it is one step; a thread that ends gives its blocks back batch by batch.
`MaxSlabs` is the memory there is. A `make` whose allocation throws destroys a message
with an uninitialised pointer: undefined behaviour, modelled as nothing or any block
given to the thread's cache, and marked in `undefined`; only runs of the second kind
leave the promises of `PoolConsistent`. In `Metrics` a record call is a step of its own
wherever the value it is given may be stale; commands come at quiet moments. A failure
makes dead letters of the whole mailbox (`DrainMailbox`, counted in `seen.lost`) and may
leave the actor stopped (`down`), at the end of its batch or, when the exception was
caught inside, with the batch going on.

**Ipc.** Descriptors are numbers and the lowest free one is reused. Subscribe and
unsubscribe of an actor change `handlers_` at once and post the epoll call, which the
loop's thread makes whenever it comes to it; a posted unsubscribe runs the whole of
`unsubscribe` again. A client may close its socket while it waits for its answer
(`HangUp`: a `v2` interrupted in recv, a `v2_tui` that ends under its click's thread);
`unheard` (clients whose handler a posted operation took away) and `passedOver` (clients
whose pending `pmu status` lost the one slot to a later command) are history.
`connections_`, which two threads change without a lock, is taken to change atomically.
Commands are sequences of words (`CommandLine`).

**Monitoring.** Four actors, their mailboxes and the clients. One actor of
`Restartable` is restarted, once, between two of its messages.

**Network, DbusService.** The Tick handler is a sequence of D-Bus calls, each of
which may fail and between which the device, the D-Bus thread and the user act.
sdbus-c++ is external: a callback runs under the connection's lock. The message to the
owner of a method may be lost (`TellOwner`: owner unknown or its mailbox full); the call
then stays kept until close.

`TypeOK` of `WorkDispatch` is checked and proved. That of `RingBufferSlots` and of
`Supervision` documents the variables; no run lists it.

Definitions named after a fault (`RecheckSkipped`, `PopClaimStore`, ...) with a
comment "Seeded fault" are plausible bugs, used by no specification. Replacing
the definition they follow must break the property `PROJECT.json` pairs them with.

## 3. The runs

Passing:

| Run | Shows | Bounds |
|---|---|---|
| DispatchSafety | one token per actor, none lost, no lost wakeup; an overloaded home queue is relieved | 2 workers, 2 actors of the same home, 1 producer, 2 messages; late producer, stalled pops and drain window on; routing: 4 workers, all lengths 0..3 |
| DispatchDrain | `pendingWork_` is exact; `ActorExecution` is implemented; every message is served; stop returns and leaves nothing | 2 workers, 2 actors, 2 messages, batches of 2, fairness; no late producer, no drain window |
| Queues | both queues implement `BoundedFifo`; slot ownership, explained refusals; the byte ring loses nothing | 2 producers, 2 consumers, 2 slots, 6 pushes: the ring wraps more than twice; byte rings of up to 4 bytes |
| Restarts | failures within the budget; each ends in a restart or a shutdown; a shut-down actor is opened only by what is left of its batch; stop leaves every actor Closed | 2 actors, batches of 3, 2 or 3 messages from outside; four scenarios: one-for-one with budget 2, one-for-all with budget 1 whose restarts throw, the same with a change of any policy, and one-for-all with every failure of open() and close() |
| MessageResources | a block has one owner, slab lists and counts are exact, until a failed make frees an uninitialised pointer; counters add up, also after failures, a peak is the maximum | 2 threads, 3 messages, 2 slabs of 3 blocks, batches of 2; 2 senders, 2 workers, a mailbox of 2, 3 sends, 1 command |
| Timers | nodes never alias, the clock is armed for the next expiry, nothing early, nothing after a cancel, every due timer fires | 1 actor, 2 timers of 1 or 2 units, one-shot or repeating, time 3, both back ends, no exact hits |
| Daemon | no dangling actor, everything closed at the end, a signal that was taken ends the program; no signalled refresh is lost, status catches up with the device; a call from the bus gets its own answer only, an answer that reaches the actor ends its call | 3 actors, 2 workers and the D-Bus thread, 2 signals, 2 sends; 3 device states, every D-Bus call failing at will; 2 calls, 2 subscribers, 2 opens |
| Ipc | an answer reaches a stranger only after somebody gave up, and what a client reads first of its own is its handler's answer; a client is left waiting only if it lost its own handler to a posted operation or its own slot to a later command; the help is true | 2 clients, 2 descriptors, lines of up to 2 words of `pmu` and `status` (the one command that waits, and others), mailboxes of 2 |
| Monitoring | data is collected exactly on demand, snapshots go on, no live client is disconnected, quitting ends | 2 clients, 2 descriptors, one restart |

Two workers are enough for stealing, for a race between settling and dispatching
and for a drain in which one waits for the other; two actors for a worker to hold
one while another is dispatched; in `DispatchSafety` a batch of one message so that a
redispatch happens with two, in `DispatchDrain` of two so that a second message is taken
of an actor that the first one stopped; batches of three in `Restarts`, so that a
restart request that stops the actor is followed by an enable and one more failure;
queues of two so that one actor waits behind another; actors of the same home so that
a push meets the slot of a stalled pop, fails and is pended.
Races of several producers on one slot are left to the proofs, which hold for any
number. Semaphores saturate at `MaxPermits`: one worker waits on each, and a
further permit only causes another poll. A message a full mailbox refuses changes
nothing and is not counted by `MaxSends`.

Two timers let one be added or cancelled while the other is collected, and reuse a
freed node. Slabs of three blocks and batches of two make a batch span two slabs.
Two clients and two descriptors let a number be reused while an answer or a report
for its former owner is under way. Three device states are enough to enter, hold
and lose a connection.

Runs that show a disagreement with what the repository says (each finding quotes
the line):

| Run | What the code does |
|---|---|
| DrainHang | a redispatch into a full queue stays counted; stop never returns |
| MonitorRestart | a restarted monitor has forgotten its subscriber and nobody subscribes again |
| LostHandler | a posted unsubscribe erases the handler of the client that has the number now; its command is never read |

What remains true beside each is checked or proved: beside DrainHang the theorem
`PendingWorkExact`, beside MonitorRestart the property `SnapshotsGoOn`, beside
LostHandler `Answered`, one of whose two exceptions it is.

Deadlock is checked for the queues. The other systems really stop: at the end of
the program, or when the bounded inputs are used up.

**Fairness.**

- `WorkDispatch`: weak fairness of each worker, of each producer inside enqueue,
  and of the main thread except for the decision to stop. The operating system
  schedules runnable threads, semaphore waits time out, handlers return. Nothing
  obliges a producer to send or anyone to stop the system.
- `Timers`: time passes, the serving thread runs, addTimer comes out of its lock.
- `Daemon`, and each of its parts within its own behaviours. `Application`: the main
  thread, the workers and a thread about to send go on.
- `Ipc`: loop, actors and the device manager's timer are scheduled; strong fairness
  that a readable or waiting descriptor is served, since epoll is level-triggered
  and a turn serves all that are ready.
- `Monitoring`: the same, with strong fairness of the managers, whose step is now
  and then disabled while a mailbox downstream is at its bound, and of the system
  manager's poll: reading /proc does not fail for ever.
- `Network`: reading the device's state, or the network of a connection, does not
  fail for ever; timer, D-Bus thread and actor are scheduled.
- `DbusService`: callback, owner and actor go on.

### Other differences met while modelling

Reproducible in the models with the constant, switch or property named:

- *Shutdown is not for good.* processBatch reads `stopped_` once, before its loop. A
  restart request whose open() throws may shut the actor down in a nested onActorFailed;
  performRestart has caught the exception, so the batch goes on, and an
  ActorEnableRequest left in it opens the actor again, its budget used up
  (actor_runtime.cpp:175, 59-63; supervision.md:32 promises 영구 종료, termination for
  good). `Restarts` with the property `ShutDownForGood` shows it. What remains true are
  `StoppedStaysDown` (a bounded number of times, only in that batch, never under
  one-for-one) and the `FailureBudget` that allows for it.
- *A make that fails frees an uninitialised pointer.* `mode_` and `ops_` are set before
  the allocation, so the destructor of the local message destroys and deallocates what
  nobody has written (message.hpp:66-68, 197-200; memory.md:269 promises the exception
  only). `MessageResources` with the invariant `NeverOwnedTwice` shows a block in two
  places; `PoolConsistent` holds until then.
- *An answer to a number.* A client that hangs up before its answer is closed by the
  second report of its descriptor while its request is pending; the next client with the
  number reads the answer (ipc_server_actor.cpp:115-119, 129; messaging.md:465 says that
  the field identifies the requester). `Ipc` with the invariant `OwnAnswerFirst` shows
  it; `StrangersGaveUp` says what remains true.
- *One slot for a pending `pmu status`.* A second command that meets it overwrites
  `pendingConn_`, and the first connection is never closed (cmd_actor.cpp:59, against the
  same diagram README.md:483-498 as LostHandler). `Ipc` without `passedOver` in
  `Answered` shows it.
- `beginDrain` is two stores; workers that look between them leave with work queued
  (`DispatchDrain` with `DrainWindow = TRUE`; work_dispatcher.cpp:112,
  concurrency.md:434-435).
- Pended tokens are not retried while the system runs (worker.cpp:35,
  concurrency.md:372).
- A failed open() in a one-for-all restart leaves the actor neither restarted nor
  stopped (actor_runtime.cpp:74, supervision.md:46); this is why
  `RestartedOrStopped` is about one-for-one.
- `pickLeastLoaded` computes its candidates from its moving best, so with four
  workers it can miss the least loaded one (concurrency.md:353); `OverflowRelieved`
  says what remains true.
- A ring of one slot accepts a second push and overwrites the first (`Queues` with
  `Capacity = 1`); the constructor refuses only zero.
- enqueue still dispatches an actor after shutdown (i_supervised.hpp:17); the token
  is retired without taking a message.
- tryRestart returns true, and the restart is counted, although open() failed or
  close() threw (i_supervised.hpp:14).
- A close() that throws in shutdown() leaves processBatch's catch clause and ends
  the process (`crashed` in `Supervision`; supervision.md:45). Inside the try block, in
  a restart request, the same exception is caught and is one more failure of a stopped
  actor; if the policy was changed to one-for-one meanwhile it restarts the actor. This
  is the one more reopening that `StoppedStaysDown` grants where close() may throw.
- A timer that is scheduled exactly at its expiry gets a zero `it_value`, which
  disarms the timerfd (`Timers` with `ExactHits = TRUE`; timer_linux.cpp:39).
- An answer may go astray in a chain: a client that was itself answered with a third
  one's answer is closed with it, and its own answer then meets the next owner of its
  number. `StrangersGaveUp` therefore blames either one that gave up or one that was
  misled, and says that the chain begins with one that gave up.
- A method call whose owner is unknown, or has a full mailbox, stays pending until
  close: the result of the send is ignored (`TellOwner`; dbus_server_handler.cpp:62).
  `CallEnds` therefore begins with the answer.
- Numbers of D-Bus calls start over after a restart: an old answer may go to a new
  call (dbus_server_handler.cpp:49; excluded from `OwnReply`).
- A read of the access points that fails is not repeated (wifi_handler.cpp:101).
- The words of `v2`'s arguments are joined with blanks: an argument with a blank,
  or `name=value`, arrives as two (cli_app.cpp:132-134, README.md:552).

Read in the code, outside the models:

- *Event loop:* when ipc_server or monitor_bridge restarts, the posted unsubscribe
  of the old listener may erase the handler of the new one (ipc_server_actor.cpp:57).
- *Metrics:* drainPendedActor pushes without recordDispatch (work_dispatcher.cpp:186);
  a snapshot taken in between may show more messages processed than enqueued
  (actor_runtime.cpp:41); `enabled_` is a plain bool.
- *Timers:* a node cancelled after its collection is never freed; ids of one-shot
  timers never leave `timerIds_`.
- *Pool:* a slab that became empty is on no list and not used again; a bad_alloc in
  the middle of fetchBatch loses the blocks fetched so far.
- *Signals* before SystemManagerActor::open are dropped (signal_handler.cpp:34).
- *Monitoring:* a restarted bridge never sends MonitorUnsubscribe; a restarted
  manager starts a second repeating timer (docs/plans/roadmap.md:375); a slow client
  blocks a worker in send (uds_server.cpp:69); TuiApp::close does not wake recv
  (tui_app.cpp:110); a click's detached thread may use the screen after close
  (tui_app.cpp:31).
- *CLI:* the else branch at cli_app.cpp:137-141 is unreachable; `v2` connects even
  for help and version.
- *D-Bus:* methods are not registered again after a restart; a second subscriber of
  a signal is ignored (dbus_client_handler.cpp:37); handleUnsubscribeSignal has no caller.
- *Network:* autoReconnect undoes an explicit disconnect at the next Tick
  (network_manager_actor.cpp:78); the results of connect and disconnect are never
  shown; a restart of the D-Bus actor leaves a dangling connection pointer
  (network_manager_actor.cpp:34), and actors are closed in creation order, so the
  connection goes before its proxies (actor_system.cpp:88); NmStatusRequest has no
  sender.

## 4. The proofs

All theorems hold for every value of the constants that the modules' named
assumptions allow, which say what the code guarantees (a queue has a slot, ids are
distinct, ...); a theorem that needs more says so as a hypothesis.

**Dispatcher, types and tokens** (any number of workers and producers, any finite set
of actors, any capacity):

- `TypeCorrect`: `Spec => []TypeOK`. Types alone are not inductive: a step reads
  `queue[dst[t]]` or `mail[cur[w]]`, so the invariant `TypeInv` adds what each
  program counter says of its thread's registers (`RegistersOK`: a thread at
  "push" has a target and a destination, a worker at "batch" an actor, ...) and
  that a worker not yet started is off (`StartOK`).
- `TokenUniqueness`: `Spec => []TokenUnique`. `TokenUnique` says for each of the
  four places of a token (queue, pended list, claiming thread, executing worker)
  that it holds the token once, that the places exclude each other, and that a
  token implies a set slot. The last part makes it inductive: `dispatch` and
  `claimInFlight` create a token only after they found the slot clear.
- `TokenPreserved`: `Spec => []TokenNotLost`, the converse (a set slot has its
  token), proved together with it: releasing the slot is allowed only because the
  executing worker's token is the only one.
- `WakeupNeverLost`: `Spec => []NoLostWakeup`, from the two: a message published
  while the slot is set is seen by the recheck that follows the release.

**Dispatcher, promises.** Every action is first put into a
kind: `Calm` (begins and ends no execution), `Quiet` (queues and counts nothing),
`Moves` (a thread that has not left), or one of the few that take, redispatch or
retire a token; the three proofs then have one case per kind.

- `OneOwner`: `Spec => SingleOwner`, the refinement of `ActorExecution`, without
  hypothesis. `Owner` is well defined by token uniqueness (`OwnerRight`). A publish is
  Accept, a pop of the mailbox Consume, a failure Fail, taking a token Begin, leaving the
  batch Rest, releasing the slot End; all other steps stutter. `Taking` is the set of
  workers that may take messages: those that execute an actor, from the token to the end
  of the batch, unless they have yet to read a `stopped_` that is set. An actor is stopped
  by its owner only, so nobody enters `Taking` for a stopped actor, while the owner that
  stopped it may stay until its batch is over. `Calm` says of each other action that it
  changes none of this (`Allows`).
- `PendingWorkExact`: `Roomy => (Spec => []PendingWorkAccounting)`. `Roomy` says that
  a worker queue has room for a token of each actor and that no pop is preempted for
  a whole lap. The first is the default configuration: 1024 entries, and ActorSystem
  refuses ids from `kMaxActors` = 1024 on. The key lemma `PushFits` counts: the tokens
  in a queue and those on the way into it are of different actors, and none is the
  actor being pushed, so a push finds room. Hence nothing is ever pended, and each
  step adds or removes the same number on both sides of the equation. Without the
  hypothesis the equation is false: that is finding `DrainHang`.
- `DrainLeavesNothing`: the same and no late producer, no preemption in `beginDrain`,
  `=> (Spec => []DrainComplete)`. The invariant `DrainInv` ties flags, start and join
  order to the main thread and says that the last worker that leaves leaves empty
  queues: it saw `pendingWork_` = 0 when nobody else had a token or an uncounted push,
  so by the accounting there was no entry. The join of the last worker then yields
  empty mailboxes from `NoLostWakeup` and `TokenNotLost`. Both hypotheses are needed:
  see the difference about `beginDrain`, and a late producer may send after the join.

**Routing** (any number of workers, any lengths, any watermark): `RoutingRelieves`
states `OverflowRelieved` and its general form, for every worker count and watermark.
The scan's best never gets longer, and when it is still the home queue after all
iterations, every worker has been looked at from there, so no queue is shorter.

**Ring queues** (`RingQueueProofs`; any number of threads, at least two slots):
`SlotsOwned`, `RefusedOnlyWhenFull`, `EmptyOnlyWhenUnpublished` and, as a refinement of
`BoundedFifo`, `QueuesAreFifos`. The invariant `RingInv` says of every position between
`head` and `tail` that it is published or being written by one producer (`ReservedSlots`),
of every one from `tail` to the end of the lap that it is free or held by the one pop of
the lap before (`FreeSlots`), and what each thread knows of its own position (`Producing`,
`Consuming`). The hypothesis `Capacity >= 2` is needed: with one slot the sequence that
publishes a position is the one that frees it for the next lap, the difference listed
above.

**Byte ring** (`RingQueueProofs`): `ByteRingFifo`, for every size, content, head, tail
and count that agree (`ByteRings`) and every length asked for: a push that fits appends
exactly its bytes and one that does not fit changes nothing, a pop takes the oldest, and
both keep the ring well formed. The copy before the end of the buffer and the one from
its start touch different bytes (`ChunksApart`), and a position less than two laps ahead
is brought back by one subtraction (`TwoLaps`).

**Supervision** (`SupervisionProofs`; any actors, messages, batches, scenarios):
`FailuresWithinBudget`, `FailureEndsInRestartOrStop`, `StopClosesEveryActor` and
`ReopenedOnlyInItsBatch`, all `Spec => []...`, from one invariant. `SupInv` says of each
actor what its place in the batch, its frames (the stack of nested onActorFailed calls
with their policy snapshots), its state, budget, failures and reopenings have to do with
each other (`RowInv`), and what start() has opened and stop() has closed so far. A step
of an actor touches its own row only (`RowStep`).

- *Budget.* Until an actor is stopped each failure has used one unit of its budget
  (`Used`); the next failure stops it (`Spent`). Under one-for-one, without policy
  changes, that is the end (`QuietRow`). Under one-for-all the batch may go on, and each
  failure past the budget takes two of its messages, one that opens the actor and one
  that fails: `Spares` is how many of them have been taken for the failure to come, and
  `LateRow` says that `Excess` and `Spares` fit into the batch. Hence the additional
  `MaxBatch \div 2`.
- *Reopening.* `Reopenings`: a stopped actor was opened at most once for each message
  taken after the one that stopped it; a new batch of a stopped actor never begins. The
  message that stopped it counts too when close() threw in the shutdown.

**Timers** (`TimersProofs`; any actors, any number of timers, periods and times):

- `NodesNeverAlias`: `Spec => []NodesDisjoint`; `FiresOnSchedule`:
  `Spec => []OnSchedule`; `SilentAfterCancel`: `Spec => NoFireAfterCancel` (an action
  property). They share `TimersInv`: free nodes are free once and no known timer's, each
  known timer has its own node, and the heap holds only such nodes or dead ones
  (`WellFormed`); a
  cancelled id has no context and no id is used before it is given out (`CancelInv`),
  which silences a cancelled timer whose callback is already collected; a collected
  timer that is still known is due and not in the heap while the callbacks run
  (`RoundInv`), so re-arming it cannot enter a node twice; and a known timer expires no
  earlier than it is next due, where a timer whose callback is done but that is not
  armed again is one period behind (`PlanInv`). The lemma `InOrderEnumerates` says
  that the order of a collection names every due node once; each operation of
  TimerBase (purge, erase, allocate, insert, collect, re-arm) has a lemma saying what
  it keeps.
- `WokenInTime`: `WakeAssumption => (Spec => []ArmedForNext)`, with `WakeInv`: while its
  serving code is idle the timerfd is armed no later than any entry of the heap, or is
  due; the thread that blocks has an empty heap or a permit, and the one that waits has a
  permit or a deadline no later than any entry. `WakeAssumption` excludes an exact hit for
  the timerfd, which is needed: it gives a zero `it_value` and disarms the clock (section
  3, other differences). The back end with a thread needs no such hypothesis, only the
  permit its semaphore can hold.

**Application** (`ApplicationProofs`; any actors, threads, signals):
`NoPointerDangles` and `EveryActorClosed`. `AppInv` follows the main thread: the
registry knows only actors that exist and none once they are being destroyed, workers
run only between start() and their join, the D-Bus thread only until its actor is
closed, and stop() has closed the actors its loop has passed.

**D-Bus clients** (`ServiceProofs`): `RefreshIsNotLost` needs only that an actor
that is not open is in no handler (`NetworkInv`); `EveryReplyIsOwn` needs `DbusInv`:
every number in use was given out since the last open(), the callback in progress has
its number for itself, and a question or an answer of this opening has a number that
is kept, if at all, for its own call.

**Command path** (`IpcProofs`; any clients, descriptors and lines, posted operations at
any delay, clients that leave at any moment): `AnswersAstray`, `Spec => []StrangersGaveUp`.
The invariant `Whole` says of each client what is under way of its command: it has one
request at most, and nothing of its answer is under way with it (`RequestsBy`); nothing
follows the response that closes, and only a reading follows another one (`OrderBy`);
`pendingConn_` is of a client that has had its first answer or is about to (`PendingBy`).
Whatever is under way for a number belongs to the client that has the number, or to one
that is `Blamed`, which gave up or was misled itself (`Owned`): a number changes hands
only when its client has left for good or its closing response was delivered, and a
delivered response that was not its own makes a client `Blamed`.

**Monitoring** (`ServiceProofs`; any clients and descriptors, any restart):

- `NoConnectionClosedUnderClient`: `Spec => NoStaleDisconnect` (an action property).
  The invariant says of each report of an end in the bridge's mailbox that its client
  has left, or that the bridge will not know the number when it comes to the report:
  it meets an earlier report of the same number first, and the number is known again only
  through a "new" report, which stands behind (`GoneIsTrue`).
- `CollectedOnDemand`: `Spec => []DemandFollowsClients`. The demand that the bridge last
  announced, the monitor's flags with what is in its mailbox, and each manager's flag
  with what is in its own, agree at every moment (`DemandInv`): handling the messages
  in order leads from one to the next.

**Metrics** (`MessageResourcesProofs`; any finite sets of senders and workers, any number of
sends, batches and commands): `SnapshotsAreTrue`. The invariant `Books` is `CountsAgree`
at every moment: each equation with what its parties have done and not yet counted
added in (`AllPushed`, `AllHandled`, ...), and with the messages that a failure made dead
letters. A step changes the share of one party by
what it changes in the counters (`Balanced`), and a sum over a finite set changes by the
change of one term (`TotalChanges`). `PeakInv` says that the peak is the largest depth,
or a sender that saw this depth is still at its exchange.

**Message pool** (`MessageResourcesProofs`; any threads, messages, payload types, number
of slabs, and any table of size classes that `PoolAssumption` allows: ascending, each
batch within the cache's buffer, each slab with room for a block): `BlocksOwnedOnce`:
`ResourcesSpec => []PoolConsistent`. `PoolConsistent` counts places and is not inductive;
`DefinedInv` is `Own` with nothing in hand, until a failed make has freed an uninitialised
pointer, after which nothing is promised. `Own` says who has which block: each central
cache is `Sound` (a slab's list holds blocks of that slab, once, and with `used` makes up
its total; the partial list is exact), what is in a thread's cache or in a message is out
of its slab (`OutOf`), of the class of its size and nobody else's, and while no allocation
has failed every block out of its slab is somebody's and counted. Inside a call a block
has left one owner and not reached the next: `Own` has these blocks as an argument, the
*hand*, which is empty between calls. The lemmas follow the code: `TakeFromKeeps` (a
slab's part of a batch), `FromPartialTakes` and `FetchBatchGives` (the loops of
fetchBatch), `GiveBackKeeps` and `ReturnBatchTakes` (returnBatch), `Recentred` and
`Recached` (blocks pass between the hand and a central or a thread's cache), `PutBlock`,
`TakeBlock`, `MoveBlock` (and a message); each call is a sequence of these. The loops are
folds: `FoldExists` gives their recursion a solution and `FoldChain` reads it off element
by element.

Sums, the scan of the routing and folds are recursive functions. The library's
induction theorems take an operator and cannot be used here; the proofs apply
`WFMin` to the set of the numbers for which a fact fails, whose least member
gives the contradiction (`SetInduction`).

Only model-checked, and why:

- *Liveness under fairness*, which is out of this prover's reach: `MessageServed`,
  `StopTerminates`, `TimerFires`, `SignalStopsApp`, `Answered`, `SnapshotsGoOn`,
  `QuitEnds`, `StatusCatchesUp`, `CallEnds`.
- `HelpIsTrue` is about one constant table: TLC evaluates it completely, and there is no
  parameter for a theorem to range over.

## 5. Plan

1. *Done:* dispatcher, ring queues, routing, supervision; types and tokens proved.
2. *Done:* timers; registry, start and end of the program; memory pool, messages and
   metrics; event loop, IPC and commands; monitoring; network manager and D-Bus.
3. *Done:* proofs of the ring queues, supervision, timers, application, D-Bus clients
   and of the dispatcher's promises.
4. *Done:* proofs of routing, the byte ring, the command path, monitoring, the metrics
   and the message pool.
5. Left: nothing of the plan; liveness stays with TLC.

Not modelled: hardware access (reads files and a bus, returns values nothing
decides by); logging, clocks, the dependency container and configuration (wiring and
formatting); drawing of the TUI; the tick actor (logs); the benchmarks. Partly: the
restart of the IPC server with its listener, the busy wait of `post` at 128 pending
operations, durations in the metrics, `forEachActor` under the registry's lock.
