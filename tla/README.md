# TLA+ models of the RDMA AI platform

The platform is a scheduler (Go), worker processes (C++) and an in-memory RDMA
library (C++). This directory holds TLA+ modules for the parts whose
correctness depends on interleavings, failures, formats or arithmetic, TLC
configurations that check them on small instances, and TLAPS proofs of the
safety properties. `PROJECT.json` lists components, runs, the source lines
behind every definition, mutated definitions that show each property can fail,
hazards, findings and theorems.

## The system

* **Scheduler** (`scheduler/`). One in-memory store behind a read-write lock.
  HTTP and gRPC handlers register workers, take heartbeats, tasks and results;
  each handler reads the clock, makes its own change under the lock and then
  calls `DispatchPending`, a second critical section, with the same instant. A
  checker does the same on a ticker. Nothing is persisted.
* **Deliverer** (`monitor/deliverer.go`). Every 300 ms it copies the running
  tasks and sends each as one line over a new TCP connection to its worker,
  until it is reported. `WatchAssignments` offers the same as a gRPC stream.
* **Worker** (`worker/`). An accept thread takes tasks into a queue, pool
  threads execute and report them, a timer sends heartbeats, `stop()` takes all
  of it down.
* **RDMA library** (`rdma/`). Clients, a server and worker sessions exchange
  tasks and results through a broker with bounded inboxes; completion queues
  with event channels, a poller thread, a buffer pool over a registry of memory
  regions, and a text format for messages. The legacy worker runtime
  (`worker/runtime`, `worker/task`) uses the same broker.

## Modules

| Module | Models | State and actions |
| --- | --- | --- |
| `Strategy` | `strategy.go`, rule of `selectNodeLocked` | operators only; `Int64` keeps the width of the products |
| `SelectNode` | scan loop of `selectNodeLocked` | loop variables; `Scan` is one iteration |
| `Scheduler` | store, registry, services, dispatcher, checker | `storage.State`, the clock, what each thread still owes (`due`), the lock; one action per first critical section, `DispatchBegin`/`DispatchAssign`/`DispatchEnd` for the second; `HoldsSlot` decides whether a report gives a slot back |
| `TaskLifecycle` | what the scheduler promises about tasks | registered workers and the task table |
| `WatchAssignments` | the gRPC streams | `TaskLifecycle` plus the `sent` map and current look of each stream |
| `WorkerNode` | the worker process | one program counter per thread, queue, pool, active IDs; `StartPool` and `EnqueueConsumer` are the steps of `start()` that create the consumers |
| `WorkerContract` | what a worker promises about tasks | stage of each task |
| `Delivery` | deliverer, network, worker, heartbeats and reports together | `TaskLifecycle` and `WorkerContract` composed, the deliverer's round, connections, reports in flight, crashes, restarts; `Report` sends a report, `Record` is the scheduler handling it, perhaps after the worker has given up waiting or has died |
| `TaskFrame` | the line of one delivery and the JSON string of its report | what is left of the line, the receive buffer, the parsed task, the scheduler's answer and what it took from the report, which is UTF-8 whatever came |
| `MessageCodec` | `TaskMessage` and `ResultMessage` as text | a message, its text, what a reader makes of it |
| `ConfigFile` | `loadConfig` of the worker | the configuration, files loaded one after the other |
| `Broker` | `TransportRdma`, `QueuePair`, `CompletionQueue`, `MemoryRegistry` | inboxes, completions, posts between their two critical sections, regions |
| `ClientServer` | `RdmaClient`, `RdmaServer`, `Connection`, the handshake | connections, the task at the server |
| `WorkerSession` | `WorkerSession` with its `Metrics` | counters, sends that are not counted yet |
| `WorkerRuntime` | the legacy runtime on the broker | `Broker`'s state |
| `DataPlane` | the last four together | one action per operation of each node |
| `CompletionChannel` | `CompletionQueue` with `EventChannel` | queue, signal, pushers between their two critical sections |
| `Poller` | `Poller` on a bounded inbox, beside a consumer of the channel | the inbox and what overflowed, `running_`, the thread's position, what it has in hand |
| `BufferPool` | `BufferPool` over `MemoryRegistry` | free and known keys, what each thread holds |
| `SequenceLemmas` | | lemmas on queues, texts and loops over them, for the proofs |
| `SchedulerProofs` | | proofs about `SelectNode` and `Scheduler` |
| `AssignmentProofs` | | proofs about `WatchAssignments` and `TaskFrame` |
| `WorkerNodeProofs` | | proofs about `WorkerNode` and `ConfigFile` |
| `DeliveryProofs` | | proofs about `Delivery` and `MessageCodec` |
| `DataFlowProofs`, `DataPlaneProofs` | | the flow of requests in `DataPlane`, and the theorems about it |
| `RdmaProofs` | | proofs about `Poller` with `CompletionChannel`, and `BufferPool` |
| `MCSelectNode`, `MCScheduler`, `MCWorkerNode` | | constants and symmetry for TLC |
| `MCUnits` | | the parts without a partner (`SelectNode`, the three text formats, `BufferPool`), one of them at work at a time |

`Scheduler` implements `TaskLifecycle` (`KeepsLifecycle`) and `WorkerNode`
implements `WorkerContract` (`KeepsContract`); both are proved. `Delivery` is
built from the two abstract modules, `WatchAssignments` from the first.

A step is what a thread does between two points where others can observe it:
one critical section, or one access to an atomic. Reads of the store that
change nothing, and requests refused by validation, are stuttering steps.
Names and payloads are model values, except in `TaskFrame`, `MessageCodec` and
`ConfigFile`, which are about text. In the first two, text is a sequence of the
characters and words the code looks for and one token for everything else; in
the third, a file is a sequence of lines, each a key and a value.

Definitions whose comment begins with "Mutated form" are faulty variants of the
definition after them. No specification uses them; each is there to show that
some property would notice the fault.

## Runs

Deadlock checking is off only where the modelled code, or the input a bound
allows, really ends: the worker, the scan loop, the text formats (all of `units`) and
the poller.
Symmetry is used where no liveness is checked.

| Run | Instance | Shows |
| --- | --- | --- |
| `units` | scan: up to 3 nodes, capacities 1, 2, 4, 0 to 2 running; frame: payloads up to 3 bytes of 10 classes, IDs of 1 and 2; messages with 4 values and at most 2 entries of metadata under 3 keys, in any order; 2 configuration files of up to 2 lines; pool: 3 threads, 2 buffers, 4 regions | the scan returns the least loaded node, ties by rotation; what is read is what was written, wherever the format can carry it; a refused configuration leaves no trace; repeated releases lose and double no buffer |
| `load_rule` | the scan as in `units` | fails, see below |
| `placement` | 2 workers, 1 handler and the checker, 3 tasks, clock still | the store stays consistent and refines `TaskLifecycle`; a report gives back one slot, of a task that held one, and a placement takes one |
| `races` | 1 worker, 2 handlers and the checker, 2 tasks, 2 instants | stale instants neither misplace a task nor lose a dispatch; pending tasks drain while a live node has room |
| `capacity` | as `races`, one slot | fails, see below |
| `watch` | 2 streams, 2 workers, 2 tasks | sent at most once, only own tasks; a resuming stream misses nothing |
| `worker` | 2 tasks, 2 pool threads, 1 waiting connection | no task twice, no ID left behind, nothing runs after `stop()`, refines `WorkerContract` |
| `worker_live` | 2 tasks, 1 pool thread | `stop()` ends, a sleeping `run()` wakes, queued tasks are taken |
| `delivery` | 2 tasks, 2 copies and 2 reports of each on the way, 1 crash, 1 scheduler restart; reports that cannot be decoded | only placed tasks travel; a late report may replace a result, but once nothing of a task is in flight it keeps its result; a forgotten worker has nothing until it is started anew |
| `delivery_live` | as `delivery`, 1 copy and 1 report of each on the way | every placed task settles unless its report cannot be decoded |
| `dataplane` | a client, a client without a name, a server, a submitting and a working session, a runtime; inbox 2, completions 1, 2 requests each, 3 in all | each task in one place, results in order, payloads registered, counters agree, each task answered or dropped |
| `poller` | 2 pushers, depth 2, 3 completions, inbox 2, 3 messages, any starts and stops | no lost wake-up, only the oldest completions and messages dropped, messages in order and none after `Stop`, `Stop` returns |

Why the bounds are enough to be interesting: with two handlers and the checker
three threads can stand between their critical sections at once; two instants
with `OfflineAfter = 0` let a node be live for one thread and offline for
another; two tasks on a worker with one slot compete for it; inbox, completion
queue and buffer pool are smaller than the load (`MaxTotal`, `MaxEvents`,
`MaxRegions`), so they overflow or grow; the crash and the restart can come at
every point, `MaxCopies = 2` lets a task travel twice at once, and `MaxReports =
2` lets the report of its first execution arrive after that of its second. The
inbox of `Poller` holds fewer messages than arrive (`MailboxCapacity`; the
default of `mailbox_capacity` is 4096, `config.h:25`), so it overflows while the
poller is stopped or its handler slow, which loses the oldest message. `Pollers`
names the nodes of `DataPlane` that poll completions at all, so that some never
do. The values and keys of `units` hold newlines, `=`, `meta:` and names of
fields, and `MaxLoads = 2` lets one file follow a refused one.

### Where code and comments differ

`capacity` is expected to fail: `model/node.go:23` calls `Capacity` the limit of
concurrent tasks, but a heartbeat counted before a placement overwrites the
scheduler's count after it (`registry.go:75`) and the slot is given out again.

`load_rule` is expected to fail: `docs/architecture.md:17` says the node with the
fewest running tasks is chosen, but `Compare` (`strategy.go:74`) ranks by load
ratio first, and a node with 2 of 4 slots taken is chosen before one with 1 of 2.

The models show more such differences, which no run states:

* `model/node.go:31`: `LastHeartbeat` is not always the latest; a handler that
  read the clock earlier and got the lock later moves it back.
* `task_service.go:70`: the result is not final; a second or a late report
  replaces it. `SettledStaysSettled` says when that is over.
* `model/task.go:37,39`: `StartedAt` can precede `CreatedAt` when a dispatch
  with an older instant takes the task.
* `model/node.go:51`: the farewell heartbeat of `stop()` says 0 while tasks are
  being executed.
* `model/task.go:21`: task IDs are unique only until the scheduler restarts; a
  late report of an old task is recorded for a new one.
* `deliverer.go:111`: of a payload with several lines only the first arrives.
* `worker_node.cpp:94`: `stop()` notifies without `state_mutex_`, so a `run()`
  between its test and its sleep stays asleep. `SleeperReturns` speaks of one
  that sleeps already.

## Fairness

* `Scheduler`: a thread in `DispatchPending` finishes it (it blocks on nothing),
  and one that waits for the lock gets it (Go's mutexes hand over to a starved
  waiter, hence strong fairness). Nothing about requests, ticker or clock.
* `WatchAssignments`: an open stream keeps looking and sending.
* `WorkerNode`: threads are scheduled and each HTTP exchange ends. The second is
  an assumption on the scheduler: `postJSON` has no receive timeout. `recv()`
  is only sure to end while the worker stops, by the 1 s socket timeout. No
  fairness for spurious wake-ups.
* `Delivery`: the deliverer's ticker, the worker's threads and the scheduler's
  handlers keep running (weak fairness of the round, of executing and giving an
  ID free, of `Record`). Of infinitely many deliveries of a task one is sent and
  read, of infinitely many reports one reaches the scheduler (strong fairness of
  `Deliver`, `Receive` and `Report`), and somebody restarts the worker. The last
  two are assumptions on the network and the operator: the code retries for
  ever, and gives no other guarantee.
* `DataPlane`: each node keeps polling for messages and finishes what it has
  begun, as the loops of the examples do. Whether it submits, or polls
  completions, is its own affair.
* `Poller`: a pusher goes on to its notification, the consumer keeps waiting and
  polling, whoever is inside `Start` or `Stop` goes on as soon as it can, and the
  thread is scheduled. Nobody has to start or stop.

## Proofs

All proofs hold for every value of the constants that satisfies the named
`ASSUME`s, which TLC evaluates in the runs. The bounds are any natural numbers.

* `SchedulerProofs`, the scan: the type invariant, the loop invariant `ScanInv`,
  and from it `SelectsBest` and, as a statement without the order `Compare`,
  `SelectsLowestRatio` (proved and not run). The argument is that `Compare` is a
  strict weak order, for which the products must not wrap (`LoadsAssumption`); a
  loop that keeps only the best so far would not find a minimum otherwise.
* `SchedulerProofs`, the store: `TypeOK`, then `RegistryConsistent` on top of
  it, then `DispatchSeesOwnRefresh`; together they are the inductive invariant
  of the rest. `AssignmentConsistent` needs that the selected index belongs to a
  registered worker and that the dispatching thread has an instant;
  `NoLostDispatch` needs that, when a loop ends without candidates, the statuses
  it saw were its own, so that a node it skipped is really full or silent;
  `PlacedOnLiveNode` and the refinement `KeepsLifecycle` are step properties
  from the same invariant, and so is `SlotsFollowTasks`: the running tasks of a
  node are a set that a step changes by one element, and its cardinality by one
  (`SlotsCount`, from the library's facts on finite sets). `ReadyHasRoom`,
  `DispatchSeesOwnRefresh` and the loop invariant are proved and not run.
* `AssignmentProofs`, the streams: `OnlyOwnTasks`. `WatchInv` adds that what was
  sent is in the stream's map, and that only a task never placed is pending: a
  placement is therefore final, and a stale look still lists the worker's own
  tasks. `ResumedSkipsOnlySent` is the safety behind
  `ResumedStreamMissesNothing`: what a resumed stream passes over as sent was
  sent on it (`SkipsOnlySent`).
* `WorkerNodeProofs`, the threads: `ThreadInv` says which threads are gone at
  each point of `stop()`, and gives `StoppedIsQuiet` and `FarewellIsLast`.
  `HoldInv` joins `HeldOnce` and `ActiveExact`, neither of which is inductive
  alone: a delivery is refused because its ID is active, so the IDs must be
  exact for the task to be held once, and an ID can be removed only because its
  task is held once. The refinement `KeepsContract` follows, with the stage of a
  task read off the threads. `ConsumersStayUp` is the safety behind
  `QueuedTaskRuns`: every pool thread of a running worker is in a consumer loop
  or has one to take (`EveryThreadConsumes`). `LoopInv` counts for it: the
  threads in a loop and the loops that wait in the pool are together as many as
  were submitted.
* `DeliveryProofs`, the tasks: `DeliveryInv` adds to `OnlyPlacedTravels` and
  `RefusedUntilRestart` that no copy has an epoch still to come, so that a
  restart makes everything on the way old, and that only a known worker has
  tasks. `SettledStaysSettled` is a step property from it and from `PostedInv`,
  that reports in flight are counted: one that is handled was there, so a task
  without any is not recorded again.
* `RdmaProofs`, the poller: `ThreadInv` says that a thread exists from its
  creation to its join and has something in hand just while a handler runs,
  which is `QuietAfterStop`. `HandledInOrder` becomes inductive with it and once
  no more waits than arrived (`OrderInv`), and so does `QueueIsNewest` once no
  more is queued than was pushed (`NewestInv`). `NoWakeupLost` is the safety
  behind `EventPolledOrDropped`: while a consumer sleeps and an event is queued,
  the signal is set or a pusher still has to set it (`SignalComes`, which is
  inductive).
* `RdmaProofs`, the buffers: the specification is the pool, whose threads
  borrow, release, and release again, beside others that register regions.
  `PoolInv` adds that the registry's keys are those up to its counter, so that a
  new one is fresh, and that whatever a thread holds or has given back is a key
  of the pool. From it `NoKeyLost` and `Exclusive`.
* `DataFlowProofs`: `StepShape` first reduces the actions of all kinds of nodes
  to five things that can happen to messages: a request enters, a message is
  received for good, a task is taken up, a task is answered, or nothing. It
  needs `ClientInv`, that an established connection has a queue pair that can
  send, or a post would be lost. `FlowInv` then has four parts. `RouteInv` says
  that messages wait only where they are addressed to and were sent by a node in
  the right role. `OnceInv` is `InOnePlace` without counting: queues hold a
  request at most once, share none, and hold together with the dropped ones what
  was submitted. `OrderInv` strengthens `ResultsInOrder`, which says nothing of
  what is still on its way: the results of a worker precede the task in its
  hands, and that one the tasks that wait for it.
* `DataPlaneProofs`: `InOnePlace`, `ResultsInOrder` and `PayloadsStayRegistered`
  follow from `FlowInv`, the last because the key of a payload is a function of
  its work request number. `CountInv` adds to `MetricsAddUp` that what a session
  still has to push is its last work request and that it has no send to count
  while it owes a completion.
* `AssignmentProofs`, the frame: `FrameInv` says that what was received is a
  beginning of the line without a newline and that the rest of the line follows
  it. `SplitAfterID` (no separator is in an ID, so the first one ends it) and
  `ParsesBeginning` then give `ArrivesAsSent`.
* `AssignmentProofs`, the report: the reader is back in its plain state after
  each escaped character and has read exactly the characters written so far, or
  has met a control character and accepts no more (`ReadsEscaped`,
  `OutputSurvives`); this gives `ReportKeepsOutput`, with `ReportInv` for the
  steps before it. What was read is then made UTF-8 position by position
  (`ToUTF8Is`), which leaves an output alone that is UTF-8 already.
* `WorkerNodeProofs`, the configuration: `LoadingGives` says what the loop over
  a file leaves in each key, `GivenByBoth` joins it to the files accepted
  before; `ConfigInv` is `ConfigIsLastGiven` with the types and without
  `CHOOSE`.
* `DeliveryProofs`, the messages: `JoiningBegins` and `PieceAt` say where in the
  text each line stands, so `ReadsLines` can follow the reader from line to
  line, each applied once and whole, since none holds a newline. A line is split
  at the right `=`: no field name and, in a clean message, no metadata key holds
  one (`FieldRead`, `EntryRead`). `MessageReads` then says what a reader of
  either type has after all lines, whatever the order of the metadata, and
  `CodecInv`, that the text is a writing of the message and what was decoded a
  reading of the text, gives `ReadBack`.

The loops of the text formats are recursive functions over the length of what
was read. That such a function exists (`LoopExists`), and that what each
iteration keeps holds at the end (`UpTo`), is proved from a least number of a
set (`Least`), because the provers cannot use an induction schema. TLC finds
`OrderInv` of the poller to hold on the instance of `poller`, and `ClientInv`,
`FlowInv` and `CountInv` to hold on the instance of `dataplane`, and `FrameInv`,
`ReportInv` and `ConfigInv` for payloads of up to 2 bytes and a file of up to 2
lines; and `CodecInv`, `SignalComes`, `SkipsOnlySent`, `LoopInv` and
`EveryThreadConsumes` on the instances of `units`, `poller`, `watch` and
`worker`.

Only model-checked: all liveness, that is `StableRoomDrains`,
`ResumedStreamMissesNothing`, `StopTerminates`, `SleeperReturns`,
`QueuedTaskRuns`, `EveryPlacedTaskSettles`, `AnsweredOrDropped`,
`EventPolledOrDropped`, `StopReturns` and `MessageHandled`: fairness and
`ENABLED` are beyond the prover. For four of them the safety they rest on is
proved: `NoLostDispatch`, `ResumedSkipsOnlySent`, `ConsumersStayUp` and
`NoWakeupLost`. Every invariant and every step property that a passing run
checks is proved.

## Not modelled

Logging, HTTP text and address parsing (`splitHostPort`), generated protocol
code, device objects without behaviour, benchmarks, examples, tensor arithmetic
and the scheduler's configuration. Of the RDMA library, `PostWrite` (another
message through `PostSend`), `EventChannel::Reset` and `Metrics::RecordWrite`
(neither has a caller) are left out. Simplifications inside modelled parts:

* one worker in `Delivery` (workers meet only in the scheduler's table);
* one `start()` and one `stop()` per worker process, as in `main`;
* clocks never go back, only handlers use old readings;
* int64 overflow is modelled in `Int64` but excluded by `LoadsAssumption`;
* a character beyond ASCII is two bytes in `TaskFrame`, where UTF-8 has two to
  four;
* the file descriptor of the listening socket is reduced to whether it listens;
* `ConfigFile` leaves out trimming and comments, and the cast of the port to 16
  bits where the server listens;
* `Poller` is started and stopped by one thread: two would race on `thread_`,
  which is undefined;
* a session of `DataPlane` either submits tasks or executes them, as in the
  examples; `PollTask` would take a result for a task, and `ReadBack` says what
  it would make of it;
* the metadata of a message is a `std::map`, written in the order of its keys;
  `MessageCodec` allows any order;
* `MemoryRegistry::Release` of a buffer of the pool is left out;
* `Connection::Fail` has no caller in the repository; its action stands for a
  client that drives `Connection` itself.
