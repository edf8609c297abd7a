----------------------------- MODULE WorkerNode -----------------------------
(***************************************************************************)
(* One worker process: WorkerNode, TaskQueue, ThreadPool, Timer and        *)
(* TcpTransport of worker/, and the two threads of main.cpp.               *)
(*                                                                         *)
(* Threads: main (start, then run), the signal watcher (stop), the         *)
(* transport's accept thread, the heartbeat timer's thread and the pool    *)
(* threads.  A step is what one of them does between two points where      *)
(* another can observe it: an access to an atomic, or one critical section *)
(* of a mutex.  A condition-variable wait is a guard where the predicate   *)
(* only changes under the waiter's mutex (queue, pool, timer); run() waits *)
(* for running_, which changes under no mutex, so its test of the          *)
(* predicate and its going to sleep are two steps.                         *)
(*                                                                         *)
(* main calls start() and stop() once each; the second stop(), from the    *)
(* destructor, finds every part already stopped.  loadConfig is in         *)
(* ConfigFile.tla and the framing of a task on the socket in TaskFrame.tla.*)
(* The task IDs a heartbeat carries, which the scheduler does not read,    *)
(* are left out.                                                           *)
(***************************************************************************)
EXTENDS Naturals, Sequences, FiniteSets

CONSTANTS
  Tasks,         \* task IDs
  NoTask,        \* an empty hand
  Consumers,     \* the pool threads; config threads is their number
  MaxBacklog     \* bound on connections waiting in accept() (listen(fd, 16))

ASSUME WorkerAssumption ==
  /\ NoTask \notin Tasks
  /\ IsFiniteSet(Consumers) /\ Consumers # {}
  /\ MaxBacklog \in Nat

VARIABLES
  running,       \* WorkerNode::running_
  mainPc,        \* where main is in start() and run()
  stopPc,        \* where stop() is, "idle" before it is called
  timerOn,       \* Timer::running_
  timerPc,       \* the timer's thread
  beatCount,     \* the count the timer's thread has read and will send
  lastBeat,      \* the count of the last heartbeat sent
  transportOn,   \* TcpTransport::running_, and the socket listens
  acceptPc,      \* the accept thread
  incoming,      \* the task of the connection it handles
  backlog,       \* connections to accept, each with the task it brings
  active,        \* active_task_ids_
  queue,         \* TaskQueue::queue_
  stopped,       \* TaskQueue::stopped_
  consumers,     \* consumer loops startConsumers has submitted
  poolTasks,     \* consumer loops waiting in ThreadPool::tasks_
  poolStopping,  \* ThreadPool::stopping_
  pc,            \* the pool threads
  hand           \* the task a pool thread works on

mainVars   == <<running, mainPc, stopPc>>
timerVars  == <<timerOn, timerPc, beatCount, lastBeat>>
acceptVars == <<transportOn, acceptPc, incoming, backlog>>
queueVars  == <<active, queue, stopped>>
poolVars   == <<consumers, poolTasks, poolStopping, pc, hand>>
vars == <<running, mainPc, stopPc, timerOn, timerPc, beatCount, lastBeat,
          transportOn, acceptPc, incoming, backlog, active, queue, stopped,
          consumers, poolTasks, poolStopping, pc, hand>>

(* start() has loaded the configuration and set running_. *)
Init ==
  /\ running = TRUE
  /\ mainPc = "server"
  /\ stopPc = "idle"
  /\ timerOn = FALSE
  /\ timerPc = "none"
  /\ beatCount = 0
  /\ lastBeat = 0
  /\ transportOn = FALSE
  /\ acceptPc = "none"
  /\ incoming = NoTask
  /\ backlog = <<>>
  /\ active = {}
  /\ queue = <<>>
  /\ stopped = FALSE
  /\ consumers = 0
  /\ poolTasks = 0
  /\ poolStopping = FALSE
  /\ pc = [c \in Consumers |-> "none"]
  /\ hand = [c \in Consumers |-> NoTask]

-----------------------------------------------------------------------------
(***************************************************************************)
(* main: start() and run()                                                 *)
(***************************************************************************)

StartServer ==
  /\ mainPc = "server"
  /\ mainPc' = "pool"
  /\ transportOn' = TRUE
  /\ acceptPc' = "accept"
  /\ UNCHANGED <<running, stopPc, incoming, backlog, timerVars, queueVars,
                 poolVars>>

(* ThreadPool::start: its threads run from now on. *)
StartPool ==
  /\ mainPc = "pool"
  /\ mainPc' = "consumers"
  /\ pc' = [c \in Consumers |-> "pool"]
  /\ UNCHANGED <<running, stopPc, consumers, poolTasks, poolStopping, hand,
                 timerVars, acceptVars, queueVars>>

(* Mutated form: the last loop is not submitted. *)
MoreConsumersButOne == consumers + 1 < Cardinality(Consumers)

(* i < config_.threads *)
MoreConsumers == consumers < Cardinality(Consumers)

(* ThreadPool::enqueue takes one more consumer loop.  Pool threads that    *)
(* have one already take tasks meanwhile.                                  *)
EnqueueConsumer ==
  /\ mainPc = "consumers" /\ MoreConsumers
  /\ consumers' = consumers + 1
  /\ poolTasks' = poolTasks + 1
  /\ UNCHANGED <<mainVars, poolStopping, pc, hand, timerVars,
                 acceptVars, queueVars>>

ConsumersStarted ==
  /\ mainPc = "consumers" /\ ~MoreConsumers
  /\ mainPc' = "register"
  /\ UNCHANGED <<running, stopPc, timerVars, acceptVars, queueVars, poolVars>>

RegisterToScheduler ==
  /\ mainPc = "register"
  /\ mainPc' = "heartbeat"
  /\ UNCHANGED <<running, stopPc, timerVars, acceptVars, queueVars, poolVars>>

StartHeartbeat ==
  /\ mainPc = "heartbeat"
  /\ mainPc' = "test"
  /\ timerOn' = TRUE
  /\ timerPc' = "wait"
  /\ UNCHANGED <<running, stopPc, beatCount, lastBeat, acceptVars, queueVars,
                 poolVars>>

(* One of the four throws; start() calls stop() and returns false. *)
StartFails ==
  /\ mainPc \in {"server", "pool", "register", "heartbeat"}
  /\ mainPc' = "failed"
  /\ running' = FALSE
  /\ stopPc' = "timer"
  /\ UNCHANGED <<timerVars, acceptVars, queueVars, poolVars>>

(* run(): the predicate of the wait. *)
RunTest ==
  /\ mainPc = "test"
  /\ mainPc' = IF running THEN "block" ELSE "returned"
  /\ UNCHANGED <<running, stopPc, timerVars, acceptVars, queueVars, poolVars>>

(* run() releases state_mutex_ and sleeps. *)
RunBlock ==
  /\ mainPc = "block"
  /\ mainPc' = "asleep"
  /\ UNCHANGED <<running, stopPc, timerVars, acceptVars, queueVars, poolVars>>

(* A wait on a condition variable may end without a notification. *)
SpuriousWake ==
  /\ mainPc = "asleep"
  /\ mainPc' = "test"
  /\ UNCHANGED <<running, stopPc, timerVars, acceptVars, queueVars, poolVars>>

-----------------------------------------------------------------------------
(***************************************************************************)
(* stop()                                                                  *)
(***************************************************************************)

(* The signal watcher, which is started after start() has returned true. *)
StopBegin ==
  /\ mainPc \in {"test", "block", "asleep"}
  /\ stopPc = "idle"
  /\ running' = FALSE
  /\ stopPc' = "timer"
  /\ UNCHANGED <<mainPc, timerVars, acceptVars, queueVars, poolVars>>

StopTimer ==
  /\ stopPc = "timer"
  /\ stopPc' = "joinTimer"
  /\ timerOn' = FALSE
  /\ UNCHANGED <<running, mainPc, timerPc, beatCount, lastBeat, acceptVars,
                 queueVars, poolVars>>

(* Mutated form: the timer's thread is not joined. *)
TimerDetached == TRUE

TimerGone == timerPc \in {"none", "exited"}

JoinTimer ==
  /\ stopPc = "joinTimer"
  /\ TimerGone
  /\ stopPc' = "farewell"
  /\ UNCHANGED <<running, mainPc, timerVars, acceptVars, queueVars, poolVars>>

(* sendHeartbeat(0, {}): running_ was still true when stop() began. *)
Farewell ==
  /\ stopPc = "farewell"
  /\ stopPc' = "transport"
  /\ lastBeat' = 0
  /\ UNCHANGED <<running, mainPc, timerOn, timerPc, beatCount, acceptVars,
                 queueVars, poolVars>>

(* Closing the socket resets the connections still in the backlog.  One    *)
(* that is accepted between the store to running_ and the shutdown brings  *)
(* a task the handler ignores, and is left out.                            *)
StopTransport ==
  /\ stopPc = "transport"
  /\ stopPc' = "joinAccept"
  /\ transportOn' = FALSE
  /\ backlog' = <<>>
  /\ UNCHANGED <<running, mainPc, acceptPc, incoming, timerVars, queueVars,
                 poolVars>>

AcceptGone == acceptPc \in {"none", "exited"}

JoinAccept ==
  /\ stopPc = "joinAccept"
  /\ AcceptGone
  /\ stopPc' = "queue"
  /\ UNCHANGED <<running, mainPc, timerVars, acceptVars, queueVars, poolVars>>

StopQueue ==
  /\ stopPc = "queue"
  /\ stopPc' = "pool"
  /\ stopped' = TRUE
  /\ UNCHANGED <<running, mainPc, active, queue, timerVars, acceptVars,
                 poolVars>>

StopPool ==
  /\ stopPc = "pool"
  /\ stopPc' = "joinPool"
  /\ poolStopping' = TRUE
  /\ UNCHANGED <<running, mainPc, consumers, poolTasks, pc, hand, timerVars,
                 acceptVars, queueVars>>

(* Mutated form: the pool threads are detached. *)
PoolDetached == TRUE

PoolGone == \A c \in Consumers : pc[c] \in {"none", "exited"}

JoinPool ==
  /\ stopPc = "joinPool"
  /\ PoolGone
  /\ stopPc' = "notify"
  /\ UNCHANGED <<running, mainPc, timerVars, acceptVars, queueVars, poolVars>>

(* Mutated form: run() is not notified. *)
WokenNever(p) == p

(* state_condition_.notify_all() wakes run() only if it sleeps already. *)
Woken(p) == IF p = "asleep" THEN "test" ELSE p

Notify ==
  /\ stopPc = "notify"
  /\ stopPc' = "done"
  /\ mainPc' = Woken(mainPc)
  /\ UNCHANGED <<running, timerVars, acceptVars, queueVars, poolVars>>

-----------------------------------------------------------------------------
(***************************************************************************)
(* The heartbeat timer's thread                                            *)
(***************************************************************************)

(* wait_for ends: the timer was stopped, or the interval has passed. *)
TimerWake ==
  /\ timerPc = "wait"
  /\ timerPc' = IF timerOn THEN "beat" ELSE "exited"
  /\ UNCHANGED <<timerOn, beatCount, lastBeat, mainVars, acceptVars, queueVars,
                 poolVars>>

(* The callback tests running_ and counts under active_tasks_mutex_. *)
TimerCount ==
  /\ timerPc = "beat"
  /\ timerPc' = IF running THEN "send" ELSE "wait"
  /\ beatCount' = IF running THEN Cardinality(active) ELSE beatCount
  /\ UNCHANGED <<timerOn, lastBeat, mainVars, acceptVars, queueVars, poolVars>>

TimerSend ==
  /\ timerPc = "send"
  /\ timerPc' = "wait"
  /\ lastBeat' = beatCount
  /\ UNCHANGED <<timerOn, beatCount, mainVars, acceptVars, queueVars, poolVars>>

-----------------------------------------------------------------------------
(***************************************************************************)
(* The accept thread: one connection at a time                             *)
(***************************************************************************)

(* The environment: the scheduler's deliverer has connected. *)
Connect(t) ==
  /\ transportOn
  /\ Len(backlog) < MaxBacklog
  /\ backlog' = Append(backlog, t)
  /\ UNCHANGED <<transportOn, acceptPc, incoming, mainVars, timerVars,
                 queueVars, poolVars>>

Accept ==
  /\ acceptPc = "accept"
  /\ transportOn
  /\ backlog # <<>>
  /\ acceptPc' = "receive"
  /\ incoming' = Head(backlog)
  /\ backlog' = Tail(backlog)
  /\ UNCHANGED <<transportOn, mainVars, timerVars, queueVars, poolVars>>

AcceptExit ==
  /\ acceptPc = "accept"
  /\ ~transportOn
  /\ acceptPc' = "exited"
  /\ UNCHANGED <<transportOn, incoming, backlog, mainVars, timerVars, queueVars,
                 poolVars>>

(* handleClient has the whole line and calls the handler. *)
Receive ==
  /\ acceptPc = "receive"
  /\ acceptPc' = "handle"
  /\ UNCHANGED <<transportOn, incoming, backlog, mainVars, timerVars, queueVars,
                 poolVars>>

(* The connection broke, brought no task, or timed out during stop(). *)
ReceiveNothing ==
  /\ acceptPc = "receive"
  /\ acceptPc' = "accept"
  /\ incoming' = NoTask
  /\ UNCHANGED <<transportOn, backlog, mainVars, timerVars, queueVars, poolVars>>

(* The handler ignores tasks once stop() has begun. *)
Handle ==
  /\ acceptPc = "handle"
  /\ acceptPc' = IF running THEN "enqueue" ELSE "accept"
  /\ incoming' = IF running THEN incoming ELSE NoTask
  /\ UNCHANGED <<transportOn, backlog, mainVars, timerVars, queueVars, poolVars>>

(* Mutated form: an ID that was there already counts as inserted. *)
DuplicateNever(t) == FALSE

Duplicate(t) == t \in active

(* enqueueTask: a task the worker already holds is skipped. *)
Enqueue ==
  /\ acceptPc = "enqueue"
  /\ acceptPc' = IF Duplicate(incoming) THEN "accept" ELSE "push"
  /\ incoming' = IF Duplicate(incoming) THEN NoTask ELSE incoming
  /\ active' = active \cup {incoming}
  /\ UNCHANGED <<transportOn, backlog, queue, stopped, mainVars, timerVars,
                 poolVars>>

(* Mutated form: the ID is not erased. *)
finishTaskKeepsID(t) == active

(* active_task_ids_ without t. *)
finishTask(t) == active \ {t}

(* TaskQueue::push; a stopped queue refuses and the ID is taken back. *)
Push ==
  /\ acceptPc = "push"
  /\ acceptPc' = "accept"
  /\ incoming' = NoTask
  /\ queue' = IF stopped THEN queue ELSE Append(queue, incoming)
  /\ active' = IF stopped THEN finishTask(incoming) ELSE active
  /\ UNCHANGED <<transportOn, backlog, stopped, mainVars, timerVars, poolVars>>

-----------------------------------------------------------------------------
(***************************************************************************)
(* The pool threads: ThreadPool::workerLoop and the consumer loop          *)
(***************************************************************************)

PoolTake(c) ==
  /\ pc[c] = "pool"
  /\ poolTasks > 0
  /\ poolTasks' = poolTasks - 1
  /\ pc' = [pc EXCEPT ![c] = "loop"]
  /\ UNCHANGED <<consumers, poolStopping, hand, mainVars, timerVars,
                 acceptVars, queueVars>>

PoolExit(c) ==
  /\ pc[c] = "pool"
  /\ poolStopping
  /\ poolTasks = 0
  /\ pc' = [pc EXCEPT ![c] = "exited"]
  /\ UNCHANGED <<consumers, poolTasks, poolStopping, hand, mainVars,
                 timerVars, acceptVars, queueVars>>

(* while (running_.load()); the loop's end is the end of the pool task. *)
Loop(c) ==
  /\ pc[c] = "loop"
  /\ pc' = [pc EXCEPT ![c] = IF running THEN "pop" ELSE "pool"]
  /\ UNCHANGED <<consumers, poolTasks, poolStopping, hand, mainVars,
                 timerVars, acceptVars, queueVars>>

(* Mutated form: the wait does not look at stopped_. *)
PoppableOnly == queue # <<>>

(* The predicate of waitPop's wait. *)
Poppable == stopped \/ queue # <<>>

(* waitPop: once the queue is stopped what it still holds is left there. *)
WaitPop(c) ==
  /\ pc[c] = "pop"
  /\ Poppable
  /\ pc' = [pc EXCEPT ![c] = IF stopped THEN "pool" ELSE "execute"]
  /\ hand' = IF stopped THEN hand ELSE [hand EXCEPT ![c] = Head(queue)]
  /\ queue' = IF stopped THEN queue ELSE Tail(queue)
  /\ UNCHANGED <<active, stopped, consumers, poolTasks, poolStopping,
                 mainVars, timerVars, acceptVars>>

(* Executor::execute catches everything and always returns a result. *)
Execute(c) ==
  /\ pc[c] = "execute"
  /\ pc' = [pc EXCEPT ![c] = "report"]
  /\ UNCHANGED <<consumers, poolTasks, poolStopping, hand, mainVars,
                 timerVars, acceptVars, queueVars>>

(* reportResult; a failure is only logged. *)
ReportResult(c) ==
  /\ pc[c] = "report"
  /\ pc' = [pc EXCEPT ![c] = "finish"]
  /\ UNCHANGED <<consumers, poolTasks, poolStopping, hand, mainVars,
                 timerVars, acceptVars, queueVars>>

(* The end of the consumer loop's body. *)
Finish(c) ==
  /\ pc[c] = "finish"
  /\ pc' = [pc EXCEPT ![c] = "loop"]
  /\ hand' = [hand EXCEPT ![c] = NoTask]
  /\ active' = finishTask(hand[c])
  /\ UNCHANGED <<queue, stopped, consumers, poolTasks, poolStopping,
                 mainVars, timerVars, acceptVars>>

-----------------------------------------------------------------------------
(***************************************************************************)
(* The specification                                                       *)
(***************************************************************************)

Start ==
  \/ StartServer
  \/ StartPool \/ EnqueueConsumer \/ ConsumersStarted
  \/ RegisterToScheduler
  \/ StartHeartbeat

Run == RunTest \/ RunBlock

Stop ==
  \/ StopTimer \/ JoinTimer \/ Farewell
  \/ StopTransport \/ JoinAccept
  \/ StopQueue
  \/ StopPool \/ JoinPool
  \/ Notify

Timer == TimerWake \/ TimerCount \/ TimerSend

AcceptThread ==
  \/ Accept \/ AcceptExit
  \/ Receive \/ ReceiveNothing
  \/ Handle \/ Enqueue \/ Push

Consumer(c) ==
  \/ PoolTake(c) \/ PoolExit(c)
  \/ Loop(c) \/ WaitPop(c)
  \/ Execute(c) \/ ReportResult(c) \/ Finish(c)

Next ==
  \/ Start \/ StartFails \/ Run \/ SpuriousWake
  \/ StopBegin \/ Stop
  \/ Timer
  \/ \E t \in Tasks : Connect(t)
  \/ AcceptThread
  \/ \E c \in Consumers : Consumer(c)

Spec == Init /\ [][Next]_vars

(* The threads are scheduled, and every HTTP exchange with the scheduler   *)
(* ends (answered, refused or reset).  recv() is only sure to end once the *)
(* transport is stopping, by the 1 s timeout of the socket; while it is    *)
(* up, a silent client keeps the accept thread.  Nothing is assumed about  *)
(* the signal, the deliverer or spurious wake-ups.                         *)
Fairness ==
  /\ WF_vars(Start \/ Run)
  /\ WF_vars(Stop)
  /\ WF_vars(Timer)
  /\ WF_vars((acceptPc # "receive" \/ ~transportOn) /\ AcceptThread)
  /\ \A c \in Consumers : WF_vars(Consumer(c))

LiveSpec == Spec /\ Fairness

-----------------------------------------------------------------------------
(***************************************************************************)
(* Properties                                                              *)
(***************************************************************************)

Busy == {"execute", "report", "finish"}

Queued  == {queue[i] : i \in DOMAIN queue}
InHand  == {hand[c] : c \in {d \in Consumers : pc[d] \in Busy}}
Pushing == IF acceptPc = "push" THEN {incoming} ELSE {}

(* A task the deliverer sends again while the worker still has it is       *)
(* neither queued nor executed a second time: each is in one place only.   *)
HeldOnce ==
  /\ \A i, j \in DOMAIN queue : queue[i] = queue[j] => i = j
  /\ \A c, d \in Consumers :
       pc[c] \in Busy /\ hand[c] = hand[d] => c = d
  /\ Queued \cap InHand = {}
  /\ Pushing \cap (Queued \cup InHand) = {}

(* active_task_ids_ is exactly what the worker holds: no ID stays behind   *)
(* (its task could never be delivered again, and would be counted in every *)
(* heartbeat), and none is missing.                                        *)
ActiveExact == active = Queued \cup InHand \cup Pushing

(* How far the worker has come with a task, read off its threads. *)
StageOf(t) ==
  LET at(p) == \E c \in Consumers : pc[c] = p /\ hand[c] = t
  IN  IF at("finish") THEN "reported"
      ELSE IF at("report") THEN "executed"
      ELSE IF t \in active THEN "held"
      ELSE "absent"

Contract == INSTANCE WorkerContract WITH stage <- [t \in Tasks |-> StageOf(t)]

(* Every step of every thread is a step of WorkerContract: whatever is     *)
(* delivered again, and however far stop() has come, a task that was taken *)
(* is executed and reported once before it can be taken again.             *)
KeepsContract == Contract!Spec

(* The farewell heartbeat is the last one: no count the timer's thread had *)
(* read before reaches the scheduler after it.                             *)
FarewellIsLast ==
  [][stopPc \notin {"idle", "timer", "joinTimer", "farewell"} =>
       lastBeat' = lastBeat]_vars

(* When stop() returns, no other thread of the node is left: nothing is    *)
(* executed, reported or accepted afterwards, whatever start() had reached.*)
StoppedIsQuiet ==
  stopPc \in {"notify", "done"} =>
    /\ timerPc \in {"none", "exited"}
    /\ acceptPc \in {"none", "exited"}
    /\ \A c \in Consumers : pc[c] \in {"none", "exited"}

(* stop() returns, from whatever point of start(), of a delivery or of an  *)
(* execution it was called at: its joins never wait for each other.        *)
StopTerminates == (stopPc # "idle") ~> (stopPc = "done")

(* If run() sleeps while stop() is at work, it is woken up and returns.    *)
(* (A run() that has tested running_ but does not sleep yet can miss the   *)
(* notification, which is sent without state_mutex_.)                      *)
SleeperReturns ==
  (mainPc = "asleep" /\ stopPc \notin {"idle", "done"})
    ~> (mainPc = "returned")

(* A queued task is taken by a consumer unless the worker stops.  The      *)
(* consumers outlive the tasks they execute, whatever becomes of a report. *)
QueuedTaskRuns ==
  \A t \in Tasks : (t \in Queued) ~> (t \notin Queued \/ ~running)
=============================================================================
