------------------------------ MODULE Scheduler ------------------------------
(***************************************************************************)
(* The control plane of scheduler/: the in-memory store, the registry, the *)
(* node and task services, the dispatcher and the periodic checker.        *)
(*                                                                         *)
(* Every request handler runs in a goroutine of its own and does           *)
(*     now := time.Now()                                                   *)
(*     store.Write(<its own change>)                                       *)
(*     scheduler.DispatchPending(now)     -- a second store.Write          *)
(* so other handlers run between the two critical sections, and now may be *)
(* arbitrarily old when either of them gets the lock.  The first critical  *)
(* section is one action that takes any instant up to the present as now;  *)
(* the second is DispatchBegin, one DispatchAssign for each iteration of   *)
(* the loop of dispatchPendingLocked, and DispatchEnd, during which lock   *)
(* keeps every other critical section out.                                 *)
(*                                                                         *)
(* Requests that fail validation (empty worker or task ID, unknown worker  *)
(* or task, missing model or operation) return before any change and       *)
(* before DispatchPending: they are stuttering steps.  Reads of the store  *)
(* change nothing.  Address, Labels, Message, Metadata and CompletedAt are *)
(* written and copied but never decide anything here; they are left out.   *)
(***************************************************************************)
EXTENDS Strategy, FiniteSets

CONSTANTS
  Workers,        \* worker IDs (non-empty strings: Register refuses "")
  NoWorker,       \* Task.AssignedWorker of a task not placed yet, ""
  Handlers,       \* request goroutines; their number bounds the concurrency
  Checker,        \* the goroutine of monitor.Checker
  Free,           \* the write lock has no holder
  Capacities,     \* capacities a worker may register with
  Reports,        \* running_tasks values a heartbeat may carry
  OfflineAfter,   \* silence after which a node counts as offline
  MaxTasks,       \* bound on the tasks submitted
  MaxTime         \* bound on the clock

ASSUME SchedulerAssumption ==
  /\ NoWorker \notin Workers
  /\ Checker \notin Handlers
  /\ Free \notin Handlers \cup {Checker}
  /\ Capacities \subseteq Int
  /\ Reports \subseteq Int
  /\ OfflineAfter \in Nat
  /\ MaxTasks \in Nat
  /\ MaxTime \in Nat

Threads == Handlers \cup {Checker}

NoTime == -1      \* a nil *time.Time, and "no DispatchPending owed"

VARIABLES
  (* storage.State *)
  nodes,          \* Nodes: registered worker ID -> node
  tasks,          \* Tasks and TaskCounter: tasks[i] has the ID task-i
  nodeOrder,      \* NodeOrder
  nextNodeIndex,  \* NextNodeIndex, 0-based
  (* the rest of the process *)
  clock,          \* time.Now()
  due,            \* thread -> the now of the DispatchPending it still owes
  lock            \* holder of the write lock between two steps, or Free

vars == <<nodes, tasks, nodeOrder, nextNodeIndex, clock, due, lock>>

TaskStates == {"pending", "running", "completed", "failed"}

Init ==
  /\ nodes = [w \in {} |-> {}]
  /\ tasks = <<>>
  /\ nodeOrder = <<>>
  /\ nextNodeIndex = 0
  /\ clock = 0
  /\ due = [h \in Threads |-> NoTime]
  /\ lock = Free

-----------------------------------------------------------------------------
(***************************************************************************)
(* Helpers                                                                 *)
(***************************************************************************)

(* LastHeartbeat is never the zero time: Register sets it. *)
DeriveNodeState(node, now) ==
  IF now - node.lastHeartbeat > OfflineAfter THEN "offline"
  ELSE IF node.capacity > 0 /\ node.runningTasks >= node.capacity THEN "busy"
  ELSE "ready"

(* Node with its Status derived again. *)
Derived(node, now) == [node EXCEPT !.status = DeriveNodeState(node, now)]

refreshNodeStatesLocked(now) ==
  [w \in DOMAIN nodes |-> Derived(nodes[w], now)]

Instants == 0 .. clock     \* what time.Now() may have returned to a handler

(* Mutated form: a handler that returns without DispatchPending. *)
OwesNothing(h, now) == UNCHANGED due

(* The thread has finished its own critical section: DispatchPending next. *)
Owes(h, now) == due' = [due EXCEPT ![h] = now]

(* A thread that owes nothing may enter a first critical section. *)
Idle(h) == lock = Free /\ due[h] = NoTime

-----------------------------------------------------------------------------
(***************************************************************************)
(* First critical sections of the handlers                                 *)
(***************************************************************************)

(* Mutated form: every registration appends. *)
JoinOrderAlways(w) == Append(nodeOrder, w)

(* NodeOrder after worker w has registered. *)
JoinOrder(w) == IF w \in DOMAIN nodes THEN nodeOrder ELSE Append(nodeOrder, w)

Register(h, w, requested, now) ==
  LET known == w \in DOMAIN nodes
      node  == [capacity      |-> IF requested <= 0 THEN 1 ELSE requested,
                runningTasks  |-> IF known THEN nodes[w].runningTasks ELSE 0,
                lastHeartbeat |-> now,
                status        |-> "ready"]
  IN  /\ Idle(h)
      /\ nodes' = [v \in DOMAIN nodes \cup {w} |->
                     IF v = w THEN Derived(node, now) ELSE nodes[v]]
      /\ nodeOrder' = JoinOrder(w)
      /\ Owes(h, now)
      /\ UNCHANGED <<tasks, nextNodeIndex, clock, lock>>

(* The reported count replaces the scheduler's own. *)
Heartbeat(h, w, reported, now) ==
  LET node == [nodes[w] EXCEPT
                 !.runningTasks  = IF reported < 0 THEN 0 ELSE reported,
                 !.lastHeartbeat = now]
  IN  /\ Idle(h)
      /\ w \in DOMAIN nodes
      /\ nodes' = [nodes EXCEPT ![w] = Derived(node, now)]
      /\ Owes(h, now)
      /\ UNCHANGED <<tasks, nodeOrder, nextNodeIndex, clock, lock>>

Submit(h, now) ==
  /\ Idle(h)
  /\ Len(tasks) < MaxTasks
  /\ tasks' = Append(tasks, [status |-> "pending", worker |-> NoWorker,
                             created |-> now, started |-> NoTime])
  /\ Owes(h, now)
  /\ UNCHANGED <<nodes, nodeOrder, nextNodeIndex, clock, lock>>

(* Mutated form: the counter is decremented unconditionally. *)
ReleasedBelowZero(w) == [nodes[w] EXCEPT !.runningTasks = @ - 1]

(* Node w after one of its running tasks has been reported. *)
Released(w) == [nodes[w] EXCEPT !.runningTasks = IF @ > 0 THEN @ - 1 ELSE @]

(* Mutated form: the status is not looked at. *)
HeldSlot(t) == tasks[t].worker \in DOMAIN nodes

(* Task t runs on a node that is known: its report gives a slot back. *)
HoldsSlot(t) == tasks[t].status = "running" /\ tasks[t].worker \in DOMAIN nodes

(* Any known task can be reported, whatever its status; only a running one *)
(* gives its slot back.  The node's Status waits for DispatchPending.      *)
Complete(h, t, success, now) ==
  LET w == tasks[t].worker
  IN  /\ Idle(h)
      /\ t \in DOMAIN tasks
      /\ tasks' = [tasks EXCEPT ![t].status = IF success THEN "completed"
                                                         ELSE "failed"]
      /\ nodes' = IF HoldsSlot(t) THEN [nodes EXCEPT ![w] = Released(w)] ELSE nodes
      /\ Owes(h, now)
      /\ UNCHANGED <<nodeOrder, nextNodeIndex, clock, lock>>

(* The status request refreshes every node and dispatches nothing. *)
Overview(now) ==
  /\ lock = Free
  /\ nodes' = refreshNodeStatesLocked(now)
  /\ UNCHANGED <<tasks, nodeOrder, nextNodeIndex, clock, due, lock>>

(* RefreshNodeStates on a tick; DispatchPending(timestamp) follows. *)
CheckerTick(now) ==
  /\ Idle(Checker)
  /\ nodes' = refreshNodeStatesLocked(now)
  /\ Owes(Checker, now)
  /\ UNCHANGED <<tasks, nodeOrder, nextNodeIndex, clock, lock>>

-----------------------------------------------------------------------------
(***************************************************************************)
(* DispatchPending: the second critical section, under the write lock      *)
(***************************************************************************)

(* Mutated form: tasks that run already are collected too. *)
PendingOrRunning ==
  {t \in DOMAIN tasks : tasks[t].status \in {"pending", "running"}}

Pending == {t \in DOMAIN tasks : tasks[t].status = "pending"}

(* The order in which dispatchPendingLocked sorts: CreatedAt, then ID.     *)
(* IDs are task-%06d of the counter, so they compare like the counters up  *)
(* to a million tasks.                                                     *)
Before(t, u) ==
  \/ tasks[t].created < tasks[u].created
  \/ tasks[t].created = tasks[u].created /\ t < u

(* The pending task the loop reaches next. *)
IsHead(t) == t \in Pending /\ \A u \in Pending \ {t} : Before(t, u)

NodeAt(i) == nodes[nodeOrder[i + 1]]

Candidates == {i \in 0 .. (Len(nodeOrder) - 1) : Selectable(NodeAt(i))}

(* Index i is the one selectNodeLocked returns. *)
IsSelected(i) ==
  IsBest(NodeAt, i, Candidates, nextNodeIndex % Len(nodeOrder), Len(nodeOrder))

(* Mutated form: the statuses are taken as they are. *)
DispatchBeginStale(h) ==
  /\ lock = Free
  /\ due[h] # NoTime
  /\ lock' = h
  /\ UNCHANGED <<nodes, tasks, nodeOrder, nextNodeIndex, clock, due>>

DispatchBegin(h) ==
  /\ lock = Free
  /\ due[h] # NoTime
  /\ lock' = h
  /\ nodes' = refreshNodeStatesLocked(due[h])
  /\ UNCHANGED <<tasks, nodeOrder, nextNodeIndex, clock, due>>

(* Mutated form: StartedAt is not set. *)
PlacedWithoutStart(task, w, now) ==
  [task EXCEPT !.status = "running", !.worker = w]

(* Task after it has been placed on worker w. *)
Placed(task, w, now) ==
  [task EXCEPT !.status = "running", !.worker = w, !.started = now]

(* One successful iteration: selectNodeLocked advances the rotation and    *)
(* assignTaskLocked places task t on the node at index i.                  *)
DispatchAssign(h, t, i) ==
  LET w    == nodeOrder[i + 1]
      node == [nodes[w] EXCEPT !.runningTasks = @ + 1]
  IN  /\ lock = h
      /\ IsHead(t)
      /\ IsSelected(i)
      /\ nextNodeIndex' = (i + 1) % Len(nodeOrder)
      /\ tasks' = [tasks EXCEPT ![t] = Placed(@, w, due[h])]
      /\ nodes' = [nodes EXCEPT ![w] = Derived(node, due[h])]
      /\ UNCHANGED <<nodeOrder, clock, due, lock>>

(* Mutated form: one round of the loop, whether or not more can be placed. *)
DispatchEndEarly(h) ==
  /\ lock = h
  /\ lock' = Free
  /\ due' = [due EXCEPT ![h] = NoTime]
  /\ UNCHANGED <<nodes, tasks, nodeOrder, nextNodeIndex, clock>>

(* The loop ends when no task is left or none can be placed. *)
DispatchEnd(h) ==
  /\ lock = h
  /\ Pending = {} \/ Candidates = {}
  /\ lock' = Free
  /\ due' = [due EXCEPT ![h] = NoTime]
  /\ UNCHANGED <<nodes, tasks, nodeOrder, nextNodeIndex, clock>>

(* Time passes only as far as MaxTime.  It may pass inside a critical      *)
(* section too, where nothing reads it; those steps are left out.          *)
Tick ==
  /\ lock = Free
  /\ clock < MaxTime
  /\ clock' = clock + 1
  /\ UNCHANGED <<nodes, tasks, nodeOrder, nextNodeIndex, due, lock>>

-----------------------------------------------------------------------------
(***************************************************************************)
(* The specification                                                       *)
(***************************************************************************)

Request ==
  \E h \in Handlers, now \in Instants :
    \/ \E w \in Workers, c \in Capacities : Register(h, w, c, now)
    \/ \E w \in Workers, r \in Reports : Heartbeat(h, w, r, now)
    \/ Submit(h, now)
    \/ \E t \in DOMAIN tasks, success \in BOOLEAN : Complete(h, t, success, now)

Refresh == \E now \in Instants : Overview(now) \/ CheckerTick(now)

Dispatch(h) ==
  \/ DispatchBegin(h)
  \/ \E t \in DOMAIN tasks, i \in 0 .. (Len(nodeOrder) - 1) :
       DispatchAssign(h, t, i)
  \/ DispatchEnd(h)

Next ==
  \/ Request
  \/ Refresh
  \/ \E h \in Threads : Dispatch(h)
  \/ Tick

Spec == Init /\ [][Next]_vars

-----------------------------------------------------------------------------
(***************************************************************************)
(* Properties                                                              *)
(***************************************************************************)

Node == [capacity : Nat \ {0}, runningTasks : Nat, lastHeartbeat : Nat,
         status : NodeStates]

Task == [status : TaskStates, worker : Workers \cup {NoWorker},
         created : Nat, started : Nat \cup {NoTime}]

(* Every capacity in the store is positive and no counter is negative      *)
(* (Register and Heartbeat normalise, Complete stops at 0), and a handler  *)
(* never works with an instant of the future.                              *)
TypeOK ==
  /\ DOMAIN nodes \subseteq Workers
  /\ nodes \in [DOMAIN nodes -> Node]
  /\ tasks \in Seq(Task)
  /\ nodeOrder \in Seq(Workers)
  /\ nextNodeIndex \in Nat
  /\ clock \in Nat
  /\ due \in [Threads -> {NoTime} \cup 0 .. clock]
  /\ lock \in Threads \cup {Free}

(* NodeOrder lists every registered worker once and NextNodeIndex stays    *)
(* inside it, however registrations and dispatches interleave.             *)
RegistryConsistent ==
  /\ DOMAIN nodes = {nodeOrder[i] : i \in DOMAIN nodeOrder}
  /\ \A i, j \in DOMAIN nodeOrder : nodeOrder[i] = nodeOrder[j] => i = j
  /\ nextNodeIndex = 0 \/ nextNodeIndex < Len(nodeOrder)

(* A running task names a registered worker and a start time, a pending    *)
(* one names neither, and the two are set together (assignTaskLocked).     *)
AssignmentConsistent ==
  \A t \in DOMAIN tasks :
    /\ tasks[t].worker \in DOMAIN nodes <=> tasks[t].started # NoTime
    /\ tasks[t].worker = NoWorker <=> tasks[t].started = NoTime
    /\ tasks[t].status = "running" => tasks[t].worker # NoWorker
    /\ tasks[t].status = "pending" => tasks[t].worker = NoWorker

(* A node shown as ready really has a free slot: no sequence of            *)
(* re-registrations, heartbeats and placements leaves a stale "ready".     *)
(* (A stale "busy" does occur, between Complete and its DispatchPending.)  *)
ReadyHasRoom ==
  \A w \in DOMAIN nodes :
    nodes[w].status = "ready" => nodes[w].runningTasks < nodes[w].capacity

(* While a thread dispatches, the statuses in the store are the ones its   *)
(* own now gives: the loop of dispatchPendingLocked never acts on a status *)
(* derived by another handler, from an earlier or a later instant.         *)
DispatchSeesOwnRefresh ==
  lock # Free =>
    /\ due[lock] # NoTime
    /\ \A w \in DOMAIN nodes :
         nodes[w].status = "offline" <=>
           due[lock] - nodes[w].lastHeartbeat > OfflineAfter

(* Node w has been heard of recently and the scheduler counts a free slot. *)
LiveWithRoom(w) ==
  /\ clock - nodes[w].lastHeartbeat <= OfflineAfter
  /\ nodes[w].runningTasks < nodes[w].capacity

(* No lost dispatch: while a task waits although a live node has room,     *)
(* some thread still owes a DispatchPending.  It takes every critical      *)
(* section that queues a task, frees a slot or renews a node to be         *)
(* followed by a dispatch, and the dispatch with the oldest now not to     *)
(* mistake a live node for an offline one.                                 *)
NoLostDispatch ==
  (Pending # {} /\ \E w \in DOMAIN nodes : LiveWithRoom(w)) =>
    \E h \in Threads : due[h] # NoTime

LivePlacement ==
  \A t \in DOMAIN tasks :
    (tasks[t].status = "pending" /\ tasks'[t].status = "running") =>
      LET w == tasks'[t].worker
      IN  /\ tasks'[t].started - nodes[w].lastHeartbeat <= OfflineAfter
          /\ nodes'[w].runningTasks <= nodes'[w].capacity

(* A step places a task only on a node that, at the instant the dispatch   *)
(* works with, has sent a heartbeat within OfflineAfter, and never beyond  *)
(* the capacity the scheduler counts for it (the refresh in                *)
(* DispatchPending comes before the loop, under the same lock).            *)
PlacedOnLiveNode == [][LivePlacement]_vars

RunningOn(w) ==
  {t \in DOMAIN tasks : tasks[t].status = "running" /\ tasks[t].worker = w}

SlotsFollow ==
  \A w \in DOMAIN nodes :
    LET count == nodes[w].runningTasks
                   + (Cardinality(RunningOn(w)') - Cardinality(RunningOn(w)))
    IN  nodes'[w].runningTasks = IF count < 0 THEN 0 ELSE count

(* A step that changes tasks changes a worker's count by the tasks that    *)
(* start or end there, and stops at 0, where a heartbeat may have put the  *)
(* count before: a task takes one slot and gives back one, in whatever     *)
(* status and however often it is reported.  A heartbeat changes no task   *)
(* and replaces the count.                                                 *)
SlotsFollowTasks == [][tasks' # tasks => SlotsFollow]_vars

(* The scheduler keeps the promises of TaskLifecycle. *)
Lifecycle == INSTANCE TaskLifecycle WITH
  known <- DOMAIN nodes,
  board <- [t \in DOMAIN tasks |-> [status |-> tasks[t].status,
                                    worker |-> tasks[t].worker]]

(* Whatever handlers, checker and clock do, every step of the store is a   *)
(* step of TaskLifecycle: placed at most once, only from pending, only on  *)
(* a registered worker, never moved.                                       *)
KeepsLifecycle == Lifecycle!Spec

-----------------------------------------------------------------------------
(***************************************************************************)
(* Liveness                                                                *)
(***************************************************************************)

(* A thread that has begun DispatchPending runs it to its end (it blocks   *)
(* on nothing), and a thread that waits for the write lock gets it: Go's   *)
(* mutexes hand over to a waiter that has been starved.  Nothing is        *)
(* assumed about requests, the checker or the clock.                       *)
Fairness ==
  \A h \in Threads :
    /\ SF_vars(DispatchBegin(h))
    /\ WF_vars(lock = h /\ Dispatch(h))

LiveSpec == Spec /\ Fairness

(* When from some time on there is always a live node with room, no task   *)
(* stays pending: the dispatches the handlers owe are enough, without any  *)
(* tick of the checker.                                                    *)
StableRoomDrains ==
  <>[](\E w \in DOMAIN nodes : LiveWithRoom(w)) => <>[](Pending = {})

-----------------------------------------------------------------------------
(***************************************************************************)
(* What a comment of the code says and the code does not keep              *)
(***************************************************************************)

(* model.Node: Capacity is the upper limit of the tasks a worker executes  *)
(* concurrently.  A heartbeat that was counted before a placement          *)
(* overwrites RunningTasks after it, and the slot is given out again.      *)
WithinCapacity ==
  \A w \in DOMAIN nodes : Cardinality(RunningOn(w)) <= nodes[w].capacity
=============================================================================
