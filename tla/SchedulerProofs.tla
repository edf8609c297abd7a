--------------------------- MODULE SchedulerProofs ---------------------------
(***************************************************************************)
(* Proofs about Scheduler.tla for any number of workers, handlers, tasks   *)
(* and any bound on the clock, and about the loop of selectNodeLocked      *)
(* (SelectNode): it returns the least loaded selectable node, the first in *)
(* rotation order among equivalent ones, for any number of nodes and any   *)
(* loads whose products fit in an int64.                                   *)
(***************************************************************************)
EXTENDS Scheduler, SelectNode, SequenceTheorems, FiniteSetTheorems, TLAPS

-----------------------------------------------------------------------------
(***************************************************************************)
(* Lemmas                                                                  *)
(***************************************************************************)

(* Deriving a node's status again changes nothing else of the node. *)
LEMMA DerivedFacts ==
  ASSUME NEW node \in Node, NEW now \in Int
  PROVE  /\ Derived(node, now) \in Node
         /\ Derived(node, now).capacity = node.capacity
         /\ Derived(node, now).runningTasks = node.runningTasks
         /\ Derived(node, now).lastHeartbeat = node.lastHeartbeat
         /\ Derived(node, now).status = DeriveNodeState(node, now)
BY SchedulerAssumption DEF Derived, DeriveNodeState, Node, NodeStates

(* refreshNodeStatesLocked keeps the nodes and all but their status. *)
LEMMA RefreshFacts ==
  ASSUME TypeOK, NEW now \in Int
  PROVE  LET r == refreshNodeStatesLocked(now)
         IN  /\ DOMAIN r = DOMAIN nodes
             /\ r \in [DOMAIN nodes -> Node]
             /\ \A w \in DOMAIN nodes :
                  /\ r[w].capacity = nodes[w].capacity
                  /\ r[w].runningTasks = nodes[w].runningTasks
                  /\ r[w].lastHeartbeat = nodes[w].lastHeartbeat
                  /\ r[w].status = DeriveNodeState(nodes[w], now)
<1>1. \A w \in DOMAIN nodes : nodes[w] \in Node
  BY DEF TypeOK
<1> QED
  BY <1>1, DerivedFacts DEF refreshNodeStatesLocked

-----------------------------------------------------------------------------
(***************************************************************************)
(* Type correctness                                                        *)
(***************************************************************************)

(* A node with one more running task, as assignTaskLocked leaves it, is a  *)
(* node with the same capacity and heartbeat.                              *)
LEMMA OneMore ==
  ASSUME NEW n \in Node
  PROVE  LET more == [n EXCEPT !.runningTasks = @ + 1]
         IN  /\ more \in Node
             /\ more.capacity = n.capacity
             /\ more.runningTasks = n.runningTasks + 1
             /\ more.lastHeartbeat = n.lastHeartbeat
BY DEF Node

(* The store stays well formed in every reachable state: positive          *)
(* capacities, counters that never go below 0 although Complete decrements *)
(* them, and no instant of the future in a handler's hands.                *)
THEOREM TypeCorrect == Spec => []TypeOK
<1>1. Init => TypeOK
  <2> SUFFICES ASSUME Init PROVE TypeOK
    OBVIOUS
  <2>1. DOMAIN nodes = {} /\ nodes \in [DOMAIN nodes -> Node]
    BY DEF Init
  <2> QED
    BY <2>1, SchedulerAssumption DEF Init, TypeOK, NoTime, Threads
<1>2. TypeOK /\ [Next]_vars => TypeOK'
  <2> SUFFICES ASSUME TypeOK, [Next]_vars PROVE TypeOK'
    OBVIOUS
  <2> USE SchedulerAssumption
  <2>1. ASSUME NEW h \in Handlers, NEW now \in Instants, NEW w \in Workers,
               NEW c \in Capacities, Register(h, w, c, now)
        PROVE  TypeOK'
    <3> DEFINE node == [capacity      |-> IF c <= 0 THEN 1 ELSE c,
                        runningTasks  |-> IF w \in DOMAIN nodes
                                          THEN nodes[w].runningTasks ELSE 0,
                        lastHeartbeat |-> now,
                        status        |-> "ready"]
    <3>1. node \in Node
      BY DEF TypeOK, Node, NodeStates, Instants
    <3>2. Derived(node, now) \in Node
      BY <3>1, DerivedFacts DEF Instants, TypeOK
    <3>3. /\ DOMAIN nodes' \subseteq Workers
          /\ nodes' \in [DOMAIN nodes' -> Node]
      BY <2>1, <3>2 DEF Register, TypeOK
    <3>4. nodeOrder' \in Seq(Workers)
      BY <2>1, AppendProperties DEF Register, JoinOrder, TypeOK
    <3> QED
      BY <2>1, <3>3, <3>4 DEF Register, Owes, TypeOK, Instants, Threads
  <2>2. ASSUME NEW h \in Handlers, NEW now \in Instants, NEW w \in Workers,
               NEW r \in Reports, Heartbeat(h, w, r, now)
        PROVE  TypeOK'
    <3> DEFINE node == [nodes[w] EXCEPT
                          !.runningTasks  = IF r < 0 THEN 0 ELSE r,
                          !.lastHeartbeat = now]
    <3>1. node \in Node
      <4>1. nodes[w] \in Node
        BY <2>2 DEF Heartbeat, TypeOK
      <4> DEFINE count == IF r < 0 THEN 0 ELSE r
      <4>2. now \in Nat /\ count \in Nat
        BY DEF TypeOK, Instants
      <4>3. node = [nodes[w] EXCEPT !.runningTasks = count, !.lastHeartbeat = now]
        OBVIOUS
      <4> HIDE DEF count, node
      <4> QED
        BY <4>1, <4>2, <4>3, Zenon DEF Node
    <3>2. Derived(node, now) \in Node
      BY <3>1, DerivedFacts DEF Instants, TypeOK
    <3>3. /\ DOMAIN nodes' \subseteq Workers
          /\ nodes' \in [DOMAIN nodes' -> Node]
      BY <2>2, <3>2 DEF Heartbeat, TypeOK
    <3> QED
      BY <2>2, <3>3 DEF Heartbeat, Owes, TypeOK, Instants, Threads
  <2>3. ASSUME NEW h \in Handlers, NEW now \in Instants, Submit(h, now)
        PROVE  TypeOK'
    <3>1. [status |-> "pending", worker |-> NoWorker,
           created |-> now, started |-> NoTime] \in Task
      BY DEF Task, TaskStates, Instants, TypeOK
    <3>2. tasks' \in Seq(Task)
      BY <2>3, <3>1, AppendProperties DEF Submit, TypeOK
    <3> QED
      BY <2>3, <3>2 DEF Submit, Owes, TypeOK, Instants, Threads
  <2>4. ASSUME NEW h \in Handlers, NEW now \in Instants, NEW t \in DOMAIN tasks,
               NEW success \in BOOLEAN, Complete(h, t, success, now)
        PROVE  TypeOK'
    <3>1. tasks[t] \in Task /\ t \in 1 .. Len(tasks)
      BY DEF TypeOK
    <3>2. tasks' \in Seq(Task)
      <4> DEFINE done == [tasks[t] EXCEPT !.status = IF success THEN "completed"
                                                                ELSE "failed"]
      <4>1. done \in Task
        BY <3>1 DEF Task, TaskStates
      <4>2. tasks' = [tasks EXCEPT ![t] = done]
        BY <2>4 DEF Complete
      <4> HIDE DEF done
      <4> QED
        BY <3>1, <4>1, <4>2, ExceptSeq DEF TypeOK
    <3>3. /\ DOMAIN nodes' \subseteq Workers
          /\ nodes' \in [DOMAIN nodes' -> Node]
      <4>1. ASSUME NEW w \in DOMAIN nodes PROVE Released(w) \in Node
        <5>1. nodes[w] \in Node
          BY DEF TypeOK
        <5> QED
          BY <5>1 DEF Node, Released
      <4> QED
        BY <2>4, <4>1 DEF Complete, HoldsSlot, TypeOK
    <3> QED
      BY <2>4, <3>2, <3>3 DEF Complete, Owes, TypeOK, Instants, Threads
  <2>5. ASSUME NEW now \in Instants, Overview(now) PROVE TypeOK'
    BY <2>5, RefreshFacts DEF Overview, TypeOK, Instants
  <2>6. ASSUME NEW now \in Instants, CheckerTick(now) PROVE TypeOK'
    BY <2>6, RefreshFacts DEF CheckerTick, Owes, TypeOK, Instants, Threads
  <2>7. ASSUME NEW h \in Threads, DispatchBegin(h) PROVE TypeOK'
    <3>1. due[h] \in Int
      BY DEF TypeOK, NoTime
    <3> QED
      BY <2>7, <3>1, RefreshFacts DEF DispatchBegin, TypeOK
  <2>8. ASSUME NEW h \in Threads, NEW t \in DOMAIN tasks,
               NEW i \in 0 .. (Len(nodeOrder) - 1), DispatchAssign(h, t, i)
        PROVE  TypeOK'
    <3> DEFINE w    == nodeOrder[i + 1]
               node == [nodes[w] EXCEPT !.runningTasks = @ + 1]
               placed == [tasks[t] EXCEPT !.status = "running", !.worker = w,
                                          !.started = due[h]]
    <3>1. w \in Workers /\ nextNodeIndex' \in Nat
      BY <2>8 DEF DispatchAssign, TypeOK
    <3>2. due[h] \in Int /\ due[h] \in Nat \cup {NoTime}
      BY DEF TypeOK, NoTime
    <3>3. w \in DOMAIN nodes => Derived(node, due[h]) \in Node
      <4>1. w \in DOMAIN nodes => nodes[w] \in Node
        BY DEF TypeOK
      <4>2. w \in DOMAIN nodes => node \in Node
        BY <4>1, OneMore
      <4> QED
        BY <3>2, <4>2, DerivedFacts, Zenon
    <3>4. tasks' \in Seq(Task)
      <4>1. placed \in Task
        <5>1. tasks[t] \in Task
          BY DEF TypeOK
        <5> QED
          BY <3>1, <3>2, <5>1, Zenon DEF Task, TaskStates
      <4>2. tasks' = [tasks EXCEPT ![t] = placed] /\ t \in 1 .. Len(tasks)
        BY <2>8 DEF DispatchAssign, Placed, TypeOK
      <4> HIDE DEF placed
      <4> QED
        BY <4>1, <4>2, ExceptSeq DEF TypeOK
    <3> HIDE DEF node
    <3>5. nodes' = [nodes EXCEPT ![w] = Derived(node, due[h])]
      BY <2>8 DEF DispatchAssign, node
    <3> QED
      BY <2>8, <3>1, <3>3, <3>4, <3>5, Zenon DEF DispatchAssign, TypeOK
  <2>9. ASSUME NEW h \in Threads, DispatchEnd(h) PROVE TypeOK'
    BY <2>9 DEF DispatchEnd, TypeOK
  <2>10. CASE Tick
    BY <2>10 DEF Tick, TypeOK, NoTime
  <2>11. CASE UNCHANGED vars
    BY <2>11 DEF vars, TypeOK
  <2> QED
    BY <2>1, <2>2, <2>3, <2>4, <2>5, <2>6, <2>7, <2>8, <2>9, <2>10, <2>11
       DEF Next, Request, Refresh, Dispatch
<1> QED
  BY <1>1, <1>2, PTL DEF Spec

-----------------------------------------------------------------------------
(***************************************************************************)
(* The registry                                                            *)
(***************************************************************************)

(* Only a first registration changes the set of nodes and NodeOrder, and   *)
(* it appends the new worker to the latter and leaves the tasks alone.     *)
LEMMA RegistrySteps ==
  ASSUME TypeOK, [Next]_vars
  PROVE  \/ DOMAIN nodes' = DOMAIN nodes /\ nodeOrder' = nodeOrder
         \/ \E w \in Workers \ DOMAIN nodes :
              /\ DOMAIN nodes' = DOMAIN nodes \cup {w}
              /\ nodeOrder' = Append(nodeOrder, w)
              /\ UNCHANGED <<tasks, nextNodeIndex>>
<1>1. ASSUME NEW now, nodes' = refreshNodeStatesLocked(now)
      PROVE  DOMAIN nodes' = DOMAIN nodes
  BY <1>1 DEF refreshNodeStatesLocked
<1>2. CASE Request
  <2>1. ASSUME NEW h \in Handlers, NEW now \in Instants, NEW w \in Workers,
               NEW c \in Capacities, Register(h, w, c, now)
        PROVE  IF w \in DOMAIN nodes
               THEN DOMAIN nodes' = DOMAIN nodes /\ nodeOrder' = nodeOrder
               ELSE /\ DOMAIN nodes' = DOMAIN nodes \cup {w}
                    /\ nodeOrder' = Append(nodeOrder, w)
                    /\ UNCHANGED <<tasks, nextNodeIndex>>
    BY <2>1, Zenon DEF Register, JoinOrder
  <2>2. ASSUME NEW h \in Handlers, NEW now \in Instants, NEW w \in Workers,
               NEW r \in Reports, Heartbeat(h, w, r, now)
        PROVE  DOMAIN nodes' = DOMAIN nodes /\ nodeOrder' = nodeOrder
    BY <2>2 DEF Heartbeat
  <2>3. ASSUME NEW h \in Handlers, NEW now \in Instants, Submit(h, now)
        PROVE  DOMAIN nodes' = DOMAIN nodes /\ nodeOrder' = nodeOrder
    BY <2>3 DEF Submit
  <2>4. ASSUME NEW h \in Handlers, NEW now \in Instants,
               NEW t \in DOMAIN tasks, NEW success \in BOOLEAN,
               Complete(h, t, success, now)
        PROVE  DOMAIN nodes' = DOMAIN nodes /\ nodeOrder' = nodeOrder
    BY <2>4 DEF Complete
  <2> QED
    BY <1>2, <2>1, <2>2, <2>3, <2>4, Zenon DEF Request
<1>3. CASE Refresh
  BY <1>3, <1>1 DEF Refresh, Overview, CheckerTick
<1>4. ASSUME NEW h \in Threads, Dispatch(h)
      PROVE  DOMAIN nodes' = DOMAIN nodes /\ nodeOrder' = nodeOrder
  BY <1>4, <1>1, Zenon DEF Dispatch, DispatchBegin, DispatchAssign, DispatchEnd
<1>5. CASE Tick
  BY <1>5 DEF Tick
<1>6. CASE UNCHANGED vars
  BY <1>6 DEF vars
<1> QED
  BY <1>2, <1>3, <1>4, <1>5, <1>6, Zenon DEF Next

(* A request finds the lock free and leaves it free, does not rotate, and  *)
(* ends with a dispatch to do.                                             *)
LEMMA RequestEffects ==
  ASSUME Request
  PROVE  /\ lock = Free /\ lock' = Free
         /\ nextNodeIndex' = nextNodeIndex
         /\ \E h \in Handlers, now \in Instants : Owes(h, now)
<1> DEFINE Effects(h, now) == /\ lock = Free /\ lock' = Free
                              /\ nextNodeIndex' = nextNodeIndex
                              /\ Owes(h, now)
<1>1. ASSUME NEW h \in Handlers, NEW now \in Instants, NEW w \in Workers,
             NEW c \in Capacities, Register(h, w, c, now)
      PROVE  Effects(h, now)
  BY <1>1 DEF Register, Idle
<1>2. ASSUME NEW h \in Handlers, NEW now \in Instants, NEW w \in Workers,
             NEW r \in Reports, Heartbeat(h, w, r, now)
      PROVE  Effects(h, now)
  BY <1>2 DEF Heartbeat, Idle
<1>3. ASSUME NEW h \in Handlers, NEW now \in Instants, Submit(h, now)
      PROVE  Effects(h, now)
  BY <1>3 DEF Submit, Idle
<1>4. ASSUME NEW h \in Handlers, NEW now \in Instants,
             NEW t \in DOMAIN tasks, NEW success \in BOOLEAN,
             Complete(h, t, success, now)
      PROVE  Effects(h, now)
  BY <1>4 DEF Complete, Idle
<1>5. PICK h \in Handlers, now \in Instants : Effects(h, now)
  <2> HIDE DEF Effects
  <2> QED
    BY <1>1, <1>2, <1>3, <1>4 DEF Request
<1> QED
  BY <1>5

(* Apart from a placement, no step moves NextNodeIndex; a placement leaves *)
(* it inside NodeOrder.                                                    *)
LEMMA RotationSteps ==
  ASSUME TypeOK, [Next]_vars
  PROVE  nextNodeIndex' = nextNodeIndex \/ nextNodeIndex' < Len(nodeOrder)
<1>1. ASSUME NEW h \in Threads, NEW t \in DOMAIN tasks,
             NEW i \in 0 .. (Len(nodeOrder) - 1), DispatchAssign(h, t, i)
      PROVE  nextNodeIndex' < Len(nodeOrder)
  <2>1. Len(nodeOrder) \in Nat \ {0}
    BY DEF TypeOK
  <2> QED
    BY <1>1, <2>1 DEF DispatchAssign
<1> QED
  BY <1>1, RequestEffects DEF Next, Refresh, Dispatch, Overview, CheckerTick,
     DispatchBegin, DispatchEnd, Tick, vars

(* NodeOrder is a listing of the registered workers without repetition and *)
(* NextNodeIndex points into it.                                           *)
THEOREM RegistryCorrect == Spec => []RegistryConsistent
<1>1. Init => RegistryConsistent
  BY DEF Init, RegistryConsistent
<1>2. TypeOK /\ RegistryConsistent /\ [Next]_vars => RegistryConsistent'
  <2> SUFFICES ASSUME TypeOK, RegistryConsistent, [Next]_vars
               PROVE  RegistryConsistent'
    OBVIOUS
  <2>1. CASE DOMAIN nodes' = DOMAIN nodes /\ nodeOrder' = nodeOrder
    BY <2>1, RotationSteps DEF RegistryConsistent
  <2>2. ASSUME NEW w \in Workers \ DOMAIN nodes,
               DOMAIN nodes' = DOMAIN nodes \cup {w},
               nodeOrder' = Append(nodeOrder, w),
               nextNodeIndex' = nextNodeIndex
        PROVE  RegistryConsistent'
    <3>1. /\ Len(nodeOrder) \in Nat
          /\ DOMAIN nodeOrder = 1 .. Len(nodeOrder)
          /\ DOMAIN nodeOrder' = 1 .. (Len(nodeOrder) + 1)
          /\ Len(nodeOrder') = Len(nodeOrder) + 1
          /\ \A i \in 1 .. Len(nodeOrder) : nodeOrder'[i] = nodeOrder[i]
          /\ nodeOrder'[Len(nodeOrder) + 1] = w
      BY <2>2, AppendProperties, LenProperties DEF TypeOK
    <3>2. \A i \in 1 .. Len(nodeOrder) : nodeOrder[i] \in DOMAIN nodes
      BY <3>1 DEF RegistryConsistent
    <3>3. DOMAIN nodes' = {nodeOrder'[i] : i \in DOMAIN nodeOrder'}
      BY <2>2, <3>1, <3>2 DEF RegistryConsistent
    <3>4. \A i, j \in DOMAIN nodeOrder' : nodeOrder'[i] = nodeOrder'[j] => i = j
      BY <2>2, <3>1, <3>2 DEF RegistryConsistent
    <3>5. nextNodeIndex' = 0 \/ nextNodeIndex' < Len(nodeOrder')
      BY <2>2, <3>1 DEF RegistryConsistent, TypeOK
    <3> QED
      BY <3>3, <3>4, <3>5 DEF RegistryConsistent
  <2> QED
    BY <2>1, <2>2, RegistrySteps, Zenon
<1> QED
  BY <1>1, <1>2, TypeCorrect, PTL DEF Spec

-----------------------------------------------------------------------------
(***************************************************************************)
(* Tasks and their placement                                               *)
(***************************************************************************)

(* What a placement chooses: a registered, selectable node. *)
LEMMA SelectedFacts ==
  ASSUME TypeOK, RegistryConsistent, NEW i \in 0 .. (Len(nodeOrder) - 1),
         IsSelected(i)
  PROVE  /\ nodeOrder[i + 1] \in DOMAIN nodes
         /\ nodeOrder[i + 1] \in Workers
         /\ Selectable(nodes[nodeOrder[i + 1]])
<1>1. i + 1 \in DOMAIN nodeOrder
  BY DEF TypeOK
<1>2. nodeOrder[i + 1] \in DOMAIN nodes /\ nodeOrder[i + 1] \in Workers
  BY <1>1 DEF RegistryConsistent, TypeOK
<1>3. i \in Candidates
  BY DEF IsSelected, IsBest
<1> QED
  BY <1>2, <1>3 DEF Candidates, NodeAt

(* The three ways a step can change the tasks: a submission appends a      *)
(* pending one, a report overwrites a status, and a placement turns a      *)
(* pending task into a running one on a registered node.                   *)
TaskAdded ==
  \E now \in Nat :
    tasks' = Append(tasks, [status |-> "pending", worker |-> NoWorker,
                            created |-> now, started |-> NoTime])

TaskReported ==
  \E t \in DOMAIN tasks, s \in {"completed", "failed"} :
    tasks' = [tasks EXCEPT ![t].status = s]

TaskPlaced ==
  \E t \in DOMAIN tasks, w \in DOMAIN nodes :
    /\ lock # Free
    /\ tasks[t].status = "pending"
    /\ Selectable(nodes[w])
    /\ tasks' = [tasks EXCEPT ![t] = [@ EXCEPT !.status = "running",
                                              !.worker = w,
                                              !.started = due[lock]]]
    /\ nodes' = [nodes EXCEPT ![w] =
                   Derived([nodes[w] EXCEPT !.runningTasks = @ + 1], due[lock])]

(* There is no other. *)
LEMMA TaskSteps ==
  ASSUME TypeOK, RegistryConsistent, [Next]_vars
  PROVE  tasks' = tasks \/ TaskAdded \/ TaskReported \/ TaskPlaced
<1>1. ASSUME NEW h \in Handlers, NEW now \in Instants, Submit(h, now)
      PROVE  TaskAdded
  BY <1>1 DEF Submit, TaskAdded, Instants, TypeOK
<1>2. ASSUME NEW h \in Handlers, NEW now \in Instants, NEW t \in DOMAIN tasks,
             NEW success \in BOOLEAN, Complete(h, t, success, now)
      PROVE  TaskReported
  BY <1>2, Zenon DEF Complete, TaskReported
<1>3. ASSUME NEW h \in Threads, NEW t \in DOMAIN tasks,
             NEW i \in 0 .. (Len(nodeOrder) - 1), DispatchAssign(h, t, i)
      PROVE  TaskPlaced
  <2>1. /\ nodeOrder[i + 1] \in DOMAIN nodes
        /\ Selectable(nodes[nodeOrder[i + 1]])
    BY <1>3, SelectedFacts DEF DispatchAssign
  <2>2. lock = h /\ lock # Free /\ tasks[t].status = "pending"
    BY <1>3, SchedulerAssumption DEF DispatchAssign, IsHead, Pending, Threads
  <2> QED
    BY <1>3, <2>1, <2>2, Zenon DEF DispatchAssign, Placed, TaskPlaced
<1>4. \/ TaskAdded \/ TaskReported \/ TaskPlaced
      \/ \E h \in Handlers, now \in Instants, w \in Workers :
           \/ \E c \in Capacities : Register(h, w, c, now)
           \/ \E r \in Reports : Heartbeat(h, w, r, now)
      \/ Refresh \/ Tick \/ UNCHANGED vars
      \/ \E h \in Threads : DispatchBegin(h) \/ DispatchEnd(h)
  BY <1>1, <1>2, <1>3, Zenon DEF Next, Request, Dispatch
<1> QED
  BY <1>4, Zenon DEF Register, Heartbeat, Refresh, Overview, CheckerTick, Tick, vars,
     DispatchBegin, DispatchEnd

(* What each way of changing the tasks does to task t. *)
LEMMA TaskEffects ==
  ASSUME TypeOK, RegistryConsistent, [Next]_vars
  PROVE  /\ DOMAIN tasks \subseteq DOMAIN tasks'
         /\ \A t \in DOMAIN tasks' :
              \/ t \in DOMAIN tasks /\ tasks'[t] = tasks[t]
              \/ /\ t \notin DOMAIN tasks
                 /\ tasks'[t].status = "pending"
                 /\ tasks'[t].worker = NoWorker
                 /\ tasks'[t].started = NoTime
              \/ /\ t \in DOMAIN tasks
                 /\ tasks'[t].status \in {"completed", "failed"}
                 /\ tasks'[t].worker = tasks[t].worker
                 /\ tasks'[t].started = tasks[t].started
              \/ /\ t \in DOMAIN tasks
                 /\ lock # Free
                 /\ tasks[t].status = "pending"
                 /\ tasks'[t].status = "running"
                 /\ tasks'[t].worker \in DOMAIN nodes
                 /\ tasks'[t].started = due[lock]
<1>0. /\ Len(tasks) \in Nat /\ DOMAIN tasks = 1 .. Len(tasks)
      /\ \A t \in DOMAIN tasks : tasks[t] \in Task
  BY DEF TypeOK
<1>1. CASE tasks' = tasks
  BY <1>1
<1>2. CASE TaskAdded
  <2>1. PICK now \in Nat :
          tasks' = Append(tasks, [status |-> "pending", worker |-> NoWorker,
                                  created |-> now, started |-> NoTime])
    BY <1>2 DEF TaskAdded
  <2> DEFINE new == [status |-> "pending", worker |-> NoWorker,
                     created |-> now, started |-> NoTime]
  <2>2. new \in Task /\ new.status = "pending" /\ new.worker = NoWorker
        /\ new.started = NoTime
    BY DEF Task, TaskStates
  <2> HIDE DEF new
  <2>3. /\ DOMAIN tasks' = 1 .. (Len(tasks) + 1)
        /\ \A t \in 1 .. Len(tasks) : tasks'[t] = tasks[t]
        /\ tasks'[Len(tasks) + 1] = new
    <3>1. tasks' = Append(tasks, new) /\ tasks \in Seq(Task)
      BY <2>1 DEF new, TypeOK
    <3> QED
      BY <3>1, <2>2, AppendProperties, LenProperties
  <2> QED
    BY <1>0, <2>2, <2>3
<1>3. CASE TaskReported
  <2>1. PICK t \in DOMAIN tasks, s \in {"completed", "failed"} :
          tasks' = [tasks EXCEPT ![t].status = s]
    BY <1>3, Zenon DEF TaskReported
  <2>2. tasks[t] \in Task
    BY <1>0
  <2>3. /\ tasks'[t].status = s
        /\ tasks'[t].worker = tasks[t].worker
        /\ tasks'[t].started = tasks[t].started
    BY <2>1, <2>2 DEF Task
  <2>4. DOMAIN tasks' = DOMAIN tasks
        /\ \A u \in DOMAIN tasks : u # t => tasks'[u] = tasks[u]
    BY <2>1
  <2> QED
    BY <2>3, <2>4
<1>4. CASE TaskPlaced
  <2>1. PICK t \in DOMAIN tasks, w \in DOMAIN nodes :
          /\ lock # Free
          /\ tasks[t].status = "pending"
          /\ tasks' = [tasks EXCEPT ![t] = [@ EXCEPT !.status = "running",
                                                    !.worker = w,
                                                    !.started = due[lock]]]
    BY <1>4, Zenon DEF TaskPlaced
  <2>2. tasks[t] \in Task
    BY <1>0
  <2>3. /\ tasks'[t].status = "running"
        /\ tasks'[t].worker = w
        /\ tasks'[t].started = due[lock]
    BY <2>1, <2>2, Zenon DEF Task
  <2>4. DOMAIN tasks' = DOMAIN tasks
        /\ \A u \in DOMAIN tasks : u # t => tasks'[u] = tasks[u]
    BY <2>1
  <2> QED
    BY <2>1, <2>3, <2>4
<1> QED
  BY <1>1, <1>2, <1>3, <1>4, TaskSteps

-----------------------------------------------------------------------------
(***************************************************************************)
(* Dispatching                                                             *)
(***************************************************************************)

(* Outside a dispatch no step touches the lock. *)
LEMMA LockSteps ==
  ASSUME TypeOK, [Next]_vars, lock' # Free
  PROVE  \/ UNCHANGED <<nodes, due, lock>>
         \/ \E h \in Threads : DispatchBegin(h)
         \/ \E h \in Threads, t \in DOMAIN tasks, i \in 0 .. (Len(nodeOrder) - 1) :
              DispatchAssign(h, t, i)
<1>1. CASE Request
  BY <1>1, RequestEffects
<1>2. CASE Refresh
  BY <1>2 DEF Refresh, Overview, CheckerTick, Idle
<1>3. ASSUME NEW h \in Threads, Dispatch(h), ~DispatchBegin(h)
      PROVE  \E t \in DOMAIN tasks, i \in 0 .. (Len(nodeOrder) - 1) :
               DispatchAssign(h, t, i)
  BY <1>3 DEF Dispatch, DispatchEnd
<1>4. CASE Tick \/ UNCHANGED vars
  BY <1>4 DEF Tick, vars
<1> QED
  BY <1>1, <1>2, <1>3, <1>4 DEF Next

(* The statuses a dispatch works with are derived from its own instant,    *)
(* whatever older or newer refresh came before it.                         *)
THEOREM DispatchRefreshCorrect == Spec => []DispatchSeesOwnRefresh
<1>1. Init => DispatchSeesOwnRefresh
  BY DEF Init, DispatchSeesOwnRefresh
<1>2. TypeOK /\ RegistryConsistent /\ DispatchSeesOwnRefresh /\ [Next]_vars
        => DispatchSeesOwnRefresh'
  <2> SUFFICES ASSUME TypeOK, RegistryConsistent, DispatchSeesOwnRefresh,
                      [Next]_vars, lock' # Free
               PROVE  DispatchSeesOwnRefresh'
    BY DEF DispatchSeesOwnRefresh
  <2>1. CASE UNCHANGED <<nodes, due, lock>>
    BY <2>1 DEF DispatchSeesOwnRefresh
  <2>2. ASSUME NEW h \in Threads, DispatchBegin(h)
        PROVE  DispatchSeesOwnRefresh'
    <3>1. due[h] \in Int /\ due[h] # NoTime
      BY <2>2 DEF DispatchBegin, TypeOK, NoTime
    <3>2. /\ DOMAIN nodes' = DOMAIN nodes
          /\ \A w \in DOMAIN nodes :
               /\ nodes'[w].lastHeartbeat = nodes[w].lastHeartbeat
               /\ nodes'[w].status = DeriveNodeState(nodes[w], due[h])
      BY <2>2, <3>1, RefreshFacts DEF DispatchBegin
    <3> QED
      BY <2>2, <3>1, <3>2
         DEF DispatchBegin, DispatchSeesOwnRefresh, DeriveNodeState
  <2>3. ASSUME NEW h \in Threads, NEW t \in DOMAIN tasks,
               NEW i \in 0 .. (Len(nodeOrder) - 1), DispatchAssign(h, t, i)
        PROVE  DispatchSeesOwnRefresh'
    <3> DEFINE w    == nodeOrder[i + 1]
               node == [nodes[w] EXCEPT !.runningTasks = @ + 1]
    <3>1. w \in DOMAIN nodes /\ due[h] \in Int /\ nodes[w] \in Node
      BY <2>3, SelectedFacts DEF DispatchAssign, TypeOK, NoTime
    <3>2. node \in Node /\ node.lastHeartbeat = nodes[w].lastHeartbeat
      BY <3>1, OneMore
    <3> HIDE DEF node
    <3>3. nodes' = [nodes EXCEPT ![w] = Derived(node, due[h])]
      BY <2>3 DEF DispatchAssign, node
    <3>4. /\ nodes'[w].lastHeartbeat = nodes[w].lastHeartbeat
          /\ nodes'[w].status = DeriveNodeState(node, due[h])
      BY <3>1, <3>2, <3>3, DerivedFacts, Zenon
    <3>5. nodes'[w].status = "offline" <=>
            due[h] - nodes'[w].lastHeartbeat > OfflineAfter
      BY <3>2, <3>4 DEF DeriveNodeState
    <3>6. /\ DOMAIN nodes' = DOMAIN nodes
          /\ \A v \in DOMAIN nodes : v # w => nodes'[v] = nodes[v]
      BY <3>3
    <3> HIDE DEF w
    <3> QED
      BY <2>3, <3>5, <3>6 DEF DispatchAssign, DispatchSeesOwnRefresh
  <2> QED
    BY <2>1, <2>2, <2>3, LockSteps
<1> QED
  BY <1>1, <1>2, TypeCorrect, RegistryCorrect, PTL DEF Spec

(* Exactly the tasks that have been placed name a worker, it is registered *)
(* and they have a start time; every running task has been placed.         *)
THEOREM AssignmentCorrect == Spec => []AssignmentConsistent
<1>1. Init => AssignmentConsistent
  BY DEF Init, AssignmentConsistent
<1>2. TypeOK /\ RegistryConsistent /\ DispatchSeesOwnRefresh
        /\ AssignmentConsistent /\ [Next]_vars => AssignmentConsistent'
  <2> SUFFICES ASSUME TypeOK, RegistryConsistent, DispatchSeesOwnRefresh,
                      AssignmentConsistent, [Next]_vars,
                      NEW t \in DOMAIN tasks'
               PROVE  AssignmentConsistent!(t)'
    BY DEF AssignmentConsistent
  <2>1. /\ DOMAIN nodes \subseteq DOMAIN nodes'
        /\ DOMAIN nodes' \subseteq Workers
        /\ NoWorker \notin Workers
    BY RegistrySteps, SchedulerAssumption, Zenon DEF TypeOK
  <2> QED
    BY <2>1, TaskEffects DEF AssignmentConsistent, DispatchSeesOwnRefresh
<1> QED
  BY <1>1, <1>2, TypeCorrect, RegistryCorrect, DispatchRefreshCorrect, PTL
     DEF Spec

(* A node whose status has just been derived and is "ready" has room. *)
LEMMA ReadyMeansRoom ==
  ASSUME NEW node \in Node, NEW now \in Int,
         DeriveNodeState(node, now) = "ready"
  PROVE  node.runningTasks < node.capacity
BY SchedulerAssumption DEF DeriveNodeState, Node

(* No stale "ready" survives a registration, heartbeat, report or          *)
(* placement.                                                              *)
THEOREM ReadyCorrect == Spec => []ReadyHasRoom
<1>1. Init => ReadyHasRoom
  BY DEF Init, ReadyHasRoom
<1>2. TypeOK /\ TypeOK' /\ ReadyHasRoom /\ [Next]_vars => ReadyHasRoom'
  <2> SUFFICES ASSUME TypeOK, TypeOK', ReadyHasRoom, [Next]_vars,
                      NEW v \in DOMAIN nodes', nodes'[v].status = "ready"
               PROVE  nodes'[v].runningTasks < nodes'[v].capacity
    BY DEF ReadyHasRoom
  <2>0. nodes'[v] \in Node
    BY DEF TypeOK
  (* Every node a step changes, other than by Released, has been derived. *)
  <2>1. ASSUME NEW node, NEW now \in Int, node \in Node,
               nodes'[v] = Derived(node, now)
        PROVE  nodes'[v].runningTasks < nodes'[v].capacity
    BY <2>1, DerivedFacts, ReadyMeansRoom
  <2>2. ASSUME v \in DOMAIN nodes, nodes'[v] = nodes[v]
        PROVE  nodes'[v].runningTasks < nodes'[v].capacity
    BY <2>2 DEF ReadyHasRoom
  <2>3. ASSUME NEW now \in Int, nodes' = refreshNodeStatesLocked(now)
        PROVE  nodes'[v].runningTasks < nodes'[v].capacity
    <3>1. v \in DOMAIN nodes /\ nodes[v] \in Node
      BY <2>3 DEF refreshNodeStatesLocked, TypeOK
    <3> QED
      BY <2>1, <2>3, <3>1 DEF refreshNodeStatesLocked
  <2>4. \A h \in Threads : due[h] \in Int
    BY DEF TypeOK, NoTime
  <2>5. ASSUME NEW h \in Handlers, NEW now \in Instants, NEW w \in Workers,
               NEW c \in Capacities, Register(h, w, c, now)
        PROVE  nodes'[v].runningTasks < nodes'[v].capacity
    <3> DEFINE node == [capacity      |-> IF c <= 0 THEN 1 ELSE c,
                        runningTasks  |-> IF w \in DOMAIN nodes
                                          THEN nodes[w].runningTasks ELSE 0,
                        lastHeartbeat |-> now,
                        status        |-> "ready"]
    <3>1. node \in Node /\ now \in Int
      <4>1. now \in Nat /\ c \in Int
        BY SchedulerAssumption DEF TypeOK, Instants
      <4>2. w \in DOMAIN nodes => nodes[w].runningTasks \in Nat
        BY DEF TypeOK, Node
      <4> QED
        BY <4>1, <4>2 DEF Node, NodeStates
    <3> HIDE DEF node
    <3>2. nodes' = [u \in DOMAIN nodes \cup {w} |->
                      IF u = w THEN Derived(node, now) ELSE nodes[u]]
      BY <2>5 DEF Register, node
    <3> QED
      BY <2>1, <2>2, <3>1, <3>2
  <2>6. ASSUME NEW h \in Handlers, NEW now \in Instants, NEW w \in Workers,
               NEW r \in Reports, Heartbeat(h, w, r, now)
        PROVE  nodes'[v].runningTasks < nodes'[v].capacity
    <3> DEFINE count == IF r < 0 THEN 0 ELSE r
               node  == [nodes[w] EXCEPT !.runningTasks  = count,
                                         !.lastHeartbeat = now]
    <3>1. nodes[w] \in Node /\ now \in Nat /\ count \in Nat
      BY <2>6, SchedulerAssumption DEF Heartbeat, TypeOK, Instants
    <3>2. nodes' = [nodes EXCEPT ![w] = Derived(node, now)]
      BY <2>6 DEF Heartbeat
    <3> HIDE DEF count
    <3>3. node \in Node
      BY <3>1, Zenon DEF Node
    <3> HIDE DEF node
    <3> QED
      BY <2>1, <2>2, <3>1, <3>2, <3>3
  <2>7. ASSUME NEW h \in Handlers, NEW now \in Instants, NEW t \in DOMAIN tasks,
               NEW success \in BOOLEAN, Complete(h, t, success, now)
        PROVE  nodes'[v].runningTasks < nodes'[v].capacity
    <3>1. CASE nodes' = nodes
      BY <2>2, <3>1
    <3>2. ASSUME NEW w \in DOMAIN nodes, nodes' = [nodes EXCEPT ![w] = Released(w)]
          PROVE  nodes'[v].runningTasks < nodes'[v].capacity
      <4>1. nodes[w] \in Node
        BY DEF TypeOK
      <4>2. /\ Released(w).status = nodes[w].status
            /\ Released(w).capacity = nodes[w].capacity
            /\ Released(w).runningTasks <= nodes[w].runningTasks
        BY <4>1 DEF Released, Node
      <4>3. CASE v = w
        BY <3>2, <4>1, <4>2, <4>3, <2>0 DEF ReadyHasRoom, Node
      <4>4. CASE v # w
        BY <2>2, <3>2, <4>4
      <4> QED
        BY <4>3, <4>4
    <3> QED
      BY <2>7, <3>1, <3>2 DEF Complete, HoldsSlot
  <2>8. ASSUME NEW h \in Threads, NEW t \in DOMAIN tasks,
               NEW i \in 0 .. (Len(nodeOrder) - 1), DispatchAssign(h, t, i)
        PROVE  nodes'[v].runningTasks < nodes'[v].capacity
    <3> DEFINE w    == nodeOrder[i + 1]
               node == [nodes[w] EXCEPT !.runningTasks = @ + 1]
    <3>1. nodes' = [nodes EXCEPT ![w] = Derived(node, due[h])]
      BY <2>8 DEF DispatchAssign
    <3>2. CASE v = w
      <4>1. nodes[w] \in Node
        BY <3>1, <3>2 DEF TypeOK
      <4>2. node \in Node
        BY <4>1, OneMore
      <4> HIDE DEF node, w
      <4> QED
        BY <2>1, <2>4, <3>1, <3>2, <4>2
    <3> HIDE DEF node, w
    <3> QED
      BY <2>2, <3>1, <3>2
  <2>9. CASE Tick \/ UNCHANGED vars \/ \E h \in Threads : DispatchEnd(h)
    BY <2>2, <2>9 DEF Tick, DispatchEnd, vars
  <2>10. CASE Refresh \/ \E h \in Threads : DispatchBegin(h)
    BY <2>3, <2>4, <2>10 DEF Refresh, Overview, CheckerTick, DispatchBegin, Instants
  <2>11. CASE \E h \in Handlers, now \in Instants : Submit(h, now)
    BY <2>2, <2>11 DEF Submit
  <2> QED
    BY <2>5, <2>6, <2>7, <2>8, <2>9, <2>10, <2>11 DEF Next, Request, Dispatch
<1> QED
  BY <1>1, <1>2, TypeCorrect, PTL DEF Spec

(* No task waits beside a live node with room unless a dispatch is on its  *)
(* way.  The critical step is DispatchEnd: the loop stopped because every  *)
(* node was full or offline at its own instant, and an instant no later    *)
(* than the present cannot make a live node look offline.                  *)
THEOREM DispatchNotLost == Spec => []NoLostDispatch
<1>1. Init => NoLostDispatch
  BY DEF Init, NoLostDispatch, Pending
<1>2. TypeOK /\ TypeOK' /\ RegistryConsistent /\ DispatchSeesOwnRefresh
        /\ NoLostDispatch /\ [Next]_vars => NoLostDispatch'
  <2> SUFFICES ASSUME TypeOK, TypeOK', RegistryConsistent,
                      DispatchSeesOwnRefresh, NoLostDispatch, [Next]_vars,
                      Pending' # {},
                      NEW w \in DOMAIN nodes', LiveWithRoom(w)'
               PROVE  \E h \in Threads : due'[h] # NoTime
    BY DEF NoLostDispatch
  <2>1. \A now \in Instants : now # NoTime
    BY DEF Instants, NoTime
  <2>2. ASSUME NEW h \in Threads, NEW now \in Instants, Owes(h, now)
        PROVE  \E k \in Threads : due'[k] # NoTime
    <3>1. due'[h] = now
      BY <2>2 DEF Owes, TypeOK
    <3> QED
      BY <2>1, <3>1
  <2>3. CASE Request
    BY <2>2, <2>3, RequestEffects DEF Threads
  <2>4. ASSUME NEW now \in Instants, CheckerTick(now)
        PROVE  \E h \in Threads : due'[h] # NoTime
    BY <2>2, <2>4 DEF CheckerTick, Threads
  <2>5. ASSUME NEW now \in Instants, Overview(now)
        PROVE  \E h \in Threads : due'[h] # NoTime
    <3>1. now \in Int
      BY DEF Instants
    <3>2. /\ w \in DOMAIN nodes
          /\ nodes'[w].capacity = nodes[w].capacity
          /\ nodes'[w].runningTasks = nodes[w].runningTasks
          /\ nodes'[w].lastHeartbeat = nodes[w].lastHeartbeat
      BY <2>5, <3>1, RefreshFacts DEF Overview
    <3> QED
      BY <2>5, <3>2 DEF Overview, NoLostDispatch, LiveWithRoom, Pending
  <2>6. ASSUME NEW h \in Threads,
               \/ DispatchBegin(h)
               \/ \E t \in DOMAIN tasks, i \in 0 .. (Len(nodeOrder) - 1) :
                    DispatchAssign(h, t, i)
        PROVE  \E k \in Threads : due'[k] # NoTime
    <3>1. due' = due /\ (due[h] # NoTime \/ lock = h)
      BY <2>6, Zenon DEF DispatchBegin, DispatchAssign
    <3> QED
      BY <3>1, SchedulerAssumption DEF DispatchSeesOwnRefresh, Threads
  <2>7. ASSUME NEW h \in Threads, DispatchEnd(h)
        PROVE  \E k \in Threads : due'[k] # NoTime
    <3>1. Pending # {} /\ w \in DOMAIN nodes /\ LiveWithRoom(w)
      BY <2>7 DEF DispatchEnd, Pending, LiveWithRoom
    <3>2. PICK i \in DOMAIN nodeOrder : nodeOrder[i] = w
      BY <3>1 DEF RegistryConsistent
    <3>3. /\ i - 1 \in 0 .. (Len(nodeOrder) - 1)
          /\ NodeAt(i - 1) = nodes[w]
      BY <3>2 DEF TypeOK, NodeAt
    <3>4. ~Selectable(nodes[w])
      BY <2>7, <3>1, <3>3 DEF DispatchEnd, Candidates
    <3>5. nodes[w] \in Node
      BY <3>1 DEF TypeOK
    <3>6. nodes[w].status = "offline"
      BY <3>1, <3>4, <3>5 DEF Selectable, LiveWithRoom, Node
    <3>7. lock = h /\ lock # Free
      BY <2>7, SchedulerAssumption DEF DispatchEnd, Threads
    <3>8. due[h] - nodes[w].lastHeartbeat > OfflineAfter
      BY <3>1, <3>6, <3>7 DEF DispatchSeesOwnRefresh
    <3>9. due[h] \in Int /\ due[h] <= clock /\ clock \in Nat
      BY DEF TypeOK, NoTime
    <3> QED
      BY <3>1, <3>5, <3>8, <3>9, SchedulerAssumption DEF LiveWithRoom, Node
  <2>8. CASE Tick
    <3>1. w \in DOMAIN nodes /\ nodes[w] \in Node
      BY <2>8 DEF Tick, TypeOK
    <3>2. LiveWithRoom(w)
      BY <2>8, <3>1, SchedulerAssumption DEF Tick, LiveWithRoom, TypeOK, Node
    <3> QED
      BY <2>8, <3>1, <3>2 DEF Tick, NoLostDispatch, Pending
  <2>9. CASE UNCHANGED vars
    BY <2>9 DEF vars, NoLostDispatch, Pending, LiveWithRoom
  <2> QED
    BY <2>3, <2>4, <2>5, <2>6, <2>7, <2>8, <2>9 DEF Next, Refresh, Dispatch
<1> QED
  BY <1>1, <1>2, TypeCorrect, RegistryCorrect, DispatchRefreshCorrect, PTL
     DEF Spec

(* No placement on a node that is offline at the dispatch's instant, and   *)
(* none beyond the capacity the scheduler counts.                          *)
THEOREM PlacementCorrect == Spec => PlacedOnLiveNode
<1>1. TypeOK /\ TypeOK' /\ RegistryConsistent /\ DispatchSeesOwnRefresh /\ [Next]_vars
        => LivePlacement
  <2> SUFFICES ASSUME TypeOK, TypeOK', RegistryConsistent,
                      DispatchSeesOwnRefresh, [Next]_vars,
                      NEW t \in DOMAIN tasks, tasks[t].status = "pending",
                      tasks'[t].status = "running"
               PROVE  /\ tasks'[t].started - nodes[tasks'[t].worker].lastHeartbeat
                            <= OfflineAfter
                      /\ nodes'[tasks'[t].worker].runningTasks
                            <= nodes'[tasks'[t].worker].capacity
    BY Zenon DEF LivePlacement
  <2>1. tasks' # tasks /\ ~TaskAdded
    <3>1. CASE TaskAdded
      <4>1. PICK now \in Nat :
              tasks' = Append(tasks, [status |-> "pending", worker |-> NoWorker,
                                      created |-> now, started |-> NoTime])
        BY <3>1 DEF TaskAdded
      <4>2. [status |-> "pending", worker |-> NoWorker,
             created |-> now, started |-> NoTime] \in Task
        BY DEF Task, TaskStates
      <4>3. tasks'[t] = tasks[t]
        BY <4>1, <4>2, AppendProperties, LenProperties DEF TypeOK
      <4> QED
        BY <4>3
    <3> QED
      BY <3>1
  <2>2. ~TaskReported
    <3> SUFFICES ASSUME TaskReported PROVE FALSE
      OBVIOUS
    <3>1. PICK u \in DOMAIN tasks, s \in {"completed", "failed"} :
            tasks' = [tasks EXCEPT ![u].status = s]
      BY DEF TaskReported
    <3>2. tasks[u] \in Task
      BY DEF TypeOK
    <3>3. tasks'[u].status = s
      BY <3>1, <3>2 DEF Task
    <3>4. u # t => tasks'[t] = tasks[t]
      BY <3>1
    <3> QED
      BY <3>3, <3>4
  <2>3. TaskPlaced
    BY <2>1, <2>2, TaskSteps
  <2>4. PICK u \in DOMAIN tasks, w \in DOMAIN nodes :
          /\ lock # Free
          /\ Selectable(nodes[w])
          /\ tasks' = [tasks EXCEPT ![u] = [@ EXCEPT !.status = "running",
                                                    !.worker = w,
                                                    !.started = due[lock]]]
          /\ nodes' = [nodes EXCEPT ![w] =
                 Derived([nodes[w] EXCEPT !.runningTasks = @ + 1], due[lock])]
    BY <2>3, Zenon DEF TaskPlaced
  <2>5. u = t
    BY <2>4
  <2>6. tasks'[t].worker = w /\ tasks'[t].started = due[lock]
    <3>1. tasks[t] \in Task
      BY DEF TypeOK
    <3> QED
      BY <2>4, <2>5, <3>1, Zenon DEF Task
  <2>7. nodes[w] \in Node /\ due[lock] \in Int
    BY <2>4 DEF TypeOK, NoTime
  <2>8. due[lock] - nodes[w].lastHeartbeat <= OfflineAfter
    BY <2>4, <2>7, SchedulerAssumption
       DEF DispatchSeesOwnRefresh, Selectable, Node
  <2>9. nodes'[w].runningTasks <= nodes'[w].capacity
    <3> DEFINE node == [nodes[w] EXCEPT !.runningTasks = @ + 1]
    <3>1. /\ node \in Node
          /\ node.capacity = nodes[w].capacity
          /\ node.runningTasks = nodes[w].runningTasks + 1
      BY <2>7, OneMore
    <3> HIDE DEF node
    <3>2. nodes'[w] = Derived(node, due[lock])
      BY <2>4 DEF node
    <3>3. nodes'[w].capacity = node.capacity
          /\ nodes'[w].runningTasks = node.runningTasks
      BY <2>7, <3>1, <3>2, DerivedFacts
    <3> QED
      BY <2>4, <2>7, <3>1, <3>3 DEF Selectable, Node
  <2> QED
    BY <2>6, <2>8, <2>9
<1> QED
  BY <1>1, TypeCorrect, RegistryCorrect, DispatchRefreshCorrect, PTL
     DEF Spec, PlacedOnLiveNode

(* Worker w's count and the tasks that run there change together. *)
SlotFollows(w) ==
  LET count == nodes[w].runningTasks
                 + (Cardinality(RunningOn(w)') - Cardinality(RunningOn(w)))
  IN  nodes'[w].runningTasks = IF count < 0 THEN 0 ELSE count

(* One task more or less there is one more or less of a finite set. *)
LEMMA SlotsCount ==
  ASSUME TypeOK, NEW w \in DOMAIN nodes
  PROVE  /\ /\ RunningOn(w)' = RunningOn(w)
            /\ nodes'[w].runningTasks = nodes[w].runningTasks
            => SlotFollows(w)
         /\ \A t : /\ t \notin RunningOn(w) /\ RunningOn(w)' = RunningOn(w) \cup {t}
                  /\ nodes'[w].runningTasks = nodes[w].runningTasks + 1
                  => SlotFollows(w)
         /\ \A t : /\ t \in RunningOn(w) /\ RunningOn(w)' = RunningOn(w) \ {t}
                  /\ nodes'[w].runningTasks = (IF nodes[w].runningTasks > 0
                                               THEN nodes[w].runningTasks - 1
                                               ELSE nodes[w].runningTasks)
                  => SlotFollows(w)
<1>1. IsFiniteSet(RunningOn(w))
  <2>1. RunningOn(w) \subseteq 1 .. Len(tasks) /\ Len(tasks) \in Nat
    BY LenProperties DEF RunningOn, TypeOK
  <2>2. IsFiniteSet(1 .. Len(tasks))
    BY <2>1, FS_Interval
  <2> QED BY <2>1, <2>2, FS_Subset
<1>2. Cardinality(RunningOn(w)) \in Nat
  BY <1>1, FS_CardinalityType
<1>3. PICK n \in Nat : n = nodes[w].runningTasks
  BY DEF TypeOK, Node
<1>4. ASSUME RunningOn(w)' = RunningOn(w), nodes'[w].runningTasks = n
      PROVE  SlotFollows(w)
  BY <1>2, <1>3, <1>4 DEF SlotFollows
<1>5. ASSUME NEW t, t \notin RunningOn(w), RunningOn(w)' = RunningOn(w) \cup {t},
             nodes'[w].runningTasks = n + 1
      PROVE  SlotFollows(w)
  <2>1. Cardinality(RunningOn(w)') = Cardinality(RunningOn(w)) + 1
    BY <1>1, <1>5, FS_AddElement
  <2> QED BY <1>2, <1>3, <1>5, <2>1 DEF SlotFollows
<1>6. ASSUME NEW t, t \in RunningOn(w), RunningOn(w)' = RunningOn(w) \ {t},
             nodes'[w].runningTasks = IF n > 0 THEN n - 1 ELSE n
      PROVE  SlotFollows(w)
  <2>1. Cardinality(RunningOn(w)') = Cardinality(RunningOn(w)) - 1
    BY <1>1, <1>6, FS_RemoveElement, Zenon
  <2> QED BY <1>2, <1>3, <1>6, <2>1 DEF SlotFollows
<1> QED BY <1>3, <1>4, <1>5, <1>6

(* A task that is reported gives its slot back if it has one. *)
LEMMA ReportFreesSlot ==
  ASSUME TypeOK, NEW w \in DOMAIN nodes, NEW h \in Handlers, NEW now \in Instants,
         NEW t \in DOMAIN tasks, NEW success \in BOOLEAN, Complete(h, t, success, now)
  PROVE  SlotFollows(w)
<1>1. tasks \in Seq(Task) /\ tasks[t] \in Task /\ nodes[w] \in Node
  BY DEF TypeOK
<1>2. PICK s \in {"completed", "failed"} : tasks' = [tasks EXCEPT ![t].status = s]
  BY Zenon DEF Complete
<1>3. tasks'[t].status = s
  BY <1>1, <1>2 DEF Task
<1>4. DOMAIN tasks' = DOMAIN tasks /\ \A u \in DOMAIN tasks : u # t => tasks'[u] = tasks[u]
  BY <1>2
<1>5. t \notin RunningOn(w)'
  BY <1>3 DEF RunningOn
<1>6. \A u : u # t => (u \in RunningOn(w)' <=> u \in RunningOn(w))
  BY <1>4 DEF RunningOn
<1>7. RunningOn(w)' = RunningOn(w) \ {t}
  BY <1>5, <1>6
<1>8. nodes' = IF HoldsSlot(t)
               THEN [nodes EXCEPT ![tasks[t].worker] = Released(tasks[t].worker)]
               ELSE nodes
  BY DEF Complete
<1>9. CASE t \in RunningOn(w)
  <2>1. HoldsSlot(t) /\ tasks[t].worker = w
    BY <1>9 DEF HoldsSlot, RunningOn
  <2>2. nodes'[w] = Released(w)
    BY <1>8, <2>1 DEF TypeOK
  <2>3. nodes'[w].runningTasks = IF nodes[w].runningTasks > 0
                                 THEN nodes[w].runningTasks - 1
                                 ELSE nodes[w].runningTasks
    BY <1>1, <2>2 DEF Released, Node
  <2> QED BY <1>7, <1>9, <2>3, SlotsCount
<1>10. CASE t \notin RunningOn(w)
  <2>1. RunningOn(w)' = RunningOn(w)
    BY <1>7, <1>10
  <2>2. ~(HoldsSlot(t) /\ tasks[t].worker = w)
    BY <1>10 DEF HoldsSlot, RunningOn
  <2>3. nodes'[w] = nodes[w]
    BY <1>8, <2>2 DEF TypeOK
  <2> QED BY <2>1, <2>3, SlotsCount
<1> QED BY <1>9, <1>10

(* A task that is placed takes a slot. *)
LEMMA PlacementTakesSlot ==
  ASSUME TypeOK, NEW w \in DOMAIN nodes, TaskPlaced
  PROVE  SlotFollows(w)
<1>1. PICK t \in DOMAIN tasks, v \in DOMAIN nodes :
        /\ lock # Free /\ tasks[t].status = "pending"
        /\ tasks' = [tasks EXCEPT ![t] = [@ EXCEPT !.status = "running",
                                                  !.worker = v,
                                                  !.started = due[lock]]]
        /\ nodes' = [nodes EXCEPT ![v] =
               Derived([nodes[v] EXCEPT !.runningTasks = @ + 1], due[lock])]
  BY Zenon DEF TaskPlaced
<1>2. tasks[t] \in Task /\ nodes[v] \in Node /\ due[lock] \in Int
  BY <1>1 DEF TypeOK, NoTime
<1>3. tasks'[t].status = "running" /\ tasks'[t].worker = v
  BY <1>1, <1>2, Zenon DEF Task
<1>4. DOMAIN tasks' = DOMAIN tasks /\ \A u \in DOMAIN tasks : u # t => tasks'[u] = tasks[u]
  BY <1>1
<1>5. \A u : u # t => (u \in RunningOn(w)' <=> u \in RunningOn(w))
  BY <1>4 DEF RunningOn
<1>6. t \notin RunningOn(w) /\ (t \in RunningOn(w)' <=> v = w)
  BY <1>1, <1>3, <1>4 DEF RunningOn
<1>7. CASE v = w
  <2>1. RunningOn(w)' = RunningOn(w) \cup {t}
    BY <1>5, <1>6, <1>7
  <2> DEFINE node == [nodes[w] EXCEPT !.runningTasks = @ + 1]
  <2>2. node \in Node /\ node.runningTasks = nodes[w].runningTasks + 1
    BY <1>2, <1>7, OneMore
  <2>3. nodes'[w] = Derived(node, due[lock])
    BY <1>1, <1>7
  <2> HIDE DEF node
  <2>4. nodes'[w].runningTasks = node.runningTasks
    BY <1>2, <2>2, <2>3, DerivedFacts
  <2> QED BY <1>6, <2>1, <2>2, <2>4, SlotsCount
<1>8. CASE v # w
  <2>1. RunningOn(w)' = RunningOn(w)
    BY <1>5, <1>6, <1>8
  <2>2. nodes'[w] = nodes[w]
    BY <1>1, <1>8
  <2> QED BY <2>1, <2>2, SlotsCount
<1> QED BY <1>7, <1>8

(* A task takes one slot and gives back one, for any number of workers,    *)
(* handlers and tasks and however often it is reported.                    *)
THEOREM SlotsAreFollowed == Spec => SlotsFollowTasks
<1>1. TypeOK /\ RegistryConsistent /\ [Next]_vars /\ tasks' # tasks => SlotsFollow
  <2> SUFFICES ASSUME TypeOK, RegistryConsistent, [Next]_vars, tasks' # tasks,
                      NEW w \in DOMAIN nodes
               PROVE  SlotFollows(w)
    BY Zenon DEF SlotsFollow, SlotFollows
  <2>1. CASE TaskPlaced
    BY <2>1, PlacementTakesSlot
  <2>2. ASSUME NEW h \in Handlers, NEW now \in Instants, NEW t \in DOMAIN tasks,
               NEW success \in BOOLEAN, Complete(h, t, success, now)
        PROVE  SlotFollows(w)
    BY <2>2, ReportFreesSlot
  <2>3. ASSUME NEW h \in Handlers, NEW now \in Instants, Submit(h, now)
        PROVE  SlotFollows(w)
    <3> DEFINE new == [status |-> "pending", worker |-> NoWorker,
                       created |-> now, started |-> NoTime]
    <3>1. nodes' = nodes /\ tasks' = Append(tasks, new) /\ tasks \in Seq(Task)
      BY <2>3 DEF Submit, TypeOK
    <3>2. new \in Task /\ new.status = "pending"
      BY DEF Task, TaskStates, Instants, TypeOK
    <3> HIDE DEF new
    <3>3. /\ Len(tasks) \in Nat
          /\ DOMAIN tasks = 1 .. Len(tasks) /\ DOMAIN tasks' = 1 .. Len(tasks) + 1
          /\ \A u \in 1 .. Len(tasks) : tasks'[u] = tasks[u]
          /\ tasks'[Len(tasks) + 1] = new
      BY <3>1, <3>2, AppendProperties, LenProperties
    <3>4. \A u : u \in RunningOn(w)' <=> u \in RunningOn(w)
      BY <3>2, <3>3 DEF RunningOn
    <3>5. RunningOn(w)' = RunningOn(w)
      BY <3>4
    <3> QED BY <3>1, <3>5, SlotsCount
  <2>4. ASSUME NEW h \in Threads, NEW t \in DOMAIN tasks,
               NEW i \in 0 .. (Len(nodeOrder) - 1), DispatchAssign(h, t, i)
        PROVE  TaskPlaced
    <3>1. /\ nodeOrder[i + 1] \in DOMAIN nodes
          /\ Selectable(nodes[nodeOrder[i + 1]])
      BY <2>4, SelectedFacts DEF DispatchAssign
    <3>2. lock = h /\ lock # Free /\ tasks[t].status = "pending"
      BY <2>4, SchedulerAssumption DEF DispatchAssign, IsHead, Pending, Threads
    <3> QED BY <2>4, <3>1, <3>2, Zenon DEF DispatchAssign, Placed, TaskPlaced
  <2>5. \/ SlotFollows(w)
        \/ \E h \in Handlers, now \in Instants, v \in Workers :
             \/ \E c \in Capacities : Register(h, v, c, now)
             \/ \E r \in Reports : Heartbeat(h, v, r, now)
        \/ Refresh \/ Tick \/ UNCHANGED vars
        \/ \E h \in Threads : DispatchBegin(h) \/ DispatchEnd(h)
    BY <2>1, <2>2, <2>3, <2>4, Zenon DEF Next, Request, Dispatch
  <2> QED
    BY <2>5, Zenon DEF Register, Heartbeat, Refresh, Overview, CheckerTick, Tick, vars,
       DispatchBegin, DispatchEnd
<1> QED
  BY <1>1, TypeCorrect, RegistryCorrect, PTL DEF Spec, SlotsFollowTasks

-----------------------------------------------------------------------------
(***************************************************************************)
(* The scheduler implements TaskLifecycle                                  *)
(***************************************************************************)

(* What a client sees of the tasks, the refinement mapping for board. *)
Board == [t \in DOMAIN tasks |-> [status |-> tasks[t].status,
                                  worker |-> tasks[t].worker]]

Row == [status : TaskStates, worker : Workers \cup {NoWorker}]

LEMMA BoardType ==
  ASSUME TypeOK
  PROVE  /\ Board \in Seq(Row)
         /\ Len(Board) = Len(tasks)
         /\ DOMAIN Board = DOMAIN tasks
<1>1. \A t \in DOMAIN tasks : tasks[t] \in Task
  BY DEF TypeOK
<1>2. DOMAIN tasks = 1 .. Len(tasks) /\ Len(tasks) \in Nat
  BY DEF TypeOK
<1>3. Board \in [1 .. Len(tasks) -> Row]
  BY <1>1, <1>2 DEF Board, Row, Task
<1> QED
  BY <1>2, <1>3 DEF Board

(* Every behaviour of the store is one of TaskLifecycle: whatever handlers *)
(* interleave, a task is placed once, from pending, on a registered        *)
(* worker, and its placement is never moved or withdrawn.                  *)
THEOREM LifecycleKept == Spec => KeepsLifecycle
<1>1. Init => Lifecycle!Init
  BY DEF Init, Lifecycle!Init
<1>2. TypeOK /\ TypeOK' /\ RegistryConsistent /\ [Next]_vars
        => [Lifecycle!Next]_(Lifecycle!vars)
  <2> SUFFICES ASSUME TypeOK, TypeOK', RegistryConsistent, [Next]_vars
               PROVE  [Lifecycle!Next]_(Lifecycle!vars)
    OBVIOUS
  <2>1. CASE tasks' = tasks
    <3>1. Board' = Board
      BY <2>1 DEF Board
    <3>2. CASE DOMAIN nodes' = DOMAIN nodes
      BY <3>1, <3>2 DEF Lifecycle!vars, Board
    <3>3. ASSUME NEW w \in Workers, DOMAIN nodes' = DOMAIN nodes \cup {w}
          PROVE  Lifecycle!Next
      BY <3>1, <3>3 DEF Lifecycle!Next, Lifecycle!Join, Board
    <3> QED
      BY <3>2, <3>3, RegistrySteps, Zenon
  <2>2. CASE tasks' # tasks
    <3>1. DOMAIN nodes' = DOMAIN nodes
      BY <2>2, RegistrySteps, Zenon
    <3>2. CASE TaskAdded
      <4> DEFINE row == [status |-> "pending", worker |-> NoWorker]
      <4>1. PICK now \in Nat :
              tasks' = Append(tasks, [status |-> "pending", worker |-> NoWorker,
                                      created |-> now, started |-> NoTime])
        BY <3>2 DEF TaskAdded
      <4> DEFINE new == [status |-> "pending", worker |-> NoWorker,
                         created |-> now, started |-> NoTime]
      <4>2. new \in Task /\ new.status = "pending" /\ new.worker = NoWorker
        BY DEF Task, TaskStates
      <4>3. row \in Row
        BY DEF Row, TaskStates
      <4> HIDE DEF new
      <4>4. /\ Len(tasks') = Len(tasks) + 1
            /\ DOMAIN tasks = 1 .. Len(tasks) /\ Len(tasks) \in Nat
            /\ DOMAIN tasks' = 1 .. (Len(tasks) + 1)
            /\ \A t \in 1 .. Len(tasks) : tasks'[t] = tasks[t]
            /\ tasks'[Len(tasks) + 1] = new
        <5>1. tasks' = Append(tasks, new) /\ tasks \in Seq(Task)
          BY <4>1 DEF new, TypeOK
        <5> QED
          BY <5>1, <4>2, AppendProperties, LenProperties
      <4>5. /\ Append(Board, row) \in Seq(Row)
            /\ Len(Append(Board, row)) = Len(tasks) + 1
            /\ \A t \in 1 .. Len(tasks) : Append(Board, row)[t] = Board[t]
            /\ Append(Board, row)[Len(tasks) + 1] = row
        BY <4>3, BoardType, AppendProperties
      <4>6. Board' \in Seq(Row) /\ Len(Board') = Len(tasks) + 1
        <5>1. \A t \in 1 .. (Len(tasks) + 1) : tasks'[t] \in Task
          BY <4>4 DEF TypeOK
        <5>2. Board' \in [1 .. (Len(tasks) + 1) -> Row]
          BY <4>4, <5>1 DEF Board, Row, Task
        <5> QED
          BY <4>4, <5>2
      <4>7. \A t \in 1 .. (Len(tasks) + 1) : Board'[t] = Append(Board, row)[t]
        BY <4>2, <4>4, <4>5 DEF Board
      <4>8. Board' = Append(Board, row)
        BY <4>4, <4>5, <4>6, <4>7, SeqEqual
      <4> QED
        BY <3>1, <4>8, Zenon DEF Lifecycle!Next, Lifecycle!Submit, Board
    <3>3. CASE TaskReported
      <4>1. PICK t \in DOMAIN tasks, s \in {"completed", "failed"} :
              tasks' = [tasks EXCEPT ![t].status = s]
        BY <3>3, Zenon DEF TaskReported
      <4>2. tasks[t] \in Task
        BY DEF TypeOK
      <4>3. /\ DOMAIN tasks' = DOMAIN tasks
            /\ tasks'[t].status = s /\ tasks'[t].worker = tasks[t].worker
            /\ \A u \in DOMAIN tasks : u # t => tasks'[u] = tasks[u]
        BY <4>1, <4>2 DEF Task
      <4>4. Board' = [Board EXCEPT ![t].status = s]
        BY <4>3, Zenon DEF Board
      <4>5. Lifecycle!Finish(t, s)
        BY <3>1, <4>4 DEF Lifecycle!Finish, Board
      <4> QED
        BY <4>5 DEF Lifecycle!Next, Lifecycle!Terminal
    <3>4. CASE TaskPlaced
      <4>1. PICK t \in DOMAIN tasks, w \in DOMAIN nodes :
              /\ tasks[t].status = "pending"
              /\ tasks' = [tasks EXCEPT ![t] = [@ EXCEPT !.status = "running",
                                                        !.worker = w,
                                                        !.started = due[lock]]]
        BY <3>4, Zenon DEF TaskPlaced
      <4>2. tasks[t] \in Task /\ w \in Workers
        BY DEF TypeOK
      <4>3. /\ DOMAIN tasks' = DOMAIN tasks
            /\ tasks'[t].status = "running" /\ tasks'[t].worker = w
            /\ \A u \in DOMAIN tasks : u # t => tasks'[u] = tasks[u]
        BY <4>1, <4>2, Zenon DEF Task
      <4>4. Board' = [Board EXCEPT ![t] = [status |-> "running", worker |-> w]]
        BY <4>3, Zenon DEF Board
      <4>5. Lifecycle!Assign(t, w)
        BY <3>1, <4>1, <4>4 DEF Lifecycle!Assign, Board
      <4> QED
        BY <4>2, <4>5 DEF Lifecycle!Next
    <3> QED
      BY <2>2, <3>2, <3>3, <3>4, TaskSteps
  <2> QED
    BY <2>1, <2>2
<1> QED
  BY <1>1, <1>2, TypeCorrect, RegistryCorrect, PTL
     DEF Spec, KeepsLifecycle, Lifecycle!Spec

-----------------------------------------------------------------------------
(***************************************************************************)
(* Compare is a strict weak order                                          *)
(***************************************************************************)

(* Multiplying both sides by a positive number keeps the order. *)
LEMMA TimesPositive ==
  ASSUME NEW a \in Nat, NEW b \in Nat, NEW k \in Nat \ {0}
  PROVE  /\ a < b => a * k < b * k
         /\ a <= b => a * k <= b * k
         /\ a * k < b * k => a < b
         /\ a * k <= b * k => a <= b
  OBVIOUS

(* Load ratios a/x, b/y, c/z compared by cross multiplication. *)
LEMMA RatioTransitive ==
  ASSUME NEW a \in Nat, NEW b \in Nat, NEW c \in Nat,
         NEW x \in Nat \ {0}, NEW y \in Nat \ {0}, NEW z \in Nat \ {0}
  PROVE  /\ a * y < b * x /\ b * z <= c * y => a * z < c * x
         /\ a * y <= b * x /\ b * z < c * y => a * z < c * x
         /\ a * y <= b * x /\ b * z <= c * y => a * z <= c * x
<1> DEFINE ay == a * y  bx == b * x  bz == b * z  cy == c * y
           az == a * z  cx == c * x
<1>1. /\ ay \in Nat /\ bx \in Nat /\ bz \in Nat
      /\ cy \in Nat /\ az \in Nat /\ cx \in Nat
  OBVIOUS
<1>2. ay * z = az * y /\ bx * z = bz * x /\ cy * x = cx * y
  OBVIOUS
<1> HIDE DEF ay, bx, bz, cy, az, cx
<1>3. /\ ay < bx => ay * z < bx * z
      /\ ay <= bx => ay * z <= bx * z
      /\ bz < cy => bz * x < cy * x
      /\ bz <= cy => bz * x <= cy * x
      /\ az * y < cx * y => az < cx
      /\ az * y <= cx * y => az <= cx
  BY <1>1, TimesPositive
<1> DEFINE l == az * y  m == bz * x  r == cx * y
<1>4. l \in Nat /\ m \in Nat /\ r \in Nat
  BY <1>1
<1>5. /\ ay < bx => l < m
      /\ ay <= bx => l <= m
      /\ bz < cy => m < r
      /\ bz <= cy => m <= r
      /\ l < r => az < cx
      /\ l <= r => az <= cx
  BY <1>2, <1>3
<1> HIDE DEF l, m, r
<1>6. /\ ay < bx /\ bz <= cy => az < cx
      /\ ay <= bx /\ bz < cy => az < cx
      /\ ay <= bx /\ bz <= cy => az <= cx
  BY <1>1, <1>4, <1>5
<1> QED
  BY <1>6 DEF ay, bx, bz, cy, az, cx

Load == [capacity : Nat \ {0}, runningTasks : Nat, status : NodeStates]

Room(n) == IF n.capacity < n.runningTasks THEN 0 ELSE n.capacity - n.runningTasks

(* The order Compare decides: lower ratio, then more room, then fewer      *)
(* running tasks.                                                          *)
Less(m, n) ==
  LET mn == m.runningTasks * n.capacity
      nm == n.runningTasks * m.capacity
  IN  \/ mn < nm
      \/ mn = nm /\ Room(m) > Room(n)
      \/ mn = nm /\ Room(m) = Room(n) /\ m.runningTasks < n.runningTasks

(* Without overflow Compare is negative, zero or positive as Less says. *)
LEMMA CompareIsLess ==
  ASSUME NEW m \in Loads, NEW n \in Loads
  PROVE  /\ Compare(m, n) < 0 <=> Less(m, n)
         /\ Compare(m, n) = 0 <=> ~Less(m, n) /\ ~Less(n, m)
         /\ Compare(m, n) \in {-1, 0, 1}
<1> DEFINE mn == m.runningTasks * n.capacity
           nm == n.runningTasks * m.capacity
<1>1. m \in Load /\ n \in Load /\ mn <= MaxInt /\ nm <= MaxInt
  BY LoadsAssumption DEF Load
<1>2. mn \in Nat /\ nm \in Nat
  BY <1>1 DEF Load
<1>3. Int64(mn) = mn /\ Int64(nm) = nm
  <2> HIDE DEF mn, nm
  <2> QED
    BY <1>1, <1>2, MaxIntAssumption DEF Int64
<1>4. ASSUME NEW k \in Load
      PROVE  snapshotNodeLoad(k) = [runningTasks |-> k.runningTasks,
                                    capacity |-> k.capacity,
                                    available |-> Room(k)]
  BY DEF snapshotNodeLoad, Room, Load
<1>5. compareLoadRatio(snapshotNodeLoad(m), snapshotNodeLoad(n))
        = compareAscending(mn, nm)
  <2>1. /\ snapshotNodeLoad(m).runningTasks = m.runningTasks
        /\ snapshotNodeLoad(m).capacity = m.capacity
        /\ snapshotNodeLoad(n).runningTasks = n.runningTasks
        /\ snapshotNodeLoad(n).capacity = n.capacity
    BY <1>1, <1>4
  <2> QED
    BY <2>1, <1>3 DEF compareLoadRatio
<1>6. Room(m) \in Nat /\ Room(n) \in Nat
      /\ m.runningTasks \in Nat /\ n.runningTasks \in Nat
  BY <1>1 DEF Room, Load
<1>7. Compare(m, n) =
        IF compareAscending(mn, nm) # 0 THEN compareAscending(mn, nm)
        ELSE IF compareAscending(Room(n), Room(m)) # 0
             THEN compareAscending(Room(n), Room(m))
             ELSE compareAscending(m.runningTasks, n.runningTasks)
  <2>1. /\ snapshotNodeLoad(m).runningTasks = m.runningTasks
        /\ snapshotNodeLoad(m).available = Room(m)
        /\ snapshotNodeLoad(n).runningTasks = n.runningTasks
        /\ snapshotNodeLoad(n).available = Room(n)
    BY <1>1, <1>4
  <2> HIDE DEF mn, nm
  <2> QED
    BY <1>5, <2>1 DEF Compare, compareDescending
<1>8. /\ Less(m, n) <=> \/ mn < nm
                        \/ mn = nm /\ Room(m) > Room(n)
                        \/ mn = nm /\ Room(m) = Room(n)
                             /\ m.runningTasks < n.runningTasks
      /\ Less(n, m) <=> \/ nm < mn
                        \/ nm = mn /\ Room(n) > Room(m)
                        \/ nm = mn /\ Room(n) = Room(m)
                             /\ n.runningTasks < m.runningTasks
  BY DEF Less
<1> HIDE DEF mn, nm
<1> QED
  BY <1>2, <1>6, <1>7, <1>8 DEF compareAscending

(* A node strictly better than one that is at least as good as a third is  *)
(* strictly better than the third: this is what lets the scan forget all   *)
(* nodes but the best.                                                     *)
LEMMA CompareTransitive ==
  ASSUME NEW k \in Loads, NEW m \in Loads, NEW n \in Loads
  PROVE  Compare(k, m) < 0 /\ Compare(m, n) <= 0 => Compare(k, n) < 0
<1>1. k \in Load /\ m \in Load /\ n \in Load
  BY LoadsAssumption DEF Load
<1> DEFINE km == k.runningTasks * m.capacity  mk == m.runningTasks * k.capacity
           mn == m.runningTasks * n.capacity  nm == n.runningTasks * m.capacity
           kn == k.runningTasks * n.capacity  nk == n.runningTasks * k.capacity
<1>2. /\ km \in Nat /\ mk \in Nat /\ mn \in Nat
      /\ nm \in Nat /\ kn \in Nat /\ nk \in Nat
  BY <1>1 DEF Load
<1>3. /\ k.runningTasks \in Nat /\ m.runningTasks \in Nat /\ n.runningTasks \in Nat
      /\ Room(k) \in Nat /\ Room(m) \in Nat /\ Room(n) \in Nat
  BY <1>1 DEF Load, Room
<1>4. /\ km < mk /\ mn <= nm => kn < nk
      /\ km <= mk /\ mn < nm => kn < nk
      /\ km <= mk /\ mn <= nm => kn <= nk
  BY <1>1, RatioTransitive, Zenon DEF Load
<1>5. /\ Less(k, m) <=> \/ km < mk
                        \/ km = mk /\ Room(k) > Room(m)
                        \/ km = mk /\ Room(k) = Room(m)
                             /\ k.runningTasks < m.runningTasks
      /\ Less(n, m) <=> \/ nm < mn
                        \/ nm = mn /\ Room(n) > Room(m)
                        \/ nm = mn /\ Room(n) = Room(m)
                             /\ n.runningTasks < m.runningTasks
      /\ Less(k, n) <=> \/ kn < nk
                        \/ kn = nk /\ Room(k) > Room(n)
                        \/ kn = nk /\ Room(k) = Room(n)
                             /\ k.runningTasks < n.runningTasks
  BY DEF Less
<1> HIDE DEF km, mk, mn, nm, kn, nk
<1>6. Less(k, m) /\ ~Less(n, m) => Less(k, n)
  BY <1>2, <1>3, <1>4, <1>5
<1>7. Compare(m, n) <= 0 => ~Less(n, m)
  <2>1. Compare(m, n) \in {-1, 0, 1} /\ Compare(n, m) \in {-1, 0, 1}
    BY CompareIsLess
  <2>2. Less(m, n) => ~Less(n, m)
    <3>1. Less(m, n) <=> \/ mn < nm
                         \/ mn = nm /\ Room(m) > Room(n)
                         \/ mn = nm /\ Room(m) = Room(n)
                              /\ m.runningTasks < n.runningTasks
      BY DEF Less, mn, nm
    <3> QED
      BY <1>2, <1>3, <1>5, <3>1
  <2> QED
    BY <2>1, <2>2, CompareIsLess
<1> QED
  BY <1>6, <1>7, CompareIsLess

(* Compare decides every pair, and swapping the arguments flips its sign. *)
LEMMA CompareAntisymmetric ==
  ASSUME NEW m \in Loads, NEW n \in Loads
  PROVE  /\ Compare(m, m) = 0
         /\ ~(Compare(m, n) < 0) => Compare(n, m) <= 0
<1>1. m \in Load /\ n \in Load
  BY LoadsAssumption DEF Load
<1>2. m.runningTasks \in Nat /\ Room(m) \in Nat /\ m.runningTasks * m.capacity \in Nat
  BY <1>1 DEF Load, Room
<1>3. ~Less(m, m)
  BY <1>2 DEF Less
<1>4. Compare(n, m) \in {-1, 0, 1}
  BY CompareIsLess
<1> QED
  BY <1>3, <1>4, CompareIsLess

-----------------------------------------------------------------------------
(***************************************************************************)
(* The scan                                                                *)
(***************************************************************************)

(* The loop meets every index once, in the order of its offset. *)
LEMMA ScanOrder ==
  ASSUME ScanTypeOK, offset < Len(order)
  PROVE  /\ ScanIndex \in Indices
         /\ \A i \in Indices :
              ScanOffset(i, start, Len(order)) < offset + 1 <=>
                ScanOffset(i, start, Len(order)) < offset \/ i = ScanIndex
         /\ ScanOffset(ScanIndex, start, Len(order)) = offset
<1> DEFINE n == Len(order)
<1>1. /\ n \in Nat /\ n > 0 /\ start \in 0 .. (n - 1)
      /\ offset \in 0 .. (n - 1)
  BY DEF ScanTypeOK, Indices
<1>2. ScanIndex = IF start + offset < n THEN start + offset ELSE start + offset - n
  <2> HIDE DEF n
  <2>1. ScanIndex = (start + offset) % n
    BY DEF ScanIndex, n
  <2>2. \A x \in 0 .. (n - 1) : x % n = x /\ (x + n) % n = x
    BY <1>1
  <2>3. CASE start + offset < n
    BY <1>1, <2>1, <2>2, <2>3
  <2>4. CASE ~(start + offset < n)
    <3>1. start + offset - n \in 0 .. (n - 1)
      BY <1>1, <2>4
    <3>2. (start + offset - n) + n = start + offset
      BY <1>1
    <3> QED
      BY <2>1, <2>2, <2>4, <3>1, <3>2
  <2> QED
    BY <2>3, <2>4
<1>3. Indices = 0 .. (n - 1)
  BY DEF Indices
<1> HIDE DEF n
<1>4. ScanIndex \in 0 .. (n - 1)
  BY <1>1, <1>2
<1>5. ScanOffset(ScanIndex, start, n) = offset
  BY <1>1, <1>2 DEF ScanOffset
<1>6. \A i \in 0 .. (n - 1) : ScanOffset(i, start, n) = offset <=> i = ScanIndex
  BY <1>1, <1>2 DEF ScanOffset
<1>7. \A i \in 0 .. (n - 1) : ScanOffset(i, start, n) \in Int
  BY <1>1 DEF ScanOffset
<1>8. \A i \in 0 .. (n - 1) :
        ScanOffset(i, start, n) < offset + 1 <=>
          ScanOffset(i, start, n) < offset \/ i = ScanIndex
  BY <1>1, <1>6, <1>7
<1> QED
  BY <1>3, <1>4, <1>5, <1>8 DEF n

(* The loop never leaves NodeOrder. *)
THEOREM ScanTypeCorrect == ScanSpec => []ScanTypeOK
<1>1. ScanInit => ScanTypeOK
  <2> SUFFICES ASSUME ScanInit PROVE ScanTypeOK
    OBVIOUS
  <2>1. PICK n \in 1 .. MaxNodes : order \in [1 .. n -> Loads]
    BY DEF ScanInit
  <2>2. n \in Nat /\ n > 0
    BY MaxNodesAssumption
  <2>3. order \in Seq(Loads) /\ Len(order) = n
    BY <2>1, <2>2
  <2> QED
    BY <2>2, <2>3 DEF ScanInit, ScanTypeOK, Indices
<1>2. ScanTypeOK /\ [ScanNext]_scanVars => ScanTypeOK'
  <2> SUFFICES ASSUME ScanTypeOK, [ScanNext]_scanVars PROVE ScanTypeOK'
    OBVIOUS
  <2>1. CASE Scan
    <3>1. ScanIndex \in Indices
      BY <2>1, ScanOrder DEF Scan
    <3>2. offset' \in 0 .. Len(order)
      BY <2>1 DEF Scan, ScanTypeOK
    <3> QED
      BY <2>1, <3>1, <3>2 DEF Scan, ScanTypeOK, Indices
  <2>2. CASE UNCHANGED scanVars
    BY <2>2 DEF scanVars, ScanTypeOK, Indices
  <2> QED
    BY <2>1, <2>2 DEF ScanNext
<1> QED
  BY <1>1, <1>2, PTL DEF ScanSpec

(* The loop invariant holds for any number of nodes and any loads. *)
THEOREM ScanInvariant == ScanSpec => []ScanInv
<1>1. ScanInit => ScanInv
  <2> SUFFICES ASSUME ScanInit PROVE ScanInv
    OBVIOUS
  <2>1. PICK n \in 1 .. MaxNodes : order \in [1 .. n -> Loads]
    BY DEF ScanInit
  <2>2. n \in Nat /\ n > 0
    BY MaxNodesAssumption
  <2>3. Len(order) = n
    BY <2>1, <2>2
  <2>4. Seen = {}
    BY <2>2, <2>3 DEF ScanInit, Seen, Indices, ScanOffset
  <2> QED
    BY <2>4 DEF ScanInit, ScanInv
<1>2. ScanTypeOK /\ ScanInv /\ [ScanNext]_scanVars => ScanInv'
  <2> SUFFICES ASSUME ScanTypeOK, ScanInv, [ScanNext]_scanVars PROVE ScanInv'
    OBVIOUS
  <2>1. CASE UNCHANGED scanVars
    BY <2>1 DEF scanVars, ScanInv, Seen, Indices, at, IsBest
  <2>2. CASE Scan
    <3> DEFINE n == Len(order)
               i == ScanIndex
    <3>0. /\ i \in Indices
          /\ ScanOffset(i, start, n) = offset
          /\ order' = order /\ start' = start /\ offset' = offset + 1
      BY <2>2, ScanOrder DEF Scan
    <3>1. \A j \in Indices : at(j) \in Loads
      BY DEF ScanTypeOK, Indices, at
    <3>2. Seen' = IF Selectable(at(i)) THEN Seen \cup {i} ELSE Seen
      BY <2>2, <3>0, ScanOrder DEF Scan, Seen, Indices, at
    <3>3. \A j \in Seen : j \in Indices /\ ScanOffset(j, start, n) < offset
      BY DEF Seen
    <3>4. offset \in Int /\ \A j \in Indices : ScanOffset(j, start, n) \in Int
      BY DEF ScanTypeOK, Indices, ScanOffset
    <3>5. bestIndex' = IF Replaces(i) THEN i ELSE bestIndex
      BY <2>2 DEF Scan
    <3>6. ScanInv' <=> IF Seen' = {} THEN bestIndex' = -1
                       ELSE IsBest(at, bestIndex', Seen', start, n)
      BY <3>0 DEF ScanInv, IsBest, at
    <3>7. i # -1 /\ \A j \in Indices : j # -1
      BY <3>0 DEF Indices, ScanTypeOK
    <3> HIDE DEF n, i
    <3>8. CASE ~Selectable(at(i))
      BY <3>2, <3>5, <3>6, <3>8, Zenon DEF Replaces, ScanInv, n
    <3>9. CASE Selectable(at(i)) /\ Seen = {}
      <4>1. bestIndex' = i /\ Seen' = {i}
        BY <3>2, <3>5, <3>9 DEF Replaces, ScanInv
      <4>2. Compare(at(i), at(i)) = 0
        BY <3>0, <3>1, CompareAntisymmetric
      <4> QED
        BY <3>0, <3>4, <3>6, <4>1, <4>2 DEF IsBest
    <3>10. CASE Selectable(at(i)) /\ Seen # {}
      <4>1. IsBest(at, bestIndex, Seen, start, n) /\ bestIndex \in Seen
        BY <3>10 DEF ScanInv, IsBest, n
      <4>2. bestIndex \in Indices /\ bestIndex # -1
        BY <3>3, <3>7, <4>1
      <4>3. CASE Compare(at(i), at(bestIndex)) < 0
        <5>1. bestIndex' = i /\ Seen' = Seen \cup {i}
          BY <3>2, <3>5, <3>10, <4>3 DEF Replaces
        <5>2. Compare(at(i), at(i)) = 0
          BY <3>0, <3>1, CompareAntisymmetric
        <5>3. ASSUME NEW j \in Seen PROVE Compare(at(i), at(j)) < 0
          <6>1. Compare(at(bestIndex), at(j)) <= 0
            <7>1. Compare(at(bestIndex), at(j)) \in {-1, 0, 1}
              BY <3>1, <3>3, <4>2, CompareIsLess
            <7> QED
              BY <4>1, <7>1 DEF IsBest
          <6> QED
            BY <3>0, <3>1, <3>3, <4>2, <4>3, <6>1, CompareTransitive
        <5> QED
          BY <3>0, <3>4, <3>6, <5>1, <5>2, <5>3 DEF IsBest
      <4>4. CASE ~(Compare(at(i), at(bestIndex)) < 0)
        <5>1. bestIndex' = bestIndex /\ Seen' = Seen \cup {i}
          BY <3>2, <3>5, <3>10, <4>2, <4>4 DEF Replaces
        <5>2. Compare(at(bestIndex), at(i)) \in {-1, 0}
          <6>1. Compare(at(bestIndex), at(i)) <= 0
            BY <3>0, <3>1, <4>2, <4>4, CompareAntisymmetric
          <6>2. Compare(at(bestIndex), at(i)) \in {-1, 0, 1}
            BY <3>0, <3>1, <4>2, CompareIsLess
          <6> QED
            BY <6>1, <6>2
        <5>3. ScanOffset(bestIndex, start, n) <= ScanOffset(i, start, n)
          BY <3>0, <3>3, <3>4, <4>1, <4>2
        <5> QED
          BY <3>6, <4>1, <5>1, <5>2, <5>3 DEF IsBest
      <4> QED
        BY <4>3, <4>4
    <3> QED
      BY <3>8, <3>9, <3>10
  <2> QED
    BY <2>1, <2>2 DEF ScanNext
<1> QED
  BY <1>1, <1>2, ScanTypeCorrect, PTL DEF ScanSpec

(* selectNodeLocked returns what the scheduler's model assumes of it. *)
THEOREM ScanSelectsBest == ScanSpec => []SelectsBest
<1>1. ScanTypeOK /\ ScanInv => SelectsBest
  <2> SUFFICES ASSUME ScanTypeOK, ScanInv, offset = Len(order) PROVE SelectsBest
    BY Zenon DEF SelectsBest
  <2>1. \A i \in Indices : ScanOffset(i, start, Len(order)) < offset
    BY DEF ScanTypeOK, Indices, ScanOffset
  <2>2. Seen = {i \in Indices : Selectable(at(i))}
    BY <2>1 DEF Seen
  <2> QED
    BY <2>2, Zenon DEF ScanInv, SelectsBest
<1> QED
  BY <1>1, ScanTypeCorrect, ScanInvariant, PTL

(* No node that could take the task is less loaded, in running tasks per   *)
(* slot, than the one selectNodeLocked returns.                            *)
THEOREM ScanSelectsLowestRatio == ScanSpec => []SelectsLowestRatio
<1>1. ScanTypeOK /\ SelectsBest => SelectsLowestRatio
  <2> SUFFICES ASSUME ScanTypeOK, SelectsBest, offset = Len(order),
                      bestIndex # -1,
                      NEW i \in Indices, Selectable(at(i))
               PROVE  at(bestIndex).runningTasks * at(i).capacity
                        <= at(i).runningTasks * at(bestIndex).capacity
    BY DEF SelectsLowestRatio
  <2> DEFINE b == at(bestIndex)
             k == at(i)
  <2>1. Compare(b, k) < 0 \/ Compare(b, k) = 0
    <3>1. i \in {j \in Indices : Selectable(at(j))}
      OBVIOUS
    <3>2. IsBest(at, bestIndex, {j \in Indices : Selectable(at(j))}, start,
                 Len(order))
      BY <3>1, Zenon DEF SelectsBest
    <3> QED
      BY <3>1, <3>2 DEF IsBest
  <2>2. b \in Loads /\ k \in Loads
    <3>1. bestIndex \in Indices
      BY DEF ScanTypeOK
    <3> QED
      BY <3>1 DEF ScanTypeOK, Indices, at
  <2> HIDE DEF b, k
  <2>3. b \in Load /\ k \in Load
    BY <2>2, LoadsAssumption DEF Load
  <2>4. Less(b, k) \/ ~Less(k, b)
    BY <2>1, <2>2, CompareIsLess
  <2>5. /\ b.runningTasks * k.capacity \in Nat
        /\ k.runningTasks * b.capacity \in Nat
    BY <2>3 DEF Load
  <2> QED
    BY <2>4, <2>5 DEF Less, b, k
<1> QED
  BY <1>1, ScanTypeCorrect, ScanSelectsBest, PTL
=============================================================================
