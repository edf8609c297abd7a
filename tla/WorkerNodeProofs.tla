-------------------------- MODULE WorkerNodeProofs --------------------------
(***************************************************************************)
(* Proofs about the worker: WorkerNode, for any tasks, any number of pool  *)
(* threads and any backlog, and the configuration it loads (ConfigFile),   *)
(* for files of any length.                                                *)
(***************************************************************************)
EXTENDS WorkerNode, ConfigFile, SequenceLemmas, FiniteSetTheorems

(* What stop() has behind it at each of its points. *)
Starting    == {"server", "pool", "consumers", "register", "heartbeat"}
PoolJoined  == {"notify", "done"}
QueueStopped == {"pool", "joinPool"} \cup PoolJoined
AcceptJoined == {"queue"} \cup QueueStopped
TimerJoined == {"farewell", "transport", "joinAccept"} \cup AcceptJoined

PoolPcs == {"none", "pool", "loop", "pop", "execute", "report", "finish", "exited"}

(* stop() never meets a start() that is still at work, and what it has     *)
(* joined does not come back.                                              *)
ThreadInv ==
  /\ mainPc \in Starting => stopPc = "idle"
  /\ pc \in [Consumers -> PoolPcs]
  /\ mainPc \in {"server", "pool"} => \A c \in Consumers : pc[c] = "none"
  /\ mainPc = "server" => acceptPc = "none"
  /\ stopPc \in {"idle", "timer", "joinTimer"} \cup TimerJoined
  /\ stopPc \in TimerJoined => TimerGone
  /\ stopPc \in AcceptJoined => AcceptGone
  /\ stopPc \in PoolJoined => PoolGone
  /\ stopped => stopPc \in QueueStopped

(* start() has not created any thread yet. *)
LEMMA ThreadInvInit == Init => ThreadInv
  BY DEF Init, ThreadInv, PoolPcs, TimerJoined, AcceptJoined, QueueStopped, PoolJoined

(* Every step of every thread keeps the invariant. *)
LEMMA ThreadInvNext == ThreadInv /\ [Next]_vars => ThreadInv'
<1> SUFFICES ASSUME ThreadInv, [Next]_vars PROVE ThreadInv'
  OBVIOUS
<1> USE DEF ThreadInv, Starting, PoolPcs, TimerJoined, AcceptJoined, QueueStopped,
            PoolJoined, TimerGone, AcceptGone, PoolGone,
            mainVars, timerVars, acceptVars, queueVars, poolVars
<1>1. CASE Start
  <2>1. CASE StartServer \/ StartHeartbeat
    BY <2>1 DEF StartServer, StartHeartbeat
  <2>2. CASE StartPool
    BY <2>2 DEF StartPool
  <2>3. CASE EnqueueConsumer \/ ConsumersStarted \/ RegisterToScheduler
    BY <2>3 DEF EnqueueConsumer, ConsumersStarted, RegisterToScheduler
  <2> QED BY <1>1, <2>1, <2>2, <2>3 DEF Start
<1>2. CASE StartFails \/ StopBegin
  BY <1>2 DEF StartFails, StopBegin
<1>3. CASE Run \/ SpuriousWake
  BY <1>3 DEF Run, RunTest, RunBlock, SpuriousWake
<1>4. CASE Stop
  <2>1. CASE StopTimer \/ JoinTimer \/ Farewell
    BY <2>1 DEF StopTimer, JoinTimer, Farewell
  <2>2. CASE StopTransport \/ JoinAccept
    BY <2>2 DEF StopTransport, JoinAccept
  <2>3. CASE StopQueue \/ StopPool
    BY <2>3 DEF StopQueue, StopPool
  <2>4. CASE JoinPool \/ Notify
    BY <2>4 DEF JoinPool, Notify, Woken
  <2> QED BY <1>4, <2>1, <2>2, <2>3, <2>4, Zenon DEF Stop
<1>5. CASE Timer
  BY <1>5 DEF Timer, TimerWake, TimerCount, TimerSend
<1>6. ASSUME NEW t \in Tasks, Connect(t) PROVE ThreadInv'
  BY <1>6 DEF Connect
<1>7. CASE AcceptThread
  <2>1. CASE Accept \/ AcceptExit \/ Receive \/ ReceiveNothing
    BY <2>1 DEF Accept, AcceptExit, Receive, ReceiveNothing
  <2>2. CASE Handle \/ Enqueue \/ Push
    BY <2>2 DEF Handle, Enqueue, Push
  <2> QED BY <1>7, <2>1, <2>2, Zenon DEF AcceptThread
<1>8. ASSUME NEW c \in Consumers, Consumer(c) PROVE ThreadInv'
  <2>1. /\ pc[c] \notin {"none", "exited"}
        /\ \E p \in PoolPcs \ {"none"} : pc' = [pc EXCEPT ![c] = p]
        /\ UNCHANGED <<mainPc, stopPc, timerPc, acceptPc, stopped>>
    BY <1>8 DEF Consumer, PoolTake, PoolExit, Loop, WaitPop, Execute, ReportResult, Finish
  <2> QED BY <2>1, Zenon
<1>9. CASE UNCHANGED vars
  BY <1>9 DEF vars
<1> QED BY <1>1, <1>2, <1>3, <1>4, <1>5, <1>6, <1>7, <1>8, <1>9, Zenon DEF Next

(* When stop() returns no other thread is left, for any pool size. *)
THEOREM StopLeavesNoThread == Spec => []StoppedIsQuiet
<1>1. ThreadInv => StoppedIsQuiet
  BY DEF ThreadInv, StoppedIsQuiet, TimerJoined, AcceptJoined, QueueStopped, PoolJoined,
         TimerGone, AcceptGone, PoolGone
<1> QED BY ThreadInvInit, ThreadInvNext, <1>1, PTL DEF Spec

(* Of the steps, only these two send a heartbeat. *)
LEMMA BeatSteps ==
  ASSUME [Next]_vars
  PROVE  lastBeat' = lastBeat \/ Farewell \/ TimerSend
<1> USE DEF mainVars, timerVars, acceptVars, queueVars, poolVars
<1>1. CASE Start \/ StartFails \/ Run \/ SpuriousWake \/ StopBegin
  BY <1>1 DEF Start, StartServer, StartPool, EnqueueConsumer, ConsumersStarted,
              RegisterToScheduler, StartHeartbeat, StartFails, Run, RunTest, RunBlock,
              SpuriousWake, StopBegin
<1>2. CASE Stop
  BY <1>2 DEF Stop, StopTimer, JoinTimer, StopTransport, JoinAccept, StopQueue,
              StopPool, JoinPool, Notify
<1>3. CASE Timer
  BY <1>3 DEF Timer, TimerWake, TimerCount
<1>4. CASE AcceptThread \/ \E t \in Tasks : Connect(t)
  BY <1>4 DEF AcceptThread, Accept, AcceptExit, Receive, ReceiveNothing, Handle, Enqueue,
              Push, Connect
<1>5. CASE \E c \in Consumers : Consumer(c)
  BY <1>5 DEF Consumer, PoolTake, PoolExit, Loop, WaitPop, Execute, ReportResult, Finish
<1>6. CASE UNCHANGED vars
  BY <1>6 DEF vars
<1> QED BY <1>1, <1>2, <1>3, <1>4, <1>5, <1>6, Zenon DEF Next

(* No heartbeat follows the farewell: the timer's thread was joined. *)
THEOREM NoBeatAfterFarewell == Spec => FarewellIsLast
<1>1. ThreadInv /\ ThreadInv' /\ [Next]_vars =>
        [stopPc \notin {"idle", "timer", "joinTimer", "farewell"} => lastBeat' = lastBeat]_vars
  <2> SUFFICES ASSUME ThreadInv, [Next]_vars, lastBeat' # lastBeat
               PROVE  stopPc \in {"idle", "timer", "joinTimer", "farewell"}
    OBVIOUS
  <2>1. CASE Farewell
    BY <2>1 DEF Farewell
  <2>2. CASE TimerSend
    <3>1. stopPc \notin TimerJoined
      BY <2>2 DEF TimerSend, ThreadInv, TimerGone
    <3> QED BY <3>1 DEF ThreadInv, TimerJoined, AcceptJoined, QueueStopped, PoolJoined
  <2> QED BY <2>1, <2>2, BeatSteps
<1> QED BY ThreadInvInit, ThreadInvNext, <1>1, PTL DEF Spec, FarewellIsLast

-----------------------------------------------------------------------------

Looping == {"loop", "pop"} \cup Busy

InLoop == {c \in Consumers : pc[c] \in Looping}

(* Once start() has submitted the consumer loops, and until stop() begins, *)
(* every thread of the pool is in such a loop, or free with one waiting    *)
(* that it can take.                                                       *)
EveryThreadConsumes ==
  running /\ mainPc \notin {"server", "pool", "consumers"} =>
    \A c \in Consumers : pc[c] \in Looping \/ (pc[c] = "pool" /\ poolTasks > 0)

(* No loop is lost: each that was submitted is run by a thread of its own  *)
(* or waits in the pool.                                                   *)
LoopInv ==
  /\ running => stopPc = "idle" /\ mainPc \notin {"failed", "returned"}
  /\ poolStopping => stopPc # "idle"
  /\ consumers \in Nat /\ poolTasks \in Nat
  /\ mainPc \in {"server", "pool"} => consumers = 0 /\ poolTasks = 0
  /\ consumers <= Cardinality(Consumers)
  /\ mainPc \notin {"server", "pool", "consumers", "failed"} =>
       consumers = Cardinality(Consumers)
  /\ running =>
       /\ Cardinality(InLoop) + poolTasks = consumers
       /\ \A c \in Consumers : pc[c] # "exited"
       /\ mainPc \notin {"server", "pool"} => \A c \in Consumers : pc[c] # "none"

(* How many there are. *)
LEMMA LoopsCounted ==
  /\ Cardinality(Consumers) \in Nat
  /\ IsFiniteSet(InLoop) /\ Cardinality(InLoop) \in Nat
<1>1. IsFiniteSet(Consumers) /\ InLoop \subseteq Consumers
  BY WorkerAssumption DEF InLoop
<1>2. IsFiniteSet(InLoop)
  BY <1>1, FS_Subset, Zenon
<1> QED BY <1>1, <1>2, FS_CardinalityType, Zenon

(* Nothing was submitted yet, and no thread is there to run it. *)
LEMMA LoopInvInit == Init => LoopInv
<1> SUFFICES ASSUME Init PROVE LoopInv
  OBVIOUS
<1>1. InLoop = {}
  BY DEF Init, InLoop, Looping, Busy
<1>2. Cardinality(InLoop) = 0
  BY <1>1, FS_EmptySet, Zenon
<1> QED BY <1>2, LoopsCounted DEF Init, LoopInv

(* A pool thread's step. *)
LEMMA LoopInvConsumer ==
  ASSUME ThreadInv, LoopInv, NEW c \in Consumers, Consumer(c)
  PROVE  LoopInv'
<1> USE DEF mainVars, timerVars, acceptVars, queueVars, poolVars
<1>1. pc \in [Consumers -> PoolPcs]
  BY DEF ThreadInv
<1>2. /\ UNCHANGED <<running, mainPc, stopPc, consumers, poolStopping>>
      /\ poolTasks' \in Nat /\ (poolTasks = 0 => poolTasks' = 0)
  BY DEF LoopInv, Consumer, PoolTake, PoolExit, Loop, WaitPop, Execute, ReportResult, Finish
<1>3. CASE ~running
  <2>1. ~running' /\ (poolStopping' => poolStopping)
    BY <1>2, <1>3, Zenon
  <2> QED BY <1>2, <2>1 DEF LoopInv
<1>4. CASE running
  <2>1. stopPc = "idle" /\ ~stopped /\ ~poolStopping
    BY <1>4 DEF LoopInv, ThreadInv, QueueStopped, PoolJoined
  <2>2. Cardinality(InLoop)' + poolTasks' = consumers
    <3>1. CASE PoolTake(c)
      <4>1. InLoop' = InLoop \cup {c} /\ c \notin InLoop
        BY <1>1, <3>1 DEF PoolTake, InLoop, Looping, Busy
      <4>2. Cardinality(InLoop') = Cardinality(InLoop) + 1
        BY <4>1, LoopsCounted, FS_AddElement, Zenon
      <4> QED BY <1>4, <3>1, <4>2, LoopsCounted DEF PoolTake, LoopInv
    <3>2. CASE ~PoolTake(c)
      <4>1. InLoop' = InLoop /\ poolTasks' = poolTasks
        BY <1>1, <1>4, <2>1, <3>2, Zenon
           DEF Consumer, PoolExit, Loop, WaitPop, Execute, ReportResult, Finish, InLoop,
               Looping, Busy
      <4> QED BY <1>4, <4>1, Zenon DEF LoopInv
    <3> QED BY <3>1, <3>2, SMTT(30)
  <2>3. pc'[c] \notin {"exited", "none"} /\ \A d \in Consumers : d # c => pc'[d] = pc[d]
    BY <1>1, <1>4, <2>1, Zenon
       DEF Consumer, PoolTake, PoolExit, Loop, WaitPop, Execute, ReportResult, Finish
  <2>4. ~poolStopping'
    BY <1>2, <2>1, Zenon
  <2> QED BY <1>2, <1>4, <2>2, <2>3, <2>4, Zenon DEF LoopInv
<1> QED BY <1>3, <1>4

(* Every step keeps the invariant. *)
LEMMA LoopInvNext == ThreadInv /\ LoopInv /\ [Next]_vars => LoopInv'
<1> SUFFICES ASSUME ThreadInv, LoopInv, [Next]_vars PROVE LoopInv'
  OBVIOUS
<1> USE DEF mainVars, timerVars, acceptVars, queueVars, poolVars
<1>1. CASE UNCHANGED <<running, mainPc, stopPc, poolVars>>
  <2>1. InLoop' = InLoop
    BY <1>1, Zenon DEF InLoop
  <2> QED BY <1>1, <2>1 DEF LoopInv
<1>2. CASE StartPool
  <2>1. InLoop = {} /\ InLoop' = {}
    BY <1>2 DEF ThreadInv, StartPool, InLoop, Looping, Busy
  <2>2. /\ mainPc = "pool" /\ mainPc' = "consumers"
        /\ UNCHANGED <<running, stopPc, consumers, poolTasks, poolStopping>>
        /\ \A c \in Consumers : pc'[c] = "pool"
    BY <1>2 DEF StartPool
  <2>3. Cardinality(InLoop') = Cardinality(InLoop)
    BY <2>1, Zenon
  <2> QED BY <2>2, <2>3 DEF LoopInv
<1>3. CASE EnqueueConsumer
  <2>1. InLoop' = InLoop
    BY <1>3, Zenon DEF InLoop, EnqueueConsumer
  <2> QED BY <1>3, <2>1, LoopsCounted DEF LoopInv, EnqueueConsumer, MoreConsumers
<1>4. CASE \/ StartServer \/ ConsumersStarted \/ RegisterToScheduler \/ StartHeartbeat
           \/ Run \/ SpuriousWake
  <2>1. InLoop' = InLoop
    BY <1>4, Zenon DEF InLoop, StartServer, ConsumersStarted, RegisterToScheduler, StartHeartbeat,
                Run, RunTest, RunBlock, SpuriousWake
  <2> QED BY <1>4, <2>1, LoopsCounted
          DEF LoopInv, StartServer, ConsumersStarted, RegisterToScheduler, StartHeartbeat,
              Run, RunTest, RunBlock, SpuriousWake, MoreConsumers
<1>5. CASE StartFails \/ StopBegin
  BY <1>5 DEF LoopInv, StartFails, StopBegin
<1>6. CASE Stop
  <2>1. stopPc # "idle" /\ ~running /\ ~running' /\ stopPc' # "idle"
    BY <1>6 DEF LoopInv, Stop, StopTimer, JoinTimer, Farewell, StopTransport, JoinAccept,
                StopQueue, StopPool, JoinPool, Notify
  <2>2. /\ UNCHANGED <<consumers, poolTasks>>
        /\ mainPc' = mainPc \/ (mainPc = "asleep" /\ mainPc' = "test")
    BY <1>6 DEF Stop, StopTimer, JoinTimer, Farewell, StopTransport, JoinAccept,
                StopQueue, StopPool, JoinPool, Notify, Woken
  <2> QED BY <2>1, <2>2, Zenon DEF LoopInv
<1>7. ASSUME NEW c \in Consumers, Consumer(c) PROVE LoopInv'
  BY <1>7, LoopInvConsumer
<1>8. CASE Timer \/ AcceptThread \/ \E t \in Tasks : Connect(t)
  <2>1. UNCHANGED <<running, mainPc, stopPc, poolVars>>
    BY <1>8 DEF Timer, TimerWake, TimerCount, TimerSend, AcceptThread, Accept, AcceptExit,
                Receive, ReceiveNothing, Handle, Enqueue, Push, Connect
  <2> QED BY <1>1, <2>1, Zenon
<1>9. CASE UNCHANGED vars
  BY <1>1, <1>9 DEF vars
<1> QED BY <1>2, <1>3, <1>4, <1>5, <1>6, <1>7, <1>8, <1>9, SMTT(30) DEF Next, Start

(* No consumer is lost while the worker runs, whatever becomes of the      *)
(* tasks and their reports, for any pool size: the safety behind           *)
(* QueuedTaskRuns.                                                         *)
THEOREM ConsumersStayUp == Spec => []EveryThreadConsumes
<1>1. ThreadInv /\ LoopInv => EveryThreadConsumes
  <2> SUFFICES ASSUME ThreadInv, LoopInv, running, mainPc \notin {"server", "pool", "consumers"},
                      NEW c \in Consumers, pc[c] \notin Looping
               PROVE  pc[c] = "pool" /\ poolTasks > 0
    BY DEF EveryThreadConsumes
  <2>1. pc[c] = "pool"
    BY DEF ThreadInv, LoopInv, PoolPcs, Looping, Busy
  <2>2. Cardinality(InLoop) + poolTasks = Cardinality(Consumers) /\ poolTasks \in Nat
    BY DEF LoopInv
  <2>3. InLoop \subseteq Consumers /\ InLoop # Consumers /\ IsFiniteSet(Consumers)
    BY WorkerAssumption DEF InLoop
  <2>4. Cardinality(InLoop) < Cardinality(Consumers)
    <3>1. /\ Cardinality(InLoop) <= Cardinality(Consumers)
          /\ Cardinality(InLoop) # Cardinality(Consumers)
      BY <2>3, FS_Subset, Zenon
    <3> QED BY <3>1, LoopsCounted
  <2> QED BY <2>1, <2>2, <2>4, LoopsCounted
<1> QED BY ThreadInvInit, ThreadInvNext, LoopInvInit, LoopInvNext, <1>1, PTL DEF Spec

-----------------------------------------------------------------------------

(* Where a task may be, and that it is in one place only. *)
HoldInv ==
  /\ backlog \in Seq(Tasks)
  /\ acceptPc \in {"receive", "handle", "enqueue", "push"} => incoming \in Tasks
  /\ queue \in Seq(Tasks)
  /\ hand \in [Consumers -> Tasks \cup {NoTask}]
  /\ \A c \in Consumers : pc[c] \in Busy <=> hand[c] # NoTask
  /\ HeldOnce /\ ActiveExact

(* HeldOnce and Queued in the words of SequenceLemmas. *)
LEMMA QueueIsListed ==
  /\ Queued = Listed(queue) /\ Queued' = Listed(queue')
  /\ HeldOnce => Distinct(queue)
  BY DEF Queued, Listed, Distinct, HeldOnce

(* The worker holds nothing at first. *)
LEMMA HoldInvInit == Init => HoldInv
  BY DEF Init, HoldInv, HeldOnce, ActiveExact, Queued, InHand, Pushing, Busy

(* Steps that leave the queue and the hands alone. *)
LEMMA HoldInvElsewhere ==
  ASSUME HoldInv, UNCHANGED <<active, queue, hand>>,
         \A c \in Consumers : pc'[c] \in Busy <=> pc[c] \in Busy,
         Pushing' = Pushing, backlog' \in Seq(Tasks),
         acceptPc' \in {"receive", "handle", "enqueue", "push"} => incoming' \in Tasks
  PROVE  HoldInv'
<1>1. Queued' = Queued /\ InHand' = InHand
  BY DEF Queued, InHand
<1>2. HeldOnce'
  BY <1>1 DEF HoldInv, HeldOnce
<1>3. ActiveExact'
  BY <1>1 DEF HoldInv, ActiveExact
<1> QED BY <1>2, <1>3 DEF HoldInv

(* The steps of the consumers that move tasks. *)
LEMMA HoldInvConsumer ==
  ASSUME HoldInv, ThreadInv, ThreadInv', NEW c \in Consumers, Consumer(c)
  PROVE  HoldInv'
<1> USE DEF mainVars, timerVars, acceptVars, queueVars
<1>0. UNCHANGED <<acceptPc, incoming, backlog>> /\ Pushing' = Pushing
  BY Zenon DEF Consumer, PoolTake, PoolExit, Loop, WaitPop, Execute, ReportResult, Finish, Pushing
<1>1. CASE PoolTake(c) \/ PoolExit(c) \/ Loop(c) \/ Execute(c) \/ ReportResult(c)
  <2>1. /\ UNCHANGED <<active, queue, hand>>
        /\ \A d \in Consumers : pc'[d] \in Busy <=> pc[d] \in Busy
    BY <1>1, Zenon DEF ThreadInv, PoolTake, PoolExit, Loop, Execute, ReportResult, Busy
  <2> QED BY <1>0, <2>1, HoldInvElsewhere, Zenon DEF HoldInv
<1>2. CASE WaitPop(c) /\ stopped
  <2>1. /\ UNCHANGED <<active, queue, hand>>
        /\ \A d \in Consumers : pc'[d] \in Busy <=> pc[d] \in Busy
    BY <1>2 DEF ThreadInv, WaitPop, Busy
  <2> QED BY <1>0, <2>1, HoldInvElsewhere DEF HoldInv
<1>3. CASE WaitPop(c) /\ ~stopped
  <2> DEFINE t == Head(queue)
  <2>1. /\ pc[c] = "pop" /\ queue # <<>> /\ queue' = Tail(queue) /\ active' = active
        /\ hand' = [hand EXCEPT ![c] = t] /\ pc' = [pc EXCEPT ![c] = "execute"]
    BY <1>3 DEF WaitPop, Poppable
  <2>2. /\ t \in Tasks /\ queue' \in Seq(Tasks) /\ Distinct(queue')
        /\ Queued = {t} \cup Queued' /\ t \notin Queued'
    BY <2>1, TakeFront, QueueIsListed, Zenon DEF HoldInv
  <2>3. t # NoTask /\ t \in Queued
    BY <2>2, WorkerAssumption, Zenon
  <2>4. \A d \in Consumers : pc'[d] \in Busy <=> d = c \/ pc[d] \in Busy
    BY <2>1 DEF ThreadInv, Busy
  <2>5. \A d \in Consumers : hand'[d] = IF d = c THEN t ELSE hand[d]
    BY <2>1 DEF HoldInv
  <2>6. pc[c] \notin Busy
    BY <2>1 DEF Busy
  <2>7. InHand' = InHand \cup {t}
    BY <2>4, <2>5, <2>6, Zenon DEF InHand
  <2>8. \A d \in Consumers : hand[d] # t
    BY <2>3 DEF HoldInv, HeldOnce, InHand
  <2>9. \A d, e \in Consumers : pc'[d] \in Busy /\ hand'[d] = hand'[e] => d = e
    BY <2>4, <2>5, <2>8, Zenon DEF HoldInv, HeldOnce
  <2>10. HeldOnce'
    BY <1>0, <2>2, <2>7, <2>9 DEF HoldInv, HeldOnce, Distinct
  <2>11. ActiveExact'
    BY <1>0, <2>1, <2>2, <2>7, Zenon DEF HoldInv, ActiveExact
  <2>12. \A d \in Consumers : pc'[d] \in Busy <=> hand'[d] # NoTask
    BY <2>3, <2>4, <2>5, Zenon DEF HoldInv
  <2>13. hand' \in [Consumers -> Tasks \cup {NoTask}]
    BY <2>1, <2>2, Zenon DEF HoldInv
  <2> QED BY <1>0, <2>2, <2>10, <2>11, <2>12, <2>13, Zenon DEF HoldInv
<1>4. CASE Finish(c)
  <2>1. /\ pc[c] = "finish" /\ queue' = queue /\ active' = active \ {hand[c]}
        /\ hand' = [hand EXCEPT ![c] = NoTask] /\ pc' = [pc EXCEPT ![c] = "loop"]
    BY <1>4, Zenon DEF Finish, finishTask
  <2>2. Queued' = Queued
    BY <2>1, Zenon DEF Queued
  <2>3. \A d \in Consumers : pc'[d] \in Busy <=> d # c /\ pc[d] \in Busy
    BY <2>1 DEF ThreadInv, Busy
  <2>4. \A d \in Consumers : hand'[d] = IF d = c THEN NoTask ELSE hand[d]
    BY <2>1 DEF HoldInv
  <2>5. pc[c] \in Busy
    BY <2>1, Zenon DEF Busy
  <2>6. InHand' = InHand \ {hand[c]} /\ hand[c] \in InHand
    BY <2>3, <2>4, <2>5 DEF InHand, HoldInv, HeldOnce
  <2>7. \A d \in Consumers : pc'[d] \in Busy <=> hand'[d] # NoTask
    BY <2>3, <2>4, Zenon DEF HoldInv
  <2>8. \A d, e \in Consumers : pc'[d] \in Busy /\ hand'[d] = hand'[e] => d = e
    BY <2>3, <2>4, <2>7, Zenon DEF HoldInv, HeldOnce
  <2>9. HeldOnce'
    BY <1>0, <2>1, <2>2, <2>6, <2>8, Zenon DEF HoldInv, HeldOnce
  <2>10. ActiveExact'
    BY <1>0, <2>1, <2>2, <2>6, Zenon DEF HoldInv, HeldOnce, ActiveExact
  <2>11. hand' \in [Consumers -> Tasks \cup {NoTask}]
    BY <2>1 DEF HoldInv
  <2> QED BY <1>0, <2>1, <2>7, <2>9, <2>10, <2>11, Zenon DEF HoldInv
<1> QED BY <1>1, <1>2, <1>3, <1>4, Zenon DEF Consumer

(* The accept thread takes a task in only if the worker does not hold it. *)
LEMMA HoldInvAccept ==
  ASSUME HoldInv, ThreadInv, AcceptThread
  PROVE  HoldInv'
<1> USE DEF mainVars, timerVars, acceptVars, queueVars, poolVars
<1>1. UNCHANGED <<pc, hand>> /\ InHand' = InHand
  BY DEF AcceptThread, Accept, AcceptExit, Receive, ReceiveNothing, Handle, Enqueue,
         Push, InHand
<1>2. CASE Accept
  <2>1. Head(backlog) \in Tasks /\ Tail(backlog) \in Seq(Tasks)
    BY <1>2, TakeFront, Zenon DEF Accept, HoldInv
  <2>2. Pushing' = Pushing
    BY <1>2, Zenon DEF Accept, Pushing
  <2> QED BY <1>1, <1>2, <2>1, <2>2, HoldInvElsewhere, Zenon DEF Accept
<1>3. CASE AcceptExit \/ Receive \/ ReceiveNothing \/ Handle
  <2>1. Pushing' = Pushing
    BY <1>3 DEF AcceptExit, Receive, ReceiveNothing, Handle, Pushing
  <2> QED BY <1>1, <1>3, <2>1, HoldInvElsewhere, Zenon
          DEF AcceptExit, Receive, ReceiveNothing, Handle, HoldInv
<1>4. CASE Enqueue
  <2>0. incoming \in Tasks /\ Queued' = Queued /\ Pushing = {}
    BY <1>4, Zenon DEF Enqueue, HoldInv, Queued, Pushing
  <2>1. CASE incoming \in active
    <3>1. active' = active /\ Pushing' = {}
      BY <1>4, <2>1, Zenon DEF Enqueue, Duplicate, Pushing
    <3> QED BY <1>1, <1>4, <2>0, <2>1, <3>1, HoldInvElsewhere, Zenon
            DEF Enqueue, Duplicate, HoldInv
  <2>2. CASE incoming \notin active
    <3>1. /\ active' = active \cup {incoming} /\ Pushing' = {incoming}
          /\ incoming' = incoming /\ UNCHANGED <<backlog, queue>>
      BY <1>4, <2>2, Zenon DEF Enqueue, Duplicate, Pushing
    <3>2. incoming \notin Queued \cup InHand
      BY <2>2, Zenon DEF HoldInv, ActiveExact
    <3>3. HeldOnce'
      BY <1>1, <2>0, <3>1, <3>2 DEF HoldInv, HeldOnce
    <3>4. ActiveExact'
      BY <1>1, <2>0, <3>1, Zenon DEF HoldInv, ActiveExact
    <3> QED BY <1>1, <2>0, <3>1, <3>3, <3>4, Zenon DEF HoldInv
  <2> QED BY <2>1, <2>2, Zenon
<1>5. CASE Push
  <2>1. /\ acceptPc = "push" /\ ~stopped
    BY <1>5, Zenon DEF Push, ThreadInv, AcceptGone, AcceptJoined
  <2>2. /\ queue' = Append(queue, incoming) /\ active' = active /\ Pushing' = {}
        /\ acceptPc' = "accept" /\ backlog' = backlog
    BY <1>5, <2>1, Zenon DEF Push, Pushing
  <2>3. Pushing = {incoming} /\ incoming \in Tasks
    BY <2>1, Zenon DEF Pushing, HoldInv
  <2>4. incoming \notin Queued
    BY <2>3, Zenon DEF HoldInv, HeldOnce
  <2>5. /\ queue' \in Seq(Tasks) /\ Queued' = Queued \cup {incoming}
        /\ Distinct(queue')
    BY <2>2, <2>3, <2>4, PutLast, QueueIsListed, SMTT(30) DEF HoldInv
  <2>6. HeldOnce'
    BY <1>1, <2>2, <2>3, <2>5, Zenon DEF HoldInv, HeldOnce, Distinct
  <2>7. ActiveExact'
    BY <1>1, <2>2, <2>3, <2>5, Zenon DEF HoldInv, ActiveExact
  <2> QED BY <1>1, <2>2, <2>5, <2>6, <2>7, Zenon DEF HoldInv
<1> QED BY <1>2, <1>3, <1>4, <1>5, Zenon DEF AcceptThread

(* Every step keeps each task in one place. *)
LEMMA HoldInvNext == ThreadInv /\ ThreadInv' /\ HoldInv /\ [Next]_vars => HoldInv'
<1> SUFFICES ASSUME ThreadInv, ThreadInv', HoldInv, [Next]_vars PROVE HoldInv'
  BY Zenon
<1> USE DEF mainVars, timerVars, acceptVars, queueVars, poolVars
<1>1. CASE StartPool
  <2>1. \A c \in Consumers : pc'[c] \in Busy <=> pc[c] \in Busy
    BY <1>1, Zenon DEF StartPool, ThreadInv, Busy
  <2> QED BY <1>1, <2>1, HoldInvElsewhere, Zenon DEF StartPool, HoldInv, Pushing
<1>2. ASSUME UNCHANGED <<active, queue, hand, pc, acceptPc, incoming>>,
             backlog' \in Seq(Tasks)
      PROVE  HoldInv'
  BY <1>2, HoldInvElsewhere, Zenon DEF HoldInv, Pushing
<1>3. backlog \in Seq(Tasks)
  BY DEF HoldInv
<1>4. CASE StartServer
  <2>1. Pushing = {} /\ Pushing' = {}
    BY <1>4, Zenon DEF StartServer, ThreadInv, Pushing
  <2> QED BY <1>3, <1>4, <2>1, HoldInvElsewhere, Zenon DEF StartServer
<1>5. CASE Start /\ ~StartServer /\ ~StartPool
  BY <1>2, <1>3, <1>5, Zenon DEF Start, EnqueueConsumer, ConsumersStarted, RegisterToScheduler,
                    StartHeartbeat
<1>6. CASE StartFails \/ Run \/ SpuriousWake \/ StopBegin
  BY <1>2, <1>3, <1>6, Zenon DEF StartFails, Run, RunTest, RunBlock, SpuriousWake, StopBegin
<1>7. CASE StopTransport
  <2>1. backlog' \in Seq(Tasks)
    BY <1>7 DEF StopTransport
  <2> QED BY <1>2, <1>7, <2>1, Zenon DEF StopTransport
<1>8. CASE Stop /\ ~StopTransport
  BY <1>2, <1>3, <1>8, Zenon
     DEF Stop, StopTimer, JoinTimer, Farewell, JoinAccept, StopQueue, StopPool, JoinPool,
         Notify
<1>9. CASE Timer
  BY <1>2, <1>3, <1>9, Zenon DEF Timer, TimerWake, TimerCount, TimerSend
<1>10. ASSUME NEW t \in Tasks, Connect(t) PROVE HoldInv'
  <2>1. backlog' \in Seq(Tasks)
    BY <1>3, <1>10, PutLast, Zenon DEF Connect
  <2> QED BY <1>2, <1>10, <2>1, Zenon DEF Connect
<1>11. CASE UNCHANGED vars
  BY <1>2, <1>3, <1>11, Zenon DEF vars
<1> QED
  BY <1>1, <1>4, <1>5, <1>6, <1>7, <1>8, <1>9, <1>10, <1>11, HoldInvAccept, HoldInvConsumer, Zenon
  DEF Next

(* A task delivered again is neither queued nor executed a second time,    *)
(* for any number of tasks and pool threads.                               *)
THEOREM TasksAreHeldOnce == Spec => []HeldOnce
<1>1. HoldInv => HeldOnce
  BY Zenon DEF HoldInv
<1> QED BY ThreadInvInit, ThreadInvNext, HoldInvInit, HoldInvNext, <1>1, PTL DEF Spec

(* active_task_ids_ is what the worker holds, no more and no less. *)
THEOREM ActiveIsExact == Spec => []ActiveExact
<1>1. HoldInv => ActiveExact
  BY DEF HoldInv
<1> QED BY ThreadInvInit, ThreadInvNext, HoldInvInit, HoldInvNext, <1>1, PTL DEF Spec

-----------------------------------------------------------------------------

StageOfPc(p) ==
  CASE p = "execute" -> "held" [] p = "report" -> "executed" [] OTHER -> "reported"

(* The stage of a task in a thread's hands follows from where that thread  *)
(* is, for no other thread has it.                                         *)
LEMMA StageInHand ==
  HoldInv => \A c \in Consumers : pc[c] \in Busy => StageOf(hand[c]) = StageOfPc(pc[c])
<1> SUFFICES ASSUME HoldInv, NEW c \in Consumers, pc[c] \in Busy
             PROVE  StageOf(hand[c]) = StageOfPc(pc[c])
  OBVIOUS
<1>1. hand[c] \in active
  BY DEF HoldInv, ActiveExact, InHand
<1>2. \A d \in Consumers : hand[d] = hand[c] => d = c
  BY DEF HoldInv, HeldOnce
<1>3. \A p : (\E d \in Consumers : pc[d] = p /\ hand[d] = hand[c]) <=> pc[c] = p
  BY <1>2, Zenon
<1> QED BY <1>1, <1>3, Zenon DEF StageOf, StageOfPc, Busy

Stage == [t \in Tasks |-> StageOf(t)]

(* Steps that neither admit a task nor carry one on. *)
LEMMA StageUnmoved ==
  ASSUME active' = active,
         \A c \in Consumers, p \in {"report", "finish"} :
           /\ pc'[c] = p <=> pc[c] = p
           /\ pc[c] = p => hand'[c] = hand[c]
  PROVE  Stage' = Stage
<1>1. ASSUME NEW t \in Tasks PROVE StageOf(t)' = StageOf(t)
  BY DEF StageOf
<1> QED BY <1>1 DEF Stage

(* A thread that carries the task in its hands on to another point. *)
LEMMA StageMoved ==
  ASSUME HoldInv, ThreadInv, NEW c \in Consumers, NEW p \in Busy,
         pc[c] \in Busy, pc' = [pc EXCEPT ![c] = p], UNCHANGED <<active, hand>>
  PROVE  Stage' = [Stage EXCEPT ![hand[c]] = StageOfPc(p)]
<1> DEFINE At(q, t) == \E d \in Consumers : pc[d] = q /\ hand[d] = t
           AtNext(q, t) == \E d \in Consumers : pc'[d] = q /\ hand[d] = t
<1>1. hand[c] \in active /\ \A d \in Consumers : hand[d] = hand[c] => d = c
  BY DEF HoldInv, HeldOnce, ActiveExact, InHand
<1>2. \A d \in Consumers : pc'[d] = IF d = c THEN p ELSE pc[d]
  BY DEF ThreadInv
<1>3. ASSUME NEW t \in Tasks, t # hand[c] PROVE StageOf(t)' = StageOf(t)
  <2>1. \A q : AtNext(q, t) <=> At(q, t)
    BY <1>2, <1>3
  <2> QED BY <2>1 DEF StageOf
<1>4. StageOf(hand[c])' = StageOfPc(p)
  <2>1. \A q : AtNext(q, hand[c]) <=> p = q
    BY <1>1, <1>2
  <2> QED BY <1>1, <2>1, Zenon DEF StageOf, StageOfPc, Busy
<1>5. Stage' = [t \in Tasks |-> StageOf(t)']
  BY DEF Stage
<1>6. \A t \in Tasks : StageOf(t)' = IF t = hand[c] THEN StageOfPc(p) ELSE StageOf(t)
  BY <1>3, <1>4
<1> QED BY <1>5, <1>6, Zenon DEF Stage

(* A thread that finishes a task lets it go. *)
LEMMA StageReleased ==
  ASSUME HoldInv, ThreadInv, NEW c \in Consumers, Finish(c)
  PROVE  Stage' = [Stage EXCEPT ![hand[c]] = "absent"]
<1> DEFINE At(q, t) == \E d \in Consumers : pc[d] = q /\ hand[d] = t
           AtNext(q, t) == \E d \in Consumers : pc'[d] = q /\ hand'[d] = t
<1>0. PICK k \in Tasks : k = hand[c]
  BY DEF Finish, Busy, HoldInv
<1>1. pc[c] \in Busy /\ k # NoTask
  BY <1>0, WorkerAssumption, Zenon DEF Finish, Busy
<1>2. \A d \in Consumers : hand[d] = k => d = c
  BY <1>0, <1>1, Zenon DEF HoldInv, HeldOnce
<1>3. \A d \in Consumers : /\ pc'[d] = IF d = c THEN "loop" ELSE pc[d]
                           /\ hand'[d] = IF d = c THEN NoTask ELSE hand[d]
  BY DEF Finish, ThreadInv, HoldInv
<1>4. active' = active \ {k}
  BY <1>0, Zenon DEF Finish, finishTask
<1>5. ASSUME NEW t \in Tasks, t # k PROVE StageOf(t)' = StageOf(t)
  <2>1. \A q \in {"report", "finish"} : AtNext(q, t) <=> At(q, t)
    BY <1>0, <1>3, <1>5, WorkerAssumption, Zenon
  <2> QED BY <1>4, <1>5, <2>1, Zenon DEF StageOf
<1>6. StageOf(k)' = "absent"
  <2>1. \A q : ~AtNext(q, k)
    BY <1>1, <1>2, <1>3, Zenon
  <2> QED BY <1>4, <2>1, Zenon DEF StageOf
<1>7. Stage' = [t \in Tasks |-> StageOf(t)']
  BY DEF Stage
<1>8. \A t \in Tasks : StageOf(t)' = IF t = k THEN "absent" ELSE StageOf(t)
  BY <1>5, <1>6
<1> QED BY <1>0, <1>7, <1>8, Zenon DEF Stage

(* A task that is admitted was absent. *)
LEMMA StageAdmitted ==
  ASSUME HoldInv, Enqueue, incoming \notin active
  PROVE  /\ incoming \in Tasks /\ StageOf(incoming) = "absent"
         /\ Stage' = [Stage EXCEPT ![incoming] = "held"]
<1>0. PICK k \in Tasks : k = incoming
  BY DEF Enqueue, HoldInv
<1>1. active' = active \cup {k} /\ UNCHANGED <<pc, hand>>
  BY <1>0 DEF Enqueue, poolVars
<1>2. \A q \in Busy : ~ \E d \in Consumers : pc[d] = q /\ hand[d] = k
  BY <1>0, Zenon DEF HoldInv, ActiveExact, InHand
<1>3. StageOf(k) = "absent" /\ StageOf(k)' = "held"
  BY <1>0, <1>1, <1>2, Zenon DEF StageOf, Busy
<1>4. \A t \in Tasks \ {k} : StageOf(t)' = StageOf(t)
  BY <1>1 DEF StageOf
<1>5. Stage' = [t \in Tasks |-> StageOf(t)']
  BY Zenon DEF Stage
<1> QED BY <1>0, <1>3, <1>4, <1>5, Zenon DEF Stage

(* Whatever is not one of these four steps leaves every stage as it is. *)
LEMMA StageSteps ==
  ASSUME HoldInv, ThreadInv, [Next]_vars
  PROVE  \/ Stage' = Stage
         \/ Enqueue /\ incoming \notin active
         \/ \E c \in Consumers : Execute(c) \/ ReportResult(c) \/ Finish(c)
<1> USE DEF mainVars, timerVars, acceptVars, queueVars, poolVars
<1>1. CASE UNCHANGED <<active, pc, hand>>
  BY <1>1, StageUnmoved, Zenon
<1>2. CASE StartPool
  BY <1>2, StageUnmoved, Zenon DEF StartPool, ThreadInv
<1>3. CASE Enqueue /\ incoming \in active
  BY <1>1, <1>3, Zenon DEF Enqueue
<1>4. CASE Push
  BY <1>1, <1>4, Zenon DEF Push, ThreadInv, AcceptGone, AcceptJoined
<1>5. ASSUME NEW c \in Consumers, PoolTake(c) \/ PoolExit(c) \/ Loop(c) \/ WaitPop(c)
      PROVE  Stage' = Stage
  <2>1. /\ active' = active /\ pc[c] \in {"pool", "loop", "pop"}
        /\ \E q \in {"pool", "loop", "pop", "execute", "exited"} :
             pc' = [pc EXCEPT ![c] = q]
        /\ \A d \in Consumers \ {c} : hand'[d] = hand[d]
    BY <1>5, Zenon DEF PoolTake, PoolExit, Loop, WaitPop, HoldInv
  <2> QED BY <2>1, StageUnmoved, Zenon DEF ThreadInv
<1>6. CASE Start /\ ~StartPool
  BY <1>1, <1>6, Zenon DEF Start, StartServer, EnqueueConsumer, ConsumersStarted,
                    RegisterToScheduler, StartHeartbeat
<1>7. CASE StartFails \/ Run \/ SpuriousWake \/ StopBegin
  BY <1>1, <1>7, Zenon DEF StartFails, Run, RunTest, RunBlock, SpuriousWake, StopBegin
<1>8. CASE Stop
  BY <1>1, <1>8, Zenon DEF Stop, StopTimer, JoinTimer, Farewell, StopTransport, JoinAccept,
                    StopQueue, StopPool, JoinPool, Notify
<1>9. CASE Timer
  BY <1>1, <1>9, Zenon DEF Timer, TimerWake, TimerCount, TimerSend
<1>10. CASE \/ \E t \in Tasks : Connect(t)
            \/ Accept \/ AcceptExit \/ Receive \/ ReceiveNothing \/ Handle
  BY <1>1, <1>10, Zenon DEF Connect, Accept, AcceptExit, Receive, ReceiveNothing, Handle
<1>11. CASE UNCHANGED vars
  BY <1>1, <1>11 DEF vars
<1> QED
  BY <1>2, <1>3, <1>4, <1>5, <1>6, <1>7, <1>8, <1>9, <1>10, <1>11, SMTT(30)
  DEF Next, AcceptThread, Consumer

(* WorkerNode implements WorkerContract: whatever is delivered again and   *)
(* however far stop() has come, each task goes through its stages in order.*)
THEOREM ContractKept == Spec => KeepsContract
<1>1. Init => Contract!Init
  BY DEF Init, Contract!Init, StageOf
<1>2. ThreadInv /\ HoldInv /\ [Next]_vars => [Contract!Next]_(Contract!vars)
  <2> SUFFICES ASSUME ThreadInv, HoldInv, [Next]_vars
               PROVE  [Contract!Next]_(Contract!vars)
    OBVIOUS
  <2>1. CASE Stage' = Stage
    BY <2>1 DEF Stage, Contract!vars
  <2>2. CASE Enqueue /\ incoming \notin active
    <3>1. Contract!Take(incoming)
      BY <2>2, StageAdmitted, Zenon DEF Stage, Contract!Take, Contract!Moves
    <3> QED BY <2>2, <3>1, StageAdmitted, Zenon DEF Contract!Next
  <2>3. ASSUME NEW c \in Consumers, Execute(c) \/ ReportResult(c) \/ Finish(c)
        PROVE  Contract!Next
    <3>1. /\ pc[c] \in Busy /\ hand[c] \in Tasks
          /\ Stage[hand[c]] = StageOfPc(pc[c])
      BY <2>3, StageInHand, Zenon DEF Execute, ReportResult, Finish, Busy, HoldInv, Stage
    <3>2. CASE Execute(c)
      <4>1. Stage' = [Stage EXCEPT ![hand[c]] = "executed"]
        BY <3>1, <3>2, StageMoved, Zenon DEF Execute, Busy, StageOfPc, queueVars
      <4>2. Contract!Execute(hand[c])
        BY <3>1, <3>2, <4>1, Zenon DEF Execute, StageOfPc, Stage, Contract!Execute, Contract!Moves
      <4> QED BY <3>1, <4>2 DEF Contract!Next
    <3>3. CASE ReportResult(c)
      <4>1. Stage' = [Stage EXCEPT ![hand[c]] = "reported"]
        BY <3>1, <3>3, StageMoved, Zenon DEF ReportResult, Busy, StageOfPc, queueVars
      <4>2. Contract!Report(hand[c])
        BY <3>1, <3>3, <4>1, Zenon
        DEF ReportResult, StageOfPc, Stage, Contract!Report, Contract!Moves
      <4> QED BY <3>1, <4>2, Zenon DEF Contract!Next
    <3>4. CASE Finish(c)
      <4>1. Stage' = [Stage EXCEPT ![hand[c]] = "absent"]
        BY <3>4, StageReleased, Zenon
      <4>2. Contract!Release(hand[c])
        BY <3>1, <3>4, <4>1 DEF Finish, StageOfPc, Stage, Contract!Release, Contract!Moves
      <4> QED BY <3>1, <4>2, Zenon DEF Contract!Next
    <3> QED BY <2>3, <3>2, <3>3, <3>4, Zenon
  <2> QED BY <2>1, <2>2, <2>3, StageSteps, Zenon
<1> QED
  BY ThreadInvInit, ThreadInvNext, HoldInvInit, HoldInvNext, <1>1, <1>2, PTL
  DEF Spec, KeepsContract, Contract!Spec

-----------------------------------------------------------------------------
(***************************************************************************)
(* The configuration                                                       *)
(***************************************************************************)

ConfigKeys == StringKeys \cup IntKeys

Configs == [ConfigKeys -> DOMAIN Numbers \cup Texts \cup {"text"}]

Loadings == [loaded : Configs, ok : BOOLEAN]

(* v is the last value that the first n lines of a file give to k, or d if *)
(* they give it none.                                                      *)
LastGiven(file, n, k, d, v) ==
  \/ v = d /\ \A i \in 1 .. n : file[i].key # k
  \/ \E i \in 1 .. n : /\ file[i].key = k /\ file[i].value = v
                       /\ \A j \in 1 .. n : j > i => file[j].key # k

(* One line. *)
LEMMA LoadLineSets ==
  ASSUME NEW acc \in Loadings, NEW line \in FileLines
  PROVE  /\ LoadLine(acc, line) \in Loadings
         /\ LoadLine(acc, line).ok =>
              /\ acc.ok
              /\ \A k \in ConfigKeys :
                   LoadLine(acc, line).loaded[k] = IF line.key = k THEN line.value
                                                   ELSE acc.loaded[k]
<1>1. acc.loaded \in Configs /\ acc.ok \in BOOLEAN /\ acc = [loaded |-> acc.loaded, ok |-> acc.ok]
  BY DEF Loadings
<1>2. CASE ~acc.ok
  BY <1>1, <1>2 DEF LoadLine
<1>3. CASE acc.ok /\ (line.key = NoColon \/ (line.key \in IntKeys /\ ~parseInt(line.value)))
  <2>1. LoadLine(acc, line) = [acc EXCEPT !.ok = FALSE]
    BY <1>3, Zenon DEF LoadLine, NoColon, IntKeys
  <2> QED BY <1>1, <2>1, Zenon DEF Loadings
<1>4. CASE acc.ok /\ ~(line.key = NoColon \/ (line.key \in IntKeys /\ ~parseInt(line.value)))
  <2>1. /\ line.key \in ConfigKeys \cup {"unknown"}
        /\ line.value \in DOMAIN Numbers \cup Texts
    BY <1>4 DEF FileLines, ConfigKeys
  <2>2. CASE line.key = "unknown"
    <3>1. LoadLine(acc, line) = acc
      BY <1>4, <2>2 DEF LoadLine
    <3>2. line.key \notin ConfigKeys
      BY <2>2, Zenon DEF ConfigKeys, StringKeys, IntKeys
    <3> QED BY <3>1, <3>2
  <2>3. CASE line.key # "unknown"
    <3>1. LoadLine(acc, line) = [acc EXCEPT !.loaded[line.key] = line.value]
      BY <1>4, <2>3 DEF LoadLine
    <3>2. line.key \in ConfigKeys
      BY <2>1, <2>3
    <3>3. [acc.loaded EXCEPT ![line.key] = line.value] \in Configs
      BY <1>1, <2>1, <3>2 DEF Configs
    <3>4. LoadLine(acc, line) = [loaded |-> [acc.loaded EXCEPT ![line.key] = line.value],
                                 ok |-> acc.ok]
      BY <1>1, <3>1
    <3> QED BY <1>1, <1>4, <3>2, <3>3, <3>4 DEF Loadings, Configs
  <2> QED BY <2>2, <2>3, Zenon
<1> QED BY <1>2, <1>3, <1>4, Zenon

(* The loop of loadConfig, as a function of the lines it has read. *)
LEMMA LoadingIs ==
  ASSUME config \in Configs, NEW file \in Seq(FileLines)
  PROVE  \E f \in [0 .. Len(file) -> Loadings] :
           /\ Loading(file) = f[Len(file)]
           /\ f[0] = [loaded |-> config, ok |-> TRUE]
           /\ \A n \in 1 .. Len(file) : f[n] = LoadLine(f[n - 1], file[n])
<1> DEFINE Lines(f) == [n \in 0 .. Len(file) |->
                         IF n = 0 THEN [loaded |-> config, ok |-> TRUE]
                                  ELSE LoadLine(f[n - 1], file[n])]
<1>1. Len(file) \in Nat /\ \A n \in 1 .. Len(file) : file[n] \in FileLines
  BY LenProperties
<1>2. PICK first \in Loadings : first = [loaded |-> config, ok |-> TRUE]
  BY Zenon DEF Loadings
<1>3. PICK step \in Steps(Loadings, FileLines) :
         \A a \in Loadings, line \in FileLines : step[<<a, line>>] = LoadLine(a, line)
  <2> DEFINE h == [p \in Loadings \X FileLines |-> LoadLine(p[1], p[2])]
  <2>1. h \in Steps(Loadings, FileLines)
    BY LoadLineSets DEF Steps
  <2>2. \A a \in Loadings, line \in FileLines : h[<<a, line>>] = LoadLine(a, line)
    OBVIOUS
  <2> HIDE DEF h
  <2> QED BY <2>1, <2>2, Zenon
<1>4. PICK g \in [0 .. Len(file) -> Loadings] :
         g[0] = first /\ \A n \in 1 .. Len(file) : g[n] = step[<<g[n - 1], file[n]>>]
  <2>1. \E f : IsLoop(f, file, Loadings, first, step)
    BY LoopExists, Zenon
  <2> QED BY <2>1, Zenon DEF IsLoop
<1>5. \A n \in 1 .. Len(file) : g[n] = LoadLine(g[n - 1], file[n])
  <2> TAKE n \in 1 .. Len(file)
  <2>1. n - 1 \in 0 .. Len(file) /\ file[n] \in FileLines
    BY <1>1
  <2> QED BY <1>3, <1>4, <2>1, Zenon
<1>6. g = Lines(g)
  BY <1>1, <1>2, <1>4, <1>5
<1>7. PICK f : f = Lines(f) /\ Loading(file) = f[Len(file)]
  <2> DEFINE h == CHOOSE f : f = Lines(f)
  <2>1. Loading(file) = h[Len(file)]
    BY Zenon DEF Loading
  <2> HIDE DEF Lines
  <2>2. h = Lines(h)
    BY <1>6, Zenon
  <2> QED BY <2>1, <2>2, Zenon
<1>8. /\ f[0] = [loaded |-> config, ok |-> TRUE]
      /\ \A n \in 1 .. Len(file) : f[n] = LoadLine(f[n - 1], file[n])
  <2>1. ASSUME NEW n \in 0 .. Len(file)
        PROVE  f[n] = IF n = 0 THEN [loaded |-> config, ok |-> TRUE]
                      ELSE LoadLine(f[n - 1], file[n])
    BY <1>7, Zenon
  <2>2. \A n \in 1 .. Len(file) : n \in 0 .. Len(file) /\ n # 0
    BY <1>1
  <2>3. 0 \in 0 .. Len(file)
    BY <1>1
  <2> QED BY <2>1, <2>2, <2>3, Zenon
<1>9. \A n \in 0 .. Len(file) : f[n] \in Loadings
  <2> DEFINE S == {n \in 0 .. Len(file) : f[n] \in Loadings}
  <2>1. 0 \in S
    BY <1>1, <1>2, <1>8
  <2>2. \A n \in 1 .. Len(file) : n - 1 \in S => n \in S
    <3> TAKE n \in 1 .. Len(file)
    <3>1. /\ n \in 0 .. Len(file) /\ file[n] \in FileLines
          /\ f[n] = LoadLine(f[n - 1], file[n])
      BY <1>1, <1>8
    <3>2. ASSUME f[n - 1] \in Loadings PROVE f[n] \in Loadings
      BY <3>1, <3>2, LoadLineSets
    <3> QED BY <3>1, <3>2
  <2> HIDE DEF S
  <2>3. \A n \in 0 .. Len(file) : n \in S
    BY <1>1, <2>1, <2>2, UpTo, Zenon
  <2> QED BY <2>3, Zenon DEF S
<1>10. f \in [0 .. Len(file) -> Loadings]
  <2>1. f = [n \in 0 .. Len(file) |-> f[n]]
    BY <1>7
  <2> QED BY <1>9, <2>1, Zenon
<1> QED BY <1>7, <1>8, <1>10, Zenon

(* What a file without an error leaves in a key. *)
LEMMA LoadingGives ==
  ASSUME config \in Configs, NEW file \in Seq(FileLines), Loading(file).ok
  PROVE  /\ Loading(file).loaded \in Configs
         /\ \A k \in ConfigKeys :
              LastGiven(file, Len(file), k, config[k], Loading(file).loaded[k])
<1>1. Len(file) \in Nat /\ \A n \in 1 .. Len(file) : file[n] \in FileLines
  BY LenProperties
<1>2. PICK f \in [0 .. Len(file) -> Loadings] :
           /\ Loading(file) = f[Len(file)]
           /\ f[0] = [loaded |-> config, ok |-> TRUE]
           /\ \A n \in 1 .. Len(file) : f[n] = LoadLine(f[n - 1], file[n])
  BY LoadingIs, Zenon
<1> DEFINE G(n) == f[n].ok => \A k \in ConfigKeys :
                                LastGiven(file, n, k, config[k], f[n].loaded[k])
<1> DEFINE S == {n \in 0 .. Len(file) : G(n)}
<1>3. 0 \in S
  <2>1. f[0].loaded = config
    BY <1>2
  <2>2. G(0)
    BY <2>1 DEF LastGiven
  <2> QED BY <1>1, <2>2
<1>4. ASSUME NEW n \in 1 .. Len(file), G(n - 1) PROVE G(n)
  <2> HAVE f[n].ok
  <2> TAKE k \in ConfigKeys
  <2>1. PICK m \in 0 .. Len(file) : m = n - 1
    <3>1. n - 1 \in 0 .. Len(file)
      BY <1>1
    <3> QED BY <3>1, Zenon
  <2>2. n = m + 1 /\ n \in Nat /\ m \in Nat
    BY <1>1, <2>1
  <2>3. f[m] \in Loadings /\ file[n] \in FileLines /\ f[n] = LoadLine(f[m], file[n])
    BY <1>1, <1>2, <2>1, Zenon
  <2>4. f[m].ok /\ f[n].loaded[k] = IF file[n].key = k THEN file[n].value
                                    ELSE f[m].loaded[k]
    BY <2>3, LoadLineSets
  <2>5. LastGiven(file, m, k, config[k], f[m].loaded[k])
    BY <1>4, <2>1, <2>4, Zenon
  <2> HIDE DEF G
  <2>6. CASE file[n].key = k
    BY <2>2, <2>4, <2>6, SMTT(30) DEF LastGiven
  <2>7. CASE file[n].key # k
    BY <2>2, <2>4, <2>5, <2>7, SMTT(30) DEF LastGiven
  <2> QED BY <2>6, <2>7, Zenon
<1>5. \A n \in 1 .. Len(file) : n - 1 \in S => n \in S
  <2> HIDE DEF G
  <2> QED BY <1>1, <1>4
<1>6. Len(file) \in 0 .. Len(file) /\ f[Len(file)] \in Loadings
  BY <1>1
<1>7. Len(file) \in S
  <2> HIDE DEF S
  <2> QED BY <1>1, <1>3, <1>5, <1>6, UpTo, Zenon
<1> QED BY <1>2, <1>6, <1>7 DEF Loadings

(* One file after another. *)
LEMMA GivenByBoth ==
  ASSUME NEW s \in Seq(FileLines), NEW t \in Seq(FileLines), NEW k, NEW d, NEW v, NEW w,
         LastGiven(s, Len(s), k, d, v), LastGiven(t, Len(t), k, v, w)
  PROVE  LastGiven(s \o t, Len(s \o t), k, d, w)
<1>1. PICK r \in Seq(FileLines) : r = s \o t
  BY ConcatProperties, Zenon
<1>2. /\ Len(s) \in Nat /\ Len(t) \in Nat /\ Len(r) = Len(s) + Len(t)
      /\ \A i \in 1 .. Len(r) : r[i] = IF i <= Len(s) THEN s[i] ELSE t[i - Len(s)]
  <2>1. /\ Len(s \o t) = Len(s) + Len(t)
        /\ \A i \in 1 .. Len(s) + Len(t) :
             (s \o t)[i] = IF i <= Len(s) THEN s[i] ELSE t[i - Len(s)]
    BY ConcatProperties
  <2>2. Len(s) \in Nat /\ Len(t) \in Nat
    BY LenProperties, Zenon
  <2> QED BY <1>1, <2>1, <2>2, Zenon
<1>3. \A i \in 1 .. Len(s) : i \in 1 .. Len(r) /\ r[i] = s[i]
  BY <1>2
<1>4. \A i \in 1 .. Len(t) : Len(s) + i \in 1 .. Len(r) /\ r[Len(s) + i] = t[i]
  <2> TAKE i \in 1 .. Len(t)
  <2>1. PICK m \in 1 .. Len(r) : m = Len(s) + i
    <3>1. Len(s) + i \in 1 .. Len(r)
      BY <1>2
    <3> QED BY <3>1, Zenon
  <2>2. ~(m <= Len(s)) /\ m - Len(s) = i
    BY <1>2, <2>1
  <2> QED BY <1>2, <2>1, <2>2, SMTT(30)
<1>5. CASE w = v /\ \A i \in 1 .. Len(t) : t[i].key # k
  <2>1. \A i \in 1 .. Len(r) : i > Len(s) => r[i].key # k
    BY <1>2, <1>5, SMTT(30)
  <2>2. LastGiven(r, Len(r), k, d, w)
    BY <1>2, <1>3, <1>5, <2>1, SMTT(30) DEF LastGiven
  <2> QED BY <1>1, <2>2
<1>6. CASE \E i \in 1 .. Len(t) : /\ t[i].key = k /\ t[i].value = w
                                  /\ \A j \in 1 .. Len(t) : j > i => t[j].key # k
  <2>1. PICK i \in 1 .. Len(t) : /\ t[i].key = k /\ t[i].value = w
                                 /\ \A j \in 1 .. Len(t) : j > i => t[j].key # k
    BY <1>6
  <2>2. PICK m \in 1 .. Len(r) : m = Len(s) + i
    BY <1>4, Zenon
  <2>3. r[m].key = k /\ r[m].value = w
    BY <1>4, <2>1, <2>2
  <2>4. \A j \in 1 .. Len(r) : j > m => r[j].key # k
    BY <1>2, <2>1, <2>2
  <2>5. LastGiven(r, Len(r), k, d, w)
    BY <2>3, <2>4, Zenon DEF LastGiven
  <2> QED BY <1>1, <2>5
<1> QED BY <1>5, <1>6, SMTT(30) DEF LastGiven

(* The node has sound values, each the last one given. *)
ConfigInv ==
  /\ config \in Configs /\ Sound(config)
  /\ accepted \in Seq(FileLines)
  /\ \A k \in ConfigKeys : LastGiven(accepted, Len(accepted), k, Default[k], config[k])

(* The defaults are sound, and no file was accepted. *)
LEMMA ConfigInvInit == ConfigInit => ConfigInv
<1> SUFFICES ASSUME ConfigInit PROVE ConfigInv
  OBVIOUS
<1>1. config = Default /\ accepted = <<>>
  BY DEF ConfigInit
<1>2. Default \in Configs
  BY ConfigAssumption DEF Default, Configs, ConfigKeys
<1>3. Sound(Default)
  <2>1. \A k \in StringKeys : Default[k] = "text"
    BY DEF Default, StringKeys, IntKeys
  <2>2. \A k \in IntKeys : Default[k] = "5"
    BY DEF Default
  <2>3. "text" # EmptyText
    BY Zenon DEF EmptyText
  <2> QED BY <2>1, <2>2, <2>3, ConfigAssumption DEF Sound
<1>4. accepted \in Seq(FileLines) /\ Len(accepted) = 0
  BY <1>1, EmptySeq
<1>5. \A k \in ConfigKeys : LastGiven(accepted, Len(accepted), k, Default[k], config[k])
  BY <1>1, <1>4 DEF LastGiven
<1> QED BY <1>1, <1>2, <1>3, <1>4, <1>5 DEF ConfigInv

(* A call of loadConfig keeps it, whether or not the file is accepted. *)
LEMMA ConfigInvNext == ConfigInv /\ [ConfigNext]_configVars => ConfigInv'
<1> SUFFICES ASSUME ConfigInv, [ConfigNext]_configVars PROVE ConfigInv'
  OBVIOUS
<1>1. /\ config \in Configs /\ Sound(config) /\ accepted \in Seq(FileLines)
      /\ \A k \in ConfigKeys : LastGiven(accepted, Len(accepted), k, Default[k], config[k])
  BY DEF ConfigInv
<1>2. ASSUME NEW file \in Seq(FileLines), LoadConfig(file) PROVE ConfigInv'
  <2>1. CASE Loading(file).ok /\ Sound(Loading(file).loaded)
    <3>1. config' = Loading(file).loaded /\ accepted' = accepted \o file
      BY <1>2, <2>1 DEF LoadConfig, Keep
    <3>2. /\ config' \in Configs
          /\ \A k \in ConfigKeys : LastGiven(file, Len(file), k, config[k], config'[k])
      BY <1>1, <2>1, <3>1, LoadingGives, Zenon
    <3>3. accepted' \in Seq(FileLines)
      BY <1>1, <3>1, ConcatProperties, Zenon
    <3>4. \A k \in ConfigKeys :
             LastGiven(accepted', Len(accepted'), k, Default[k], config'[k])
      BY <1>1, <3>1, <3>2, GivenByBoth, Zenon
    <3>5. Sound(config')
      BY <2>1, <3>1, Zenon
    <3>6. Sound(config)'
      BY <3>5, Zenon DEF Sound
    <3> QED BY <3>2, <3>3, <3>4, <3>6 DEF ConfigInv, LastGiven
  <2>2. CASE ~(Loading(file).ok /\ Sound(Loading(file).loaded))
    <3>1. config' = config /\ accepted' = accepted
      BY <1>2, <2>2 DEF LoadConfig, Keep
    <3> QED BY <1>1, <3>1 DEF ConfigInv, Sound, LastGiven
  <2> QED BY <2>1, <2>2, Zenon
<1>3. ASSUME NEW n \in 0 .. MaxLines, NEW file \in [1 .. n -> FileLines]
      PROVE  file \in Seq(FileLines)
  <2>1. n \in Nat
    BY ConfigAssumption
  <2> QED BY <2>1
<1>4. CASE ConfigNext
  BY <1>2, <1>3, <1>4 DEF ConfigNext
<1>5. CASE UNCHANGED configVars
  BY <1>1, <1>5 DEF configVars, ConfigInv, Sound, LastGiven
<1> QED BY <1>4, <1>5

(* The invariant says what the node runs with. *)
LEMMA ConfigInvGives == ConfigInv => ConfigIsLastGiven
<1> SUFFICES ASSUME ConfigInv PROVE ConfigIsLastGiven
  OBVIOUS
<1>1. /\ config \in Configs /\ Sound(config) /\ accepted \in Seq(FileLines)
      /\ \A k \in ConfigKeys : LastGiven(accepted, Len(accepted), k, Default[k], config[k])
  BY Zenon DEF ConfigInv
<1>2. ASSUME NEW k \in DOMAIN config
      PROVE  LET at == {i \in DOMAIN accepted : accepted[i].key = k}
             IN  config[k] = IF at = {} THEN Default[k]
                             ELSE accepted[CHOOSE i \in at : \A j \in at : j <= i].value
  <2> DEFINE at == {i \in DOMAIN accepted : accepted[i].key = k}
  <2>1. LastGiven(accepted, Len(accepted), k, Default[k], config[k])
    BY <1>1 DEF Configs
  <2>2. Len(accepted) \in Nat /\ DOMAIN accepted = 1 .. Len(accepted)
    BY <1>1, LenProperties
  <2>3. CASE config[k] = Default[k] /\ \A i \in 1 .. Len(accepted) : accepted[i].key # k
    <3>1. at = {}
      BY <2>2, <2>3
    <3> QED BY <2>3, <3>1
  <2>4. ASSUME NEW i \in 1 .. Len(accepted),
               accepted[i].key = k, accepted[i].value = config[k],
               \A j \in 1 .. Len(accepted) : j > i => accepted[j].key # k
        PROVE  /\ at # {}
               /\ config[k] = accepted[CHOOSE m \in at : \A j \in at : j <= m].value
    <3>1. i \in at /\ \A j \in at : j <= i
      BY <2>2, <2>4
    <3>2. \A m \in at : (\A j \in at : j <= m) => m = i
      BY <2>2, <3>1
    <3> HIDE DEF at
    <3>3. (CHOOSE m \in at : \A j \in at : j <= m) = i
      BY <3>1, <3>2, Zenon
    <3> QED BY <2>4, <3>1, <3>3, Zenon
  <2> QED BY <2>1, <2>3, <2>4, ZenonT(30) DEF LastGiven
<1> QED BY <1>1, <1>2, Zenon DEF ConfigIsLastGiven, Sound

(* The node runs with sound values only, and each of them is the last one  *)
(* given in the files that were accepted, or the default, however many     *)
(* files are tried and however long they are.                              *)
THEOREM ConfigStaysLastGiven == ConfigSpec => []ConfigIsLastGiven
<1>1. ConfigSpec => []ConfigInv
  BY ConfigInvInit, ConfigInvNext, PTL DEF ConfigSpec
<1> QED BY <1>1, ConfigInvGives, PTL
=============================================================================
