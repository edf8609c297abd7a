------------------------------ MODULE Delivery ------------------------------
(***************************************************************************)
(* From a placed task to its recorded result: the scheduler's task table,  *)
(* the AssignmentDeliverer (scheduler/internal/monitor/deliverer.go), the  *)
(* connections to one worker, that worker, and its reports.                *)
(*                                                                         *)
(* The scheduler is TaskLifecycle and the worker is WorkerContract, which  *)
(* Scheduler.tla and WorkerNode.tla implement.  Workers meet only in the   *)
(* scheduler's table, so one of them is enough here.                       *)
(*                                                                         *)
(* The deliverer copies the running tasks under the read lock and sends    *)
(* them one by one afterwards, again and again until they are reported; a  *)
(* copy may be stale when it is sent.  A connection may fail or break, and *)
(* both processes may be killed and started again.  The scheduler's store  *)
(* is in memory only: it starts again empty, and with it the counter the   *)
(* task IDs are made of.                                                   *)
(*                                                                         *)
(* A report is a request of its own connection.  It may get lost, and the  *)
(* scheduler may record it late: after the worker's wait for the answer    *)
(* has ended with an error, and even after the worker process has died.    *)
(* Requests in flight end with the scheduler process.                      *)
(***************************************************************************)
EXTENDS Naturals, Sequences, FiniteSets

CONSTANTS
  Worker,        \* the worker's ID
  NoWorker,      \* Task.AssignedWorker of a task not placed yet
  MaxTasks,      \* bound on the tasks submitted to one scheduler process
  MaxCopies,     \* bound on the connections not read yet that carry one task
  MaxReports,    \* bound on the reports of one task in flight
  MaxCrashes,    \* bound on the failures of the worker process
  MaxEpoch       \* bound on the restarts of the scheduler process

ASSUME DeliveryAssumption ==
  /\ Worker # NoWorker
  /\ {MaxTasks, MaxCopies, MaxReports, MaxCrashes, MaxEpoch} \subseteq Nat

Tasks == 1 .. MaxTasks      \* TaskCounter values; IDs are made from them

VARIABLES
  known,         \* registered workers
  board,         \* the task table
  round,         \* assignments dispatchOnce has still to send
  wire,          \* sent and not handled yet
  up,            \* the worker process runs
  crashes,       \* failures of the worker so far
  stage,         \* the worker's tasks
  epoch,         \* which scheduler process this is
  origin,        \* task ID -> the epoch its last taken delivery came from
  refused,       \* the worker process had a heartbeat answered with 404
  garbled,       \* tasks whose output the scheduler cannot decode
  posted         \* task -> its reports that the scheduler has yet to handle

vars ==
  <<known, board, round, wire, up, crashes, stage, epoch, origin, refused, garbled,
    posted>>

Scheduler == INSTANCE TaskLifecycle WITH Workers <- {Worker}
Process   == INSTANCE WorkerContract

NoReports == [t \in Tasks |-> 0]

Init ==
  /\ Scheduler!Init
  /\ Process!Init
  /\ round = {}
  /\ wire = <<>>
  /\ up = FALSE
  /\ crashes = 0
  /\ epoch = 0
  /\ origin = [t \in Tasks |-> 0]
  /\ refused = FALSE
  /\ garbled \in {{}} \cup {{t} : t \in Tasks}
  /\ posted = NoReports

-----------------------------------------------------------------------------
(***************************************************************************)
(* The scheduler process                                                   *)
(***************************************************************************)

Submit ==
  /\ Len(board) < MaxTasks
  /\ Scheduler!Submit
  /\ UNCHANGED <<round, wire, up, crashes>>
  /\ UNCHANGED <<stage, epoch, origin, refused, garbled, posted>>

Place(t) ==
  /\ Scheduler!Assign(t, Worker)
  /\ UNCHANGED <<round, wire, up, crashes>>
  /\ UNCHANGED <<stage, epoch, origin, refused, garbled, posted>>

(* Mutated form: everything that was ever placed is sent. *)
DeliverableEver == {t \in DOMAIN board : board[t].worker \in known}

(* Mutated form: neither the status nor the worker is looked at. *)
DeliverableAny == DOMAIN board

(* The tasks snapshotAssignments collects. *)
Deliverable ==
  {t \in DOMAIN board : board[t].status = "running" /\ board[t].worker \in known}

(* snapshotAssignments under the read lock. *)
Snapshot ==
  /\ round = {}
  /\ round' = Deliverable
  /\ UNCHANGED <<known, board, wire, up, crashes>>
  /\ UNCHANGED <<stage, epoch, origin, refused, garbled, posted>>

(* The copies are sorted by address and task ID. *)
IsNext(t) == t \in round /\ \A u \in round : t <= u

(* deliver reaches the worker's socket.  An error after that is logged and *)
(* changes nothing.                                                        *)
Deliver(t) ==
  /\ IsNext(t)
  /\ round' = round \ {t}
  /\ up
  /\ Len(SelectSeq(wire, LAMBDA c : c.task = t)) < MaxCopies
  /\ wire' = Append(wire, [task |-> t, epoch |-> epoch])
  /\ UNCHANGED <<known, board, up, crashes>>
  /\ UNCHANGED <<stage, epoch, origin, refused, garbled, posted>>

(* deliver fails; the task waits for the next round. *)
DeliverFails ==
  /\ \E t \in round : IsNext(t) /\ round' = round \ {t}
  /\ UNCHANGED <<known, board, wire, up, crashes>>
  /\ UNCHANGED <<stage, epoch, origin, refused, garbled, posted>>

(* decodeJSON accepts the report: see ReportKeepsOutput in TaskFrame. *)
Decodable(t) == t \notin garbled

(* handleCompleteTask gets a report, and with it the outcome.  A report of *)
(* an unknown task, or one that cannot be decoded, changes nothing; any    *)
(* other is recorded, whatever the task's status and whatever has become   *)
(* of the worker.                                                          *)
Record(t, outcome) ==
  /\ posted[t] > 0
  /\ posted' = [posted EXCEPT ![t] = @ - 1]
  /\ IF t \in DOMAIN board /\ Decodable(t)
     THEN Scheduler!Finish(t, outcome)
     ELSE UNCHANGED <<known, board>>
  /\ UNCHANGED <<round, wire, up, crashes, stage, epoch, origin, refused, garbled>>

(* The process is killed, with the requests it is handling, and a new one  *)
(* starts with NewMemoryStore().                                           *)
SchedulerRestart ==
  /\ epoch < MaxEpoch
  /\ epoch' = epoch + 1
  /\ known' = {}
  /\ board' = <<>>
  /\ round' = {}
  /\ posted' = NoReports
  /\ UNCHANGED <<wire, up, crashes, stage, origin, refused, garbled>>

-----------------------------------------------------------------------------
(***************************************************************************)
(* The worker process                                                      *)
(***************************************************************************)

(* start() succeeds only if the registration does. *)
Boot ==
  /\ ~up
  /\ up' = TRUE
  /\ refused' = FALSE
  /\ Scheduler!Join(Worker)
  /\ UNCHANGED <<round, wire, crashes, stage, epoch, origin, garbled, posted>>

(* Mutated form: a worker that is not known registers again. *)
HeartbeatJoins ==
  /\ up
  /\ refused' = (Worker \notin known)
  /\ known' = known \cup {Worker}
  /\ UNCHANGED <<board, round, wire, up, crashes>>
  /\ UNCHANGED <<stage, epoch, origin, garbled, posted>>

(* A heartbeat is answered.  The worker logs a 404 and goes on as before. *)
Heartbeat ==
  /\ up
  /\ refused' = (Worker \notin known)
  /\ UNCHANGED <<known, board, round, wire, up, crashes>>
  /\ UNCHANGED <<stage, epoch, origin, garbled, posted>>

(* The process ends, by a signal or by a failure: what it holds, queued or *)
(* executed, and what waits on its socket is gone.                         *)
Crash ==
  /\ up
  /\ crashes < MaxCrashes
  /\ up' = FALSE
  /\ crashes' = crashes + 1
  /\ stage' = [t \in Tasks |-> "absent"]
  /\ wire' = <<>>
  /\ UNCHANGED <<known, board, round, epoch, origin, refused, garbled, posted>>

(* The handler takes the task unless the worker still has one of that ID. *)
Receive(t) ==
  /\ wire # <<>> /\ Head(wire).task = t
  /\ wire' = Tail(wire)
  /\ IF stage[t] = "absent"
     THEN /\ Process!Take(t)
          /\ origin' = [origin EXCEPT ![t] = Head(wire).epoch]
     ELSE UNCHANGED <<stage, origin>>
  /\ UNCHANGED <<known, board, round, up, crashes>>
  /\ UNCHANGED <<epoch, refused, garbled, posted>>

(* The connection breaks before the task has been read. *)
ReceiveNothing ==
  /\ wire # <<>>
  /\ wire' = Tail(wire)
  /\ UNCHANGED <<known, board, round, up, crashes>>
  /\ UNCHANGED <<stage, epoch, origin, refused, garbled, posted>>

Execute(t) ==
  /\ Process!Execute(t)
  /\ UNCHANGED <<known, board, round, wire, up, crashes>>
  /\ UNCHANGED <<epoch, origin, refused, garbled, posted>>

(* postJSON writes the report, and the scheduler will get it.  The worker  *)
(* then waits for the answer or for an error, which may come at any time;  *)
(* neither makes a difference to it.                                       *)
Report(t) ==
  /\ Process!Report(t)
  /\ posted[t] < MaxReports
  /\ posted' = [posted EXCEPT ![t] = @ + 1]
  /\ UNCHANGED <<known, board, round, wire, up, crashes>>
  /\ UNCHANGED <<epoch, origin, refused, garbled>>

(* The report does not reach the scheduler. *)
ReportLost(t) ==
  /\ Process!Report(t)
  /\ UNCHANGED <<known, board, round, wire, up, crashes>>
  /\ UNCHANGED <<epoch, origin, refused, garbled, posted>>

(* Mutated form: the ID is given up only if the report was recorded. *)
ReleaseIfRecorded(t) ==
  /\ t \in DOMAIN board /\ board[t].status \in Scheduler!Terminal
  /\ Process!Release(t)
  /\ UNCHANGED <<known, board, round, wire, up, crashes>>
  /\ UNCHANGED <<epoch, origin, refused, garbled, posted>>

Release(t) ==
  /\ Process!Release(t)
  /\ UNCHANGED <<known, board, round, wire, up, crashes>>
  /\ UNCHANGED <<epoch, origin, refused, garbled, posted>>

-----------------------------------------------------------------------------
(***************************************************************************)
(* The specification                                                       *)
(***************************************************************************)

SchedulerStep ==
  \/ Submit
  \/ \E t \in DOMAIN board : Place(t)
  \/ Snapshot
  \/ \E t \in Tasks : Deliver(t)
  \/ DeliverFails
  \/ \E t \in Tasks, outcome \in Scheduler!Terminal : Record(t, outcome)

WorkerStep ==
  \/ \E t \in Tasks : Receive(t)
  \/ ReceiveNothing
  \/ \E t \in Tasks : Execute(t) \/ Report(t) \/ ReportLost(t) \/ Release(t)

Next ==
  \/ SchedulerStep \/ SchedulerRestart
  \/ WorkerStep \/ Boot \/ Heartbeat \/ Crash

Spec == Init /\ [][Next]_vars

(* The deliverer's ticker and the worker's threads keep running.  The      *)
(* network is fair: of infinitely many deliveries of a task one is read,   *)
(* of infinitely many reports one reaches the scheduler, which handles     *)
(* what reaches it.  Someone starts the worker again.                      *)
Fairness ==
  /\ WF_vars(Snapshot \/ DeliverFails \/ \E t \in Tasks : Deliver(t))
  /\ WF_vars(Boot)
  /\ \A t \in Tasks :
       /\ SF_vars(Deliver(t))
       /\ SF_vars(Receive(t))
       /\ WF_vars(Execute(t) \/ Release(t))
       /\ SF_vars(Report(t))
       /\ WF_vars(\E outcome \in Scheduler!Terminal : Record(t, outcome))

LiveSpec == Spec /\ Fairness

-----------------------------------------------------------------------------
(***************************************************************************)
(* Properties                                                              *)
(***************************************************************************)

OnWire  == {wire[i].task : i \in DOMAIN wire}

(* Task t of the present scheduler process has been placed on the worker. *)
IsPlaced(t) == t \in DOMAIN board /\ board[t].worker = Worker

(* A task is sent, carried, held or executed only after it was placed on   *)
(* this worker.  What an earlier scheduler process sent is still travelling*)
(* after a restart, and is left out.                                       *)
OnlyPlacedTravels ==
  /\ \A t \in round : IsPlaced(t)
  /\ \A i \in DOMAIN wire : wire[i].epoch = epoch => IsPlaced(wire[i].task)
  /\ \A t \in Tasks : stage[t] # "absent" /\ origin[t] = epoch => IsPlaced(t)

(* Task t has its result and nothing is left that could execute or report  *)
(* it again.                                                               *)
Settled(t) ==
  /\ t \in DOMAIN board /\ board[t].status \in Scheduler!Terminal
  /\ t \notin round \cup OnWire
  /\ stage[t] = "absent"
  /\ posted[t] = 0

(* A task that was sent once too often, from a stale copy, is executed and *)
(* reported again, and a late report replaces the result that was recorded *)
(* before it; but once the copies and the reports in flight are used up    *)
(* that is over: a settled task is never sent, executed or reported again  *)
(* and keeps its result.                                                   *)
SettledStaysSettled ==
  [][\A t \in Tasks :
       Settled(t) /\ epoch' = epoch => Settled(t)' /\ board'[t] = board[t]]_vars

(* A worker the scheduler has forgotten is not known again until its       *)
(* process is started anew: heartbeats are refused and do not register, so *)
(* until then a restarted scheduler has nothing placed there.              *)
RefusedUntilRestart ==
  refused => known = {} /\ \A t \in DOMAIN board : ~IsPlaced(t)

(* Every placed task is in the end recorded and settled, although          *)
(* deliveries fail, reports get lost and the worker is killed while it     *)
(* holds the task: the deliverer retries, and the worker gives the ID free *)
(* after a failed report.  A task whose report the scheduler cannot decode *)
(* is executed again and again, and does not keep the others from that.    *)
EveryPlacedTaskSettles ==
  \A t \in Tasks :
    (t \notin garbled /\ IsPlaced(t)) ~> (Settled(t) \/ t \notin DOMAIN board)
=============================================================================
