--------------------------- MODULE DeliveryProofs ---------------------------
(***************************************************************************)
(* Proofs about Delivery, for any number of tasks, copies, crashes and     *)
(* restarts, and about the text in which the RDMA library delivers tasks   *)
(* and results (MessageCodec), for messages of any length.                 *)
(***************************************************************************)
EXTENDS Delivery, MessageCodec, SequenceLemmas

Rows == [status : {"pending", "running"} \cup Scheduler!Terminal,
         worker : {Worker, NoWorker}]

Copies == [task : Tasks, epoch : Nat]

(* What travels has an epoch that has been, so that after a restart        *)
(* nothing that travels is taken for the new scheduler's; and only a       *)
(* worker that is known has tasks.                                         *)
DeliveryInv ==
  /\ known \subseteq {Worker} /\ board \in Seq(Rows) /\ Len(board) <= MaxTasks
  /\ round \subseteq Tasks /\ wire \in Seq(Copies) /\ epoch \in Nat
  /\ stage \in [Tasks -> Process!Stages] /\ origin \in [Tasks -> Nat]
  /\ \A i \in DOMAIN wire : wire[i].epoch <= epoch
  /\ \A t \in Tasks : origin[t] <= epoch
  /\ \A t \in DOMAIN board : IsPlaced(t) => Worker \in known
  /\ OnlyPlacedTravels /\ RefusedUntilRestart

(* Nothing travels at first. *)
LEMMA DeliveryInvInit == Init => DeliveryInv
<1> SUFFICES ASSUME Init PROVE DeliveryInv
  OBVIOUS
<1> USE DeliveryAssumption
<1>1. /\ known = {} /\ board = <<>> /\ round = {} /\ wire = <<>> /\ epoch = 0
      /\ stage = [t \in Tasks |-> "absent"] /\ origin = [t \in Tasks |-> 0]
      /\ refused = FALSE
  BY DEF Init, Scheduler!Init, Process!Init
<1>2. board \in Seq(Rows) /\ Len(board) = 0 /\ wire \in Seq(Copies)
  BY <1>1
<1>3. DOMAIN board = {} /\ DOMAIN wire = {}
  BY <1>1
<1>4. stage \in [Tasks -> Process!Stages] /\ origin \in [Tasks -> Nat]
  BY <1>1 DEF Process!Stages
<1>5. OnlyPlacedTravels
  BY <1>1, <1>3 DEF OnlyPlacedTravels
<1>6. RefusedUntilRestart
  BY <1>1 DEF RefusedUntilRestart
<1> QED BY <1>1, <1>2, <1>3, <1>4, <1>5, <1>6 DEF DeliveryInv

(* The table only grows, and no placement is withdrawn, until a restart. *)
LEMMA TableSteps ==
  ASSUME DeliveryInv,
         \/ Submit \/ (\E t \in DOMAIN board : Place(t))
         \/ \E t \in Tasks, o \in Scheduler!Terminal : Record(t, o)
  PROVE  /\ board' \in Seq(Rows) /\ Len(board') <= MaxTasks /\ known' = known
         /\ \A t \in DOMAIN board : IsPlaced(t) => IsPlaced(t)'
         /\ \A t \in DOMAIN board' : IsPlaced(t)' => Worker \in known
<1>1. /\ board \in Seq(Rows) /\ Len(board) \in Nat
      /\ Len(board) <= MaxTasks /\ MaxTasks \in Nat
  BY DeliveryAssumption DEF DeliveryInv
<1>2. CASE Submit
  <2> DEFINE row == [status |-> "pending", worker |-> NoWorker]
  <2>1. row \in Rows /\ row.worker # Worker
    BY DeliveryAssumption DEF Rows
  <2>2. board' = Append(board, row) /\ known' = known /\ Len(board) < MaxTasks
    BY <1>2 DEF Submit, Scheduler!Submit
  <2> HIDE DEF row
  <2>3. /\ board' \in Seq(Rows) /\ Len(board') = Len(board) + 1
        /\ DOMAIN board = 1 .. Len(board) /\ DOMAIN board' = 1 .. Len(board) + 1
        /\ \A i \in 1 .. Len(board) : board'[i] = board[i]
        /\ board'[Len(board) + 1] = row
    BY <1>1, <2>1, <2>2, AppendProperties, LenProperties
  <2>4. \A t \in DOMAIN board' : IsPlaced(t)' => IsPlaced(t)
    BY <1>1, <2>1, <2>3 DEF IsPlaced
  <2>5. \A t \in DOMAIN board : IsPlaced(t) => IsPlaced(t)'
    BY <1>1, <2>3 DEF IsPlaced
  <2>6. \A t \in DOMAIN board' : IsPlaced(t)' => Worker \in known
    BY <2>4 DEF DeliveryInv, IsPlaced
  <2> QED BY <1>1, <2>2, <2>3, <2>5, <2>6
<1>3. ASSUME NEW t \in DOMAIN board, Place(t)
      PROVE  /\ board' \in Seq(Rows) /\ Len(board') = Len(board) /\ known' = known
             /\ Worker \in known
             /\ \A u \in DOMAIN board : IsPlaced(u) => IsPlaced(u)'
  <2>1. /\ board' = [board EXCEPT ![t] = [status |-> "running", worker |-> Worker]]
        /\ known' = known /\ Worker \in known
    BY <1>3 DEF Place, Scheduler!Assign
  <2>2. board' \in Seq(Rows) /\ Len(board') = Len(board) /\ DOMAIN board' = DOMAIN board
    BY <1>1, <2>1 DEF Rows
  <2> QED BY <1>1, <2>1, <2>2 DEF IsPlaced
<1>4. ASSUME NEW t \in Tasks, NEW o \in Scheduler!Terminal, Record(t, o)
      PROVE  /\ board' \in Seq(Rows) /\ Len(board') = Len(board) /\ known' = known
             /\ DOMAIN board' = DOMAIN board
             /\ \A u \in DOMAIN board : IsPlaced(u)' <=> IsPlaced(u)
  <2>0. CASE UNCHANGED <<known, board>>
    BY <1>1, <2>0 DEF IsPlaced
  <2> SUFFICES ASSUME ~ UNCHANGED <<known, board>>
               PROVE  /\ board' \in Seq(Rows) /\ Len(board') = Len(board) /\ known' = known
                      /\ DOMAIN board' = DOMAIN board
                      /\ \A u \in DOMAIN board : IsPlaced(u)' <=> IsPlaced(u)
    BY <2>0
  <2>1. board' = [board EXCEPT ![t].status = o] /\ known' = known /\ t \in DOMAIN board
    BY <1>4 DEF Record, Scheduler!Finish
  <2>2. board[t] \in Rows
    BY <1>1, <2>1
  <2>3. [board[t] EXCEPT !.status = o] \in Rows
        /\ [board[t] EXCEPT !.status = o].worker = board[t].worker
    BY <2>2 DEF Rows
  <2>4. board' \in Seq(Rows) /\ Len(board') = Len(board) /\ DOMAIN board' = DOMAIN board
    BY <1>1, <2>1, <2>3
  <2>5. \A u \in DOMAIN board : board'[u].worker = board[u].worker
    BY <1>1, <2>1, <2>3
  <2> QED BY <2>1, <2>4, <2>5 DEF IsPlaced
<1>5. ASSUME \E t \in DOMAIN board : Place(t)
      PROVE  \A u \in DOMAIN board' : IsPlaced(u)' => Worker \in known
  BY <1>3, <1>5
<1>6. ASSUME \E t \in Tasks, o \in Scheduler!Terminal : Record(t, o)
      PROVE  \A u \in DOMAIN board' : IsPlaced(u)' => Worker \in known
  BY <1>4, <1>6 DEF DeliveryInv
<1> QED BY <1>1, <1>2, <1>3, <1>4, <1>5, <1>6

(* A worker's step with one task changes that task's stage only. *)
LEMMA StageSteps ==
  ASSUME DeliveryInv, NEW t \in Tasks,
         Process!Execute(t) \/ Process!Report(t) \/ Process!Release(t)
  PROVE  /\ stage' \in [Tasks -> Process!Stages]
         /\ \A u \in Tasks : stage'[u] # "absent" => stage[u] # "absent"
  BY DEF DeliveryInv, Process!Execute, Process!Report, Process!Release, Process!Moves,
         Process!Stages

(* Steps that move nothing on the wire and keep what the worker has: what  *)
(* was placed stays so, and no more is sent than was placed.               *)
LEMMA NothingNew ==
  ASSUME DeliveryInv, UNCHANGED <<wire, origin, epoch>>,
         known' \subseteq {Worker}, board' \in Seq(Rows), Len(board') <= MaxTasks,
         round' \subseteq Tasks, stage' \in [Tasks -> Process!Stages],
         \A u \in DOMAIN board : IsPlaced(u) => IsPlaced(u)',
         \A u \in DOMAIN board' : IsPlaced(u)' => Worker \in known',
         \A u \in round' : IsPlaced(u)',
         \A u \in Tasks : stage'[u] # "absent" => stage[u] # "absent",
         RefusedUntilRestart'
  PROVE  DeliveryInv'
<1>1. \A u : IsPlaced(u) => IsPlaced(u)'
  BY DEF IsPlaced
<1>2. OnlyPlacedTravels'
  BY <1>1 DEF OnlyPlacedTravels, DeliveryInv
<1> QED BY <1>2 DEF DeliveryInv

(* The wire loses what is at its front. *)
LEMMA WireShrinks ==
  ASSUME DeliveryInv, wire # <<>>
  PROVE  /\ Head(wire) \in Copies /\ Tail(wire) \in Seq(Copies)
         /\ Head(wire).epoch <= epoch
         /\ Head(wire).epoch = epoch => IsPlaced(Head(wire).task)
         /\ \A i \in DOMAIN Tail(wire) :
              /\ Tail(wire)[i].epoch <= epoch
              /\ Tail(wire)[i].epoch = epoch => IsPlaced(Tail(wire)[i].task)
<1>1. /\ Head(wire) \in Copies /\ Tail(wire) \in Seq(Copies)
      /\ Len(wire) \in Nat /\ Len(wire) > 0 /\ Len(Tail(wire)) = Len(wire) - 1
      /\ DOMAIN wire = 1 .. Len(wire) /\ DOMAIN Tail(wire) = 1 .. Len(Tail(wire))
      /\ Head(wire) = wire[1]
      /\ \A i \in 1 .. Len(Tail(wire)) : Tail(wire)[i] = wire[i + 1]
  BY HeadTailProperties, LenProperties DEF DeliveryInv
<1>2. \A i \in DOMAIN wire : /\ wire[i].epoch <= epoch
                             /\ wire[i].epoch = epoch => IsPlaced(wire[i].task)
  BY DEF DeliveryInv, OnlyPlacedTravels
<1>3. 1 \in DOMAIN wire
  BY <1>1
<1>4. \A i \in DOMAIN Tail(wire) : i + 1 \in DOMAIN wire /\ Tail(wire)[i] = wire[i + 1]
  BY <1>1
<1> QED BY <1>1, <1>2, <1>3, <1>4

(* The scheduler's steps. *)
LEMMA SchedulerSteps ==
  ASSUME DeliveryInv, SchedulerStep
  PROVE  DeliveryInv'
<1>1. CASE \/ Submit \/ (\E t \in DOMAIN board : Place(t))
           \/ \E t \in Tasks, o \in Scheduler!Terminal : Record(t, o)
  <2>1. UNCHANGED <<round, wire, stage, epoch, origin, refused>>
    BY <1>1 DEF Submit, Place, Record
  <2>2. /\ board' \in Seq(Rows) /\ Len(board') <= MaxTasks /\ known' = known
        /\ \A u \in DOMAIN board : IsPlaced(u) => IsPlaced(u)'
        /\ \A u \in DOMAIN board' : IsPlaced(u)' => Worker \in known
    BY <1>1, TableSteps
  <2>3. RefusedUntilRestart'
    BY <2>1, <2>2 DEF RefusedUntilRestart, DeliveryInv
  <2>4. \A u \in round' : IsPlaced(u)'
    BY <2>1, <2>2 DEF DeliveryInv, OnlyPlacedTravels, IsPlaced
  <2> QED BY <2>1, <2>2, <2>3, <2>4, NothingNew DEF DeliveryInv
<1>2. ASSUME UNCHANGED <<known, board, wire, stage, epoch, origin, refused>>,
             round' \subseteq Tasks, \A u \in round' : IsPlaced(u)
      PROVE  DeliveryInv'
  <2>1. \A u : IsPlaced(u)' <=> IsPlaced(u)
    BY <1>2 DEF IsPlaced
  <2>2. RefusedUntilRestart'
    BY <1>2, <2>1 DEF RefusedUntilRestart, DeliveryInv
  <2> QED BY <1>2, <2>1, <2>2, NothingNew DEF DeliveryInv
<1>3. CASE Snapshot
  <2>1. DOMAIN board \subseteq Tasks
    <3>1. DOMAIN board = 1 .. Len(board) /\ Len(board) \in Nat /\ Len(board) <= MaxTasks
      BY LenProperties DEF DeliveryInv
    <3> QED BY <3>1, DeliveryAssumption DEF Tasks
  <2>2. \A u \in Deliverable : u \in Tasks /\ IsPlaced(u)
    BY <2>1 DEF Deliverable, DeliveryInv, IsPlaced
  <2> QED BY <1>2, <1>3, <2>2 DEF Snapshot
<1>4. CASE DeliverFails
  BY <1>2, <1>4 DEF DeliverFails, DeliveryInv, OnlyPlacedTravels
<1>5. ASSUME NEW t \in Tasks, Deliver(t) PROVE DeliveryInv'
  <2> DEFINE copy == [task |-> t, epoch |-> epoch]
  <2>1. /\ t \in round /\ round' = round \ {t} /\ wire' = Append(wire, copy)
        /\ UNCHANGED <<known, board, stage, epoch, origin, refused>>
    BY <1>5 DEF Deliver, IsNext
  <2>2. copy \in Copies /\ copy.task = t /\ copy.epoch = epoch
    BY DEF Copies, DeliveryInv
  <2> HIDE DEF copy
  <2>3. \A u : IsPlaced(u)' <=> IsPlaced(u)
    BY <2>1 DEF IsPlaced
  <2>4. /\ wire \in Seq(Copies) /\ wire' \in Seq(Copies) /\ Len(wire) \in Nat
        /\ DOMAIN wire = 1 .. Len(wire) /\ DOMAIN wire' = 1 .. Len(wire) + 1
        /\ \A i \in 1 .. Len(wire) : wire'[i] = wire[i]
        /\ wire'[Len(wire) + 1] = copy
    BY <2>1, <2>2, AppendProperties, LenProperties DEF DeliveryInv
  <2>5. \A i \in DOMAIN wire' : (i \in DOMAIN wire /\ wire'[i] = wire[i]) \/ wire'[i] = copy
    BY <2>4
  <2>6. \A i \in DOMAIN wire' : wire'[i].epoch <= epoch
    <3>1. epoch <= epoch /\ \A i \in DOMAIN wire : wire[i].epoch <= epoch
      BY DEF DeliveryInv
    <3> QED BY <2>2, <2>5, <3>1
  <2>7. OnlyPlacedTravels'
    BY <2>1, <2>2, <2>3, <2>5 DEF DeliveryInv, OnlyPlacedTravels
  <2>8. RefusedUntilRestart'
    BY <2>1, <2>3 DEF RefusedUntilRestart, DeliveryInv
  <2> QED BY <2>1, <2>3, <2>4, <2>6, <2>7, <2>8 DEF DeliveryInv
<1> QED BY <1>1, <1>3, <1>4, <1>5 DEF SchedulerStep

(* The worker's steps, whatever becomes of its reports. *)
LEMMA WorkerSteps ==
  ASSUME DeliveryInv, WorkerStep
  PROVE  DeliveryInv'
<1>1. ASSUME NEW t \in Tasks, Execute(t) \/ Report(t) \/ ReportLost(t) \/ Release(t)
      PROVE  DeliveryInv'
  <2>1. /\ UNCHANGED <<known, board, round, wire, epoch, origin, refused>>
        /\ Process!Execute(t) \/ Process!Report(t) \/ Process!Release(t)
    BY <1>1 DEF Execute, Report, ReportLost, Release
  <2>2. \A u : IsPlaced(u)' <=> IsPlaced(u)
    BY <2>1 DEF IsPlaced
  <2>3. RefusedUntilRestart'
    BY <2>1, <2>2 DEF RefusedUntilRestart, DeliveryInv
  <2>4. \A u \in round' : IsPlaced(u)'
    BY <2>1, <2>2 DEF DeliveryInv, OnlyPlacedTravels
  <2> QED BY <2>1, <2>2, <2>3, <2>4, StageSteps, NothingNew DEF DeliveryInv
<1>2. ASSUME wire # <<>>, wire' = Tail(wire),
             UNCHANGED <<known, board, round, epoch, refused>>,
             \/ UNCHANGED <<stage, origin>>
             \/ LET t == Head(wire).task
                IN  /\ stage' = [stage EXCEPT ![t] = "held"]
                    /\ origin' = [origin EXCEPT ![t] = Head(wire).epoch]
      PROVE  DeliveryInv'
  <2>1. \A u : IsPlaced(u)' <=> IsPlaced(u)
    BY <1>2 DEF IsPlaced
  <2>2. RefusedUntilRestart'
    BY <1>2, <2>1 DEF RefusedUntilRestart, DeliveryInv
  <2>3. Head(wire).task \in Tasks /\ Head(wire).epoch \in Nat
    BY <1>2, WireShrinks DEF Copies
  <2>4. stage' \in [Tasks -> Process!Stages] /\ origin' \in [Tasks -> Nat]
    BY <1>2, <2>3, Zenon DEF DeliveryInv, Process!Stages
  <2>5. \A u \in Tasks : origin'[u] <= epoch
    BY <1>2, <2>3, WireShrinks, Zenon DEF DeliveryInv
  <2>6. \A u \in Tasks : stage'[u] # "absent" /\ origin'[u] = epoch => IsPlaced(u)
    BY <1>2, <2>3, WireShrinks DEF DeliveryInv, OnlyPlacedTravels
  <2>7. \A i \in DOMAIN wire' : wire'[i].epoch = epoch => IsPlaced(wire'[i].task)
    BY <1>2, WireShrinks
  <2>8. OnlyPlacedTravels'
    BY <1>2, <2>1, <2>6, <2>7 DEF DeliveryInv, OnlyPlacedTravels
  <2>9. wire' \in Seq(Copies) /\ \A i \in DOMAIN wire' : wire'[i].epoch <= epoch'
    BY <1>2, WireShrinks
  <2> QED BY <1>2, <2>1, <2>2, <2>4, <2>5, <2>8, <2>9 DEF DeliveryInv
<1>3. ASSUME NEW t \in Tasks, Receive(t) PROVE DeliveryInv'
  BY <1>2, <1>3 DEF Receive, Process!Take, Process!Moves
<1>4. CASE ReceiveNothing
  BY <1>2, <1>4 DEF ReceiveNothing
<1> QED BY <1>1, <1>3, <1>4 DEF WorkerStep

(* Every step of the composition keeps the invariant. *)
LEMMA DeliveryInvNext == DeliveryInv /\ [Next]_vars => DeliveryInv'
<1> SUFFICES ASSUME DeliveryInv, [Next]_vars PROVE DeliveryInv'
  OBVIOUS
<1>1. CASE SchedulerRestart
  <2>1. /\ known' = {} /\ board' = <<>> /\ round' = {} /\ epoch' = epoch + 1
        /\ UNCHANGED <<wire, stage, origin, refused>>
    BY <1>1 DEF SchedulerRestart
  <2>2. board' \in Seq(Rows) /\ Len(board') = 0 /\ DOMAIN board' = {}
    BY <2>1
  <2>3. MaxTasks \in Nat /\ epoch \in Nat /\ epoch' \in Nat
    BY <2>1, DeliveryAssumption DEF DeliveryInv
  <2>4. \A i \in DOMAIN wire : wire[i].epoch <= epoch /\ wire[i].epoch \in Nat
    <3>1. \A i \in DOMAIN wire : wire[i] \in Copies
      BY DEF DeliveryInv
    <3> QED BY <3>1 DEF DeliveryInv, Copies
  <2>5. \A i \in DOMAIN wire' : wire'[i].epoch <= epoch' /\ wire'[i].epoch # epoch'
    BY <2>1, <2>3, <2>4
  <2>6. \A t \in Tasks : origin[t] \in Nat /\ origin[t] <= epoch
    BY DEF DeliveryInv
  <2>7. \A t \in Tasks : origin'[t] <= epoch' /\ origin'[t] # epoch'
    BY <2>1, <2>3, <2>6
  <2>8. OnlyPlacedTravels'
    BY <2>1, <2>5, <2>7 DEF OnlyPlacedTravels
  <2>9. RefusedUntilRestart'
    BY <2>1, <2>2 DEF RefusedUntilRestart
  <2> QED BY <2>1, <2>2, <2>3, <2>5, <2>7, <2>8, <2>9 DEF DeliveryInv
<1>2. CASE Boot \/ Heartbeat
  <2>1. /\ UNCHANGED <<board, round, wire, stage, epoch, origin>>
        /\ known \subseteq known' /\ known' \subseteq {Worker}
    BY <1>2 DEF Boot, Heartbeat, Scheduler!Join, DeliveryInv
  <2>2. \A u : IsPlaced(u)' <=> IsPlaced(u)
    BY <2>1 DEF IsPlaced
  <2>3. RefusedUntilRestart'
    BY <1>2, <2>1, <2>2, Zenon DEF Boot, Heartbeat, RefusedUntilRestart, DeliveryInv
  <2>4. \A u \in round' : IsPlaced(u)'
    BY <2>1, <2>2 DEF DeliveryInv, OnlyPlacedTravels
  <2>5. \A u \in DOMAIN board' : IsPlaced(u)' => Worker \in known'
    BY <2>1, <2>2 DEF DeliveryInv
  <2> QED BY <2>1, <2>2, <2>3, <2>4, <2>5, NothingNew DEF DeliveryInv
<1>3. CASE Crash
  <2>1. /\ UNCHANGED <<known, board, round, epoch, origin, refused>>
        /\ wire' = <<>> /\ stage' = [t \in Tasks |-> "absent"]
    BY <1>3 DEF Crash
  <2>2. \A u : IsPlaced(u)' <=> IsPlaced(u)
    BY <2>1 DEF IsPlaced
  <2>3. wire' \in Seq(Copies) /\ DOMAIN wire' = {} /\ stage' \in [Tasks -> Process!Stages]
    BY <2>1 DEF Process!Stages
  <2>4. OnlyPlacedTravels'
    BY <2>1, <2>2, <2>3 DEF DeliveryInv, OnlyPlacedTravels
  <2>5. RefusedUntilRestart'
    BY <2>1, <2>2 DEF DeliveryInv, RefusedUntilRestart
  <2> QED BY <2>1, <2>2, <2>3, <2>4, <2>5 DEF DeliveryInv
<1>4. CASE UNCHANGED vars
  BY <1>4 DEF vars, DeliveryInv, OnlyPlacedTravels, RefusedUntilRestart, IsPlaced
<1> QED BY <1>1, <1>2, <1>3, <1>4, SchedulerSteps, WorkerSteps DEF Next

(* A task is sent, carried, held or executed only after it was placed,     *)
(* whatever fails, for any bounds.                                         *)
THEOREM PlacedBeforeTravel == Spec => []OnlyPlacedTravels
<1>1. DeliveryInv => OnlyPlacedTravels
  BY DEF DeliveryInv
<1> QED BY DeliveryInvInit, DeliveryInvNext, <1>1, PTL DEF Spec

(* A worker whose heartbeat was refused has nothing until it is restarted. *)
THEOREM RefusedHasNothing == Spec => []RefusedUntilRestart
<1>1. DeliveryInv => RefusedUntilRestart
  BY DEF DeliveryInv
<1> QED BY DeliveryInvInit, DeliveryInvNext, <1>1, PTL DEF Spec

-----------------------------------------------------------------------------

(* Reports are counted. *)
PostedInv == posted \in [Tasks -> Nat]

(* The count grows with a report that is sent and falls, from above zero,  *)
(* with one that is handled.                                               *)
LEMMA ReportsAreCounted ==
  /\ Init => PostedInv
  /\ PostedInv /\ [Next]_vars => PostedInv'
<1>1. Init => PostedInv
  BY DEF Init, NoReports, PostedInv
<1>2. ASSUME PostedInv, NEW t \in Tasks
      PROVE  /\ posted' = [posted EXCEPT ![t] = @ + 1] => PostedInv'
             /\ posted[t] > 0 /\ posted' = [posted EXCEPT ![t] = @ - 1] => PostedInv'
  BY <1>2 DEF PostedInv
<1>3. ASSUME PostedInv, SchedulerStep PROVE PostedInv'
  <2>1. CASE UNCHANGED posted
    BY <1>3, <2>1 DEF PostedInv
  <2>2. UNCHANGED posted \/ \E t \in Tasks, o \in Scheduler!Terminal : Record(t, o)
    BY <1>3 DEF SchedulerStep, Submit, Place, Snapshot, Deliver, DeliverFails
  <2> QED BY <1>2, <1>3, <2>1, <2>2 DEF Record
<1>4. ASSUME PostedInv, WorkerStep PROVE PostedInv'
  <2>1. CASE UNCHANGED posted
    BY <1>4, <2>1 DEF PostedInv
  <2>2. UNCHANGED posted \/ \E t \in Tasks : Report(t)
    BY <1>4 DEF WorkerStep, Receive, ReceiveNothing, Execute, ReportLost, Release
  <2> QED BY <1>2, <1>4, <2>1, <2>2 DEF Report
<1>5. ASSUME PostedInv, SchedulerRestart \/ Boot \/ Heartbeat \/ Crash \/ UNCHANGED vars
      PROVE  PostedInv'
  BY <1>5 DEF SchedulerRestart, Boot, Heartbeat, Crash, vars, NoReports, PostedInv
<1> QED BY <1>1, <1>3, <1>4, <1>5 DEF Next

(* A copy that is read, or lost, leaves the wire. *)
LEMMA WireRead ==
  ASSUME DeliveryInv, wire # <<>>, wire' = Tail(wire)
  PROVE  OnWire' \subseteq OnWire /\ Head(wire).task \in OnWire
<1>1. /\ Len(wire) \in Nat /\ Len(wire) > 0 /\ Len(wire') = Len(wire) - 1
      /\ DOMAIN wire = 1 .. Len(wire) /\ DOMAIN wire' = 1 .. Len(wire')
      /\ Head(wire) = wire[1]
      /\ \A i \in 1 .. Len(wire') : wire'[i] = wire[i + 1]
  BY HeadTailProperties, LenProperties DEF DeliveryInv
<1>2. /\ 1 \in DOMAIN wire
      /\ \A i \in DOMAIN wire' : i + 1 \in DOMAIN wire /\ wire'[i] = wire[i + 1]
  BY <1>1
<1> QED BY <1>1, <1>2 DEF OnWire

(* A copy that is sent is put on the wire. *)
LEMMA WireSent ==
  ASSUME DeliveryInv, NEW u \in Tasks,
         wire' = Append(wire, [task |-> u, epoch |-> epoch])
  PROVE  OnWire' = OnWire \cup {u}
<1> DEFINE copy == [task |-> u, epoch |-> epoch]
<1>1. copy.task = u /\ copy \in Copies
  BY DEF Copies, DeliveryInv
<1>2. /\ Len(wire) \in Nat
      /\ DOMAIN wire = 1 .. Len(wire) /\ DOMAIN wire' = 1 .. Len(wire) + 1
      /\ \A i \in 1 .. Len(wire) : wire'[i] = wire[i]
      /\ wire'[Len(wire) + 1] = copy
  BY <1>1, AppendProperties, LenProperties DEF DeliveryInv
<1> HIDE DEF copy
<1>3. /\ \A i \in DOMAIN wire : i \in DOMAIN wire' /\ wire'[i] = wire[i]
      /\ \A i \in DOMAIN wire' : i \in DOMAIN wire \/ wire'[i] = copy
      /\ \E i \in DOMAIN wire' : wire'[i] = copy
  BY <1>2
<1> QED BY <1>1, <1>3 DEF OnWire

(* A settled task stays settled, with the result it has, for any bounds:   *)
(* what could replace the result is a report in flight, and a task that    *)
(* has one is not settled.                                                 *)
THEOREM SettledIsFinal == Spec => SettledStaysSettled
<1> DEFINE Final == \A t \in Tasks :
                      Settled(t) /\ epoch' = epoch => Settled(t)' /\ board'[t] = board[t]
<1>1. DeliveryInv /\ PostedInv /\ [Next]_vars => [Final]_vars
  <2> SUFFICES ASSUME DeliveryInv, PostedInv, Next, NEW t \in Tasks, Settled(t), epoch' = epoch
               PROVE  Settled(t)' /\ board'[t] = board[t]
    OBVIOUS
  <2>0. /\ t \in DOMAIN board /\ board[t].status \in Scheduler!Terminal
        /\ t \notin round /\ t \notin OnWire /\ stage[t] = "absent"
        /\ board \in Seq(Rows) /\ stage \in [Tasks -> Process!Stages]
        /\ posted \in [Tasks -> Nat] /\ posted[t] = 0
    BY DEF Settled, DeliveryInv, PostedInv
  <2>1. ASSUME t \in DOMAIN board', board'[t] = board[t], t \notin round', t \notin OnWire',
               stage'[t] = "absent", posted'[t] = 0
        PROVE  Settled(t)' /\ board'[t] = board[t]
    BY <2>0, <2>1 DEF Settled, Scheduler!Terminal
  <2>2. CASE Submit
    <3>1. /\ board' = Append(board, [status |-> "pending", worker |-> NoWorker])
          /\ UNCHANGED <<round, wire, stage, posted>>
      BY <2>2 DEF Submit, Scheduler!Submit
    <3>2. t \in DOMAIN board' /\ board'[t] = board[t]
      BY <2>0, <3>1
    <3> QED BY <2>0, <2>1, <3>1, <3>2 DEF OnWire
  <2>3. ASSUME NEW u \in DOMAIN board, Place(u)
        PROVE  Settled(t)' /\ board'[t] = board[t]
    <3>1. /\ board[u].status = "pending" /\ UNCHANGED <<round, wire, stage, posted>>
          /\ board' = [board EXCEPT ![u] = [status |-> "running", worker |-> Worker]]
      BY <2>3 DEF Place, Scheduler!Assign
    <3>2. u # t
      BY <2>0, <3>1 DEF Scheduler!Terminal
    <3> QED BY <2>0, <2>1, <3>1, <3>2 DEF OnWire
  <2>4. CASE Snapshot \/ DeliverFails
    <3>1. UNCHANGED <<board, wire, stage, posted>> /\ t \notin round'
      BY <2>0, <2>4 DEF Snapshot, DeliverFails, Deliverable, Scheduler!Terminal
    <3> QED BY <2>0, <2>1, <3>1 DEF OnWire
  <2>5. ASSUME NEW u \in Tasks, Deliver(u)
        PROVE  Settled(t)' /\ board'[t] = board[t]
    <3>1. /\ u \in round /\ round' = round \ {u} /\ UNCHANGED <<board, stage, posted>>
          /\ wire' = Append(wire, [task |-> u, epoch |-> epoch])
      BY <2>5 DEF Deliver, IsNext
    <3>2. OnWire' = OnWire \cup {u}
      BY <3>1, WireSent
    <3> QED BY <2>0, <2>1, <3>1, <3>2
  <2>6. CASE SchedulerRestart
    BY <2>6 DEF SchedulerRestart, DeliveryInv
  <2>7. CASE Boot \/ Heartbeat
    BY <2>0, <2>1, <2>7 DEF Boot, Heartbeat, Scheduler!Join, OnWire
  <2>8. CASE Crash
    <3>1. OnWire' = {}
      BY <2>8 DEF Crash, OnWire
    <3> QED BY <2>0, <2>1, <2>8, <3>1 DEF Crash
  <2>9. ASSUME NEW u \in Tasks, Receive(u)
        PROVE  Settled(t)' /\ board'[t] = board[t]
    <3>1. OnWire' \subseteq OnWire /\ u \in OnWire
      BY <2>9, WireRead DEF Receive
    <3>2. stage'[t] = stage[t]
      BY <2>0, <2>9, <3>1 DEF Receive, Process!Take, Process!Moves
    <3> QED BY <2>0, <2>1, <2>9, <3>1, <3>2 DEF Receive
  <2>10. CASE ReceiveNothing
    <3>1. OnWire' \subseteq OnWire
      BY <2>10, WireRead DEF ReceiveNothing
    <3> QED BY <2>0, <2>1, <2>10, <3>1 DEF ReceiveNothing
  <2>11. ASSUME NEW u \in Tasks, Execute(u) \/ ReportLost(u) \/ Release(u)
         PROVE  Settled(t)' /\ board'[t] = board[t]
    <3>1. UNCHANGED <<board, round, wire, posted>> /\ stage'[t] = stage[t]
      BY <2>0, <2>11 DEF Execute, ReportLost, Release, Process!Execute, Process!Report,
                         Process!Release, Process!Moves
    <3> QED BY <2>0, <2>1, <3>1 DEF OnWire
  <2>12. ASSUME NEW u \in Tasks, Report(u)
         PROVE  Settled(t)' /\ board'[t] = board[t]
    <3>1. /\ stage[u] = "executed" /\ stage' = [stage EXCEPT ![u] = "reported"]
          /\ posted' = [posted EXCEPT ![u] = @ + 1] /\ UNCHANGED <<board, round, wire>>
      BY <2>12 DEF Report, Process!Report, Process!Moves
    <3>2. u # t
      BY <2>0, <3>1
    <3> QED BY <2>0, <2>1, <3>1, <3>2 DEF OnWire
  <2>13. ASSUME NEW u \in Tasks, NEW o \in Scheduler!Terminal, Record(u, o)
         PROVE  Settled(t)' /\ board'[t] = board[t]
    <3>1. /\ posted[u] > 0 /\ posted' = [posted EXCEPT ![u] = @ - 1]
          /\ board' = [board EXCEPT ![u].status = o] \/ UNCHANGED board
          /\ UNCHANGED <<round, wire, stage>>
      BY <2>13 DEF Record, Scheduler!Finish
    <3>2. u # t
      BY <2>0, <3>1
    <3> QED BY <2>0, <2>1, <3>1, <3>2 DEF OnWire
  <2> QED
    BY <2>2, <2>3, <2>4, <2>5, <2>6, <2>7, <2>8, <2>9, <2>10, <2>11, <2>12, <2>13,
       SMTT(30)
    DEF Next, SchedulerStep, WorkerStep
<1> QED
  BY DeliveryInvInit, DeliveryInvNext, ReportsAreCounted, <1>1, PTL
  DEF Spec, SettledStaysSettled

-----------------------------------------------------------------------------
(***************************************************************************)
(* Messages                                                                *)
(***************************************************************************)

(* The names of the fields are words of their own. *)
FieldNames == Range(TaskKeys) \cup Range(ResultKeys)

(* What the names are, and that no separator is among them. *)
LEMMA NamesAre ==
  /\ Range(TaskKeys) = {"task_id", "kind", "source_node", "target_node", "description"}
  /\ Range(ResultKeys) = {"task_id", "worker_node", "target_node", "success", "detail"}
  /\ FieldNames \subseteq Tokens /\ {"newline", "=", "meta:", "1", "0"} \subseteq Tokens
  /\ FieldNames \cap {"newline", "=", "meta:"} = {}
<1>1. Range(TaskKeys) = {"task_id", "kind", "source_node", "target_node", "description"}
  BY DEF Range, TaskKeys
<1>2. Range(ResultKeys) = {"task_id", "worker_node", "target_node", "success", "detail"}
  BY DEF Range, ResultKeys
<1> QED BY <1>1, <1>2 DEF FieldNames, Tokens

(* A text behind one token. *)
LEMMA BehindIs ==
  ASSUME NEW S, NEW c \in S, NEW s \in Seq(S), NEW w, w = <<c>> \o s
  PROVE  w \in Seq(S) /\ w # <<>> /\ Head(w) = c /\ Tail(w) = s
<1>1. PICK one \in Seq(S) : one = <<c>> /\ Len(one) = 1 /\ one[1] = c
  <2>1. <<c>> \in Seq(S) /\ Len(<<c>>) = 1 /\ <<c>>[1] = c
    OBVIOUS
  <2> QED BY <2>1, Zenon
<1>2. /\ one \o s \in Seq(S) /\ Len(one \o s) = Len(one) + Len(s)
      /\ \A i \in 1 .. Len(one) + Len(s) :
           (one \o s)[i] = IF i <= Len(one) THEN one[i] ELSE s[i - Len(one)]
  BY ConcatProperties
<1>3. PICK l \in Nat : l = Len(s)
  BY LenProperties
<1>4. /\ w \in Seq(S) /\ Len(w) = 1 + l
      /\ \A i \in 1 .. 1 + l : w[i] = IF i <= 1 THEN one[i] ELSE s[i - 1]
  BY <1>1, <1>2, <1>3, Zenon
<1>5. w # <<>> /\ Head(w) = c
  BY <1>1, <1>4
<1>6. /\ Tail(w) \in Seq(S) /\ Len(Tail(w)) = Len(w) - 1
      /\ \A i \in 1 .. Len(Tail(w)) : Tail(w)[i] = w[i + 1]
  BY <1>4, <1>5, HeadTailProperties, Zenon
<1>7. Len(Tail(w)) = l
  BY <1>4, <1>6
<1>8. \A i \in 1 .. l : i + 1 \in 1 .. 1 + l /\ ~(i + 1 <= 1) /\ (i + 1) - 1 = i
  OBVIOUS
<1>9. \A i \in 1 .. l : Tail(w)[i] = s[i]
  BY <1>4, <1>6, <1>7, <1>8, Zenon
<1>10. Tail(w) = s
  BY <1>3, <1>6, <1>7, <1>9, SeqEqual, Zenon
<1> QED BY <1>4, <1>5, <1>10

(* What a line is split at. *)
LEMMA SplitFinds ==
  ASSUME NEW s
  PROVE  SplitAt(s) = FirstOf(s, "=")
BY Zenon DEF SplitAt, FirstOf

(* Messages as a reader builds them. *)
MetaMaps == UNION {[K -> Seq(Tokens)] : K \in SUBSET Seq(Tokens)}

Decodings(keys) == [fields : [Range(keys) -> Seq(Tokens)], metadata : MetaMaps]

KeyTables == {TaskKeys, ResultKeys}

(* The metadata with one more entry. *)
WithEntry(d, k, v) == [j \in DOMAIN d \cup {k} |-> IF j = k THEN v ELSE d[j]]

(* It is metadata again. *)
LEMMA EntryAdded ==
  ASSUME NEW d \in MetaMaps, NEW k \in Seq(Tokens), NEW v \in Seq(Tokens)
  PROVE  WithEntry(d, k, v) \in MetaMaps
<1>1. PICK K \in SUBSET Seq(Tokens) : d \in [K -> Seq(Tokens)]
  BY DEF MetaMaps
<1>2. WithEntry(d, k, v) \in [K \cup {k} -> Seq(Tokens)]
  BY <1>1, Zenon DEF WithEntry
<1>3. K \cup {k} \in SUBSET Seq(Tokens)
  OBVIOUS
<1> QED BY <1>2, <1>3, Zenon DEF MetaMaps

(* The two sides of a line that is split. *)
LEMMA SidesOf ==
  ASSUME NEW s \in Seq(Tokens), SplitAt(s) > 0
  PROVE  Key(s) \in Seq(Tokens) /\ Value(s) \in Seq(Tokens)
<1>1. PICK p : p = SplitAt(s)
  OBVIOUS
<1>2. FirstOf(s, "=") = 0 \/ FirstOf(s, "=") \in 1 .. Len(s)
  BY FirstIs, Zenon
<1>3. p \in 1 .. Len(s) /\ Len(s) \in Nat
  BY <1>1, <1>2, SplitFinds, LenProperties
<1>4. SubSeq(s, 1, p - 1) \in Seq(Tokens)
  BY <1>3, BeginningOf
<1>5. SubSeq(s, p + 1, Len(s)) \in Seq(Tokens)
  <2>1. PICK n \in Nat : n = Len(s) - p /\ p + n <= Len(s) /\ p + n = Len(s) /\ p \in Nat
    BY <1>3
  <2>2. Part(s, p, n) \in Seq(Tokens)
    BY <2>1, PartOf, Zenon
  <2> QED BY <2>1, <2>2, Zenon DEF Part
<1> QED BY <1>1, <1>4, <1>5, Zenon DEF Key, Value

(* Reading a line leaves a message of the type that is read. *)
LEMMA ReadLineTyped ==
  ASSUME NEW keys \in KeyTables, NEW m \in Decodings(keys), NEW line \in Seq(Tokens)
  PROVE  ReadLine(keys, m, line) \in Decodings(keys)
<1>1. ASSUME NEW k \in Range(keys), NEW v \in Seq(Tokens)
      PROVE  [m EXCEPT !.fields[k] = v] \in Decodings(keys)
  BY <1>1, Zenon DEF Decodings
<1>2. ASSUME NEW k \in Seq(Tokens), NEW v \in Seq(Tokens)
      PROVE  [m EXCEPT !.metadata = WithEntry(@, k, v)] \in Decodings(keys)
  <2>1. m.metadata \in MetaMaps
    BY DEF Decodings
  <2>2. WithEntry(m.metadata, k, v) \in MetaMaps
    BY <1>2, <2>1, EntryAdded, Zenon
  <2> QED BY <2>2, Zenon DEF Decodings
<1>3. ReadField(keys, m, line) \in Decodings(keys)
  <2>1. CASE SplitAt(line) > 0 /\ \E k \in Range(keys) : Key(line) = <<k>>
    <3>1. PICK k \in Range(keys) : Key(line) = <<k>>
      BY <2>1, Zenon
    <3>2. Head(Key(line)) = k
      BY <3>1
    <3>3. Value(line) \in Seq(Tokens)
      BY <2>1, SidesOf, Zenon
    <3>4. ReadField(keys, m, line) = [m EXCEPT !.fields[k] = Value(line)]
      BY <2>1, <3>2, Zenon DEF ReadField
    <3> QED BY <1>1, <3>3, <3>4, Zenon
  <2>2. CASE ~(SplitAt(line) > 0 /\ \E k \in Range(keys) : Key(line) = <<k>>)
    BY <2>2, Zenon DEF ReadField
  <2> QED BY <2>1, <2>2, Zenon
<1>4. ASSUME NEW s \in Seq(Tokens) PROVE ReadMeta(m, s) \in Decodings(keys)
  <2>1. CASE SplitAt(s) > 0
    <3>1. Key(s) \in Seq(Tokens) /\ Value(s) \in Seq(Tokens)
      BY <2>1, SidesOf, Zenon
    <3>2. ReadMeta(m, s) = [m EXCEPT !.metadata = WithEntry(@, Key(s), Value(s))]
      BY <2>1, Zenon DEF ReadMeta, WithEntry
    <3> QED BY <1>2, <3>1, <3>2, Zenon
  <2>2. CASE ~(SplitAt(s) > 0)
    BY <2>2, Zenon DEF ReadMeta
  <2> QED BY <2>1, <2>2, Zenon
<1>5. line # <<>> => Tail(line) \in Seq(Tokens)
  BY HeadTailProperties
<1> QED BY <1>3, <1>4, <1>5, Zenon DEF ReadLine

(* The message with one more field, where there is such a one. *)
WithField(keys, m, k, v) == IF k \in Range(keys) THEN [m EXCEPT !.fields[k] = v] ELSE m

(* The line of a field is read as that field, if the reader knows it. *)
LEMMA FieldRead ==
  ASSUME NEW keys, NEW m, NEW k \in FieldNames, NEW v \in Seq(Tokens)
  PROVE  ReadLine(keys, m, <<k, "=">> \o v) = WithField(keys, m, k, v)
<1>1. k \in Tokens /\ "=" \in Tokens /\ k # "=" /\ k # "meta:"
  BY NamesAre, Zenon
<1>2. PICK w : w = <<k, "=">> \o v
  BY Zenon
<1>3. w = <<k>> \o <<"=">> \o v
  <2>1. <<k>> \in Seq(Tokens)
    BY <1>1
  <2>2. PICK a \in Seq(Tokens), b \in Tokens : a = <<k>> /\ b = "="
    BY <1>1, <2>1, Zenon
  <2>3. Append(a, b) = a \o <<b>>
    BY AppendIsConcat
  <2>4. /\ Len(Append(a, b)) = 2 /\ Append(a, b)[1] = k /\ Append(a, b)[2] = b
        /\ Append(a, b) \in Seq(Tokens)
    BY <2>2, AppendProperties
  <2>5. <<k, b>> \in Seq(Tokens) /\ Len(<<k, b>>) = 2 /\ <<k, b>>[1] = k /\ <<k, b>>[2] = b
    BY <1>1
  <2>6. Append(a, b) = <<k, b>>
    <3>1. \A x, y \in Seq(Tokens) :
             Len(x) = 2 /\ Len(y) = 2 /\ x[1] = y[1] /\ x[2] = y[2] => x = y
      <4> SUFFICES ASSUME NEW x \in Seq(Tokens), NEW y \in Seq(Tokens),
                          Len(x) = 2, Len(y) = 2, x[1] = y[1], x[2] = y[2]
                   PROVE  x = y
        BY Zenon
      <4>1. \A i \in 1 .. Len(x) : x[i] = y[i]
        OBVIOUS
      <4> QED BY <4>1, SeqEqual
    <3> QED BY <2>4, <2>5, <3>1, Zenon
  <2> QED BY <1>2, <2>2, <2>3, <2>6, Zenon
<1>4. <<k>> \in Seq(Tokens) /\ <<"=">> \in Seq(Tokens) /\ \A i \in 1 .. Len(<<k>>) : <<k>>[i] # "="
  BY <1>1
<1>5. SplitsInto(w, "=", <<k>>, v)
  <2>1. PICK a \in Seq(Tokens), b \in Tokens : a = <<k>> /\ b = "="
    BY <1>1, <1>4, Zenon
  <2>2. w = a \o <<b>> \o v /\ \A i \in 1 .. Len(a) : a[i] # b
    BY <1>3, <1>4, <2>1, Zenon
  <2>3. SplitsInto(w, b, a, v)
    BY <2>2, SplitsAround, Zenon
  <2> QED BY <2>1, <2>3, Zenon
<1>6. SplitAt(w) > 0 /\ Key(w) = <<k>> /\ Value(w) = v
  <2>1. FirstOf(w, "=") > 0
    BY <1>5 DEF SplitsInto
  <2> QED BY <1>5, <2>1, SplitFinds, Zenon DEF Key, Value, SplitsInto
<1>7. w # <<>> /\ Head(w) = k
  <2>1. PICK t \in Seq(Tokens) : w = <<k>> \o t
    <3>1. PICK a \in Seq(Tokens), b \in Seq(Tokens) : a = <<k>> /\ b = <<"=">>
      BY <1>4, Zenon
    <3>2. (a \o b) \o v = a \o (b \o v)
      BY ConcatAssociative
    <3>3. b \o v \in Seq(Tokens)
      BY ConcatProperties
    <3>4. w = (a \o b) \o v
      BY <1>3, <3>1, Zenon
    <3>5. w = a \o (b \o v)
      BY <3>2, <3>4, Zenon
    <3>6. w = <<k>> \o (b \o v)
      BY <3>1, <3>5, Zenon
    <3> QED BY <3>3, <3>6, Zenon
  <2> QED BY <1>1, <2>1, BehindIs, Zenon
<1>8. ReadLine(keys, m, w) = ReadField(keys, m, w)
  BY <1>1, <1>7, Zenon DEF ReadLine
<1>9. Head(Key(w)) = k
  BY <1>6
<1>10. k \in Range(keys) <=> \E j \in Range(keys) : Key(w) = <<j>>
  BY <1>6
<1>11. ReadField(keys, m, w) = WithField(keys, m, k, v)
  BY <1>6, <1>9, <1>10, Zenon DEF ReadField, WithField
<1> QED BY <1>2, <1>8, <1>11, Zenon

(* The line of an entry of the metadata is read as that entry, whatever is *)
(* in its value.                                                           *)
LEMMA EntryRead ==
  ASSUME NEW keys, NEW m, NEW k \in Seq(Tokens), NEW v \in Seq(Tokens),
         \A i \in 1 .. Len(k) : k[i] # "="
  PROVE  ReadLine(keys, m, <<"meta:">> \o k \o <<"=">> \o v) =
           [m EXCEPT !.metadata = WithEntry(@, k, v)]
<1>1. "=" \in Tokens /\ "meta:" \in Tokens
  BY NamesAre, Zenon
<1>2. PICK w, x : w = <<"meta:">> \o k \o <<"=">> \o v /\ x = k \o <<"=">> \o v
  BY Zenon
<1>3. x \in Seq(Tokens) /\ SplitsInto(x, "=", k, v)
  <2>1. PICK b \in Tokens : b = "="
    BY <1>1, Zenon
  <2>2. x = k \o <<b>> \o v /\ \A i \in 1 .. Len(k) : k[i] # b
    BY <1>2, <2>1, Zenon
  <2>3. x \in Seq(Tokens) /\ SplitsInto(x, b, k, v)
    BY <2>2, SplitsAround, Zenon
  <2> QED BY <2>1, <2>3, Zenon
<1>4. SplitAt(x) > 0 /\ Key(x) = k /\ Value(x) = v
  <2>1. FirstOf(x, "=") > 0
    BY <1>3, LenProperties DEF SplitsInto
  <2> QED BY <1>3, <2>1, SplitFinds, Zenon DEF Key, Value, SplitsInto
<1>5. w = <<"meta:">> \o x
  <2>1. PICK a \in Seq(Tokens), b \in Seq(Tokens) : a = <<"meta:">> /\ b = <<"=">>
    <3>1. <<"meta:">> \in Seq(Tokens) /\ <<"=">> \in Seq(Tokens)
      BY <1>1
    <3> QED BY <3>1, Zenon
  <2>2. w = ((a \o k) \o b) \o v /\ x = (k \o b) \o v
    BY <1>2, <2>1, Zenon
  <2>3. PICK y \in Seq(Tokens) : y = k \o b
    BY ConcatProperties, Zenon
  <2>4. (a \o k) \o b = a \o y
    BY <2>3, ConcatAssociative
  <2>5. (a \o y) \o v = a \o (y \o v)
    BY ConcatAssociative, SMTT(30)
  <2> QED BY <2>1, <2>2, <2>3, <2>4, <2>5, Zenon
<1>6. w # <<>> /\ Head(w) = "meta:" /\ Tail(w) = x
  BY <1>1, <1>3, <1>5, BehindIs, Zenon
<1>7. ReadLine(keys, m, w) = ReadMeta(m, x)
  BY <1>6, Zenon DEF ReadLine
<1>8. ReadMeta(m, x) = [m EXCEPT !.metadata = WithEntry(@, k, v)]
  BY <1>4, Zenon DEF ReadMeta, WithEntry
<1> QED BY <1>2, <1>7, <1>8, Zenon

(* The lines of a text, each with its newline. *)
Ended(lines) == [n \in 1 .. Len(lines) |-> Append(lines[n], "newline")]

(* The stream a message is written to, as a function of the lines written. *)
LEMMA WrittenIs ==
  ASSUME NEW lines \in Seq(Seq(Tokens))
  PROVE  \E e : /\ Joining(e, Ended(lines), Len(lines), Tokens)
                /\ Written(lines) = e[Len(lines)]
<1> DEFINE Loop(f) == [n \in 0 .. Len(lines) |->
                         IF n = 0 THEN <<>> ELSE f[n - 1] \o Append(lines[n], "newline")]
<1>1. Len(lines) \in Nat /\ \A n \in 1 .. Len(lines) : lines[n] \in Seq(Tokens)
  BY LenProperties
<1>2. PICK first \in Seq(Tokens) : first = <<>>
  BY EmptySeq, Zenon
<1>3. \A a, c \in Seq(Tokens) : /\ Append(c, "newline") \in Seq(Tokens)
                                /\ a \o Append(c, "newline") \in Seq(Tokens)
  <2>1. \A c \in Seq(Tokens) : Append(c, "newline") \in Seq(Tokens)
    BY NamesAre, AppendProperties
  <2> QED BY <2>1, ConcatProperties, Zenon
<1>4. PICK step \in Steps(Seq(Tokens), Seq(Tokens)) :
         \A a, c \in Seq(Tokens) : step[<<a, c>>] = a \o Append(c, "newline")
  <2> DEFINE h == [p \in Seq(Tokens) \X Seq(Tokens) |-> p[1] \o Append(p[2], "newline")]
  <2>1. h \in Steps(Seq(Tokens), Seq(Tokens))
    BY <1>3 DEF Steps
  <2>2. \A a, c \in Seq(Tokens) : h[<<a, c>>] = a \o Append(c, "newline")
    BY Zenon
  <2> HIDE DEF h
  <2> QED BY <2>1, <2>2, Zenon
<1>5. PICK g : IsLoop(g, lines, Seq(Tokens), first, step)
  BY LoopExists, Zenon
<1>6. g \in [0 .. Len(lines) -> Seq(Tokens)] /\ g[0] = <<>>
  BY <1>2, <1>5, Zenon DEF IsLoop
<1>7. ASSUME NEW n \in 1 .. Len(lines) PROVE g[n] = g[n - 1] \o Append(lines[n], "newline")
  <2>1. n - 1 \in 0 .. Len(lines) /\ lines[n] \in Seq(Tokens)
    BY <1>1
  <2>2. g[n] = step[<<g[n - 1], lines[n]>>]
    BY <1>5, Zenon DEF IsLoop
  <2> QED BY <1>4, <1>6, <2>1, <2>2, Zenon
<1>8. g = Loop(g)
  <2>1. ASSUME NEW n \in 0 .. Len(lines)
        PROVE  g[n] = IF n = 0 THEN <<>> ELSE g[n - 1] \o Append(lines[n], "newline")
    <3>1. n # 0 => n \in 1 .. Len(lines)
      BY <1>1
    <3> QED BY <1>6, <1>7, <3>1, Zenon
  <2>2. g = [n \in 0 .. Len(lines) |-> g[n]]
    BY <1>6
  <2> QED BY <2>1, <2>2, Zenon
<1>9. PICK f : f = Loop(f) /\ Written(lines) = f[Len(lines)]
  <2> DEFINE c == CHOOSE f : f = Loop(f)
  <2>1. Written(lines) = c[Len(lines)]
    BY Zenon DEF Written
  <2> HIDE DEF Loop
  <2>2. c = Loop(c)
    BY <1>8, Zenon
  <2> QED BY <2>1, <2>2, Zenon
<1>10. f[0] = <<>> /\ \A n \in 1 .. Len(lines) : f[n] = f[n - 1] \o Append(lines[n], "newline")
  <2>1. ASSUME NEW n \in 0 .. Len(lines)
        PROVE  f[n] = IF n = 0 THEN <<>> ELSE f[n - 1] \o Append(lines[n], "newline")
    BY <1>9, Zenon
  <2>2. \A n \in 1 .. Len(lines) : n \in 0 .. Len(lines) /\ n # 0
    BY <1>1
  <2>3. 0 \in 0 .. Len(lines)
    BY <1>1
  <2> QED BY <2>1, <2>2, <2>3, Zenon
<1>11. \A n \in 0 .. Len(lines) : f[n] \in Seq(Tokens)
  <2> DEFINE T == {n \in 0 .. Len(lines) : f[n] \in Seq(Tokens)}
  <2>1. 0 \in T
    <3>1. 0 \in 0 .. Len(lines)
      BY <1>1
    <3>2. f[0] \in Seq(Tokens)
      BY <1>2, <1>10, Zenon
    <3> QED BY <3>1, <3>2
  <2>2. ASSUME NEW n \in 1 .. Len(lines), n - 1 \in T PROVE n \in T
    <3>1. n \in 0 .. Len(lines)
      BY <1>1
    <3>2. f[n - 1] \in Seq(Tokens) /\ lines[n] \in Seq(Tokens)
      BY <1>1, <2>2
    <3>3. f[n] \in Seq(Tokens)
      BY <1>3, <1>10, <3>2, Zenon
    <3> QED BY <3>1, <3>3
  <2> HIDE DEF T
  <2>3. \A n \in 0 .. Len(lines) : n \in T
    BY <1>1, <2>1, <2>2, UpTo, Zenon
  <2> QED BY <2>3 DEF T
<1>12. f \in [0 .. Len(lines) -> Seq(Tokens)]
  <2>1. f = [n \in 0 .. Len(lines) |-> f[n]]
    <3>1. DOMAIN f = 0 .. Len(lines) /\ f = [n \in DOMAIN f |-> f[n]]
      BY <1>9
    <3> QED BY <3>1, Zenon
  <2> QED BY <1>11, <2>1
<1>13. \A n \in 1 .. Len(lines) : /\ Ended(lines)[n] \in Seq(Tokens)
                                  /\ f[n] = f[n - 1] \o Ended(lines)[n]
  <2>1. \A n \in 1 .. Len(lines) : Ended(lines)[n] = Append(lines[n], "newline")
    BY Zenon DEF Ended
  <2> QED BY <1>1, <1>3, <1>10, <2>1, Zenon
<1>14. Joining(f, Ended(lines), Len(lines), Tokens)
  BY <1>10, <1>12, <1>13, Zenon DEF Joining
<1> QED BY <1>9, <1>14, Zenon

(* What a reader has: the line so far, and the message from those before. *)
MessageReadings(keys) == [line : Seq(Tokens), message : Decodings(keys)]

(* Where a reader starts. *)
LEMMA BlankTyped ==
  ASSUME NEW keys \in KeyTables
  PROVE  /\ Blank(keys) \in Decodings(keys)
         /\ [line |-> <<>>, message |-> Blank(keys)] \in MessageReadings(keys)
<1>1. <<>> \in Seq(Tokens)
  BY EmptySeq, Zenon
<1>2. [k \in Range(keys) |-> <<>>] \in [Range(keys) -> Seq(Tokens)]
  BY <1>1, Zenon
<1>3. [k \in {} |-> <<>>] \in MetaMaps
  <2>1. [k \in {} |-> <<>>] \in [{} -> Seq(Tokens)] /\ {} \in SUBSET Seq(Tokens)
    BY Zenon
  <2> QED BY <2>1, Zenon DEF MetaMaps
<1>4. Blank(keys) \in Decodings(keys)
  BY <1>2, <1>3, Zenon DEF Blank, Decodings
<1> QED BY <1>1, <1>4, Zenon DEF MessageReadings

(* Where a token takes it. *)
LEMMA ReadTokenTyped ==
  ASSUME NEW keys \in KeyTables, NEW acc \in MessageReadings(keys), NEW c \in Tokens
  PROVE  ReadToken(keys, acc, c) \in MessageReadings(keys)
<1>1. acc.line \in Seq(Tokens) /\ acc.message \in Decodings(keys)
  BY Zenon DEF MessageReadings
<1>2. CASE c = "newline"
  <2>1. ReadLine(keys, acc.message, acc.line) \in Decodings(keys) /\ <<>> \in Seq(Tokens)
    BY <1>1, ReadLineTyped, EmptySeq, Zenon
  <2> QED BY <1>2, <2>1, Zenon DEF ReadToken, MessageReadings
<1>3. CASE c # "newline"
  <2>1. Append(acc.line, c) \in Seq(Tokens)
    BY <1>1, AppendProperties
  <2>2. ReadToken(keys, acc, c) = [acc EXCEPT !.line = Append(@, c)]
    BY <1>3, Zenon DEF ReadToken
  <2>3. ReadToken(keys, acc, c) = [line |-> Append(acc.line, c), message |-> acc.message]
    BY <2>2, Zenon DEF MessageReadings
  <2>4. [line |-> Append(acc.line, c), message |-> acc.message] \in MessageReadings(keys)
    BY <1>1, <2>1, Zenon DEF MessageReadings
  <2> QED BY <2>3, <2>4, Zenon
<1> QED BY <1>2, <1>3, Zenon

(* The loop over getline, as a function of the tokens it has seen. *)
LEMMA ReadIs ==
  ASSUME NEW keys \in KeyTables, NEW s \in Seq(Tokens)
  PROVE  \E f \in [0 .. Len(s) -> MessageReadings(keys)] :
           /\ f[0] = [line |-> <<>>, message |-> Blank(keys)]
           /\ \A n \in 1 .. Len(s) : f[n] = ReadToken(keys, f[n - 1], s[n])
           /\ Read(keys, s) = ReadLine(keys, f[Len(s)].message, f[Len(s)].line)
<1> DEFINE start == [line |-> <<>>, message |-> Blank(keys)]
<1> DEFINE Loop(f) == [n \in 0 .. Len(s) |->
                         IF n = 0 THEN start ELSE ReadToken(keys, f[n - 1], s[n])]
<1>1. Len(s) \in Nat /\ \A n \in 1 .. Len(s) : s[n] \in Tokens
  BY LenProperties
<1>2. start \in MessageReadings(keys)
  BY BlankTyped, Zenon
<1>3. PICK step \in Steps(MessageReadings(keys), Tokens) :
         \A a \in MessageReadings(keys), c \in Tokens : step[<<a, c>>] = ReadToken(keys, a, c)
  <2> DEFINE h == [p \in MessageReadings(keys) \X Tokens |-> ReadToken(keys, p[1], p[2])]
  <2>1. h \in Steps(MessageReadings(keys), Tokens)
    BY ReadTokenTyped DEF Steps
  <2>2. \A a \in MessageReadings(keys), c \in Tokens : h[<<a, c>>] = ReadToken(keys, a, c)
    OBVIOUS
  <2> HIDE DEF h
  <2> QED BY <2>1, <2>2, Zenon
<1> HIDE DEF start
<1>4. PICK g \in [0 .. Len(s) -> MessageReadings(keys)] :
         g[0] = start /\ \A n \in 1 .. Len(s) : g[n] = step[<<g[n - 1], s[n]>>]
  <2>1. \E f : IsLoop(f, s, MessageReadings(keys), start, step)
    BY <1>2, LoopExists, Zenon
  <2> QED BY <2>1, Zenon DEF IsLoop
<1>5. \A n \in 1 .. Len(s) : g[n] = ReadToken(keys, g[n - 1], s[n])
  <2> TAKE n \in 1 .. Len(s)
  <2>1. n - 1 \in 0 .. Len(s) /\ s[n] \in Tokens
    BY <1>1
  <2> QED BY <1>3, <1>4, <2>1, Zenon
<1>6. g = Loop(g)
  BY <1>1, <1>4, <1>5
<1>7. PICK f : f = Loop(f) /\ Read(keys, s) = ReadLine(keys, f[Len(s)].message, f[Len(s)].line)
  <2> DEFINE h == CHOOSE f : f = Loop(f)
  <2>1. Read(keys, s) = ReadLine(keys, h[Len(s)].message, h[Len(s)].line)
    BY Zenon DEF Read, start
  <2> HIDE DEF Loop
  <2>2. h = Loop(h)
    BY <1>6, Zenon
  <2> QED BY <2>1, <2>2, Zenon
<1>8. f[0] = start /\ \A n \in 1 .. Len(s) : f[n] = ReadToken(keys, f[n - 1], s[n])
  <2>1. ASSUME NEW n \in 0 .. Len(s)
        PROVE  f[n] = IF n = 0 THEN start ELSE ReadToken(keys, f[n - 1], s[n])
    BY <1>7, Zenon
  <2>2. \A n \in 1 .. Len(s) : n \in 0 .. Len(s) /\ n # 0
    BY <1>1
  <2>3. 0 \in 0 .. Len(s)
    BY <1>1
  <2> QED BY <2>1, <2>2, <2>3, Zenon
<1>9. \A n \in 0 .. Len(s) : f[n] \in MessageReadings(keys)
  <2> DEFINE T == {n \in 0 .. Len(s) : f[n] \in MessageReadings(keys)}
  <2>1. 0 \in T
    <3>1. 0 \in 0 .. Len(s)
      BY <1>1
    <3> QED BY <1>2, <1>8, <3>1, Zenon
  <2>2. ASSUME NEW n \in 1 .. Len(s), n - 1 \in T PROVE n \in T
    <3>1. n \in 0 .. Len(s)
      BY <1>1
    <3>2. f[n - 1] \in MessageReadings(keys) /\ s[n] \in Tokens
      BY <1>1, <2>2
    <3>3. f[n] \in MessageReadings(keys)
      BY <1>8, <3>2, ReadTokenTyped, Zenon
    <3> QED BY <3>1, <3>3
  <2> HIDE DEF T
  <2>3. \A n \in 0 .. Len(s) : n \in T
    BY <1>1, <2>1, <2>2, UpTo, Zenon
  <2> QED BY <2>3 DEF T
<1>10. f \in [0 .. Len(s) -> MessageReadings(keys)]
  <2>1. f = [n \in 0 .. Len(s) |-> f[n]]
    <3>1. DOMAIN f = 0 .. Len(s) /\ f = [n \in DOMAIN f |-> f[n]]
      BY <1>7
    <3> QED BY <3>1, Zenon
  <2> QED BY <1>9, <2>1
<1> QED BY <1>7, <1>8, <1>10, Zenon DEF start

(* A reader that goes through s. *)
Reading(f, keys, s) ==
  /\ f \in [0 .. Len(s) -> MessageReadings(keys)]
  /\ f[0] = [line |-> <<>>, message |-> Blank(keys)]
  /\ \A n \in 1 .. Len(s) : f[n] = ReadToken(keys, f[n - 1], s[n])

(* The line c is behind the first a tokens of s. *)
LineAt(s, a, c) ==
  /\ a + Len(c) + 1 <= Len(s)
  /\ \A i \in 1 .. Len(c) : c[i] # "newline" /\ s[a + i] = c[i]
  /\ s[a + Len(c) + 1] = "newline"

(* Behind a tokens the reader begins a line, and behind the line c it has  *)
(* applied it and begins the next.                                         *)
LineBegins(f, a) == f[a].line = <<>>

Applies(f, keys, a, c) ==
  f[a + Len(c) + 1] = [line |-> <<>>, message |-> ReadLine(keys, f[a].message, c)]

(* At the end of a line, the reader has applied it to the message. *)
LEMMA LineApplied ==
  ASSUME NEW keys \in KeyTables, NEW s \in Seq(Tokens), NEW f, Reading(f, keys, s),
         NEW c \in Seq(Tokens), NEW a \in Nat, LineAt(s, a, c), LineBegins(f, a)
  PROVE  Applies(f, keys, a, c)
<1>1. PICK l \in Nat, k \in Nat : l = Len(c) /\ k = Len(s)
  BY LenProperties
<1>2. /\ f \in [0 .. k -> MessageReadings(keys)]
      /\ \A n \in 1 .. k : f[n] = ReadToken(keys, f[n - 1], s[n])
  BY <1>1, Zenon DEF Reading
<1>3. PICK z \in 1 .. k : z = a + Len(c) + 1 /\ z - 1 = a + l /\ a \in 0 .. k
  <2>1. a + Len(c) + 1 <= k
    BY <1>1, Zenon DEF LineAt
  <2>2. a + Len(c) + 1 \in 1 .. k /\ (a + Len(c) + 1) - 1 = a + l /\ a \in 0 .. k
    BY <1>1, <2>1
  <2> QED BY <2>2, Zenon
<1> DEFINE M == f[a].message
<1>4. /\ \A i \in 1 .. l : c[i] # "newline" /\ s[a + i] = c[i]
      /\ s[z] = "newline"
  BY <1>1, <1>3, Zenon DEF LineAt
<1>5. f[a] = [line |-> <<>>, message |-> M]
  <2>1. f[a] \in MessageReadings(keys)
    BY <1>2, <1>3, Zenon
  <2>2. f[a].line = <<>>
    BY Zenon DEF LineBegins
  <2> QED BY <2>1, <2>2 DEF MessageReadings
<1> HIDE DEF M
<1> DEFINE T == {i \in 0 .. l : f[a + i] = [line |-> SubSeq(c, 1, i), message |-> M]}
<1>6. 0 \in T
  <2>1. a + 0 = a /\ SubSeq(c, 1, 0) = <<>> /\ 0 \in 0 .. l
    BY <1>1
  <2>2. f[a + 0] = [line |-> SubSeq(c, 1, 0), message |-> M]
    BY <1>5, <2>1, Zenon
  <2> QED BY <2>1, <2>2, Zenon
<1>7. ASSUME NEW i \in 1 .. l, i - 1 \in T PROVE i \in T
  <2>1. PICK j \in 0 .. l, n \in 1 .. k : j = i - 1 /\ n = a + i /\ n - 1 = a + j
    <3>1. i - 1 \in 0 .. l /\ a + i \in 1 .. k /\ (a + i) - 1 = a + (i - 1)
      BY <1>3
    <3> QED BY <3>1, Zenon
  <2>2. f[n - 1] = [line |-> SubSeq(c, 1, j), message |-> M]
    BY <1>7, <2>1, Zenon
  <2>3. s[n] = c[i] /\ c[i] # "newline"
    BY <1>4, <2>1, Zenon
  <2>4. f[n] = [f[n - 1] EXCEPT !.line = Append(@, c[i])]
    BY <1>2, <2>3, Zenon DEF ReadToken
  <2>5. f[n] = [line |-> Append(SubSeq(c, 1, j), c[i]), message |-> M]
    <3>1. PICK x, y : x = SubSeq(c, 1, j) /\ y = Append(x, c[i])
      BY Zenon
    <3>2. PICK r : r = f[n - 1] /\ r = [line |-> x, message |-> M]
      BY <2>2, <3>1, Zenon
    <3>3. r.line = x
      BY <3>2
    <3>4. f[n] = [r EXCEPT !.line = y]
      BY <2>4, <3>1, <3>2, <3>3, Zenon
    <3>5. [r EXCEPT !.line = y] = [line |-> y, message |-> M]
      BY <3>2
    <3> QED BY <3>1, <3>4, <3>5, Zenon
  <2>6. Append(SubSeq(c, 1, j), c[i]) = SubSeq(c, 1, i)
    <3>1. 1 \in 1 .. Len(c) + 1 /\ j \in 1 - 1 .. Len(c) - 1 /\ j + 1 = i
      BY <1>1, <2>1
    <3>2. SubSeq(c, 1, j + 1) = Append(SubSeq(c, 1, j), c[j + 1])
      BY <3>1
    <3> QED BY <3>1, <3>2, Zenon
  <2>7. i \in 0 .. l
    OBVIOUS
  <2> QED BY <2>1, <2>5, <2>6, <2>7, Zenon
<1>8. \A i \in 0 .. l : i \in T
  <2> HIDE DEF T
  <2> QED BY <1>6, <1>7, UpTo, Zenon
<1>9. l \in 0 .. l
  OBVIOUS
<1>10. f[z - 1] = [line |-> SubSeq(c, 1, l), message |-> M]
  BY <1>3, <1>8, <1>9, Zenon
<1>11. SubSeq(c, 1, l) = c
  BY <1>1, SubSeqFull, Zenon
<1>12. f[z] = [line |-> <<>>, message |-> ReadLine(keys, M, c)]
  <2>1. f[z - 1] = [line |-> c, message |-> M]
    BY <1>10, <1>11, Zenon
  <2>2. f[z - 1].line = c /\ f[z - 1].message = M
    BY <2>1
  <2>3. f[z] = ReadToken(keys, f[z - 1], s[z])
    BY <1>2, Zenon
  <2>4. f[z] = [line |-> <<>>, message |-> ReadLine(keys, f[z - 1].message, f[z - 1].line)]
    BY <1>4, <2>3, Zenon DEF ReadToken
  <2> QED BY <2>2, <2>4, Zenon
<1> QED BY <1>3, <1>12, Zenon DEF M, Applies

(* A reader of a text that was written in lines reads them one by one. *)
LEMMA ReadsLines ==
  ASSUME NEW keys \in KeyTables, NEW lines \in Seq(Seq(Tokens)),
         \A n \in 1 .. Len(lines) : \A i \in 1 .. Len(lines[n]) : lines[n][i] # "newline",
         NEW g, g[0] = Blank(keys),
         \A n \in 1 .. Len(lines) : g[n] = ReadLine(keys, g[n - 1], lines[n])
  PROVE  Read(keys, Written(lines)) = g[Len(lines)]
<1>1. PICK N \in Nat : N = Len(lines) /\ \A n \in 1 .. N : lines[n] \in Seq(Tokens)
  BY LenProperties
<1>2. PICK q : q = Ended(lines) /\ \A n \in 1 .. N : q[n] = Append(lines[n], "newline")
  <2>1. \A n \in 1 .. Len(lines) : Ended(lines)[n] = Append(lines[n], "newline")
    BY Zenon DEF Ended
  <2> QED BY <1>1, <2>1, Zenon
<1>3. PICK e : Joining(e, q, N, Tokens) /\ Written(lines) = e[N]
  BY <1>1, <1>2, WrittenIs, Zenon
<1>4. /\ e \in [0 .. N -> Seq(Tokens)] /\ e[0] = <<>>
      /\ \A n \in 1 .. N : q[n] \in Seq(Tokens) /\ e[n] = e[n - 1] \o q[n]
  BY <1>3, Zenon DEF Joining
<1>5. PICK s \in Seq(Tokens) : s = e[N]
  <2>1. N \in 0 .. N
    OBVIOUS
  <2> QED BY <1>4, <2>1, Zenon
<1>6. PICK f : /\ Reading(f, keys, s)
               /\ Read(keys, s) = ReadLine(keys, f[Len(s)].message, f[Len(s)].line)
  BY ReadIs, Zenon DEF Reading
<1> DEFINE T == {n \in 0 .. N : f[Len(e[n])] = [line |-> <<>>, message |-> g[n]]}
<1>7. 0 \in T
  <2>1. Len(e[0]) = 0 /\ 0 \in 0 .. N
    BY <1>4
  <2>2. f[0] = [line |-> <<>>, message |-> Blank(keys)]
    BY <1>6, Zenon DEF Reading
  <2> QED BY <2>1, <2>2, Zenon
<1>8. ASSUME NEW n \in 1 .. N, n - 1 \in T PROVE n \in T
  <2>1. PICK m \in 0 .. N : m = n - 1 /\ n \in 0 .. N
    <3>1. n - 1 \in 0 .. N /\ n \in 0 .. N
      OBVIOUS
    <3> QED BY <3>1, Zenon
  <2>2. PICK c \in Seq(Tokens) : c = lines[n]
    BY <1>1, Zenon
  <2>3. /\ Len(e[n - 1]) \in Nat /\ Len(q[n]) \in Nat
        /\ Len(e[n]) = Len(e[n - 1]) + Len(q[n]) /\ Len(e[n]) <= Len(e[N])
        /\ \A i \in 1 .. Len(q[n]) : e[N][Len(e[n - 1]) + i] = q[n][i]
    <3>1. PieceIs(e, q, N, n)
      BY <1>3, PieceAt
    <3> QED BY <3>1, Zenon DEF PieceIs
  <2>4. PICK a \in Nat : a = Len(e[m])
    BY <2>1, <2>3, Zenon
  <2>5. /\ q[n] = Append(c, "newline") /\ Len(c) \in Nat /\ Len(q[n]) = Len(c) + 1
        /\ \A i \in 1 .. Len(c) : q[n][i] = c[i]
        /\ q[n][Len(c) + 1] = "newline"
    <3>1. q[n] = Append(c, "newline") /\ "newline" \in Tokens
      BY <1>2, <2>2, NamesAre, Zenon
    <3>2. Len(c) \in Nat
      BY LenProperties
    <3>3. /\ Len(Append(c, "newline")) = Len(c) + 1
          /\ \A i \in 1 .. Len(c) : Append(c, "newline")[i] = c[i]
          /\ Append(c, "newline")[Len(c) + 1] = "newline"
      BY <3>1, AppendProperties
    <3> QED BY <3>1, <3>2, <3>3, Zenon
  <2>6. PICK z \in Nat : z = Len(e[n]) /\ z = a + Len(c) + 1 /\ z <= Len(s)
    <3>1. Len(e[n]) = a + (Len(c) + 1) /\ Len(e[n]) <= Len(s)
      BY <1>5, <2>1, <2>3, <2>4, <2>5, Zenon
    <3>2. a + (Len(c) + 1) = a + Len(c) + 1 /\ a + (Len(c) + 1) \in Nat
      BY <2>5
    <3> QED BY <3>1, <3>2, Zenon
  <2>7. \A i \in 1 .. Len(c) + 1 : s[a + i] = q[n][i]
    BY <1>5, <2>1, <2>3, <2>4, <2>5, Zenon
  <2>8. \A i \in 1 .. Len(c) : c[i] # "newline" /\ s[a + i] = c[i]
    <3>1. \A i \in 1 .. Len(c) : i \in 1 .. Len(c) + 1
      BY <2>5
    <3> QED BY <1>1, <2>2, <2>5, <2>7, <3>1, Zenon
  <2>9. s[z] = "newline"
    <3>1. Len(c) + 1 \in 1 .. Len(c) + 1 /\ z = a + (Len(c) + 1)
      BY <2>5, <2>6
    <3> QED BY <2>5, <2>7, <3>1, Zenon
  <2>10. f[a] = [line |-> <<>>, message |-> g[m]]
    BY <1>8, <2>1, <2>4, Zenon
  <2>11. f[z] = [line |-> <<>>, message |-> ReadLine(keys, g[m], c)]
    <3>1. LineAt(s, a, c)
      BY <2>6, <2>8, <2>9, Zenon DEF LineAt
    <3>2. f[a].line = <<>> /\ f[a].message = g[m]
      BY <2>10
    <3>3. LineBegins(f, a)
      BY <3>2, Zenon DEF LineBegins
    <3>4. Applies(f, keys, a, c)
      BY <1>6, <3>1, <3>3, LineApplied, Zenon
    <3> QED BY <2>6, <3>2, <3>4, Zenon DEF Applies
  <2>12. g[n] = ReadLine(keys, g[m], c)
    BY <1>1, <2>1, <2>2, Zenon
  <2> QED BY <2>1, <2>6, <2>11, <2>12, Zenon
<1>9. \A n \in 0 .. N : n \in T
  <2> HIDE DEF T
  <2> QED BY <1>7, <1>8, UpTo, Zenon
<1>10. f[Len(s)] = [line |-> <<>>, message |-> g[N]]
  <2>1. N \in 0 .. N
    OBVIOUS
  <2> QED BY <1>5, <1>9, <2>1, Zenon
<1>11. f[Len(s)].message = g[N] /\ f[Len(s)].line = <<>>
  BY <1>10
<1>12. Read(keys, s) = g[N]
  BY <1>6, <1>11, Zenon DEF ReadLine
<1> QED BY <1>1, <1>3, <1>5, <1>12, Zenon

(* A text of one line. *)
OneLine(s) == \A i \in 1 .. Len(s) : s[i] # "newline"

(* Texts of one line make a text of one line. *)
LEMMA OneLineJoined ==
  ASSUME NEW a \in Seq(Tokens), NEW b \in Seq(Tokens), OneLine(a), OneLine(b)
  PROVE  a \o b \in Seq(Tokens) /\ OneLine(a \o b)
<1>1. /\ a \o b \in Seq(Tokens) /\ Len(a \o b) = Len(a) + Len(b)
      /\ \A i \in 1 .. Len(a) + Len(b) :
           (a \o b)[i] = IF i <= Len(a) THEN a[i] ELSE b[i - Len(a)]
  BY ConcatProperties
<1>2. PICK l \in Nat, n \in Nat : l = Len(a) /\ n = Len(b)
  BY LenProperties
<1>3. \A i \in 1 .. l + n : IF i <= l THEN i \in 1 .. l ELSE i - l \in 1 .. n
  OBVIOUS
<1>4. \A i \in 1 .. l + n : (a \o b)[i] # "newline"
  BY <1>1, <1>2, <1>3, Zenon DEF OneLine
<1> QED BY <1>1, <1>2, <1>4, Zenon DEF OneLine

(* What has no newline in its range has none at any place. *)
LEMMA OutOfRange ==
  ASSUME NEW s \in Seq(Tokens), NEW b, b \notin Range(s)
  PROVE  \A i \in 1 .. Len(s) : s[i] # b
<1>1. \A i \in 1 .. Len(s) : i \in DOMAIN s
  BY LenProperties
<1> QED BY <1>1, Zenon DEF Range

(* The tables of keys are lists of names. *)
LEMMA TablesAre ==
  ASSUME NEW keys \in KeyTables
  PROVE  /\ keys \in Seq(FieldNames) /\ Range(keys) \subseteq FieldNames
         /\ DOMAIN keys = 1 .. Len(keys) /\ Len(keys) \in Nat
<1>1. TaskKeys \in Seq(Range(TaskKeys)) /\ ResultKeys \in Seq(Range(ResultKeys))
  BY NamesAre DEF TaskKeys, ResultKeys
<1>2. Range(keys) \subseteq FieldNames
  BY Zenon DEF KeyTables, FieldNames
<1>3. keys \in Seq(Range(keys))
  BY <1>1, Zenon DEF KeyTables
<1>4. keys \in Seq(FieldNames)
  BY <1>2, <1>3, SeqMonotonic
<1> QED BY <1>2, <1>4, LenProperties, Zenon

(* The line of a field is one line. *)
LEMMA FieldLineIs ==
  ASSUME NEW keys \in KeyTables, NEW m \in Decodings(keys), Clean(m), NEW k \in Range(keys)
  PROVE  FieldLine(m, k) \in Seq(Tokens) /\ OneLine(FieldLine(m, k))
<1>1. k \in Tokens /\ k # "newline" /\ "=" \in Tokens
  BY TablesAre, NamesAre
<1>2. m.fields \in [Range(keys) -> Seq(Tokens)]
  BY Zenon DEF Decodings
<1>3. m.fields[k] \in Seq(Tokens) /\ "newline" \notin Range(m.fields[k])
  BY <1>2, Zenon DEF Clean
<1>4. OneLine(m.fields[k])
  BY <1>3, OutOfRange, Zenon DEF OneLine
<1>5. <<k, "=">> \in Seq(Tokens) /\ OneLine(<<k, "=">>)
  BY <1>1 DEF OneLine
<1> QED BY <1>3, <1>4, <1>5, OneLineJoined, Zenon DEF FieldLine

(* That of an entry of the metadata as well, if its key and value are. *)
LEMMA MetaLineIs ==
  ASSUME NEW keys \in KeyTables, NEW m \in Decodings(keys), Clean(m),
         NEW k \in DOMAIN m.metadata
  PROVE  /\ k \in Seq(Tokens) /\ m.metadata[k] \in Seq(Tokens)
         /\ \A i \in 1 .. Len(k) : k[i] # "="
         /\ MetaLine(m, k) \in Seq(Tokens) /\ OneLine(MetaLine(m, k))
<1>1. PICK K \in SUBSET Seq(Tokens) : m.metadata \in [K -> Seq(Tokens)]
  BY Zenon DEF Decodings, MetaMaps
<1>2. k \in Seq(Tokens) /\ m.metadata[k] \in Seq(Tokens)
  BY <1>1, Zenon
<1>3. "newline" \notin Range(k) /\ "newline" \notin Range(m.metadata[k]) /\ "=" \notin Range(k)
  BY Zenon DEF Clean
<1>4. OneLine(k) /\ OneLine(m.metadata[k]) /\ \A i \in 1 .. Len(k) : k[i] # "="
  BY <1>2, <1>3, OutOfRange, Zenon DEF OneLine
<1>5. PICK a \in Seq(Tokens), b \in Seq(Tokens) :
         a = <<"meta:">> /\ b = <<"=">> /\ OneLine(a) /\ OneLine(b)
  <2>1. "meta:" \in Tokens /\ "=" \in Tokens
    BY NamesAre, Zenon
  <2>2. /\ <<"meta:">> \in Seq(Tokens) /\ <<"=">> \in Seq(Tokens)
        /\ OneLine(<<"meta:">>) /\ OneLine(<<"=">>)
    BY <2>1 DEF OneLine
  <2> QED BY <2>2, Zenon
<1>6. a \o k \in Seq(Tokens) /\ OneLine(a \o k)
  BY <1>2, <1>4, <1>5, OneLineJoined, Zenon
<1>7. (a \o k) \o b \in Seq(Tokens) /\ OneLine((a \o k) \o b)
  BY <1>5, <1>6, OneLineJoined, Zenon
<1>8. /\ ((a \o k) \o b) \o m.metadata[k] \in Seq(Tokens)
      /\ OneLine(((a \o k) \o b) \o m.metadata[k])
  BY <1>2, <1>4, <1>7, OneLineJoined, Zenon
<1>9. MetaLine(m, k) = ((a \o k) \o b) \o m.metadata[k]
  BY <1>5, Zenon DEF MetaLine
<1> QED BY <1>2, <1>4, <1>8, <1>9, Zenon

(* The lines of a message: first its fields, then its metadata. *)
LEMMA LinesAre ==
  ASSUME NEW keys \in KeyTables, NEW m \in Decodings(keys), Clean(m),
         NEW order \in Seq(Seq(Tokens)), Range(order) = DOMAIN m.metadata,
         NEW lines, lines = MessageLines(keys, m, order)
  PROVE  /\ lines \in Seq(Seq(Tokens)) /\ Len(lines) = Len(keys) + Len(order)
         /\ \A n \in 1 .. Len(keys) : lines[n] = FieldLine(m, keys[n])
         /\ \A n \in 1 .. Len(order) : lines[Len(keys) + n] = MetaLine(m, order[n])
         /\ \A n \in 1 .. Len(lines) : OneLine(lines[n])
<1>1. PICK F \in Nat, M \in Nat : /\ F = Len(keys) /\ DOMAIN keys = 1 .. F
                                  /\ M = Len(order) /\ DOMAIN order = 1 .. M
  BY TablesAre, LenProperties
<1>2. PICK x : x = [n \in 1 .. F |-> FieldLine(m, keys[n])]
  BY Zenon
<1>3. PICK y : y = [n \in 1 .. M |-> MetaLine(m, order[n])]
  BY Zenon
<1>4. \A n \in 1 .. F : x[n] = FieldLine(m, keys[n]) /\ x[n] \in Seq(Tokens) /\ OneLine(x[n])
  <2>1. \A n \in 1 .. F : keys[n] \in Range(keys)
    BY <1>1, Zenon DEF Range
  <2> QED BY <1>2, <2>1, FieldLineIs, Zenon
<1>5. \A n \in 1 .. M : y[n] = MetaLine(m, order[n]) /\ y[n] \in Seq(Tokens) /\ OneLine(y[n])
  <2>1. \A n \in 1 .. M : order[n] \in DOMAIN m.metadata
    BY <1>1, Zenon DEF Range
  <2> QED BY <1>3, <2>1, MetaLineIs, Zenon
<1>6. x \in Seq(Seq(Tokens)) /\ Len(x) = F
  BY <1>2, <1>4
<1>7. y \in Seq(Seq(Tokens)) /\ Len(y) = M
  BY <1>3, <1>5
<1>8. lines = x \o y
  BY <1>1, <1>2, <1>3, Zenon DEF MessageLines
<1>9. /\ lines \in Seq(Seq(Tokens)) /\ Len(lines) = F + M
      /\ \A n \in 1 .. F + M : lines[n] = IF n <= F THEN x[n] ELSE y[n - F]
  <2>1. /\ x \o y \in Seq(Seq(Tokens)) /\ Len(x \o y) = Len(x) + Len(y)
        /\ \A n \in 1 .. Len(x) + Len(y) :
             (x \o y)[n] = IF n <= Len(x) THEN x[n] ELSE y[n - Len(x)]
    BY <1>6, <1>7, ConcatProperties, Zenon
  <2> QED BY <1>6, <1>7, <1>8, <2>1, Zenon
<1>10. \A n \in 1 .. F : n \in 1 .. F + M /\ n <= F
  OBVIOUS
<1>11. \A n \in 1 .. M : F + n \in 1 .. F + M /\ ~(F + n <= F) /\ (F + n) - F = n
  OBVIOUS
<1>12. \A n \in 1 .. F + M : IF n <= F THEN n \in 1 .. F ELSE n - F \in 1 .. M
  OBVIOUS
<1>13. \A n \in 1 .. F : lines[n] = FieldLine(m, keys[n])
  BY <1>4, <1>9, <1>10, Zenon
<1>14. \A n \in 1 .. M : lines[F + n] = MetaLine(m, order[n])
  BY <1>5, <1>9, <1>11, Zenon
<1>15. \A n \in 1 .. F + M : OneLine(lines[n])
  BY <1>4, <1>5, <1>9, <1>12, Zenon
<1> QED BY <1>1, <1>9, <1>13, <1>14, <1>15, Zenon

(* What a reader has of m once the fields A and the metadata B were read. *)
Partly(keys, m, A, B) ==
  [fields |-> [k \in Range(keys) |-> IF k \in A THEN m.fields[k] ELSE <<>>],
   metadata |-> [k \in B |-> m.metadata[k]]]

(* The line of a field adds that field. *)
LEMMA FieldAdds ==
  ASSUME NEW keys \in KeyTables, NEW other \in KeyTables, NEW m \in Decodings(other),
         NEW A, NEW B, NEW k \in Range(other)
  PROVE  ReadLine(keys, Partly(keys, m, A, B), FieldLine(m, k)) = Partly(keys, m, A \cup {k}, B)
<1>1. k \in FieldNames
  BY TablesAre
<1>2. m.fields[k] \in Seq(Tokens)
  BY Zenon DEF Decodings
<1>3. PICK v \in Seq(Tokens) : v = m.fields[k]
  BY <1>2, Zenon
<1>4. PICK p, x, y : /\ p = Partly(keys, m, A, B) /\ p = [fields |-> x, metadata |-> y]
                     /\ x = [j \in Range(keys) |-> IF j \in A THEN m.fields[j] ELSE <<>>]
                     /\ y = [j \in B |-> m.metadata[j]]
  BY Zenon DEF Partly
<1>5. FieldLine(m, k) = <<k, "=">> \o v
  BY <1>3, Zenon DEF FieldLine
<1>6. ReadLine(keys, p, FieldLine(m, k)) =
        IF k \in Range(keys) THEN [p EXCEPT !.fields[k] = v] ELSE p
  <2>1. ReadLine(keys, p, <<k, "=">> \o v) = WithField(keys, p, k, v)
    BY <1>1, FieldRead
  <2> QED BY <1>5, <2>1, Zenon DEF WithField
<1>7. PICK w : w = [j \in Range(keys) |-> IF j \in A \cup {k} THEN m.fields[j] ELSE <<>>]
  BY Zenon
<1>8. CASE k \in Range(keys)
  <2>1. [p EXCEPT !.fields[k] = v] = [fields |-> [x EXCEPT ![k] = v], metadata |-> y]
    BY <1>4, SMTT(30)
  <2>2. [x EXCEPT ![k] = v] = w
    BY <1>3, <1>4, <1>7
  <2> QED BY <1>4, <1>6, <1>7, <1>8, <2>1, <2>2, Zenon DEF Partly
<1>9. CASE k \notin Range(keys)
  <2>1. x = w
    BY <1>4, <1>7, <1>9
  <2> QED BY <1>4, <1>6, <1>7, <1>9, <2>1, Zenon DEF Partly
<1> QED BY <1>8, <1>9, Zenon

(* The line of an entry of the metadata adds that entry. *)
LEMMA EntryAdds ==
  ASSUME NEW keys \in KeyTables, NEW other \in KeyTables, NEW m \in Decodings(other), Clean(m),
         NEW A, NEW B, NEW k \in DOMAIN m.metadata
  PROVE  ReadLine(keys, Partly(keys, m, A, B), MetaLine(m, k)) = Partly(keys, m, A, B \cup {k})
<1>1. k \in Seq(Tokens) /\ m.metadata[k] \in Seq(Tokens) /\ \A i \in 1 .. Len(k) : k[i] # "="
  BY MetaLineIs, Zenon
<1>2. PICK p, x, y : /\ p = Partly(keys, m, A, B) /\ p = [fields |-> x, metadata |-> y]
                     /\ x = [j \in Range(keys) |-> IF j \in A THEN m.fields[j] ELSE <<>>]
                     /\ y = [j \in B |-> m.metadata[j]]
  BY Zenon DEF Partly
<1>3. PICK v \in Seq(Tokens) : v = m.metadata[k]
  BY <1>1, Zenon
<1>4. MetaLine(m, k) = <<"meta:">> \o k \o <<"=">> \o v
  BY <1>3, Zenon DEF MetaLine
<1>5. ReadLine(keys, p, MetaLine(m, k)) = [p EXCEPT !.metadata = WithEntry(@, k, v)]
  <2>1. ReadLine(keys, p, <<"meta:">> \o k \o <<"=">> \o v) =
          [p EXCEPT !.metadata = WithEntry(@, k, v)]
    BY <1>1, EntryRead, SMTT(30)
  <2> QED BY <1>4, <2>1, Zenon
<1>6. p.metadata = y
  BY <1>2, SMTT(30)
<1>7. PICK w : w = WithEntry(y, k, v)
  OBVIOUS
<1>8. [p EXCEPT !.metadata = w] = [fields |-> x, metadata |-> w]
  BY <1>2
<1>9. w = [j \in B \cup {k} |-> m.metadata[j]]
  BY <1>2, <1>3, <1>7 DEF WithEntry
<1>10. ReadLine(keys, p, MetaLine(m, k)) = [p EXCEPT !.metadata = w]
  BY <1>5, <1>6, <1>7, Zenon
<1> QED BY <1>2, <1>8, <1>9, <1>10, Zenon DEF Partly

(* A clean message that is read yields the fields its reader knows, and    *)
(* its metadata, whichever order that was written in.                      *)
LEMMA MessageReads ==
  ASSUME NEW keys \in KeyTables, NEW other \in KeyTables, NEW m \in Decodings(other), Clean(m),
         NEW order \in Seq(Seq(Tokens)), Range(order) = DOMAIN m.metadata
  PROVE  Read(keys, Written(MessageLines(other, m, order))) =
           Partly(keys, m, Range(other), DOMAIN m.metadata)
<1>1. PICK lines : lines = MessageLines(other, m, order)
  OBVIOUS
<1>2. PICK F \in Nat, M \in Nat : /\ F = Len(other) /\ DOMAIN other = 1 .. F
                                  /\ M = Len(order) /\ DOMAIN order = 1 .. M
  BY TablesAre, LenProperties
<1>3. /\ lines \in Seq(Seq(Tokens)) /\ Len(lines) = F + M
      /\ \A n \in 1 .. F : lines[n] = FieldLine(m, other[n])
      /\ \A n \in 1 .. M : lines[F + n] = MetaLine(m, order[n])
      /\ \A n \in 1 .. Len(lines) : OneLine(lines[n])
  <2>1. /\ lines \in Seq(Seq(Tokens)) /\ Len(lines) = Len(other) + Len(order)
        /\ \A n \in 1 .. Len(other) : lines[n] = FieldLine(m, other[n])
        /\ \A n \in 1 .. Len(order) : lines[Len(other) + n] = MetaLine(m, order[n])
        /\ \A n \in 1 .. Len(lines) : OneLine(lines[n])
    BY <1>1, LinesAre, SMTT(30)
  <2> QED BY <1>2, <2>1, Zenon
<1> DEFINE A(n) == {other[i] : i \in {i \in 1 .. F : i <= n}}
<1> DEFINE B(n) == {order[i] : i \in {i \in 1 .. M : F + i <= n}}
<1> DEFINE g == [n \in 0 .. F + M |-> Partly(keys, m, A(n), B(n))]
<1>4. g[0] = Blank(keys)
  <2>1. A(0) = {} /\ B(0) = {} /\ 0 \in 0 .. F + M
    OBVIOUS
  <2>2. [k \in Range(keys) |-> IF k \in {} THEN m.fields[k] ELSE <<>>] =
          [k \in Range(keys) |-> <<>>]
    BY Zenon
  <2>3. [k \in {} |-> m.metadata[k]] = [k \in {} |-> <<>>]
    OBVIOUS
  <2>4. Partly(keys, m, {}, {}) = Blank(keys)
    BY <2>2, <2>3, Zenon DEF Partly, Blank
  <2>5. g[0] = Partly(keys, m, A(0), B(0))
    BY <2>1, Zenon
  <2> HIDE DEF A, B
  <2> QED BY <2>1, <2>4, <2>5, Zenon
<1>5. ASSUME NEW n \in 1 .. F + M PROVE g[n] = ReadLine(keys, g[n - 1], lines[n])
  <2>1. n \in 0 .. F + M /\ n - 1 \in 0 .. F + M
    OBVIOUS
  <2>2. g[n] = Partly(keys, m, A(n), B(n)) /\ g[n - 1] = Partly(keys, m, A(n - 1), B(n - 1))
    BY <2>1, Zenon
  <2>3. CASE n <= F
    <3>1. n \in 1 .. F
      BY <2>3
    <3>2. A(n) = A(n - 1) \cup {other[n]}
      BY <3>1
    <3>3. B(n) = B(n - 1)
      BY <2>3
    <3>4. lines[n] = FieldLine(m, other[n]) /\ other[n] \in Range(other)
      BY <1>2, <1>3, <3>1, Zenon DEF Range
    <3> HIDE DEF A, B, g
    <3>5. ReadLine(keys, Partly(keys, m, A(n - 1), B(n - 1)), FieldLine(m, other[n])) =
            Partly(keys, m, A(n - 1) \cup {other[n]}, B(n - 1))
      BY <3>4, FieldAdds, SMTT(30)
    <3> QED BY <2>2, <3>2, <3>3, <3>4, <3>5, Zenon
  <2>4. CASE ~(n <= F)
    <3>1. PICK i \in 1 .. M : n = F + i
      <4>1. n - F \in 1 .. M /\ n = F + (n - F)
        BY <2>4
      <4> QED BY <4>1, Zenon
    <3>2. A(n) = A(n - 1)
      BY <2>4
    <3>3. B(n) = B(n - 1) \cup {order[i]}
      BY <3>1, SMTT(30)
    <3>4. lines[n] = MetaLine(m, order[i]) /\ order[i] \in DOMAIN m.metadata
      BY <1>2, <1>3, <3>1, Zenon DEF Range
    <3> HIDE DEF A, B, g
    <3>5. ReadLine(keys, Partly(keys, m, A(n - 1), B(n - 1)), MetaLine(m, order[i])) =
            Partly(keys, m, A(n - 1), B(n - 1) \cup {order[i]})
      BY <3>4, EntryAdds
    <3> QED BY <2>2, <3>2, <3>3, <3>4, <3>5, Zenon
  <2> QED BY <2>3, <2>4, Zenon
<1>6. g[F + M] = Partly(keys, m, Range(other), DOMAIN m.metadata)
  <2>1. A(F + M) = {other[i] : i \in 1 .. F} /\ B(F + M) = {order[i] : i \in 1 .. M}
    OBVIOUS
  <2>2. A(F + M) = Range(other) /\ B(F + M) = Range(order)
    <3> HIDE DEF A, B
    <3> QED BY <1>2, <2>1, Zenon DEF Range
  <2>3. F + M \in 0 .. F + M
    OBVIOUS
  <2>4. g[F + M] = Partly(keys, m, A(F + M), B(F + M))
    BY <2>3, Zenon
  <2> HIDE DEF A, B, g
  <2> QED BY <2>2, <2>4, Zenon
<1>7. \A n \in 1 .. Len(lines) : \A i \in 1 .. Len(lines[n]) : lines[n][i] # "newline"
  BY <1>3, Zenon DEF OneLine
<1>8. Read(keys, Written(lines)) = g[Len(lines)]
  <2> HIDE DEF g
  <2>1. \A n \in 1 .. Len(lines) : g[n] = ReadLine(keys, g[n - 1], lines[n])
    BY <1>3, <1>5, Zenon
  <2> QED BY <1>3, <1>4, <1>7, <2>1, ReadsLines, Zenon
<1> HIDE DEF g
<1> QED BY <1>1, <1>3, <1>6, <1>8, Zenon

(***************************************************************************)
(* The inductive invariant of the codec: the text is a writing of the      *)
(* message, and what a reader got is a reading of the text.                *)
(***************************************************************************)
CodecInv ==
  /\ \/ topic = "task" /\ original \in TaskMessages
     \/ topic = "result" /\ original \in ResultMessages
  /\ \/ text = <<>>
     \/ \E order \in KeyLists :
          /\ Range(order) = DOMAIN original.metadata
          /\ text = IF topic = "task" THEN SerializeTask(original, order)
                                      ELSE SerializeResult(original, order)
  /\ read \in {"nothing", "task", "result"}
  /\ read # "nothing" =>
       /\ text # <<>>
       /\ decoded = IF read = "task" THEN DeserializeTask(text) ELSE DeserializeResult(text)

(* The messages that are sent are of the types that readers build. *)
LEMMA OriginalsTyped ==
  /\ KeyLists \subseteq Seq(Seq(Tokens))
  /\ TaskMessages \subseteq Decodings(TaskKeys)
  /\ ResultMessages \subseteq Decodings(ResultKeys)
<1>1. Values \subseteq Seq(Tokens) /\ MetaKeys \subseteq Seq(Tokens)
  BY CodecAssumption
<1>2. \A s \in KeyLists : \E n \in Nat : s \in [1 .. n -> MetaKeys]
  BY CodecAssumption DEF KeyLists
<1>3. KeyLists \subseteq Seq(Seq(Tokens))
  <2> SUFFICES ASSUME NEW s \in KeyLists PROVE s \in Seq(Seq(Tokens))
    OBVIOUS
  <2>1. PICK n \in Nat : s \in [1 .. n -> MetaKeys]
    BY <1>2, Zenon
  <2> QED BY <1>1, <2>1
<1>4. Metadata \subseteq MetaMaps
  <2> SUFFICES ASSUME NEW d \in Metadata PROVE d \in MetaMaps
    OBVIOUS
  <2>1. PICK s \in KeyLists : d \in [Range(s) -> Values]
    BY Zenon DEF Metadata
  <2>2. PICK n \in Nat : s \in [1 .. n -> MetaKeys]
    BY <1>2, Zenon
  <2>3. Range(s) \in SUBSET Seq(Tokens)
    BY <1>1, <2>2 DEF Range
  <2>4. d \in [Range(s) -> Seq(Tokens)]
    BY <1>1, <2>1
  <2> QED BY <2>3, <2>4, Zenon DEF MetaMaps
<1>5. [Range(TaskKeys) -> Values] \subseteq [Range(TaskKeys) -> Seq(Tokens)]
  BY <1>1
<1>6. TaskMessages \subseteq Decodings(TaskKeys)
  BY <1>4, <1>5 DEF TaskMessages, Decodings
<1>7. <<"1">> \in Seq(Tokens) /\ <<"0">> \in Seq(Tokens)
  BY NamesAre
<1>8. [Range(ResultKeys) -> Values \cup {<<"1">>, <<"0">>}] \subseteq
        [Range(ResultKeys) -> Seq(Tokens)]
  BY <1>1, <1>7, Zenon
<1>9. ResultMessages \subseteq Decodings(ResultKeys)
  BY <1>4, <1>8 DEF ResultMessages, Decodings
<1> QED BY <1>3, <1>6, <1>9

(* A result whose success is anything but "1" is no success. *)
Judged(m) == [m EXCEPT !.fields["success"] = IF @ = <<"1">> THEN @ ELSE <<"0">>]

(* What a reader of a clean message gets, of its own type or of the other. *)
LEMMA ReaderGets ==
  ASSUME CodecInv, Clean(original), read # "nothing"
  PROVE  \E keys, other \in KeyTables :
           /\ original \in Decodings(other)
           /\ topic = "task" => other = TaskKeys
           /\ topic = "result" => other = ResultKeys /\ original \in ResultMessages
           /\ topic \in {"task", "result"} /\ read \in {"task", "result"}
           /\ LET m == Partly(keys, original, Range(other), DOMAIN original.metadata)
              IN  \/ read = "task" /\ keys = TaskKeys /\ decoded = m
                  \/ read = "result" /\ keys = ResultKeys /\ decoded = Judged(m)
<1>1. /\ read \in {"task", "result"} /\ topic \in {"task", "result"} /\ text # <<>>
      /\ decoded = IF read = "task" THEN DeserializeTask(text) ELSE DeserializeResult(text)
  BY Zenon DEF CodecInv
<1>2. PICK order \in KeyLists :
         /\ Range(order) = DOMAIN original.metadata
         /\ text = IF topic = "task" THEN SerializeTask(original, order)
                                     ELSE SerializeResult(original, order)
  BY <1>1, Zenon DEF CodecInv
<1>3. order \in Seq(Seq(Tokens))
  BY OriginalsTyped
<1>4. "task" # "result"
  OBVIOUS
<1>5. PICK other \in KeyTables :
         /\ original \in Decodings(other)
         /\ topic = "task" => other = TaskKeys
         /\ topic = "result" => other = ResultKeys /\ original \in ResultMessages
         /\ text = Written(MessageLines(other, original, order))
  <2>1. CASE topic = "task"
    <3>1. original \in TaskMessages
      BY <1>4, <2>1, Zenon DEF CodecInv
    <3>2. original \in Decodings(TaskKeys)
      BY <3>1, OriginalsTyped, Zenon
    <3>3. text = Written(MessageLines(TaskKeys, original, order))
      BY <1>2, <2>1, Zenon DEF SerializeTask
    <3> QED BY <1>4, <2>1, <3>2, <3>3, Zenon DEF KeyTables
  <2>2. CASE topic = "result"
    <3>1. original \in ResultMessages
      BY <1>4, <2>2, Zenon DEF CodecInv
    <3>2. original \in Decodings(ResultKeys)
      BY <3>1, OriginalsTyped, Zenon
    <3>3. text = Written(MessageLines(ResultKeys, original, order))
      BY <1>2, <1>4, <2>2, Zenon DEF SerializeResult
    <3> QED BY <1>4, <2>2, <3>1, <3>2, <3>3, Zenon DEF KeyTables
  <2> QED BY <1>1, <2>1, <2>2, Zenon
<1>6. ASSUME NEW keys \in KeyTables
      PROVE  Read(keys, text) =
               Partly(keys, original, Range(other), DOMAIN original.metadata)
  BY <1>2, <1>3, <1>5, MessageReads
<1>7. CASE read = "task"
  <2>1. TaskKeys \in KeyTables
    BY Zenon DEF KeyTables
  <2>2. decoded = Read(TaskKeys, text)
    BY <1>1, <1>7, Zenon DEF DeserializeTask
  <2> QED BY <1>1, <1>5, <1>6, <1>7, <2>1, <2>2, Zenon
<1>8. CASE read = "result"
  <2>1. ResultKeys \in KeyTables
    BY Zenon DEF KeyTables
  <2>2. decoded = DeserializeResult(text)
    BY <1>1, <1>4, <1>8, Zenon
  <2>3. decoded = Judged(Read(ResultKeys, text))
    BY <2>2, Zenon DEF DeserializeResult, Judged
  <2> QED BY <1>1, <1>5, <1>6, <1>8, <2>1, <2>3, Zenon
<1> QED BY <1>1, <1>7, <1>8, Zenon

(* CodecInv yields the property. *)
LEMMA CodecInvReadsBack ==
  ASSUME CodecInv
  PROVE  ReadBack
<1> SUFFICES ASSUME Clean(original), read # "nothing"
             PROVE  /\ decoded.metadata = original.metadata
                    /\ \A k \in DOMAIN decoded.fields :
                         decoded.fields[k] =
                           IF k \in DOMAIN original.fields THEN original.fields[k]
                           ELSE IF k = "success" THEN <<"0">> ELSE <<>>
                    /\ read = topic => decoded = original
  BY Zenon DEF ReadBack
<1>1. PICK keys \in KeyTables, other \in KeyTables :
         /\ original \in Decodings(other)
         /\ topic = "task" => other = TaskKeys
         /\ topic = "result" => other = ResultKeys /\ original \in ResultMessages
         /\ topic \in {"task", "result"} /\ read \in {"task", "result"}
         /\ LET m == Partly(keys, original, Range(other), DOMAIN original.metadata)
            IN  \/ read = "task" /\ keys = TaskKeys /\ decoded = m
                \/ read = "result" /\ keys = ResultKeys /\ decoded = Judged(m)
  BY ReaderGets, Zenon
<1>2. PICK F, D : /\ original = [fields |-> F, metadata |-> D]
                  /\ F \in [Range(other) -> Seq(Tokens)] /\ D = [k \in DOMAIN D |-> D[k]]
                  /\ original.fields = F /\ original.metadata = D
  <2>1. /\ original.fields \in [Range(other) -> Seq(Tokens)] /\ original.metadata \in MetaMaps
        /\ original = [fields |-> original.fields, metadata |-> original.metadata]
    BY <1>1 DEF Decodings
  <2>2. PICK K \in SUBSET Seq(Tokens) : original.metadata \in [K -> Seq(Tokens)]
    BY <2>1, Zenon DEF MetaMaps
  <2>3. original.metadata = [k \in DOMAIN original.metadata |-> original.metadata[k]]
    BY <2>2
  <2> QED BY <2>1, <2>3, Zenon
<1>3. PICK G : /\ G = [k \in Range(keys) |-> IF k \in Range(other) THEN F[k] ELSE <<>>]
               /\ Partly(keys, original, Range(other), DOMAIN original.metadata) =
                    [fields |-> G, metadata |-> D]
  <2>1. [k \in DOMAIN original.metadata |-> original.metadata[k]] = D
    BY <1>2, Zenon
  <2> QED BY <1>2, <2>1, Zenon DEF Partly
<1>4. DOMAIN F = Range(other) /\ DOMAIN G = Range(keys)
  BY <1>2, <1>3
<1>5. /\ "success" \in Range(ResultKeys) /\ "success" \notin Range(TaskKeys)
      /\ "task" # "result"
  BY NamesAre
<1>6. CASE read = "task"
  <2>1. keys = TaskKeys /\ decoded = [fields |-> G, metadata |-> D]
    BY <1>1, <1>3, <1>5, <1>6, Zenon
  <2>2. decoded.metadata = D /\ decoded.fields = G
    BY <2>1
  <2>3. ASSUME NEW k \in DOMAIN G
        PROVE  G[k] = IF k \in DOMAIN F THEN F[k] ELSE IF k = "success" THEN <<"0">> ELSE <<>>
    <3>1. k \in Range(keys) /\ k # "success"
      BY <1>4, <1>5, <2>1, <2>3, Zenon
    <3> QED BY <1>3, <1>4, <3>1, Zenon
  <2>4. read = topic => G = F
    <3> SUFFICES ASSUME topic = "task" PROVE G = F
      BY <1>6
    <3>1. other = keys
      BY <1>1, <2>1, Zenon
    <3> QED BY <1>2, <1>3, <3>1, Zenon
  <2> QED BY <1>2, <2>1, <2>2, <2>3, <2>4, Zenon
<1>7. CASE read = "result"
  <2>1. keys = ResultKeys /\ decoded = Judged([fields |-> G, metadata |-> D])
    BY <1>1, <1>3, <1>5, <1>7, Zenon
  <2>2. PICK H : /\ H = [G EXCEPT !["success"] = IF @ = <<"1">> THEN @ ELSE <<"0">>]
                 /\ decoded = [fields |-> H, metadata |-> D]
    BY <2>1, Zenon DEF Judged
  <2>3. decoded.metadata = D /\ decoded.fields = H /\ DOMAIN H = Range(ResultKeys)
    <3>1. decoded.metadata = D /\ decoded.fields = H
      BY <2>2
    <3>2. DOMAIN H = DOMAIN G
      BY <2>2, Zenon
    <3> QED BY <1>4, <2>1, <3>1, <3>2, Zenon
  <2>4. CASE topic = "result"
    <3>1. other = ResultKeys /\ original \in ResultMessages
      BY <1>1, <2>4, Zenon
    <3>2. F["success"] \in {<<"1">>, <<"0">>}
      <4>1. \A k \in DOMAIN F : F[k] \in IF k = "success" THEN {<<"1">>, <<"0">>} ELSE Values
        BY <1>2, <3>1, Zenon DEF ResultMessages
      <4> QED BY <1>4, <1>5, <3>1, <4>1, Zenon
    <3>3. G = F
      BY <1>2, <1>3, <2>1, <3>1
    <3>4. H = F
      <4>1. F["success"] = IF F["success"] = <<"1">> THEN F["success"] ELSE <<"0">>
        BY <3>2, Zenon
      <4>2. H = [F EXCEPT !["success"] = F["success"]]
        BY <2>2, <3>3, <4>1, Zenon
      <4> QED BY <1>2, <4>2
    <3> QED BY <1>2, <2>2, <2>3, <3>4, Zenon
  <2>5. CASE topic = "task"
    <3>1. other = TaskKeys /\ "success" \notin DOMAIN F
      BY <1>1, <1>4, <1>5, <2>5, Zenon
    <3>2. G["success"] = <<>> /\ <<>> # <<"1">>
      BY <1>3, <1>5, <2>1, <3>1, Zenon
    <3>3. H["success"] = <<"0">>
      BY <1>3, <1>5, <2>1, <2>2, <3>2, SMTT(30)
    <3>4. \A k \in Range(ResultKeys) : k # "success" => H[k] = G[k]
      BY <1>3, <2>1, <2>2
    <3>5. \A k \in DOMAIN H :
             H[k] = IF k \in DOMAIN F THEN F[k] ELSE IF k = "success" THEN <<"0">> ELSE <<>>
      BY <1>3, <1>4, <2>1, <2>3, <3>1, <3>3, <3>4, Zenon
    <3>6. read # topic
      BY <1>5, <1>7, <2>5, Zenon
    <3> QED BY <1>2, <2>3, <3>5, <3>6, Zenon
  <2> QED BY <1>1, <2>4, <2>5, Zenon
<1> QED BY <1>1, <1>6, <1>7, Zenon

(* ReadBack: a message without newlines, and without '=' in a key of its   *)
(* metadata, is read as it was written, and read as the other type it      *)
(* yields what the two have in common.  For all values, keys and sizes of  *)
(* the metadata, whichever order that is written in.                       *)
THEOREM MessagesReadBack == CodecSpec => []ReadBack
<1>1. CodecInit => CodecInv
  BY Zenon DEF CodecInit, CodecInv
<1>2. CodecInv /\ [CodecNext]_codecVars => CodecInv'
  <2> SUFFICES ASSUME CodecInv, [CodecNext]_codecVars PROVE CodecInv'
    OBVIOUS
  <2>1. CASE Write
    BY <2>1, Zenon DEF CodecInv, Write
  <2>2. ASSUME NEW t \in {"task", "result"}, ReadAs(t) PROVE CodecInv'
    <3>1. t # "nothing"
      OBVIOUS
    <3> QED BY <2>2, <3>1, Zenon DEF CodecInv, ReadAs
  <2>3. CASE UNCHANGED codecVars
    BY <2>3, Zenon DEF CodecInv, codecVars
  <2> QED BY <2>1, <2>2, <2>3, Zenon DEF CodecNext
<1>3. CodecInv => ReadBack
  BY CodecInvReadsBack, Zenon
<1> QED BY <1>1, <1>2, <1>3, PTL DEF CodecSpec
=============================================================================
