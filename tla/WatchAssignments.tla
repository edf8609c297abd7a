-------------------------- MODULE WatchAssignments --------------------------
(***************************************************************************)
(* The gRPC streams that tell a worker its assignments: WatchAssignments   *)
(* and runningAssignments of scheduler/internal/grpcapi/server.go, beside  *)
(* the scheduler's task table (TaskLifecycle, which Scheduler implements). *)
(*                                                                         *)
(* Every look at the table is a read lock of its own; tasks are placed and *)
(* reported between two looks, and between a look and the sends it leads   *)
(* to.  The order within one look (StartedAt, then ID) is left open.       *)
(***************************************************************************)
EXTENDS Naturals, Sequences, FiniteSets

CONSTANTS
  Worker,        \* the worker that watches
  Other,         \* another worker
  NoWorker,      \* Task.AssignedWorker of a task not placed yet
  Streams,       \* streams that may be open at the same time
  MaxTasks       \* bound on the tasks submitted

ASSUME WatchAssumption ==
  /\ Worker # Other /\ NoWorker \notin {Worker, Other}
  /\ MaxTasks \in Nat

Tasks == 1 .. MaxTasks

VARIABLES
  known, board,  \* the scheduler
  open,          \* streams that are open
  resumed,       \* streams opened with resume_unacked
  sent,          \* stream -> the IDs in its sent map
  todo,          \* stream -> tasks of the current look still to go through
  count          \* stream -> task -> how often it was sent

vars == <<known, board, open, resumed, sent, todo, count>>
streamVars == <<open, resumed, sent, todo, count>>

Scheduler == INSTANCE TaskLifecycle WITH Workers <- {Worker, Other}

Init ==
  /\ Scheduler!Init
  /\ open = {}
  /\ resumed = {}
  /\ sent = [s \in Streams |-> {}]
  /\ todo = [s \in Streams |-> {}]
  /\ count = [s \in Streams |-> [t \in Tasks |-> 0]]

(* Mutated form: whose task it is makes no difference. *)
runningAssignmentsOfAll == {t \in DOMAIN board : board[t].status = "running"}

runningAssignments ==
  {t \in DOMAIN board : board[t].status = "running" /\ board[t].worker = Worker}

(* The scheduler: registrations, submissions, placements and reports. *)
Table ==
  /\ \/ \E w \in {Worker, Other} : Scheduler!Join(w)
     \/ Len(board) < MaxTasks /\ Scheduler!Submit
     \/ \E t \in DOMAIN board, w \in {Worker, Other} : Scheduler!Assign(t, w)
     \/ \E t \in DOMAIN board, o \in Scheduler!Terminal : Scheduler!Finish(t, o)
  /\ UNCHANGED streamVars

(* The request is accepted; without resume_unacked what runs already       *)
(* counts as sent.  The two reads are one step: a worker is never removed, *)
(* so the first one holds at the second.                                   *)
Open(s, resume) ==
  /\ s \notin open
  /\ Worker \in known
  /\ open' = open \cup {s}
  /\ resumed' = IF resume THEN resumed \cup {s} ELSE resumed \ {s}
  /\ sent' = [sent EXCEPT ![s] = IF resume THEN {} ELSE runningAssignments]
  /\ todo' = [todo EXCEPT ![s] = {}]
  /\ count' = [count EXCEPT ![s] = [t \in Tasks |-> 0]]
  /\ UNCHANGED <<known, board>>

(* Mutated form: only what was placed since the last look is looked at. *)
LookOnce(s) ==
  /\ s \in open
  /\ todo[s] = {}
  /\ sent[s] = {}
  /\ todo' = [todo EXCEPT ![s] = runningAssignments]
  /\ UNCHANGED <<known, board, open, resumed, sent, count>>

(* The first look, or the one after a tick. *)
Look(s) ==
  /\ s \in open
  /\ todo[s] = {}
  /\ todo' = [todo EXCEPT ![s] = runningAssignments]
  /\ UNCHANGED <<known, board, open, resumed, sent, count>>

(* One assignment of the look: skipped when the map has it, else sent. *)
Send(s, t) ==
  /\ s \in open
  /\ t \in todo[s]
  /\ todo' = [todo EXCEPT ![s] = @ \ {t}]
  /\ count' = [count EXCEPT ![s][t] = IF t \in sent[s] THEN @ ELSE @ + 1]
  /\ sent' = [sent EXCEPT ![s] = @ \cup {t}]
  /\ UNCHANGED <<known, board, open, resumed>>

(* Send fails or the context is done: the stream and its map are gone. *)
Close(s) ==
  /\ s \in open
  /\ open' = open \ {s}
  /\ UNCHANGED <<known, board, resumed, sent, todo, count>>

Next ==
  \/ Table
  \/ \E s \in Streams :
       \/ \E resume \in BOOLEAN : Open(s, resume)
       \/ Look(s) \/ Close(s)
       \/ \E t \in Tasks : Send(s, t)

Spec == Init /\ [][Next]_vars

(* An open stream's goroutine keeps polling and sending. *)
Fairness ==
  \A s \in Streams : WF_vars(Look(s)) /\ WF_vars(\E t \in Tasks : Send(s, t))

LiveSpec == Spec /\ Fairness

-----------------------------------------------------------------------------
(***************************************************************************)
(* Properties                                                              *)
(***************************************************************************)

(* A stream only brings tasks that were placed on its worker, although the *)
(* task may be reported, and the table change, while it waits to be sent;  *)
(* and it brings each at most once, however often it looks.                *)
OnlyOwnTasks ==
  \A s \in Streams, t \in Tasks :
    /\ count[s][t] <= 1
    /\ count[s][t] > 0 => t \in DOMAIN board /\ board[t].worker = Worker

(* A worker that resumes misses nothing: each task running on it is sent   *)
(* on the stream, unless it is reported or the stream ends before.         *)
ResumedStreamMissesNothing ==
  \A s \in Streams, t \in Tasks :
    (s \in open \cap resumed /\ t \in runningAssignments) ~>
      (count[s][t] = 1 \/ s \notin open \/ t \notin runningAssignments)
=============================================================================
