---------------------------- MODULE TaskLifecycle ----------------------------
(***************************************************************************)
(* What the scheduler promises about tasks, whatever the handlers, clocks  *)
(* and load counters do: a task is placed at most once, only while it is   *)
(* pending and only on a worker that has registered; the placement is      *)
(* never moved or withdrawn; a report may end a task at any time, and a    *)
(* later report may replace an earlier one.                                *)
(*                                                                         *)
(* Scheduler.tla implements this specification.  It has no bounds: the     *)
(* bounds are those of the module that implements it.                      *)
(***************************************************************************)
EXTENDS Naturals, Sequences

CONSTANTS
  Workers,       \* the worker IDs
  NoWorker       \* Task.AssignedWorker before the task is placed

VARIABLES
  known,         \* workers that have registered
  board          \* board[i] is the task numbered i, in submission order

vars == <<known, board>>

Terminal == {"completed", "failed"}

Init ==
  /\ known = {}
  /\ board = <<>>

Join(w) ==
  /\ known' = known \cup {w}
  /\ UNCHANGED board

Submit ==
  /\ board' = Append(board, [status |-> "pending", worker |-> NoWorker])
  /\ UNCHANGED known

Assign(t, w) ==
  /\ board[t].status = "pending"
  /\ w \in known
  /\ board' = [board EXCEPT ![t] = [status |-> "running", worker |-> w]]
  /\ UNCHANGED known

Finish(t, outcome) ==
  /\ board' = [board EXCEPT ![t].status = outcome]
  /\ UNCHANGED known

Next ==
  \/ \E w \in Workers : Join(w)
  \/ Submit
  \/ \E t \in DOMAIN board, w \in Workers : Assign(t, w)
  \/ \E t \in DOMAIN board, outcome \in Terminal : Finish(t, outcome)

Spec == Init /\ [][Next]_vars
=============================================================================
