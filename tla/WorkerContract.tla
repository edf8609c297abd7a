--------------------------- MODULE WorkerContract ---------------------------
(***************************************************************************)
(* What a worker process promises about the tasks it is sent: it takes a   *)
(* task only when it does not have it, executes it once for each time it   *)
(* was taken, reports it once, after the execution, and only then is ready *)
(* to take it again.  It never gives back a task it has taken; tasks are   *)
(* only lost with the process.                                             *)
(*                                                                         *)
(* WorkerNode.tla implements this specification, Delivery.tla uses it.     *)
(***************************************************************************)
CONSTANT Tasks

VARIABLE stage    \* task -> how far the worker has come with it

vars == <<stage>>

Stages == {"absent", "held", "executed", "reported"}

Init == stage = [t \in Tasks |-> "absent"]

Moves(t, from, to) ==
  /\ stage[t] = from
  /\ stage' = [stage EXCEPT ![t] = to]

Take(t) == Moves(t, "absent", "held")

Execute(t) == Moves(t, "held", "executed")

Report(t) == Moves(t, "executed", "reported")

Release(t) == Moves(t, "reported", "absent")

Next == \E t \in Tasks : Take(t) \/ Execute(t) \/ Report(t) \/ Release(t)

Spec == Init /\ [][Next]_vars
=============================================================================
