---------------------------- MODULE WorkerRuntime ---------------------------
(***************************************************************************)
(* The older worker::runtime::WorkerRuntime and TaskExecutor, which send a *)
(* tensor straight through the broker.  A task without a target_node goes  *)
(* to the node itself: the queue pair decides where a message goes.        *)
(***************************************************************************)
EXTENDS Broker

CONSTANTS
  Runtimes,         \* nodes that run a WorkerRuntime
  TensorTargets     \* target_node of their tasks, None for an empty one

ASSUME RuntimeAssumption ==
  Runtimes \subseteq Nodes /\ TensorTargets \subseteq Runtimes \cup {None}

(* WorkerRuntime::EnsurePeer: a pair after three transitions whose         *)
(* verdicts are not looked at.                                             *)
FreshPair ==
  LET step(s, to) == IF CanTransition(s, to) THEN to ELSE s
  IN  step(step(step("reset", "init"), "rtr"), "rts")

(* TaskExecutor::Execute *)
Execute(n, to) ==
  /\ Register(n)
  /\ nextId' = [nextId EXCEPT ![n] = @ + 1]
  /\ PostSend(n, to, IsReadyToSend(FreshPair), nextId[n], Task(n, "tensor"))

(* WorkerRuntime::Submit *)
RuntimeSubmit(n, target) ==
  /\ MaySubmit(n)
  /\ Execute(n, IF target = None THEN n ELSE target)
  /\ UNCHANGED <<cq, job, got>>

(* WorkerRuntime::Poll hands out the message as it is. *)
RuntimePoll(n) ==
  /\ PollReceive(n)
  /\ got' = [got EXCEPT ![n] = Append(@, Head(inbox[n]))]
  /\ UNCHANGED <<dropped, posting, cq, nextId, registry, job>>

RuntimeNext ==
  \E n \in Runtimes :
    \/ \E target \in TensorTargets : RuntimeSubmit(n, target)
    \/ RuntimePoll(n)
=============================================================================
