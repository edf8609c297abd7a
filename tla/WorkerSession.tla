---------------------------- MODULE WorkerSession ---------------------------
(***************************************************************************)
(* WorkerSession on the shared broker, with its Metrics, in the two roles  *)
(* examples/worker_transport_demo.cpp gives it: a controller submits tasks *)
(* to workers and takes the results from the transport, a worker polls     *)
(* tasks and sends results.                                                *)
(*                                                                         *)
(* A session has no lock of its own, so one thread submits, polls and      *)
(* sends.  Its completion queue and counters are safe for others: a        *)
(* second thread may poll completions, also while a Submit has pushed its  *)
(* completion and has not yet counted its send.                            *)
(***************************************************************************)
EXTENDS Broker

CONSTANTS
  Controllers,      \* nodes whose session submits
  Workers,          \* nodes whose session takes tasks
  Targets           \* target_node of submitted tasks, None for an empty one

Sessions == Controllers \cup Workers

ASSUME SessionAssumption ==
  /\ Sessions \subseteq Nodes /\ Targets \subseteq Nodes \cup {None}
  /\ Controllers \cap Workers = {}

VARIABLES
  metrics,          \* session -> Metrics
  unrecorded        \* session -> sends PostSend is done with and not counted

sessionVars == <<metrics, unrecorded>>

SessionInit ==
  /\ metrics = [s \in Sessions |->
                  [sends |-> 0, receives |-> 0, completions |-> 0, failed |-> 0]]
  /\ unrecorded = [s \in Sessions |-> 0]

(* The session's thread is not inside Submit or SendResult. *)
Idle(s) == posting[s] = <<>> /\ unrecorded[s] = 0

(* The connection EnsurePeer returns, old or new, has been established and *)
(* is never failed: it can send.                                           *)
EnsurePeer == IsReadyToSend(BringUp("reset"))

SessionPost(s, to, m) ==
  /\ nextId' = [nextId EXCEPT ![s] = @ + 1]
  /\ PostSend(s, to, EnsurePeer, nextId[s], m)

(* A task or result that names no target_node comes back to its sender. *)
Peer(s, target) == IF target = None THEN s ELSE target

(* WorkerSession::Submit up to the completion. *)
Submit(s, target) ==
  /\ Idle(s)
  /\ MaySubmit(s)
  /\ Register(s)
  /\ SessionPost(s, Peer(s, target), Task(s, "task"))
  /\ UNCHANGED <<cq, job, got, metrics, unrecorded>>

(* Metrics::RecordReceive *)
RecordReceive(s) == metrics' = [metrics EXCEPT ![s].receives = @ + 1]

(* WorkerSession::PollTask, which takes any message for a task. *)
SessionPollTask(s) ==
  /\ Idle(s) /\ job[s] = <<>>
  /\ PollReceive(s)
  /\ RecordReceive(s)
  /\ job' = [job EXCEPT ![s] = <<AsTask(Head(inbox[s]))>>]
  /\ UNCHANGED <<dropped, posting, cq, nextId, registry, got, unrecorded>>

(* WorkerSession::SendResult up to the completion. *)
SessionSendResult(s) ==
  /\ Idle(s) /\ job[s] # <<>>
  /\ LET t == Head(job[s])
     IN  SessionPost(s, Peer(s, t.source), Result(s, t.task))
  /\ job' = [job EXCEPT ![s] = <<>>]
  /\ UNCHANGED <<cq, registry, got, metrics, unrecorded>>

(* The controller's own PollReceive on the transport it gave the session. *)
TakeResult(s) ==
  /\ PollReceive(s)
  /\ got' = [got EXCEPT ![s] = Append(@, Head(inbox[s]))]
  /\ UNCHANGED <<dropped, posting, cq, nextId, registry, job, sessionVars>>

SessionPushCompletion(s) ==
  /\ Push(s)
  /\ unrecorded' = [unrecorded EXCEPT ![s] = 1]
  /\ UNCHANGED metrics

(* Mutated form: only the sends of controllers are counted. *)
RecordSendOfTasks(s) ==
  /\ unrecorded[s] = 1
  /\ unrecorded' = [unrecorded EXCEPT ![s] = 0]
  /\ metrics' = [metrics EXCEPT ![s].sends = IF s \in Controllers THEN @ + 1 ELSE @]
  /\ UNCHANGED brokerVars

(* Metrics::RecordSend, the last step of Submit and of SendResult. *)
RecordSend(s) ==
  /\ unrecorded[s] = 1
  /\ unrecorded' = [unrecorded EXCEPT ![s] = 0]
  /\ metrics' = [metrics EXCEPT ![s].sends = @ + 1]
  /\ UNCHANGED brokerVars

(* Metrics::RecordCompletion *)
RecordCompletion(s, event) ==
  metrics' = [metrics EXCEPT ![s].completions = @ + 1,
                             ![s].failed = IF event.ok THEN @ ELSE @ + 1]

SessionPollCompletion(s) ==
  /\ s \in Pollers
  /\ Poll(s)
  /\ RecordCompletion(s, Head(cq[s]))
  /\ UNCHANGED unrecorded

SessionNext ==
  \/ \E s \in Controllers, target \in Targets : Submit(s, target)
  \/ \E s \in Controllers : TakeResult(s)
  \/ \E s \in Workers : SessionPollTask(s) \/ SessionSendResult(s)
  \/ \E s \in Sessions :
       SessionPushCompletion(s) \/ RecordSend(s) \/ SessionPollCompletion(s)
=============================================================================
