------------------------------- MODULE Broker -------------------------------
(***************************************************************************)
(* The in-memory broker of rdma/ that every endpoint shares: TransportRdma *)
(* with its inboxes, QueuePair, CompletionQueue and MemoryRegistry.        *)
(* ClientServer, WorkerSession and WorkerRuntime are its endpoints, and    *)
(* DataPlane puts them together.                                           *)
(*                                                                         *)
(* PostSend puts the message into the destination's inbox under the        *)
(* broker's mutex and only afterwards pushes the completion under the      *)
(* queue's own mutex, so the receiver may act on a message, and even       *)
(* answer it, before its sender has the completion.  A full inbox or       *)
(* completion queue makes room by dropping its oldest entry.               *)
(*                                                                         *)
(* A task is known by the node that submitted it and the work request      *)
(* number it got.  Payloads are serialized as MessageCodec describes.      *)
(***************************************************************************)
EXTENDS Naturals, Sequences, FiniteSetsExt

CONSTANTS
  Nodes,            \* the endpoints
  Submitters,       \* those that submit tasks
  None,             \* an empty source_node
  MailboxCapacity,  \* TransportConfig.mailbox_capacity, 0 for unlimited
  Depth,            \* CompletionQueueConfig.depth, 0 for unlimited
  Buffers,          \* BufferPoolConfig.buffers, of every WorkerSession
  Pollers,          \* nodes whose user polls completions
  MaxRequests,      \* bound on the tasks one node submits
  MaxTotal          \* bound on the tasks all nodes submit

ASSUME BrokerAssumption ==
  /\ Submitters \cup Pollers \subseteq Nodes /\ None \notin Nodes
  /\ {MailboxCapacity, Depth, Buffers, MaxRequests, MaxTotal} \subseteq Nat

VARIABLES
  inbox,            \* node -> broker inbox
  dropped,          \* requests whose message an overfull inbox dropped
  posting,          \* node -> completion PostSend has still to push, at most one
  cq,               \* node -> completions not polled yet
  nextId,           \* node -> next_work_request_id_
  registry,         \* node -> its MemoryRegistry: regions_, next_region_id_
  job,              \* node -> the task its user works on, at most one
  got               \* node -> results, or tensors, its user has received

brokerVars == <<inbox, dropped, posting, cq, nextId, registry, job, got>>

(* A registry that has handed out k keys and released none. *)
RegistryOf(k) == [regions |-> 1 .. k, next |-> k]

(* WorkerSessions own a buffer pool, which has registered its buffers. *)
BrokerInit(pooled) ==
  /\ inbox = [n \in Nodes |-> <<>>]
  /\ dropped = {}
  /\ posting = [n \in Nodes |-> <<>>]
  /\ cq = [n \in Nodes |-> <<>>]
  /\ nextId = [n \in Nodes |-> 1]
  /\ registry = [n \in Nodes |-> RegistryOf(IF n \in pooled THEN Buffers ELSE 0)]
  /\ job = [n \in Nodes |-> <<>>]
  /\ got = [n \in Nodes |-> <<>>]

(* Bound on the submissions the model looks at. *)
MaySubmit(n) ==
  /\ nextId[n] <= MaxRequests
  /\ MapThenSumSet(LAMBDA k : nextId[k] - 1, Submitters) < MaxTotal

-----------------------------------------------------------------------------
(***************************************************************************)
(* QueuePair and MemoryRegistry                                            *)
(***************************************************************************)

QueuePairState == {"reset", "init", "rtr", "rts", "error"}

(* QueuePair::TransitionTo returns true. *)
CanTransition(from, to) ==
  \/ <<from, to>> \in {<<"reset", "init">>, <<"init", "rtr">>, <<"rtr", "rts">>}
  \/ to = "error"

(* Mutated form: the last step is missing. *)
BringUpToReceive(state) == IF state \in {"reset", "init"} THEN "rtr" ELSE state

(* The state BringUp leaves a pair in: the steps up from where it is. *)
BringUp(state) ==
  LET up(s, from, to) == IF s = from /\ CanTransition(from, to) THEN to ELSE s
  IN  up(up(up(state, "reset", "init"), "init", "rtr"), "rtr", "rts")

IsReadyToSend(state) == state = "rts"

(* MemoryRegistry::NextKey *)
NextKey(n) == registry[n].next + 1

(* Mutated form: the region is released when Submit returns. *)
RegisterForNow(n) == registry' = [registry EXCEPT ![n].next = NextKey(n)]

(* MemoryRegistry::Register *)
Register(n) ==
  registry' = [registry EXCEPT ![n] = [regions |-> @.regions \cup {NextKey(n)},
                                       next |-> NextKey(n)]]

-----------------------------------------------------------------------------
(***************************************************************************)
(* Messages                                                                *)
(***************************************************************************)

Task(n, topic) ==
  [topic |-> topic, from |-> n, task |-> [by |-> n, wr |-> nextId[n]],
   region |-> NextKey(n)]

(* A result is not registered: its payload is no region of the sender. *)
Result(n, task) == [topic |-> "result", from |-> n, task |-> task, region |-> 0]

(* TaskMessage::Deserialize of any message: a result has a task_id line,   *)
(* and no source_node line.                                                *)
AsTask(m) ==
  [task |-> m.task, source |-> IF m.topic = "task" THEN m.from ELSE None]

-----------------------------------------------------------------------------
(***************************************************************************)
(* Steps of TransportRdma and CompletionQueue                              *)
(***************************************************************************)

IsFull(q, limit) == limit > 0 /\ Len(q) >= limit

(* Mutated form: the new entry overtakes the others. *)
PushFront(q, e, limit) == <<e>> \o (IF IsFull(q, limit) THEN Tail(q) ELSE q)

PushBounded(q, e, limit) == Append(IF IsFull(q, limit) THEN Tail(q) ELSE q, e)

(* PostSend up to the push of the completion, which it leaves owed. *)
PostSend(n, to, ready, wr, m) ==
  /\ posting[n] = <<>>
  /\ posting' = [posting EXCEPT ![n] = <<[wr |-> wr, ok |-> ready]>>]
  /\ IF ready
     THEN /\ inbox' = [inbox EXCEPT ![to] = PushBounded(@, m, MailboxCapacity)]
          /\ dropped' = IF IsFull(inbox[to], MailboxCapacity)
                        THEN dropped \cup {Head(inbox[to]).task} ELSE dropped
     ELSE UNCHANGED <<inbox, dropped>>

(* Mutated form: a full completion queue makes the sender wait. *)
PushWaits(n) ==
  /\ posting[n] # <<>>
  /\ ~IsFull(cq[n], Depth)
  /\ cq' = [cq EXCEPT ![n] = Append(@, Head(posting[n]))]
  /\ posting' = [posting EXCEPT ![n] = <<>>]
  /\ UNCHANGED <<inbox, dropped, nextId, registry, job, got>>

(* The rest of PostSend: CompletionQueue::Push. *)
Push(n) ==
  /\ posting[n] # <<>>
  /\ cq' = [cq EXCEPT ![n] = PushBounded(@, Head(posting[n]), Depth)]
  /\ posting' = [posting EXCEPT ![n] = <<>>]
  /\ UNCHANGED <<inbox, dropped, nextId, registry, job, got>>

(* CompletionQueue::Poll with a completion; without one it times out. *)
Poll(n) ==
  /\ cq[n] # <<>>
  /\ cq' = [cq EXCEPT ![n] = Tail(@)]
  /\ UNCHANGED <<inbox, dropped, posting, nextId, registry, job, got>>

(* TransportRdma::PollReceive with a message; without one it times out. *)
PollReceive(n) ==
  /\ inbox[n] # <<>>
  /\ inbox' = [inbox EXCEPT ![n] = Tail(@)]
=============================================================================
