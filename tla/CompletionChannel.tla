------------------------- MODULE CompletionChannel --------------------------
(***************************************************************************)
(* CompletionQueue and EventChannel of rdma/: threads push completions, a  *)
(* consumer sleeps on the channel and then polls the queue.                *)
(*                                                                         *)
(* Push changes the queue under its mutex and signals the bound channel    *)
(* afterwards, under the channel's mutex; Wait resets the signal.  Several *)
(* pushes may share one signal, and a signal may come when the queue has   *)
(* been emptied already.                                                   *)
(*                                                                         *)
(* The consumer is the user of the library.  It binds its channel when     *)
(* pushes may have happened that signaled nobody, so it polls before it    *)
(* waits.  After every signal it polls until a Poll times out, and then    *)
(* waits again.  Timed-out waits change nothing and are left out; so is    *)
(* Reset, which no code calls.                                             *)
(***************************************************************************)
EXTENDS Naturals, Sequences

CONSTANTS
  Pushers,       \* threads that complete work requests
  Depth,         \* CompletionQueueConfig.depth, 0 for unlimited
  MaxEvents      \* bound on the completions pushed

ASSUME ChannelAssumption == Depth \in Nat /\ MaxEvents \in Nat

VARIABLES
  queue,         \* CompletionQueue::queue_; events are numbered
  pushed,        \* how many events were pushed
  signaled,      \* EventChannel::signaled_
  owes,          \* pushers between the two critical sections of Push
  consumer,      \* "unbound" before Bind, "waiting" in Wait or "polling"
  polled,        \* events the consumer has got
  dropped        \* events an overfull queue dropped

vars == <<queue, pushed, signaled, owes, consumer, polled, dropped>>

Init ==
  /\ queue = <<>>
  /\ pushed = 0
  /\ signaled = FALSE
  /\ owes = {}
  /\ consumer = "unbound"
  /\ polled = {}
  /\ dropped = {}

(* CompletionQueue::Bind, under the queue's mutex; binding again changes   *)
(* nothing.                                                                *)
Bind ==
  /\ consumer = "unbound"
  /\ consumer' = "polling"
  /\ UNCHANGED <<queue, pushed, signaled, owes, polled, dropped>>

(* The signal Push leaves owed to the channels that are bound by then. *)
Owed(p) == IF consumer = "unbound" THEN owes ELSE owes \cup {p}

Full == Depth > 0 /\ Len(queue) >= Depth

(* Mutated form: a full queue drops the new event, and counts the oldest. *)
PushDropsNewest(p) ==
  /\ p \notin owes
  /\ pushed < MaxEvents
  /\ pushed' = pushed + 1
  /\ queue' = IF Full THEN queue ELSE Append(queue, pushed + 1)
  /\ dropped' = IF Full THEN dropped \cup {Head(queue)} ELSE dropped
  /\ owes' = Owed(p)
  /\ UNCHANGED <<signaled, consumer, polled>>

(* Push under the queue's mutex. *)
Push(p) ==
  /\ p \notin owes
  /\ pushed < MaxEvents
  /\ pushed' = pushed + 1
  /\ queue' = Append(IF Full THEN Tail(queue) ELSE queue, pushed + 1)
  /\ dropped' = IF Full THEN dropped \cup {Head(queue)} ELSE dropped
  /\ owes' = Owed(p)
  /\ UNCHANGED <<signaled, consumer, polled>>

(* EventChannel::Notify, the end of Push. *)
Notify(p) ==
  /\ p \in owes
  /\ owes' = owes \ {p}
  /\ signaled' = TRUE
  /\ UNCHANGED <<queue, pushed, consumer, polled, dropped>>

(* EventChannel::Wait returns true. *)
Wait ==
  /\ consumer = "waiting"
  /\ signaled
  /\ signaled' = FALSE
  /\ consumer' = "polling"
  /\ UNCHANGED <<queue, pushed, owes, polled, dropped>>

(* Mutated form: one event for each signal. *)
PollOnce ==
  /\ consumer = "polling"
  /\ consumer' = "waiting"
  /\ polled' = IF queue = <<>> THEN polled ELSE polled \cup {Head(queue)}
  /\ queue' = IF queue = <<>> THEN queue ELSE Tail(queue)
  /\ UNCHANGED <<pushed, signaled, owes, dropped>>

(* CompletionQueue::Poll; when it times out the consumer waits again. *)
Poll ==
  /\ consumer = "polling"
  /\ consumer' = IF queue = <<>> THEN "waiting" ELSE "polling"
  /\ polled' = IF queue = <<>> THEN polled ELSE polled \cup {Head(queue)}
  /\ queue' = IF queue = <<>> THEN queue ELSE Tail(queue)
  /\ UNCHANGED <<pushed, signaled, owes, dropped>>

Next == (\E p \in Pushers : Push(p) \/ Notify(p)) \/ Bind \/ Wait \/ Poll

-----------------------------------------------------------------------------
(***************************************************************************)
(* Properties                                                              *)
(***************************************************************************)

(* Every completion is polled, unless newer ones push it out: no wake-up is *)
(* lost, although one signal may stand for many events.                    *)
EventPolledOrDropped ==
  \A e \in 1 .. MaxEvents : (e <= pushed) ~> (e \in polled \cup dropped)
=============================================================================
