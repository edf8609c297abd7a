------------------------------- MODULE Poller -------------------------------
(***************************************************************************)
(* Poller of rdma/: a thread that takes messages from a node's inbox and   *)
(* completions from a CompletionQueue in turn and hands each to a handler, *)
(* beside a consumer that sleeps on the queue's EventChannel.              *)
(*                                                                         *)
(* One thread starts and stops the poller, again and again; it is not made *)
(* for two, whose accesses to thread_ would race.  Start turns running_ on *)
(* before there is a thread.  A handler does not call Stop, which would    *)
(* join the thread it runs on.                                             *)
(***************************************************************************)
EXTENDS CompletionChannel

CONSTANTS
  MailboxCapacity, \* TransportConfig.mailbox_capacity, 0 for unlimited
  MaxMessages      \* bound on the messages that arrive

ASSUME PollerAssumption == MailboxCapacity \in Nat /\ MaxMessages \in Nat

Handlers == {"on_message", "on_completion"}

VARIABLES
  inbox,           \* the node's broker inbox; messages are numbered
  arrived,         \* how many messages came
  overrun,         \* messages an overfull inbox dropped
  running,         \* Poller::running_
  handlers,        \* those that the last Start was given
  user,            \* "idle", or inside "start" or "stop"
  thread,          \* where thread_ is, "none" if there is none to join
  hand,            \* what the thread has taken and not handled, at most one
  handled          \* messages handled, in order

pollerVars ==
  <<inbox, arrived, overrun, running, handlers, user, thread, hand, handled>>

PollerInit ==
  /\ Init
  /\ inbox = <<>> /\ arrived = 0 /\ overrun = {}
  /\ running = FALSE /\ handlers = {}
  /\ user = "idle" /\ thread = "none"
  /\ hand = <<>> /\ handled = <<>>

MailboxFull == MailboxCapacity > 0 /\ Len(inbox) >= MailboxCapacity

(* PostSend of any node under the broker's mutex: a full inbox loses its   *)
(* oldest message.                                                         *)
Arrive ==
  /\ arrived < MaxMessages
  /\ arrived' = arrived + 1
  /\ inbox' = Append(IF MailboxFull THEN Tail(inbox) ELSE inbox, arrived + 1)
  /\ overrun' = IF MailboxFull THEN overrun \cup {Head(inbox)} ELSE overrun
  /\ UNCHANGED <<vars, running, handlers, user, thread, hand, handled>>

-----------------------------------------------------------------------------
(***************************************************************************)
(* Start and Stop                                                          *)
(***************************************************************************)

(* Start of a poller that runs returns false; of another, it goes on. *)
Start(h) ==
  /\ user = "idle" /\ ~running
  /\ running' = TRUE /\ handlers' = h /\ user' = "start"
  /\ UNCHANGED <<vars, inbox, arrived, overrun, thread, hand, handled>>

(* The thread is created and assigned to thread_. *)
Spawn ==
  /\ user = "start"
  /\ user' = "idle" /\ thread' = "test"
  /\ UNCHANGED <<vars, inbox, arrived, overrun, running, handlers, hand, handled>>

(* Stop, or the destructor, turns running_ off. *)
Stop ==
  /\ user = "idle"
  /\ running' = FALSE /\ user' = "stop"
  /\ UNCHANGED <<vars, inbox, arrived, overrun, handlers, thread, hand, handled>>

(* Mutated form: the thread is not waited for. *)
JoinableLate == TRUE

(* join() returns, or the thread is not joinable. *)
Joinable == thread \in {"none", "exited"}

(* The rest of Stop. *)
Join ==
  /\ user = "stop" /\ Joinable
  /\ user' = "idle" /\ thread' = "none"
  /\ UNCHANGED <<vars, inbox, arrived, overrun, running, handlers, hand, handled>>

-----------------------------------------------------------------------------
(***************************************************************************)
(* The thread                                                              *)
(***************************************************************************)

(* Mutated form: the thread ends only when there is nothing to do. *)
GoesOnWhileBusy == running \/ inbox # <<>> \/ queue # <<>>

(* Mutated form: the thread ends when no message waits. *)
GoesOnUntilIdle == running /\ inbox # <<>>

GoesOn == running

Test ==
  /\ thread = "test"
  /\ thread' = IF GoesOn THEN "receive" ELSE "exited"
  /\ UNCHANGED <<vars, inbox, arrived, overrun, running, handlers, user>>
  /\ UNCHANGED <<hand, handled>>

(* PollReceive, which times out on an empty inbox. *)
Receive ==
  /\ thread = "receive"
  /\ IF "on_message" \in handlers /\ inbox # <<>>
     THEN inbox' = Tail(inbox) /\ hand' = <<Head(inbox)>> /\ thread' = "on_message"
     ELSE thread' = "complete" /\ UNCHANGED <<inbox, hand>>
  /\ UNCHANGED <<vars, arrived, overrun, running, handlers, user, handled>>

(* Mutated form: a message taken while Stop is called is thrown away. *)
OnMessageIfRunning ==
  /\ thread = "on_message"
  /\ thread' = "complete"
  /\ handled' = IF running THEN handled \o hand ELSE handled
  /\ hand' = <<>>
  /\ UNCHANGED <<vars, inbox, arrived, overrun, running, handlers, user>>

OnMessage ==
  /\ thread = "on_message"
  /\ thread' = "complete"
  /\ handled' = handled \o hand /\ hand' = <<>>
  /\ UNCHANGED <<vars, inbox, arrived, overrun, running, handlers, user>>

(* CompletionQueue::Poll, which times out on an empty queue. *)
Complete ==
  /\ thread = "complete"
  /\ IF "on_completion" \in handlers /\ queue # <<>>
     THEN queue' = Tail(queue) /\ hand' = <<Head(queue)>> /\ thread' = "on_completion"
     ELSE thread' = "test" /\ UNCHANGED <<queue, hand>>
  /\ UNCHANGED <<pushed, signaled, owes, consumer, polled, dropped>>
  /\ UNCHANGED <<inbox, arrived, overrun, running, handlers, user, handled>>

OnCompletion ==
  /\ thread = "on_completion"
  /\ thread' = "test"
  /\ polled' = polled \cup {Head(hand)} /\ hand' = <<>>
  /\ UNCHANGED <<queue, pushed, signaled, owes, consumer, dropped>>
  /\ UNCHANGED <<inbox, arrived, overrun, running, handlers, user, handled>>

Step == Test \/ Receive \/ OnMessage \/ Complete \/ OnCompletion

PollerNext ==
  \/ Next /\ UNCHANGED pollerVars
  \/ Arrive \/ (\E h \in SUBSET Handlers : Start(h)) \/ Spawn \/ Stop \/ Join
  \/ Step

PollerSpec == PollerInit /\ [][PollerNext]_<<vars, pollerVars>>

(* The threads are scheduled; whether the poller is started or stopped is  *)
(* the user's affair.                                                      *)
PollerFairness ==
  /\ \A p \in Pushers : WF_<<vars, pollerVars>>(Notify(p) /\ UNCHANGED pollerVars)
  /\ WF_<<vars, pollerVars>>((Bind \/ Wait \/ Poll) /\ UNCHANGED pollerVars)
  /\ WF_<<vars, pollerVars>>(Spawn \/ Join)
  /\ WF_<<vars, pollerVars>>(Step)

PollerLiveSpec == PollerSpec /\ PollerFairness

-----------------------------------------------------------------------------
(***************************************************************************)
(* Properties                                                              *)
(***************************************************************************)

(* Through any number of starts and stops every message is handled at most *)
(* once and in order.  One that was taken is handled before Stop is back:  *)
(* messages are lost by overflow of the inbox only, from the oldest on,    *)
(* and none between the inbox and the handler.                             *)
HandledInOrder ==
  LET taken == IF thread = "on_message" THEN hand ELSE <<>>
      seen == handled \o taken
      Seen == {seen[i] : i \in DOMAIN seen}
  IN  /\ MailboxCapacity > 0 => Len(inbox) <= MailboxCapacity
      /\ \A i \in DOMAIN inbox : inbox[i] = arrived - Len(inbox) + i
      /\ Seen \cup overrun = 1 .. (arrived - Len(inbox)) /\ Seen \cap overrun = {}
      /\ \A i, j \in DOMAIN seen : i < j => seen[i] < seen[j]

(* Completions are lost by overflow only, and no one gets one twice,       *)
(* however many threads push, poll and are stopped at once.  Overflow      *)
(* takes the oldest: what is queued is the newest, without gaps, in the    *)
(* order it was pushed, and never more than the configured depth.          *)
QueueIsNewest ==
  LET inHand == IF thread = "on_completion" THEN {Head(hand)} ELSE {}
  IN  /\ Depth > 0 => Len(queue) <= Depth
      /\ \A i \in DOMAIN queue : queue[i] = pushed - Len(queue) + i
      /\ polled \cup dropped \cup inHand = 1 .. (pushed - Len(queue))
      /\ polled \cap dropped = {} /\ inHand \cap (polled \cup dropped) = {}

(* Once Stop has returned no handler runs and nothing is in the thread's   *)
(* hands; and there is never a second thread, for Start would end the      *)
(* program by assigning over a thread that was not joined.                 *)
QuietAfterStop ==
  /\ user = "idle" /\ ~running => thread = "none" /\ hand = <<>>
  /\ user = "start" => thread = "none"

(* Stop returns: it waits for the handler that runs, and for no more than  *)
(* that.                                                                   *)
StopReturns == (user = "stop") ~> (user = "idle")

(* A message that comes while the poller runs is handled, unless newer     *)
(* ones push it out first, the user stops the poller or gave it no handler *)
(* for messages.                                                           *)
MessageHandled ==
  \A m \in 1 .. MaxMessages :
    (m <= arrived) ~>
      \/ m \in overrun \/ \E i \in DOMAIN handled : handled[i] = m
      \/ ~running \/ "on_message" \notin handlers
=============================================================================
