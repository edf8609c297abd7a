----------------------------- MODULE RdmaProofs -----------------------------
(***************************************************************************)
(* Proofs about two classes of rdma/: Poller, for any pushers, any depth   *)
(* and any number of events and messages, and BufferPool, for any threads  *)
(* and any number of buffers.                                              *)
(***************************************************************************)
EXTENDS Poller, BufferPool, SequenceLemmas

allVars == <<vars, pollerVars>>

(* A thread exists from Spawn to Join, and has something in its hand just  *)
(* while a handler runs.                                                   *)
ThreadInv ==
  /\ user \in {"idle", "start", "stop"} /\ running \in BOOLEAN
  /\ thread \in {"none", "test", "receive", "on_message", "complete", "on_completion",
                 "exited"}
  /\ user = "start" => running /\ thread = "none"
  /\ user = "stop" => ~running
  /\ user = "idle" /\ ~running => thread = "none"
  /\ thread = "exited" => user = "stop"
  /\ thread \in {"on_message", "on_completion"} => \E n \in Nat : hand = <<n>>
  /\ thread \notin {"on_message", "on_completion"} => hand = <<>>
  /\ queue \in Seq(Nat) /\ inbox \in Seq(Nat) /\ handled \in Seq(Nat)
  /\ pushed \in Nat /\ arrived \in Nat

(* There is no thread at first. *)
LEMMA ThreadInvInit == PollerInit => ThreadInv
<1> SUFFICES ASSUME PollerInit PROVE ThreadInv
  OBVIOUS
<1>1. queue \in Seq(Nat) /\ inbox \in Seq(Nat) /\ handled \in Seq(Nat)
  BY DEF PollerInit, Init
<1>2. pushed \in Nat /\ arrived \in Nat
  BY DEF PollerInit, Init
<1> QED BY <1>1, <1>2, Zenon DEF PollerInit, ThreadInv

(* Starts, stops and the thread's own steps keep the invariant. *)
LEMMA ThreadInvNext == ThreadInv /\ [PollerNext]_allVars => ThreadInv'
<1> SUFFICES ASSUME ThreadInv, [PollerNext]_allVars PROVE ThreadInv'
  OBVIOUS
<1> USE DEF ThreadInv
<1>1. CASE Next /\ UNCHANGED pollerVars
  <2>1. queue' \in Seq(Nat) /\ pushed' \in Nat
    <3>1. ASSUME NEW p \in Pushers, Push(p) PROVE queue' \in Seq(Nat) /\ pushed' \in Nat
      <4>1. (IF Full THEN Tail(queue) ELSE queue) \in Seq(Nat)
        BY ChannelAssumption DEF Full
      <4> QED BY <3>1, <4>1 DEF Push
    <3>2. CASE Poll
      BY <3>2 DEF Poll
    <3> QED BY <1>1, <3>1, <3>2 DEF Next, Notify, Bind, Wait
  <2> QED BY <1>1, <2>1 DEF pollerVars
<1>2. CASE Arrive
  <2>1. (IF MailboxFull THEN Tail(inbox) ELSE inbox) \in Seq(Nat)
    BY PollerAssumption DEF MailboxFull
  <2>2. inbox' \in Seq(Nat) /\ arrived' \in Nat
    BY <1>2, <2>1 DEF Arrive
  <2> QED BY <1>2, <2>2, Zenon DEF Arrive, vars
<1>3. ASSUME NEW h \in SUBSET Handlers, Start(h) PROVE ThreadInv'
  BY <1>3 DEF Start, vars
<1>4. CASE Spawn \/ Stop \/ Join
  BY <1>4, Zenon DEF Spawn, Stop, Join, Joinable, vars
<1>5. CASE Test
  BY <1>5 DEF Test, GoesOn, vars
<1>6. CASE Receive
  <2>1. inbox # <<>> => Head(inbox) \in Nat /\ Tail(inbox) \in Seq(Nat)
    BY TakeFront
  <2>2. inbox' \in Seq(Nat) /\ UNCHANGED <<queue, pushed, arrived, handled, user, running>>
    BY <1>6, <2>1, Zenon DEF Receive, vars
  <2> QED BY <1>6, <2>1, <2>2 DEF Receive
<1>7. CASE OnMessage
  <2>1. PICK n \in Nat : hand = <<n>>
    BY <1>7 DEF OnMessage
  <2>2. handled' \in Seq(Nat)
    BY <1>7, <2>1, ConcatProperties DEF OnMessage
  <2> QED BY <1>7, <2>2 DEF OnMessage, vars
<1>8. CASE Complete
  <2>1. queue # <<>> => Head(queue) \in Nat /\ Tail(queue) \in Seq(Nat)
    BY TakeFront
  <2> QED BY <1>8, <2>1, Zenon DEF Complete
<1>9. CASE OnCompletion
  BY <1>9 DEF OnCompletion
<1>10. CASE UNCHANGED allVars
  BY <1>10 DEF allVars, vars, pollerVars
<1> QED
  BY <1>1, <1>2, <1>3, <1>4, <1>5, <1>6, <1>7, <1>8, <1>9, <1>10 DEF PollerNext, Step

(* Once Stop has returned there is no thread and nothing in its hand. *)
THEOREM StoppedPollerIsQuiet == PollerSpec => []QuietAfterStop
<1>1. ThreadInv => QuietAfterStop
  BY DEF ThreadInv, QuietAfterStop
<1> QED BY ThreadInvInit, ThreadInvNext, <1>1, PTL DEF PollerSpec, allVars

(* Whenever the consumer of the channel sleeps although an event is queued *)
(* for it, the signal that will wake it is set, or a thread is between its *)
(* two critical sections of Push and will set it.                          *)
SignalComes == consumer = "waiting" /\ queue # <<>> => signaled \/ owes # {}

(* No wake-up is lost, although Push signals after it has released the     *)
(* queue's mutex, one signal may stand for many events, and Wait clears it *)
(* before the queue is polled: the safety behind EventPolledOrDropped.     *)
THEOREM NoWakeupLost == PollerSpec => []SignalComes
<1>1. PollerInit => SignalComes
  BY Zenon DEF PollerInit, Init, SignalComes
<1>2. SignalComes /\ [PollerNext]_allVars => SignalComes'
  <2> SUFFICES ASSUME SignalComes, [PollerNext]_allVars PROVE SignalComes'
    OBVIOUS
  <2> USE DEF SignalComes
  <2>1. ASSUME NEW p \in Pushers, Push(p) PROVE SignalComes'
    <3>1. CASE consumer = "waiting"
      <4>1. p \in owes'
        BY <2>1, <3>1 DEF Push, Owed
      <4> QED BY <4>1
    <3>2. CASE consumer # "waiting"
      BY <2>1, <3>2, Zenon DEF Push
    <3> QED BY <3>1, <3>2
  <2>2. ASSUME NEW p \in Pushers, Notify(p) PROVE SignalComes'
    BY <2>2, Zenon DEF Notify
  <2>3. CASE Bind \/ Wait
    BY <2>3 DEF Bind, Wait
  <2>4. CASE Poll
    BY <2>4 DEF Poll
  <2>5. CASE Complete
    BY <2>5, Zenon DEF Complete
  <2>6. CASE UNCHANGED <<queue, signaled, owes, consumer>>
    BY <2>6, Zenon
  <2> QED
    BY <2>1, <2>2, <2>3, <2>4, <2>5, <2>6
       DEF PollerNext, Next, Step, Arrive, Start, Spawn, Stop, Join, Test, Receive, OnMessage,
           OnCompletion, allVars, vars
<1> QED BY <1>1, <1>2, PTL DEF PollerSpec, allVars

-----------------------------------------------------------------------------

InHand == IF thread = "on_completion" THEN {Head(hand)} ELSE {}

(* No more is queued than was ever pushed. *)
NewestInv == QueueIsNewest /\ Len(queue) <= pushed

(* NewestInv, with its numbers spelled out. *)
LEMMA NewestFacts ==
  NewestInv <=>
    /\ Len(queue) <= pushed
    /\ Depth > 0 => Len(queue) <= Depth
    /\ \A i \in DOMAIN queue : queue[i] = pushed - Len(queue) + i
    /\ polled \cup dropped \cup InHand = 1 .. (pushed - Len(queue))
    /\ polled \cap dropped = {} /\ InHand \cap (polled \cup dropped) = {}
  BY DEF NewestInv, QueueIsNewest, InHand

(* The oldest of consecutive numbers up to n follows those that are gone. *)
LEMMA FrontIsNext ==
  ASSUME NEW s \in Seq(Nat), NEW n \in Nat, s # <<>>, Len(s) <= n,
         \A i \in DOMAIN s : s[i] = n - Len(s) + i
  PROVE  /\ Head(s) = n - Len(s) + 1 /\ Head(s) \in Nat
         /\ Tail(s) \in Seq(Nat) /\ Len(Tail(s)) = Len(s) - 1
         /\ \A i \in DOMAIN Tail(s) : Tail(s)[i] = n - Len(Tail(s)) + i
         /\ Head(s) \notin 1 .. (n - Len(s))
         /\ 1 .. (n - Len(Tail(s))) = (1 .. (n - Len(s))) \cup {Head(s)}
<1>1. /\ Tail(s) \in Seq(Nat) /\ Len(Tail(s)) = Len(s) - 1
      /\ DOMAIN s = 1 .. Len(s) /\ DOMAIN Tail(s) = 1 .. Len(Tail(s))
      /\ Len(s) \in Nat /\ Len(s) > 0 /\ Head(s) = s[1]
      /\ \A i \in 1 .. Len(Tail(s)) : Tail(s)[i] = s[i + 1]
  BY HeadTailProperties, LenProperties
<1>2. Head(s) = n - Len(s) + 1
  BY <1>1
<1>3. ASSUME NEW i \in DOMAIN Tail(s)
      PROVE  Tail(s)[i] = n - Len(Tail(s)) + i
  <2>1. i + 1 \in DOMAIN s
    BY <1>1
  <2>2. s[i + 1] = n - Len(s) + (i + 1)
    BY <2>1
  <2> QED BY <1>1, <2>2
<1>4. 1 .. (n - Len(Tail(s))) = (1 .. (n - Len(s))) \cup {Head(s)}
  BY <1>1, <1>2
<1> QED BY <1>1, <1>2, <1>3, <1>4

(* The oldest event that is queued follows those that have left. *)
LEMMA OldestIsNext ==
  ASSUME ThreadInv, NewestInv, queue # <<>>
  PROVE  /\ Head(queue) = pushed - Len(queue) + 1
         /\ Tail(queue) \in Seq(Nat) /\ Len(Tail(queue)) = Len(queue) - 1
         /\ \A i \in DOMAIN Tail(queue) : Tail(queue)[i] = pushed - Len(Tail(queue)) + i
         /\ Head(queue) \notin 1 .. (pushed - Len(queue))
         /\ 1 .. (pushed - Len(Tail(queue)))
              = (1 .. (pushed - Len(queue))) \cup {Head(queue)}
<1>1. /\ queue \in Seq(Nat) /\ pushed \in Nat /\ Len(queue) <= pushed
      /\ \A i \in DOMAIN queue : queue[i] = pushed - Len(queue) + i
  BY NewestFacts DEF ThreadInv
<1> QED BY <1>1, FrontIsNext, Zenon

(* Nothing is pushed at first. *)
LEMMA NewestInvInit == PollerInit => NewestInv
<1> SUFFICES ASSUME PollerInit PROVE NewestInv
  OBVIOUS
<1>1. InHand = {} /\ polled = {} /\ dropped = {} /\ pushed = 0
  BY DEF PollerInit, Init, InHand
<1>2. Len(queue) = 0 /\ DOMAIN queue = {}
  BY DEF PollerInit, Init
<1> QED BY <1>1, <1>2, NewestFacts, ChannelAssumption

(* The newest event keeps the numbers without gaps. *)
LEMMA NewestLast ==
  ASSUME NEW s \in Seq(Nat), NEW n \in Nat,
         \A i \in DOMAIN s : s[i] = n - Len(s) + i
  PROVE  /\ Len(Append(s, n + 1)) = Len(s) + 1
         /\ \A i \in DOMAIN Append(s, n + 1) :
              Append(s, n + 1)[i] = (n + 1) - Len(Append(s, n + 1)) + i
<1>1. /\ Len(s) \in Nat /\ Len(Append(s, n + 1)) = Len(s) + 1
      /\ DOMAIN s = 1 .. Len(s) /\ DOMAIN Append(s, n + 1) = 1 .. Len(s) + 1
      /\ \A i \in 1 .. Len(s) : Append(s, n + 1)[i] = s[i]
      /\ Append(s, n + 1)[Len(s) + 1] = n + 1
  BY AppendProperties, LenProperties
<1>2. ASSUME NEW i \in DOMAIN Append(s, n + 1)
      PROVE  Append(s, n + 1)[i] = (n + 1) - Len(Append(s, n + 1)) + i
  <2>1. CASE i \in DOMAIN s
    BY <1>1, <2>1
  <2>2. CASE i = Len(s) + 1
    BY <1>1, <2>2
  <2> QED BY <1>1, <2>1, <2>2
<1> QED BY <1>1, <1>2

(* Pushes, polls and the poller's own thread keep the numbers together. *)
LEMMA NewestInvNext == ThreadInv /\ NewestInv /\ [PollerNext]_allVars => NewestInv'
<1> SUFFICES ASSUME ThreadInv, NewestInv, [PollerNext]_allVars PROVE NewestInv'
  OBVIOUS
<1>1. /\ queue \in Seq(Nat) /\ pushed \in Nat /\ Len(queue) \in Nat /\ Len(queue) <= pushed
      /\ Depth \in Nat /\ (Depth > 0 => Len(queue) <= Depth)
      /\ \A i \in DOMAIN queue : queue[i] = pushed - Len(queue) + i
      /\ polled \cup dropped \cup InHand = 1 .. (pushed - Len(queue))
      /\ polled \cap dropped = {} /\ InHand \cap (polled \cup dropped) = {}
  BY NewestFacts, ChannelAssumption, LenProperties DEF ThreadInv
<1>2. ASSUME UNCHANGED <<queue, pushed, polled, dropped>>, InHand' = InHand
      PROVE  NewestInv'
  BY <1>1, <1>2, Zenon DEF NewestInv, QueueIsNewest, InHand
<1>3. ASSUME NEW p \in Pushers, Push(p), UNCHANGED pollerVars PROVE NewestInv'
  <2>0. InHand' = InHand /\ pushed' = pushed + 1 /\ polled' = polled
    BY <1>3 DEF InHand, pollerVars, Push
  <2>1. CASE ~Full
    <3>1. queue' = Append(queue, pushed + 1) /\ dropped' = dropped
      BY <1>3, <2>1 DEF Push
    <3>2. /\ Len(queue') = Len(queue) + 1
          /\ \A i \in DOMAIN queue' : queue'[i] = pushed' - Len(queue') + i
      BY <1>1, <2>0, <3>1, NewestLast
    <3>3. Depth > 0 => Len(queue') <= Depth
      BY <1>1, <2>1, <3>2 DEF Full
    <3>4. pushed' - Len(queue') = pushed - Len(queue) /\ Len(queue') <= pushed'
      BY <1>1, <2>0, <3>2
    <3> QED BY <1>1, <2>0, <3>1, <3>2, <3>3, <3>4, Zenon DEF NewestInv, QueueIsNewest, InHand
  <2>2. CASE Full
    <3>1. queue # <<>> /\ queue' = Append(Tail(queue), pushed + 1)
          /\ dropped' = dropped \cup {Head(queue)}
      BY <1>1, <1>3, <2>2 DEF Push, Full
    <3>2. /\ Len(queue') = Len(queue)
          /\ \A i \in DOMAIN queue' : queue'[i] = pushed' - Len(queue') + i
      <4> DEFINE r == Tail(queue)
      <4>1. /\ r \in Seq(Nat) /\ Len(r) = Len(queue) - 1
            /\ \A i \in DOMAIN r : r[i] = pushed - Len(r) + i
        BY <3>1, OldestIsNext
      <4> HIDE DEF r
      <4>2. /\ Len(Append(r, pushed + 1)) = Len(r) + 1
            /\ \A i \in DOMAIN Append(r, pushed + 1) :
                 Append(r, pushed + 1)[i] = (pushed + 1) - Len(Append(r, pushed + 1)) + i
        BY <1>1, <4>1, NewestLast, Zenon
      <4>3. queue' = Append(r, pushed + 1)
        BY <3>1 DEF r
      <4> QED BY <1>1, <2>0, <4>1, <4>2, <4>3
    <3>3. 1 .. (pushed' - Len(queue')) = (1 .. (pushed - Len(queue))) \cup {Head(queue)}
      <4>1. pushed' - Len(queue') = pushed - Len(Tail(queue))
        BY <1>1, <2>0, <3>1, <3>2, OldestIsNext
      <4> QED BY <3>1, <4>1, OldestIsNext
    <3>4. Head(queue) \notin polled \cup dropped \cup InHand
      BY <1>1, <3>1, OldestIsNext
    <3>5. Len(queue') <= pushed'
      BY <1>1, <2>0, <3>2
    <3>6. polled' \cup dropped' \cup InHand' = 1 .. (pushed' - Len(queue'))
      BY <1>1, <2>0, <3>1, <3>3
    <3>7. polled' \cap dropped' = {} /\ InHand' \cap (polled' \cup dropped') = {}
      BY <1>1, <2>0, <3>1, <3>4
    <3>8. Depth > 0 => Len(queue') <= Depth
      BY <1>1, <3>2
    <3> QED BY <3>2, <3>5, <3>6, <3>7, <3>8, Zenon DEF NewestInv, QueueIsNewest, InHand
  <2> QED BY <2>1, <2>2
<1>4. ASSUME queue # <<>>, queue' = Tail(queue), UNCHANGED <<pushed, dropped>>,
             \/ polled' = polled \cup {Head(queue)} /\ InHand' = InHand
             \/ polled' = polled /\ InHand = {} /\ InHand' = {Head(queue)}
      PROVE  NewestInv'
  <2>1. Head(queue) \notin polled \cup dropped \cup InHand
    BY <1>1, <1>4, OldestIsNext
  <2>2. polled' \cup dropped' \cup InHand' = 1 .. (pushed' - Len(queue'))
    BY <1>1, <1>4, OldestIsNext
  <2>3. polled' \cap dropped' = {} /\ InHand' \cap (polled' \cup dropped') = {}
    BY <1>1, <1>4, <2>1
  <2>4. Len(queue') <= pushed' /\ (Depth > 0 => Len(queue') <= Depth)
    BY <1>1, <1>4, OldestIsNext
  <2>5. \A i \in DOMAIN queue' : queue'[i] = pushed' - Len(queue') + i
    BY <1>4, OldestIsNext
  <2> QED BY <2>2, <2>3, <2>4, <2>5 DEF NewestInv, QueueIsNewest, InHand
<1>5. CASE Poll /\ UNCHANGED pollerVars
  <2>1. InHand' = InHand
    BY <1>5 DEF InHand, pollerVars
  <2> QED BY <1>2, <1>4, <1>5, <2>1 DEF Poll
<1>6. CASE Next /\ UNCHANGED pollerVars /\ ~Poll /\ ~\E p \in Pushers : Push(p)
  <2>1. InHand' = InHand
    BY <1>6 DEF InHand, pollerVars
  <2> QED BY <1>2, <1>6, <2>1 DEF Next, Notify, Bind, Wait
<1>7. CASE Complete
  <2>1. InHand = {}
    BY <1>7 DEF Complete, InHand
  <2>2. CASE thread' = "on_completion"
    <3>1. /\ queue # <<>> /\ queue' = Tail(queue) /\ InHand' = {Head(queue)}
          /\ UNCHANGED <<pushed, dropped, polled>>
      BY <1>7, <2>2 DEF Complete, InHand
    <3> QED BY <1>4, <2>1, <3>1
  <2>3. CASE thread' # "on_completion"
    <3>1. UNCHANGED <<queue, pushed, polled, dropped>> /\ InHand' = {}
      BY <1>7, <2>3 DEF Complete, InHand
    <3> QED BY <1>2, <2>1, <3>1
  <2> QED BY <2>2, <2>3
<1>8. CASE OnCompletion
  <2>1. /\ InHand = {Head(hand)} /\ InHand' = {} /\ polled' = polled \cup {Head(hand)}
        /\ UNCHANGED <<queue, pushed, dropped>>
    BY <1>8 DEF OnCompletion, InHand
  <2> QED BY <1>1, <2>1, Zenon DEF NewestInv, QueueIsNewest, InHand
<1>9. CASE \/ Arrive \/ (\E h \in SUBSET Handlers : Start(h)) \/ Spawn \/ Stop \/ Join
           \/ Test \/ Receive \/ OnMessage \/ UNCHANGED allVars
  <2>1. UNCHANGED <<queue, pushed, polled, dropped>>
    BY <1>9 DEF Arrive, Start, Spawn, Stop, Join, Test, Receive, OnMessage, allVars, vars
  <2>2. InHand' = InHand
    BY <1>9, Zenon DEF Arrive, Start, Spawn, Stop, Join, Joinable, Test, Receive, OnMessage,
                allVars, pollerVars, InHand, ThreadInv
  <2> QED BY <1>2, <2>1, <2>2, Zenon
<1> QED
  BY <1>3, <1>5, <1>6, <1>7, <1>8, <1>9 DEF PollerNext, Step

(* Completions are lost by overflow only, from the oldest on, and nobody   *)
(* gets one twice, for any number of pushers and any depth.                *)
THEOREM QueueKeepsNewest == PollerSpec => []QueueIsNewest
<1>1. NewestInv => QueueIsNewest
  BY DEF NewestInv
<1> QED
  BY ThreadInvInit, ThreadInvNext, NewestInvInit, NewestInvNext, <1>1, PTL
  DEF PollerSpec, allVars

-----------------------------------------------------------------------------

Taken == IF thread = "on_message" THEN hand ELSE <<>>

Seen == handled \o Taken

Increasing(s) == \A i, j \in DOMAIN s : i < j => s[i] < s[j]

(* No more waits in the inbox than ever arrived. *)
OrderInv == HandledInOrder /\ Len(inbox) <= arrived

(* OrderInv with its parts named. *)
LEMMA OrderFacts ==
  OrderInv <=>
    /\ Len(inbox) <= arrived
    /\ MailboxCapacity > 0 => Len(inbox) <= MailboxCapacity
    /\ \A i \in DOMAIN inbox : inbox[i] = arrived - Len(inbox) + i
    /\ Listed(Seen) \cup overrun = 1 .. (arrived - Len(inbox))
    /\ Listed(Seen) \cap overrun = {}
    /\ Increasing(Seen)
  BY Zenon DEF OrderInv, HandledInOrder, Listed, Seen, Taken, Increasing

(* What the thread has seen are numbers of messages. *)
LEMMA SeenIsSeq == ThreadInv => Taken \in Seq(Nat) /\ Seen \in Seq(Nat)
<1> SUFFICES ASSUME ThreadInv PROVE Taken \in Seq(Nat) /\ Seen \in Seq(Nat)
  OBVIOUS
<1>1. Taken \in Seq(Nat)
  <2>1. CASE thread = "on_message"
    <3>1. PICK n \in Nat : hand = <<n>>
      BY <2>1 DEF ThreadInv
    <3> QED BY <2>1, <3>1 DEF Taken
  <2>2. CASE thread # "on_message"
    BY <2>2 DEF Taken
  <2> QED BY <2>1, <2>2
<1>2. handled \in Seq(Nat)
  BY DEF ThreadInv
<1> QED BY <1>1, <1>2, ConcatProperties DEF Seen

(* A number above all the others keeps them in order. *)
LEMMA LargestLast ==
  ASSUME NEW s \in Seq(Nat), NEW n \in Nat, Increasing(s), \A m \in Listed(s) : m < n
  PROVE  Increasing(Append(s, n))
<1>1. /\ Len(s) \in Nat /\ DOMAIN s = 1 .. Len(s)
      /\ DOMAIN Append(s, n) = 1 .. Len(s) + 1
      /\ \A i \in 1 .. Len(s) : Append(s, n)[i] = s[i]
      /\ Append(s, n)[Len(s) + 1] = n
  BY AppendProperties, LenProperties
<1>2. \A i \in DOMAIN s : s[i] < n
  BY DEF Listed
<1>3. ASSUME NEW i \in DOMAIN Append(s, n), NEW j \in DOMAIN Append(s, n), i < j
      PROVE  Append(s, n)[i] < Append(s, n)[j]
  <2>1. i \in DOMAIN s /\ Append(s, n)[i] = s[i]
    BY <1>1, <1>3
  <2>2. CASE j \in DOMAIN s
    BY <1>1, <1>3, <2>1, <2>2 DEF Increasing
  <2>3. CASE j = Len(s) + 1
    BY <1>1, <1>2, <2>1, <2>3
  <2> QED BY <1>1, <2>2, <2>3
<1> QED BY <1>3 DEF Increasing

(* Nothing has arrived at first. *)
LEMMA OrderInit == PollerInit => OrderInv
<1> SUFFICES ASSUME PollerInit PROVE OrderInv
  OBVIOUS
<1>1. handled = <<>> /\ Taken = <<>> /\ inbox = <<>> /\ arrived = 0 /\ overrun = {}
  BY DEF PollerInit, Taken
<1>2. Seen = <<>>
  BY <1>1, ConcatEmptySeq DEF Seen
<1>3. Len(inbox) = 0 /\ DOMAIN inbox = {} /\ Listed(Seen) = {} /\ Increasing(Seen)
  BY <1>1, <1>2 DEF Listed, Increasing
<1> QED BY <1>1, <1>3, OrderFacts, PollerAssumption

(* No step loses a message but by overflow, or doubles or reorders one. *)
LEMMA OrderNext == ThreadInv /\ OrderInv /\ [PollerNext]_allVars => OrderInv'
<1> SUFFICES ASSUME ThreadInv, OrderInv, [PollerNext]_allVars PROVE OrderInv'
  OBVIOUS
<1>1. /\ inbox \in Seq(Nat) /\ arrived \in Nat /\ Len(inbox) \in Nat
      /\ Len(inbox) <= arrived /\ MailboxCapacity \in Nat
      /\ MailboxCapacity > 0 => Len(inbox) <= MailboxCapacity
      /\ \A i \in DOMAIN inbox : inbox[i] = arrived - Len(inbox) + i
      /\ Listed(Seen) \cup overrun = 1 .. (arrived - Len(inbox))
      /\ Listed(Seen) \cap overrun = {} /\ Increasing(Seen)
  BY OrderFacts, PollerAssumption, LenProperties DEF ThreadInv
<1>2. handled \in Seq(Nat) /\ Taken \in Seq(Nat) /\ Seen \in Seq(Nat)
  BY SeenIsSeq DEF ThreadInv
<1> DEFINE NewInv ==
      /\ Len(inbox') <= arrived'
      /\ MailboxCapacity > 0 => Len(inbox') <= MailboxCapacity
      /\ \A i \in DOMAIN inbox' : inbox'[i] = arrived' - Len(inbox') + i
      /\ Listed(Seen') \cup overrun' = 1 .. (arrived' - Len(inbox'))
      /\ Listed(Seen') \cap overrun' = {}
      /\ Increasing(Seen')
<1>3. NewInv => OrderInv'
  BY Zenon DEF OrderInv, HandledInOrder, Listed, Seen, Taken, Increasing
<1> HIDE DEF NewInv
<1>4. ASSUME UNCHANGED <<inbox, arrived, overrun>>, Seen' = Seen PROVE OrderInv'
  BY <1>1, <1>3, <1>4, Zenon DEF NewInv
<1>5. ASSUME inbox # <<>>
      PROVE  /\ Head(inbox) = arrived - Len(inbox) + 1 /\ Head(inbox) \in Nat
             /\ Tail(inbox) \in Seq(Nat) /\ Len(Tail(inbox)) = Len(inbox) - 1
             /\ \A i \in DOMAIN Tail(inbox) :
                  Tail(inbox)[i] = arrived - Len(Tail(inbox)) + i
             /\ Head(inbox) \notin 1 .. (arrived - Len(inbox))
             /\ 1 .. (arrived - Len(Tail(inbox)))
                  = (1 .. (arrived - Len(inbox))) \cup {Head(inbox)}
  BY <1>1, <1>5, FrontIsNext, Zenon
<1>6. CASE Arrive
  <2>0. Seen' = Seen /\ arrived' = arrived + 1
    BY <1>6 DEF Arrive, Seen, Taken
  <2>1. CASE ~MailboxFull
    <3>1. inbox' = Append(inbox, arrived + 1) /\ overrun' = overrun
      BY <1>6, <2>1 DEF Arrive
    <3>2. /\ Len(inbox') = Len(inbox) + 1
          /\ \A i \in DOMAIN inbox' : inbox'[i] = arrived' - Len(inbox') + i
      BY <1>1, <2>0, <3>1, NewestLast
    <3>3. MailboxCapacity > 0 => Len(inbox') <= MailboxCapacity
      BY <1>1, <2>1, <3>2 DEF MailboxFull
    <3>4. arrived' - Len(inbox') = arrived - Len(inbox) /\ Len(inbox') <= arrived'
      BY <1>1, <2>0, <3>2
    <3> QED BY <1>1, <1>3, <2>0, <3>1, <3>2, <3>3, <3>4, Zenon DEF NewInv
  <2>2. CASE MailboxFull
    <3>1. inbox # <<>> /\ inbox' = Append(Tail(inbox), arrived + 1)
          /\ overrun' = overrun \cup {Head(inbox)}
      BY <1>1, <1>6, <2>2 DEF Arrive, MailboxFull
    <3>2. /\ Len(inbox') = Len(inbox)
          /\ \A i \in DOMAIN inbox' : inbox'[i] = arrived' - Len(inbox') + i
      <4> DEFINE r == Tail(inbox)
      <4>1. /\ r \in Seq(Nat) /\ Len(r) = Len(inbox) - 1
            /\ \A i \in DOMAIN r : r[i] = arrived - Len(r) + i
        BY <1>5, <3>1
      <4>2. inbox' = Append(r, arrived + 1)
        BY <3>1
      <4> HIDE DEF r
      <4>3. /\ Len(Append(r, arrived + 1)) = Len(r) + 1
            /\ \A i \in DOMAIN Append(r, arrived + 1) :
                 Append(r, arrived + 1)[i]
                   = (arrived + 1) - Len(Append(r, arrived + 1)) + i
        BY <1>1, <4>1, NewestLast, Zenon
      <4> QED BY <1>1, <2>0, <4>1, <4>2, <4>3
    <3>3. 1 .. (arrived' - Len(inbox')) = (1 .. (arrived - Len(inbox))) \cup {Head(inbox)}
      <4>1. arrived' - Len(inbox') = arrived - Len(Tail(inbox))
        BY <1>1, <1>5, <2>0, <3>1, <3>2
      <4> QED BY <1>5, <3>1, <4>1
    <3>4. Head(inbox) \notin Listed(Seen)
      BY <1>1, <1>5, <3>1, Zenon
    <3>5. Len(inbox') <= arrived' /\ (MailboxCapacity > 0 => Len(inbox') <= MailboxCapacity)
      BY <1>1, <2>0, <3>2
    <3>6. Listed(Seen') \cup overrun' = 1 .. (arrived' - Len(inbox'))
      BY <1>1, <2>0, <3>1, <3>3, Zenon
    <3>7. Listed(Seen') \cap overrun' = {}
      BY <1>1, <2>0, <3>1, <3>4, Zenon
    <3> QED BY <1>1, <1>3, <2>0, <3>2, <3>5, <3>6, <3>7, Zenon DEF NewInv
  <2> QED BY <2>1, <2>2
<1>7. CASE Receive /\ thread' = "on_message"
  <2>1. /\ inbox # <<>> /\ inbox' = Tail(inbox) /\ Taken' = <<Head(inbox)>>
        /\ Taken = <<>> /\ UNCHANGED <<handled, arrived, overrun>>
    BY <1>7 DEF Receive, Taken
  <2>2. Seen = handled /\ Seen' = Append(Seen, Head(inbox))
    <3>1. Seen = handled
      BY <1>2, <2>1, ConcatEmptySeq DEF Seen
    <3>2. Append(handled, Head(inbox)) = handled \o <<Head(inbox)>>
      BY <1>2, <1>5, <2>1, AppendIsConcat
    <3> QED BY <2>1, <3>1, <3>2 DEF Seen
  <2>3. Listed(Seen') = Listed(Seen) \cup {Head(inbox)}
    BY <1>2, <1>5, <2>1, <2>2, PutLast
  <2>4. Increasing(Seen')
    <3>1. \A m \in Listed(Seen) : m \in 1 .. (arrived - Len(inbox))
      BY <1>1, Zenon
    <3>2. \A m \in Listed(Seen) : m < Head(inbox)
      BY <1>1, <1>5, <2>1, <3>1
    <3> QED BY <1>1, <1>2, <1>5, <2>1, <2>2, <3>2, LargestLast, Zenon
  <2>5. Head(inbox) \notin overrun
    BY <1>1, <1>5, <2>1, Zenon
  <2>6. Listed(Seen') \cup overrun' = 1 .. (arrived' - Len(inbox'))
    BY <1>1, <1>5, <2>1, <2>3, Zenon
  <2>7. Listed(Seen') \cap overrun' = {}
    BY <1>1, <2>1, <2>3, <2>5, Zenon
  <2>8. Len(inbox') <= arrived' /\ (MailboxCapacity > 0 => Len(inbox') <= MailboxCapacity)
    BY <1>1, <1>5, <2>1
  <2>9. \A i \in DOMAIN inbox' : inbox'[i] = arrived' - Len(inbox') + i
    BY <1>5, <2>1
  <2> QED BY <1>3, <2>4, <2>6, <2>7, <2>8, <2>9, Zenon DEF NewInv
<1>8. CASE Receive /\ thread' # "on_message"
  <2>1. Taken' = Taken /\ UNCHANGED <<handled, inbox, arrived, overrun>>
    BY <1>8 DEF Receive, Taken
  <2> QED BY <1>4, <2>1 DEF Seen
<1>9. CASE OnMessage
  <2>1. /\ Taken = hand /\ Taken' = <<>> /\ handled' = handled \o Taken
        /\ UNCHANGED <<inbox, arrived, overrun>>
    BY <1>9 DEF OnMessage, Taken
  <2>2. Seen' = Seen
    BY <1>2, <2>1, ConcatEmptySeq DEF Seen
  <2> QED BY <1>4, <2>1, <2>2
<1>10. CASE \/ (Next /\ UNCHANGED pollerVars) \/ UNCHANGED allVars
            \/ (\E h \in SUBSET Handlers : Start(h)) \/ Spawn \/ Stop \/ Join
            \/ Test \/ Complete \/ OnCompletion
  <2>1. UNCHANGED <<handled, inbox, arrived, overrun>>
    BY <1>10, Zenon
       DEF pollerVars, allVars, Start, Spawn, Stop, Join, Test, Complete, OnCompletion
  <2>2. Taken' = Taken
    BY <1>10 DEF pollerVars, allVars, Start, Spawn, Stop, Join, Joinable, Test, Complete,
                 OnCompletion, Taken, ThreadInv
  <2> QED BY <1>4, <2>1, <2>2 DEF Seen
<1> QED BY <1>6, <1>7, <1>8, <1>9, <1>10 DEF PollerNext, Step

(* Every message is handled at most once and in order, and lost by         *)
(* overflow of the inbox only, for any capacity and through any number of  *)
(* starts and stops.                                                       *)
THEOREM MessagesInOrder == PollerSpec => []HandledInOrder
<1>1. OrderInv => HandledInOrder
  BY DEF OrderInv
<1> QED
  BY ThreadInvInit, ThreadInvNext, OrderInit, OrderNext, <1>1, PTL DEF PollerSpec, allVars

-----------------------------------------------------------------------------
(***************************************************************************)
(* The buffer pool                                                         *)
(***************************************************************************)

(* The strengthening the induction needs: the registry's keys are those up *)
(* to its counter, so a new one is fresh, and whatever a thread holds or   *)
(* has given back is a key of the pool.                                    *)
PoolInv ==
  /\ nextRegion \in Nat /\ regions = 1 .. nextRegion
  /\ knownKeys \subseteq regions
  /\ free \in Seq(knownKeys) /\ Distinct(free)
  /\ held \in [Threads -> knownKeys \cup {None}]
  /\ last \in [Threads -> knownKeys \cup {None}]
  /\ knownKeys = Listed(free) \cup HeldKeys
  /\ misused \in BOOLEAN

(* FreeKeys in the words of SequenceLemmas. *)
LEMMA FreeKeysAreListed == FreeKeys = Listed(free) /\ FreeKeys' = Listed(free')
  BY DEF FreeKeys, Listed

(* A key of the pool is not the mark for none. *)
LEMMA KeysAreSome == PoolInv => None \notin knownKeys
<1>1. ASSUME NEW n \in Nat PROVE 0 \notin 1 .. n
  OBVIOUS
<1> QED BY <1>1 DEF PoolInv, None

(* The constructor has listed each buffer once. *)
LEMMA PoolInvInit == PoolInit => PoolInv
<1> SUFFICES ASSUME PoolInit PROVE PoolInv
  OBVIOUS
<1> USE PoolAssumption
<1>1. free \in Seq(1 .. Buffers) /\ DOMAIN free = 1 .. Buffers
      /\ \A i \in 1 .. Buffers : free[i] = i
  <2>1. free \in [1 .. Buffers -> 1 .. Buffers]
    BY DEF PoolInit
  <2> QED BY <2>1 DEF PoolInit
<1>2. Listed(free) = 1 .. Buffers /\ Distinct(free)
  BY <1>1 DEF Listed, Distinct
<1>3. HeldKeys = {}
  BY DEF PoolInit, HeldKeys
<1> QED BY <1>1, <1>2, <1>3, Zenon DEF PoolInit, PoolInv, None

(* Giving a known key back lists it, once. *)
LEMMA PutBackLists ==
  ASSUME PoolInv, NEW k \in knownKeys
  PROVE  /\ PutBack(k) \in Seq(knownKeys) /\ Distinct(PutBack(k))
         /\ Listed(PutBack(k)) = Listed(free) \cup {k}
<1>1. CASE k \in FreeKeys
  BY <1>1, FreeKeysAreListed DEF PutBack, PoolInv
<1>2. CASE k \notin FreeKeys
  <2>1. PutBack(k) = Append(free, k) /\ k \notin Listed(free)
    BY <1>2, FreeKeysAreListed DEF PutBack
  <2> QED BY <2>1, PutLast DEF PoolInv
<1> QED BY <1>1, <1>2

(* Every operation of the pool keeps the invariant. *)
LEMMA PoolInvNext == PoolInv /\ [PoolNext]_poolVars => PoolInv'
<1> SUFFICES ASSUME PoolInv, [PoolNext]_poolVars PROVE PoolInv'
  OBVIOUS
<1>1. ASSUME NEW t \in Threads, AcquireFree(t) PROVE PoolInv'
  <2>1. /\ Head(free) \in knownKeys /\ free' \in Seq(knownKeys)
        /\ Listed(free) = {Head(free)} \cup Listed(free') /\ Distinct(free')
    BY <1>1, TakeFront DEF PoolInv, AcquireFree
  <2>2. /\ held' \in [Threads -> knownKeys \cup {None}]
        /\ last' \in [Threads -> knownKeys \cup {None}]
    BY <1>1, <2>1 DEF PoolInv, AcquireFree
  <2>3. HeldKeys' = HeldKeys \cup {Head(free)}
    <3>1. Head(free) # None
      BY <2>1, KeysAreSome
    <3> QED BY <1>1, <3>1 DEF PoolInv, AcquireFree, HeldKeys
  <2> QED BY <1>1, <2>1, <2>2, <2>3 DEF PoolInv, AcquireFree
<1>2. ASSUME NEW t \in Threads, AcquireNew(t) PROVE PoolInv'
  <2>1. nextRegion' \in Nat /\ regions' = 1 .. nextRegion' /\ nextRegion' \in regions'
        /\ regions \subseteq regions' /\ nextRegion' # None
    BY <1>2 DEF PoolInv, AcquireNew, Register, None
  <2>2. knownKeys \subseteq knownKeys' /\ knownKeys' \subseteq regions'
    BY <1>2, <2>1 DEF PoolInv, AcquireNew
  <2>3. /\ free' \in Seq(knownKeys') /\ Distinct(free')
        /\ Listed(free') = Listed(free) /\ Listed(free) = {}
    <3>1. free' = <<>> /\ free = <<>>
      BY <1>2 DEF AcquireNew
    <3> QED BY <3>1 DEF Listed, Distinct
  <2>4. /\ held' \in [Threads -> knownKeys' \cup {None}]
        /\ last' \in [Threads -> knownKeys' \cup {None}]
    BY <1>2 DEF PoolInv, AcquireNew
  <2>5. HeldKeys' = HeldKeys \cup {nextRegion'}
    BY <1>2, <2>1 DEF PoolInv, AcquireNew, HeldKeys
  <2> QED BY <1>2, <2>1, <2>2, <2>3, <2>4, <2>5 DEF PoolInv, AcquireNew
<1>3. ASSUME NEW t \in Threads, Release(t) PROVE PoolInv'
  <2>1. held[t] \in knownKeys
    BY <1>3 DEF PoolInv, Release
  <2>2. /\ free' \in Seq(knownKeys) /\ Distinct(free')
        /\ Listed(free') = Listed(free) \cup {held[t]}
    BY <1>3, <2>1, PutBackLists DEF Release
  <2>3. /\ held' \in [Threads -> knownKeys \cup {None}]
        /\ last' \in [Threads -> knownKeys \cup {None}]
    BY <1>3, <2>1 DEF PoolInv, Release
  <2>4. HeldKeys' \subseteq HeldKeys /\ HeldKeys \subseteq HeldKeys' \cup {held[t]}
    BY <1>3 DEF PoolInv, Release, HeldKeys
  <2> QED BY <1>3, <2>1, <2>2, <2>3, <2>4 DEF PoolInv, Release
<1>4. ASSUME NEW t \in Threads, ReleaseAgain(t) PROVE PoolInv'
  <2>1. last[t] \in knownKeys
    BY <1>4 DEF PoolInv, ReleaseAgain
  <2>2. /\ free' \in Seq(knownKeys) /\ Distinct(free')
        /\ Listed(free') = Listed(free) \cup {last[t]}
    BY <1>4, <2>1, PutBackLists DEF ReleaseAgain
  <2>3. last' \in [Threads -> knownKeys \cup {None}] /\ HeldKeys' = HeldKeys
    BY <1>4 DEF PoolInv, ReleaseAgain, HeldKeys
  <2>4. misused' \in BOOLEAN
    BY <1>4 DEF ReleaseAgain
  <2> QED BY <1>4, <2>1, <2>2, <2>3, <2>4 DEF PoolInv, ReleaseAgain
<1>5. CASE RegisterOther
  <2>1. nextRegion' \in Nat /\ regions' = 1 .. nextRegion'
    BY <1>5 DEF PoolInv, RegisterOther, Register
  <2>2. knownKeys' \subseteq regions'
    BY <1>5 DEF PoolInv, RegisterOther, Register
  <2> QED BY <1>5, <2>1, <2>2 DEF PoolInv, RegisterOther, HeldKeys
<1>6. CASE UNCHANGED poolVars
  BY <1>6 DEF PoolInv, poolVars, HeldKeys
<1> QED BY <1>1, <1>2, <1>3, <1>4, <1>5, <1>6 DEF PoolNext

(* No buffer is lost, unregistered or listed free twice, whatever threads  *)
(* share the pool and however it grows.                                    *)
THEOREM PoolLosesNoKey == PoolSpec => []NoKeyLost
<1>1. PoolInv => NoKeyLost
  BY FreeKeysAreListed DEF PoolInv, NoKeyLost, Distinct
<1> QED BY PoolInvInit, PoolInvNext, <1>1, PTL DEF PoolSpec

-----------------------------------------------------------------------------

(* A borrowed buffer is one thread's, given that it is a key of the pool   *)
(* that no other thread and no free list has.                              *)
LEMMA ExclusiveNext == PoolInv /\ Exclusive /\ [PoolNext]_poolVars => Exclusive'
<1> SUFFICES ASSUME PoolInv, Exclusive, [PoolNext]_poolVars, ~misused' PROVE Exclusive'
  BY DEF Exclusive
<1> DEFINE Alone == /\ HeldKeys \cap Listed(free) = {}
                    /\ \A s, t \in Threads : held[s] # None /\ held[s] = held[t] => s = t
<1>1. ASSUME NEW t \in Threads, AcquireFree(t) PROVE Exclusive'
  <2>1. Alone
    BY <1>1, FreeKeysAreListed DEF Exclusive, AcquireFree
  <2>2. /\ Head(free) \in knownKeys /\ Head(free) \notin Listed(free')
        /\ Listed(free) = {Head(free)} \cup Listed(free')
    BY <1>1, TakeFront DEF PoolInv, AcquireFree
  <2>3. \A s \in Threads : held[s] # Head(free)
    <3>1. Head(free) # None
      BY <2>2, KeysAreSome
    <3> QED BY <2>1, <2>2, <3>1 DEF HeldKeys
  <2>4. HeldKeys' \subseteq HeldKeys \cup {Head(free)}
    BY <1>1 DEF PoolInv, AcquireFree, HeldKeys
  <2>5. HeldKeys' \cap Listed(free') = {}
    BY <2>1, <2>2, <2>4, Zenon
  <2>6. \A s, u \in Threads : held'[s] # None /\ held'[s] = held'[u] => s = u
    BY <1>1, <2>1, <2>3, Zenon DEF PoolInv, AcquireFree
  <2> QED BY <2>5, <2>6, FreeKeysAreListed DEF Exclusive
<1>2. ASSUME NEW t \in Threads, AcquireNew(t) PROVE Exclusive'
  <2>1. Alone
    BY <1>2, FreeKeysAreListed DEF Exclusive, AcquireNew
  <2>2. nextRegion' \notin knownKeys /\ nextRegion' # None
    BY <1>2 DEF PoolInv, AcquireNew, Register, None
  <2>3. \A s \in Threads : held[s] # nextRegion'
    BY <2>2 DEF PoolInv
  <2>4. Listed(free') = {}
    <3>1. free' = <<>>
      BY <1>2 DEF AcquireNew
    <3> QED BY <3>1 DEF Listed
  <2>5. \A s, u \in Threads : held'[s] # None /\ held'[s] = held'[u] => s = u
    BY <1>2, <2>1, <2>3, Zenon DEF PoolInv, AcquireNew
  <2> QED BY <2>4, <2>5, FreeKeysAreListed, Zenon DEF Exclusive
<1>3. ASSUME NEW t \in Threads, Release(t) PROVE Exclusive'
  <2>1. Alone
    BY <1>3, FreeKeysAreListed DEF Exclusive, Release
  <2>2. held[t] \in knownKeys
    BY <1>3 DEF PoolInv, Release
  <2>3. Listed(free') = Listed(free) \cup {held[t]}
    BY <1>3, <2>2, PutBackLists, Zenon DEF Release
  <2>4. HeldKeys' \subseteq HeldKeys \ {held[t]}
    BY <1>3, <2>1 DEF PoolInv, Release, HeldKeys
  <2>5. HeldKeys' \cap Listed(free') = {}
    BY <2>1, <2>3, <2>4, Zenon
  <2>6. \A s, u \in Threads : held'[s] # None /\ held'[s] = held'[u] => s = u
    BY <1>3, <2>1, Zenon DEF PoolInv, Release
  <2> QED BY <2>5, <2>6, FreeKeysAreListed DEF Exclusive
<1>4. ASSUME NEW t \in Threads, ReleaseAgain(t) PROVE Exclusive'
  <2>1. ~misused /\ last[t] \notin HeldKeys
    BY <1>4, Zenon DEF ReleaseAgain
  <2>2. Alone
    BY <2>1, FreeKeysAreListed DEF Exclusive
  <2>3. last[t] \in knownKeys
    BY <1>4 DEF PoolInv, ReleaseAgain
  <2>4. Listed(free') = Listed(free) \cup {last[t]}
    BY <1>4, <2>3, PutBackLists, Zenon DEF ReleaseAgain
  <2>5. HeldKeys' = HeldKeys /\ held' = held
    BY <1>4 DEF ReleaseAgain, HeldKeys
  <2> QED BY <2>1, <2>2, <2>4, <2>5, FreeKeysAreListed DEF Exclusive
<1>5. CASE RegisterOther
  BY <1>5 DEF Exclusive, RegisterOther, HeldKeys, FreeKeys
<1>6. CASE UNCHANGED poolVars
  BY <1>6 DEF Exclusive, poolVars, HeldKeys, FreeKeys
<1> QED BY <1>1, <1>2, <1>3, <1>4, <1>5, <1>6, Zenon DEF PoolNext

(* No two threads share a buffer, for any number of threads, as long as no *)
(* buffer is given back a second time while another thread uses it.        *)
THEOREM BuffersAreExclusive == PoolSpec => []Exclusive
<1>1. PoolInit => Exclusive
  BY DEF PoolInit, Exclusive, HeldKeys
<1> QED BY PoolInvInit, PoolInvNext, ExclusiveNext, <1>1, PTL DEF PoolSpec
=============================================================================
