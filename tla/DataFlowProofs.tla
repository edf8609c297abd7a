--------------------------- MODULE DataFlowProofs ---------------------------
(***************************************************************************)
(* The flow of requests in DataPlane, for any nodes in any of its roles,   *)
(* any queue limits and any number of requests: the invariant that the     *)
(* theorems of DataPlaneProofs rest on.                                    *)
(***************************************************************************)
EXTENDS DataPlane, SequenceLemmas

Answerers == Workers \cup {Server}
Askers == Clients \cup Controllers
Positive == Nat \ {0}

Tasks == [by : Submitters, wr : Positive]
Messages ==
  [topic : {"task", "result", "tensor"}, from : Nodes, task : Tasks, region : Nat]
Jobs == [task : Tasks, source : Nodes]

-----------------------------------------------------------------------------
(***************************************************************************)
(* Queues of messages                                                      *)
(***************************************************************************)

TasksOf(q) == {m.task : m \in Listed(q)}

Once(q) == \A i, j \in DOMAIN q : q[i].task = q[j].task => i = j

(* Of messages with one sender and one submitter, x is about the earlier   *)
(* request.                                                                *)
Before(x, y) == x.from = y.from /\ x.task.by = y.task.by => x.task.wr < y.task.wr

InOrder(q) == \A i, j \in DOMAIN q : i < j => Before(q[i], q[j])

(* What is taken from the front is ahead of the rest, and about another    *)
(* request.                                                                *)
LEMMA TakeMessage ==
  ASSUME NEW S, NEW s \in Seq(S), s # <<>>
  PROVE  /\ TasksOf(s) = {Head(s).task} \cup TasksOf(Tail(s))
         /\ Once(s) => Once(Tail(s)) /\ Head(s).task \notin TasksOf(Tail(s))
         /\ InOrder(s) => InOrder(Tail(s)) /\ \A x \in Listed(Tail(s)) : Before(Head(s), x)
<1>1. /\ Len(Tail(s)) = Len(s) - 1 /\ Len(s) \in Nat /\ Len(s) > 0
      /\ DOMAIN s = 1 .. Len(s) /\ DOMAIN Tail(s) = 1 .. Len(Tail(s))
      /\ Head(s) = s[1]
      /\ \A i \in 1 .. Len(Tail(s)) : Tail(s)[i] = s[i + 1]
  BY HeadTailProperties, LenProperties
<1>2. ASSUME NEW i \in DOMAIN Tail(s)
      PROVE  i + 1 \in DOMAIN s /\ 1 < i + 1 /\ Tail(s)[i] = s[i + 1]
  BY <1>1
<1>3. 1 \in DOMAIN s
  BY <1>1
<1>4. TasksOf(s) = {Head(s).task} \cup TasksOf(Tail(s))
  BY TakeFront DEF TasksOf
<1>5. ASSUME Once(s)
      PROVE  Once(Tail(s)) /\ Head(s).task \notin TasksOf(Tail(s))
  <2>1. ASSUME NEW i \in DOMAIN Tail(s), NEW j \in DOMAIN Tail(s),
               Tail(s)[i].task = Tail(s)[j].task
        PROVE  i = j
    <3>1. i + 1 = j + 1
      BY <1>2, <1>5, <2>1 DEF Once
    <3> QED BY <3>1, <1>1
  <2>2. ASSUME NEW i \in DOMAIN Tail(s)
        PROVE  Tail(s)[i].task # Head(s).task
    <3>1. i + 1 # 1
      BY <1>1
    <3> QED BY <1>1, <1>2, <1>3, <1>5, <3>1, Zenon DEF Once
  <2> QED BY <2>1, <2>2, Zenon DEF Once, TasksOf, Listed
<1>6. ASSUME InOrder(s)
      PROVE  InOrder(Tail(s)) /\ \A x \in Listed(Tail(s)) : Before(Head(s), x)
  <2>1. ASSUME NEW i \in DOMAIN Tail(s), NEW j \in DOMAIN Tail(s), i < j
        PROVE  Before(Tail(s)[i], Tail(s)[j])
    <3>1. i + 1 < j + 1
      BY <1>1, <2>1
    <3> QED BY <1>2, <1>6, <3>1, Zenon DEF InOrder
  <2>2. ASSUME NEW i \in DOMAIN Tail(s)
        PROVE  Before(Head(s), Tail(s)[i])
    BY <1>1, <1>2, <1>3, <1>6, Zenon DEF InOrder
  <2> QED BY <2>1, <2>2, Zenon DEF InOrder, Listed
<1> QED BY <1>4, <1>5, <1>6, Zenon

(* What is appended about a new request keeps the requests apart, and in   *)
(* order if it is the latest.                                              *)
LEMMA PutMessage ==
  ASSUME NEW S, NEW s \in Seq(S), NEW e \in S
  PROVE  /\ TasksOf(Append(s, e)) = TasksOf(s) \cup {e.task}
         /\ Once(s) /\ e.task \notin TasksOf(s) => Once(Append(s, e))
         /\ InOrder(s) /\ (\A x \in Listed(s) : Before(x, e)) => InOrder(Append(s, e))
<1>1. /\ Len(s) \in Nat
      /\ DOMAIN s = 1 .. Len(s) /\ DOMAIN Append(s, e) = 1 .. Len(s) + 1
      /\ \A i \in 1 .. Len(s) : Append(s, e)[i] = s[i]
      /\ Append(s, e)[Len(s) + 1] = e
  BY AppendProperties, LenProperties
<1>2. \A i \in DOMAIN Append(s, e) : i \in DOMAIN s \/ i = Len(s) + 1
  BY <1>1
<1>3. \A i \in DOMAIN s : i < Len(s) + 1 /\ Append(s, e)[i] = s[i]
  BY <1>1
<1>4. TasksOf(Append(s, e)) = TasksOf(s) \cup {e.task}
  BY PutLast DEF TasksOf
<1>5. ASSUME Once(s), e.task \notin TasksOf(s)
      PROVE  Once(Append(s, e))
  <2>1. \A i \in DOMAIN s : s[i].task # e.task
    BY <1>5, Zenon DEF TasksOf, Listed
  <2> QED BY <1>1, <1>2, <1>3, <1>5, <2>1, Zenon DEF Once
<1>6. ASSUME InOrder(s), \A x \in Listed(s) : Before(x, e)
      PROVE  InOrder(Append(s, e))
  <2>1. \A i \in DOMAIN s : Before(s[i], e)
    BY <1>6, Zenon DEF Listed
  <2>2. ASSUME NEW i \in DOMAIN Append(s, e), NEW j \in DOMAIN Append(s, e), i < j
        PROVE  Before(Append(s, e)[i], Append(s, e)[j])
    <3>1. i \in DOMAIN s
      BY <1>1, <2>2
    <3>2. CASE j \in DOMAIN s
      BY <1>3, <1>6, <2>2, <3>1, <3>2, Zenon DEF InOrder
    <3>3. CASE j = Len(s) + 1
      BY <1>1, <1>3, <2>1, <3>1, <3>3, Zenon
    <3> QED BY <1>2, <3>2, <3>3, Zenon
  <2> QED BY <2>2, Zenon DEF InOrder
<1> QED BY <1>4, <1>5, <1>6, Zenon

(* The requests a full queue drops. *)
Lost(q, limit) == IF IsFull(q, limit) THEN {Head(q).task} ELSE {}

(* A bounded push drops at most the oldest message, and is a push to the   *)
(* rest.                                                                   *)
LEMMA PushMessage ==
  ASSUME NEW S, NEW q \in Seq(S), NEW e \in S, NEW limit \in Nat,
         Once(q), InOrder(q),
         e.task \notin TasksOf(q), \A x \in Listed(q) : Before(x, e)
  PROVE  /\ PushBounded(q, e, limit) \in Seq(S)
         /\ Listed(PushBounded(q, e, limit)) \subseteq Listed(q) \cup {e}
         /\ TasksOf(PushBounded(q, e, limit))
              = (TasksOf(q) \ Lost(q, limit)) \cup {e.task}
         /\ Lost(q, limit) \subseteq TasksOf(q)
         /\ Once(PushBounded(q, e, limit)) /\ InOrder(PushBounded(q, e, limit))
<1>1. CASE IsFull(q, limit)
  <2>1. q # <<>>
    BY <1>1 DEF IsFull
  <2>2. /\ Tail(q) \in Seq(S) /\ Listed(q) = {Head(q)} \cup Listed(Tail(q))
        /\ TasksOf(q) = {Head(q).task} \cup TasksOf(Tail(q))
        /\ Once(Tail(q)) /\ Head(q).task \notin TasksOf(Tail(q)) /\ InOrder(Tail(q))
    BY <2>1, TakeFront, TakeMessage, Zenon
  <2>3. PICK rest \in Seq(S) : rest = Tail(q)
    BY <2>2, Zenon
  <2>4. PushBounded(q, e, limit) = Append(rest, e) /\ Lost(q, limit) = {Head(q).task}
    BY <1>1, <2>3, Zenon DEF PushBounded, Lost
  <2>5. /\ Once(rest) /\ e.task \notin TasksOf(rest)
        /\ InOrder(rest) /\ \A x \in Listed(rest) : Before(x, e)
    BY <2>2, <2>3, Zenon
  <2>6. Append(rest, e) \in Seq(S) /\ Listed(Append(rest, e)) = Listed(rest) \cup {e}
    BY PutLast, Zenon
  <2>7. /\ TasksOf(Append(rest, e)) = TasksOf(rest) \cup {e.task}
        /\ Once(Append(rest, e)) /\ InOrder(Append(rest, e))
    BY <2>5, PutMessage, Zenon
  <2> QED BY <2>2, <2>3, <2>4, <2>6, <2>7, Zenon
<1>2. CASE ~IsFull(q, limit)
  <2>1. PushBounded(q, e, limit) = Append(q, e) /\ Lost(q, limit) = {}
    BY <1>2, Zenon DEF PushBounded, Lost
  <2>2. /\ Append(q, e) \in Seq(S) /\ Listed(Append(q, e)) = Listed(q) \cup {e}
    BY PutLast, Zenon
  <2>3. /\ TasksOf(Append(q, e)) = TasksOf(q) \cup {e.task}
        /\ Once(Append(q, e)) /\ InOrder(Append(q, e))
    BY PutMessage, Zenon
  <2> QED BY <2>1, <2>2, <2>3, Zenon
<1> QED BY <1>1, <1>2, Zenon

-----------------------------------------------------------------------------
(***************************************************************************)
(* What a step does to the messages                                        *)
(***************************************************************************)

(* An established connection is that of a named client, and can send. *)
ClientInv ==
  /\ qp \in [Clients -> QueuePairState] /\ established \in [Clients -> BOOLEAN]
  /\ \A c \in Clients : established[c] => c \in Submitters /\ IsReadyToSend(qp[c])

(* Regions of node n that are no payload. *)
Pooled(n) == IF n \in Sessions THEN Buffers ELSE 0

(* Types, and that a submitter registers one payload per request. *)
FlowType ==
  /\ inbox \in [Nodes -> Seq(Messages)] /\ got \in [Nodes -> Seq(Messages)]
  /\ job \in [Nodes -> {<<>>} \cup {<<t>> : t \in Jobs}]
  /\ dropped \subseteq Tasks
  /\ nextId \in [Nodes -> Positive]
  /\ registry \in [Nodes -> [regions : SUBSET Nat, next : Nat]]
  /\ \A n \in Submitters : registry[n] = RegistryOf(Pooled(n) + nextId[n] - 1)

(* Message m may be on its way to node n, or have reached it: tasks go to  *)
(* those that answer, or back to a controller that named no target,        *)
(* results to those that asked, tensors among the runtimes.                *)
Addressed(n, m) ==
  /\ \/ /\ m.topic = "task" /\ m.from = m.task.by
        /\ m.from \in Askers /\ n \in Answerers \cup {m.from}
     \/ m.topic = "result" /\ m.from \in Answerers /\ n = m.task.by /\ n \in Askers
     \/ m.topic = "tensor" /\ m.from = m.task.by /\ m.from \in Runtimes /\ n \in Runtimes
  /\ m.region = IF m.topic = "result" THEN 0 ELSE Pooled(m.from) + m.task.wr

(* Every message is where it may be, about a request that was made, and a  *)
(* task is in the hands of one who answers it to its submitter.            *)
RouteInv ==
  /\ \A n \in Nodes : \A m \in Listed(inbox[n]) \cup Listed(got[n]) :
       Addressed(n, m) /\ m.task.wr < nextId[m.task.by]
  /\ \A n \in Nodes : \A t \in Listed(job[n]) :
       /\ n \in Answerers /\ t.source = t.task.by /\ t.source \in Askers
       /\ t.task.wr < nextId[t.task.by]

(* PostSend with a pair that can send. *)
Deliver(to, m) ==
  /\ inbox' = [inbox EXCEPT ![to] = PushBounded(@, m, MailboxCapacity)]
  /\ dropped' = dropped \cup Lost(inbox[to], MailboxCapacity)

(* A new request enters the broker. *)
EnterStep(n, to, m) ==
  /\ n \in Submitters /\ to \in Nodes /\ m \in Messages /\ Addressed(to, m)
  /\ m.from = n /\ m.topic # "result" /\ m.task = [by |-> n, wr |-> nextId[n]]
  /\ Deliver(to, m)
  /\ nextId' = [nextId EXCEPT ![n] = @ + 1]
  /\ registry' = [registry EXCEPT ![n] = RegistryOf(Pooled(n) + nextId[n])]
  /\ UNCHANGED <<job, got>>

(* A message reaches its user for good. *)
KeepStep(n) ==
  /\ n \in Nodes /\ inbox[n] # <<>>
  /\ inbox' = [inbox EXCEPT ![n] = Tail(@)]
  /\ got' = [got EXCEPT ![n] = Append(@, Head(inbox[n]))]
  /\ UNCHANGED <<dropped, nextId, registry, job>>

(* A message is taken up as a task. *)
TakeStep(n) ==
  /\ n \in Answerers /\ job[n] = <<>> /\ inbox[n] # <<>>
  /\ inbox' = [inbox EXCEPT ![n] = Tail(@)]
  /\ job' = [job EXCEPT ![n] = <<AsTask(Head(inbox[n]))>>]
  /\ UNCHANGED <<dropped, nextId, registry, got>>

(* A task in hand is answered; its submitter's counters do not change. *)
AnswerStep(n, t) ==
  /\ n \in Answerers /\ t \in Jobs /\ job[n] = <<t>>
  /\ t.source = t.task.by /\ t.source \in Askers
  /\ Deliver(t.source, Result(n, t.task))
  /\ job' = [job EXCEPT ![n] = <<>>]
  /\ nextId' \in [Nodes -> Positive] /\ \A b \in Submitters : nextId'[b] = nextId[b]
  /\ UNCHANGED <<registry, got>>

(* Nothing happens to the messages. *)
RestStep == UNCHANGED <<inbox, dropped, nextId, registry, job, got>>

FlowStep ==
  \/ \E n \in Submitters, to \in Nodes, m \in Messages : EnterStep(n, to, m)
  \/ \E n \in Nodes : KeepStep(n)
  \/ \E n \in Answerers : TakeStep(n) \/ \E t \in Jobs : AnswerStep(n, t)
  \/ RestStep

(* The roles of the nodes exclude each other. *)
LEMMA Roles ==
  /\ Submitters \subseteq Nodes /\ Answerers \subseteq Nodes /\ Askers \subseteq Nodes
  /\ Answerers \cap Askers = {} /\ Answerers \cap Runtimes = {}
  /\ Answerers \cap Submitters = {} /\ Runtimes \subseteq Submitters /\ None \notin Nodes
  /\ Controllers \subseteq Submitters /\ Runtimes \cap Sessions = {}
  /\ Clients \cap Sessions = {} /\ Server \notin Sessions /\ Sessions \subseteq Nodes
  /\ Clients \subseteq Askers /\ Controllers \subseteq Askers /\ Workers \subseteq Answerers
  /\ Server \in Answerers /\ MailboxCapacity \in Nat /\ Buffers \in Nat /\ Depth \in Nat
  BY BrokerAssumption, ClientServerAssumption, SessionAssumption, RuntimeAssumption,
     DataPlaneAssumption DEF Answerers, Askers, Sessions

(* No connection is established at first. *)
LEMMA ClientInvInit == Init => ClientInv
  BY Zenon DEF Init, ClientInit, ClientInv, QueuePairState

(* Establish leaves a pair that can send, and Fail takes the connection    *)
(* back.                                                                   *)
LEMMA ClientInvNext == ClientInv /\ [Next]_vars => ClientInv'
<1> SUFFICES ASSUME ClientInv, [Next]_vars PROVE ClientInv'
  BY Zenon
<1> USE DEF ClientInv
<1>1. ASSUME NEW c \in Clients, Connect(c) PROVE ClientInv'
  <2>1. c \in Submitters
    BY <1>1, DataPlaneAssumption, Zenon DEF Connect, Validate
  <2>2. BringUp(qp[c]) \in QueuePairState
    BY Zenon DEF BringUp, QueuePairState
  <2> QED BY <1>1, <2>1, <2>2, Zenon DEF Connect, Establish, IsReadyToSend
<1>2. ASSUME NEW c \in Clients, Fail(c) PROVE ClientInv'
  BY <1>2, Zenon DEF Fail, QueuePairState
<1>3. CASE UNCHANGED clientVars
  BY <1>3, Zenon DEF clientVars
<1>4. ASSUME NEW c \in Clients, SubmitTask(c) \/ PollResult(c) PROVE UNCHANGED clientVars
  BY <1>4, Zenon DEF SubmitTask, PollResult
<1>5. CASE PollTask \/ SendResult
  BY <1>3, <1>5, Zenon DEF PollTask, SendResult
<1> QED
  BY <1>1, <1>2, <1>3, <1>4, <1>5, Zenon
     DEF Next, vars, ClientServerNext, PushCompletion, PollCompletion

(* The next key of a submitter is that of its next request. *)
LEMMA NextKeyIs ==
  ASSUME FlowType, NEW n \in Submitters
  PROVE  /\ NextKey(n) = Pooled(n) + nextId[n]
         /\ Register(n) => registry' = [registry EXCEPT ![n] = RegistryOf(Pooled(n) + nextId[n])]
<1>1. Pooled(n) \in Nat /\ nextId[n] \in Nat /\ nextId[n] > 0
  BY Roles DEF Pooled, FlowType, Positive
<1>2. PICK k \in Nat : k = Pooled(n) + nextId[n] - 1
  BY <1>1
<1>3. registry[n] = [regions |-> 1 .. k, next |-> k]
  BY <1>2, Zenon DEF FlowType, RegistryOf
<1>4. NextKey(n) = k + 1 /\ k + 1 = Pooled(n) + nextId[n]
  BY <1>1, <1>2, <1>3 DEF NextKey
<1>5. registry[n].regions \cup {k + 1} = 1 .. k + 1
  BY <1>3
<1> QED BY <1>4, <1>5, Zenon DEF Register, RegistryOf

(* The pairs of servers, sessions and runtimes can send. *)
LEMMA PairsCanSend ==
  EnsureClient = TRUE /\ EnsurePeer = TRUE /\ IsReadyToSend(FreshPair) = TRUE
  BY Zenon DEF EnsureClient, EnsurePeer, FreshPair, IsReadyToSend, BringUp, CanTransition

(* PostSend with such a pair delivers. *)
LEMMA PostDelivers ==
  ASSUME NEW n, NEW to, NEW wr, NEW m, PostSend(n, to, TRUE, wr, m)
  PROVE  Deliver(to, m)
<1>1. CASE IsFull(inbox[to], MailboxCapacity)
  BY <1>1, Zenon DEF PostSend, Deliver, Lost
<1>2. CASE ~IsFull(inbox[to], MailboxCapacity)
  <2>1. dropped' = dropped /\ Lost(inbox[to], MailboxCapacity) = {}
    BY <1>2, Zenon DEF PostSend, Lost
  <2> QED BY <2>1, Zenon DEF PostSend, Deliver
<1> QED BY <1>1, <1>2, Zenon

(* What a submitter sends is a new request, whose payload has the next key. *)
LEMMA TaskIs ==
  ASSUME FlowType, NEW n \in Submitters, NEW topic \in {"task", "tensor"}
  PROVE  /\ Task(n, topic) \in Messages
         /\ Task(n, topic).from = n /\ Task(n, topic).topic = topic
         /\ Task(n, topic).task = [by |-> n, wr |-> nextId[n]]
         /\ Task(n, topic).region = Pooled(n) + Task(n, topic).task.wr
<1>1. NextKey(n) = Pooled(n) + nextId[n] /\ NextKey(n) \in Nat /\ nextId[n] \in Positive
  BY NextKeyIs, Roles DEF Pooled, FlowType, Positive
<1>2. [by |-> n, wr |-> nextId[n]] \in Tasks
  BY <1>1, Zenon DEF Tasks
<1> QED BY <1>1, <1>2, Roles, Zenon DEF Task, Messages

(* A node in the role of a submitter makes a request. *)
LEMMA EnterShape ==
  ASSUME FlowType, NEW n \in Submitters, NEW to \in Nodes, NEW topic \in {"task", "tensor"},
         \/ topic = "task" /\ n \in Askers /\ to \in Answerers \cup {n}
         \/ topic = "tensor" /\ n \in Runtimes /\ to \in Runtimes,
         Register(n), nextId' = [nextId EXCEPT ![n] = @ + 1],
         Deliver(to, Task(n, topic)), UNCHANGED <<job, got>>
  PROVE  FlowStep
<1>1. PICK m \in Messages : m = Task(n, topic)
  BY TaskIs, Zenon
<1>2. /\ m.from = n /\ m.topic = topic /\ m.task = [by |-> n, wr |-> nextId[n]]
      /\ m.region = Pooled(n) + m.task.wr
  BY <1>1, TaskIs
<1>3. Addressed(to, m) /\ m.topic # "result"
  BY <1>2 DEF Addressed
<1>4. registry' = [registry EXCEPT ![n] = RegistryOf(Pooled(n) + nextId[n])]
  BY NextKeyIs, Zenon
<1>5. EnterStep(n, to, m)
  BY <1>1, <1>2, <1>3, <1>4, Zenon DEF EnterStep
<1> QED BY <1>5, Zenon DEF FlowStep

(* A node that answers sends the result of its task to the submitter. *)
LEMMA AnswerShape ==
  ASSUME FlowType, RouteInv, NEW n \in Answerers, job[n] # <<>>, NEW to,
         to = Head(job[n]).source,
         Deliver(to, Result(n, Head(job[n]).task)), job' = [job EXCEPT ![n] = <<>>],
         nextId' \in [Nodes -> Positive], \A b \in Submitters : nextId'[b] = nextId[b],
         UNCHANGED <<registry, got>>
  PROVE  FlowStep
<1>1. PICK t \in Jobs : job[n] = <<t>>
  BY Roles DEF FlowType
<1>2. Head(job[n]) = t /\ t \in Listed(job[n])
  BY <1>1 DEF Listed
<1>3. t.source = t.task.by /\ t.source \in Askers
  BY <1>2, Roles, Zenon DEF RouteInv
<1>4. AnswerStep(n, t)
  BY <1>1, <1>2, <1>3, Zenon DEF AnswerStep
<1> QED BY <1>4, Zenon DEF FlowStep

(* The steps of clients and the server. *)
LEMMA ClientServerShape ==
  ASSUME ClientInv, FlowType, RouteInv, ClientServerNext
  PROVE  FlowStep
<1>1. ASSUME NEW c \in Clients, Connect(c) \/ Fail(c) PROVE FlowStep
  BY <1>1, Zenon DEF Connect, Fail, brokerVars, FlowStep, RestStep
<1>2. ASSUME NEW c \in Clients, SubmitTask(c) PROVE FlowStep
  <2>1. c \in Submitters /\ IsReadyToSend(qp[c]) = TRUE
    BY <1>2, Zenon DEF ClientInv, SubmitTask, IsReadyToSend
  <2>2. PostSend(c, Server, TRUE, nextId[c], Task(c, "task"))
    BY <1>2, <2>1, Zenon DEF SubmitTask
  <2>3. Deliver(Server, Task(c, "task"))
    BY <2>2, PostDelivers, Zenon
  <2>4. Server \in Nodes /\ Server \in Answerers /\ c \in Askers
    BY Roles, Zenon
  <2>5. Register(c) /\ nextId' = [nextId EXCEPT ![c] = @ + 1] /\ UNCHANGED <<job, got>>
    BY <1>2, Zenon DEF SubmitTask
  <2> QED BY <2>1, <2>3, <2>4, <2>5, EnterShape, Zenon
<1>3. ASSUME NEW c \in Clients, PollResult(c) PROVE FlowStep
  <2>1. KeepStep(c)
    BY <1>3, Roles, Zenon DEF PollResult, PollReceive, KeepStep
  <2> QED BY <2>1, Roles, Zenon DEF FlowStep
<1>4. CASE PollTask
  <2>1. TakeStep(Server)
    BY <1>4, Roles, Zenon DEF PollTask, PollReceive, TakeStep
  <2> QED BY <2>1, Roles, Zenon DEF FlowStep
<1>5. CASE SendResult
  <2>1. PostSend(Server, Head(job[Server]).source, TRUE, 0,
                 Result(Server, Head(job[Server]).task))
    BY <1>5, PairsCanSend, Zenon DEF SendResult
  <2>2. Deliver(Head(job[Server]).source, Result(Server, Head(job[Server]).task))
    BY <2>1, PostDelivers, Zenon
  <2>3. /\ job[Server] # <<>> /\ job' = [job EXCEPT ![Server] = <<>>]
        /\ nextId' \in [Nodes -> Positive] /\ nextId' = nextId /\ UNCHANGED <<registry, got>>
    BY <1>5, Zenon DEF SendResult, FlowType
  <2> QED BY <2>2, <2>3, Roles, AnswerShape, Zenon
<1> QED BY <1>1, <1>2, <1>3, <1>4, <1>5, Zenon DEF ClientServerNext

(* The steps of controllers and workers. *)
LEMMA SessionShape ==
  ASSUME FlowType, RouteInv, SessionNext
  PROVE  FlowStep
<1>1. ASSUME NEW s \in Controllers, NEW target \in Targets, Submit(s, target) PROVE FlowStep
  <2>1. PostSend(s, Peer(s, target), TRUE, nextId[s], Task(s, "task"))
    BY <1>1, PairsCanSend, Zenon DEF Submit, SessionPost
  <2>2. Deliver(Peer(s, target), Task(s, "task"))
    BY <2>1, PostDelivers, Zenon
  <2>3. /\ s \in Submitters /\ s \in Askers /\ s \in Nodes
        /\ Peer(s, target) \in Nodes /\ Peer(s, target) \in Answerers \cup {s}
    BY Roles, DataPlaneAssumption DEF Peer, Answerers
  <2>4. Register(s) /\ nextId' = [nextId EXCEPT ![s] = @ + 1] /\ UNCHANGED <<job, got>>
    BY <1>1, Zenon DEF Submit, SessionPost
  <2> QED BY <2>2, <2>3, <2>4, EnterShape, Zenon
<1>2. ASSUME NEW s \in Controllers, TakeResult(s) PROVE FlowStep
  <2>1. KeepStep(s)
    BY <1>2, Roles, Zenon DEF TakeResult, PollReceive, KeepStep
  <2> QED BY <2>1, Roles, Zenon DEF FlowStep
<1>3. ASSUME NEW s \in Workers, SessionPollTask(s) PROVE FlowStep
  <2>1. TakeStep(s)
    BY <1>3, Roles DEF SessionPollTask, PollReceive, TakeStep
  <2> QED BY <2>1, Roles, Zenon DEF FlowStep
<1>4. ASSUME NEW s \in Workers, SessionSendResult(s) PROVE FlowStep
  <2>1. PICK t \in Jobs : job[s] = <<t>>
    BY <1>4, Roles DEF SessionSendResult, FlowType
  <2>2. Head(job[s]).source # None /\ s \in Nodes
    BY <2>1, Roles DEF Jobs
  <2>3. PostSend(s, Head(job[s]).source, TRUE, nextId[s], Result(s, Head(job[s]).task))
    BY <1>4, <2>2, PairsCanSend, Zenon DEF SessionSendResult, SessionPost, Peer
  <2>4. Deliver(Head(job[s]).source, Result(s, Head(job[s]).task))
    BY <2>3, PostDelivers, Zenon
  <2>5. nextId' = [nextId EXCEPT ![s] = @ + 1]
    BY <1>4, Zenon DEF SessionSendResult, SessionPost
  <2>6. nextId' \in [Nodes -> Positive] /\ \A b \in Submitters : nextId'[b] = nextId[b]
    BY <2>2, <2>5, Roles DEF FlowType, Positive
  <2>7. job[s] # <<>> /\ job' = [job EXCEPT ![s] = <<>>] /\ UNCHANGED <<registry, got>>
    BY <1>4, Zenon DEF SessionSendResult
  <2> QED BY <2>4, <2>6, <2>7, Roles, AnswerShape, Zenon
<1>5. ASSUME NEW s \in Sessions,
             SessionPushCompletion(s) \/ RecordSend(s) \/ SessionPollCompletion(s)
      PROVE  FlowStep
  BY <1>5, Zenon
     DEF SessionPushCompletion, RecordSend, SessionPollCompletion, Push, Poll, brokerVars,
         FlowStep, RestStep
<1> QED BY <1>1, <1>2, <1>3, <1>4, <1>5 DEF SessionNext

(* Every step moves messages in one of the five ways. *)
LEMMA StepShape ==
  ASSUME ClientInv, FlowType, RouteInv, [Next]_vars
  PROVE  FlowStep
<1>1. ASSUME NEW n \in Runtimes, NEW target \in TensorTargets, RuntimeSubmit(n, target)
      PROVE  FlowStep
  <2>1. PICK to \in Runtimes : to = IF target = None THEN n ELSE target
    BY RuntimeAssumption, Zenon
  <2>2. PostSend(n, to, TRUE, nextId[n], Task(n, "tensor"))
    BY <1>1, <2>1, PairsCanSend, Zenon DEF RuntimeSubmit, Execute
  <2>3. Deliver(to, Task(n, "tensor"))
    BY <2>2, PostDelivers, Zenon
  <2>4. n \in Submitters /\ to \in Nodes
    BY Roles, Zenon
  <2>5. Register(n) /\ nextId' = [nextId EXCEPT ![n] = @ + 1] /\ UNCHANGED <<job, got>>
    BY <1>1, Zenon DEF RuntimeSubmit, Execute
  <2> QED BY <2>3, <2>4, <2>5, EnterShape, Zenon
<1>2. ASSUME NEW n \in Runtimes, RuntimePoll(n) PROVE FlowStep
  <2>1. KeepStep(n)
    BY <1>2, Roles, Zenon DEF RuntimePoll, PollReceive, KeepStep
  <2> QED BY <2>1, Roles, Zenon DEF FlowStep
<1>3. ASSUME NEW n, PushCompletion(n) \/ PollCompletion(n) PROVE FlowStep
  BY <1>3, Zenon DEF PushCompletion, PollCompletion, Push, Poll, FlowStep, RestStep
<1>4. CASE UNCHANGED vars
  BY <1>4, Zenon DEF vars, brokerVars, FlowStep, RestStep
<1> QED
  BY <1>1, <1>2, <1>3, <1>4, ClientServerShape, SessionShape, Zenon DEF Next, RuntimeNext

-----------------------------------------------------------------------------
(***************************************************************************)
(* Requests are kept apart and in order                                    *)
(***************************************************************************)

(* The requests node n has something of. *)
Here(n) == TasksOf(inbox[n]) \cup TasksOf(job[n]) \cup TasksOf(got[n])

(* InOnePlace without counting: no queue has a request twice, no two of    *)
(* them share one, and those that were made are there or were dropped.     *)
OnceInv ==
  /\ \A n \in Nodes : Once(inbox[n]) /\ Once(got[n])
  /\ \A n \in Nodes : /\ TasksOf(inbox[n]) \cap TasksOf(job[n]) = {}
                      /\ TasksOf(inbox[n]) \cap TasksOf(got[n]) = {}
                      /\ TasksOf(job[n]) \cap TasksOf(got[n]) = {}
                      /\ Here(n) \cap dropped = {}
  /\ \A n, k \in Nodes : n # k => Here(n) \cap Here(k) = {}
  /\ \A r \in Tasks : Submitted(r) <=> r \in dropped \/ \E n \in Nodes : r \in Here(n)

(* Request x was made before request y, if by the same node. *)
Earlier(x, y) == x.by = y.by => x.wr < y.wr

(* What a node has received precedes what waits for it.  The results of    *)
(* one who answers precede the task in its hands, and that the tasks that  *)
(* wait for it.                                                            *)
OrderInv ==
  /\ \A n \in Nodes : InOrder(inbox[n]) /\ InOrder(got[n])
  /\ \A n \in Nodes : \A x \in Listed(got[n]), y \in Listed(inbox[n]) : Before(x, y)
  /\ \A d \in Nodes : \A x \in TasksOf(job[d]), y \in TasksOf(inbox[d]) : Earlier(x, y)
  /\ \A d \in Answerers, n \in Askers : \A m \in Listed(got[n]) \cup Listed(inbox[n]) :
       m.from = d => \A y \in TasksOf(job[d]) \cup TasksOf(inbox[d]) : Earlier(m.task, y)

FlowInv == FlowType /\ RouteInv /\ OnceInv /\ OrderInv

(* Queues hold messages about requests, jobs are about one. *)
LEMMA FlowTypes ==
  ASSUME FlowType, NEW n \in Nodes
  PROVE  /\ inbox[n] \in Seq(Messages) /\ got[n] \in Seq(Messages)
         /\ Listed(inbox[n]) \subseteq Messages /\ Listed(got[n]) \subseteq Messages
         /\ Listed(job[n]) \subseteq Jobs
         /\ TasksOf(inbox[n]) \subseteq Tasks /\ TasksOf(got[n]) \subseteq Tasks
         /\ TasksOf(job[n]) \subseteq Tasks
<1>1. inbox[n] \in Seq(Messages) /\ got[n] \in Seq(Messages)
  BY Zenon DEF FlowType
<1>2. Listed(inbox[n]) \subseteq Messages /\ Listed(got[n]) \subseteq Messages
  BY <1>1 DEF Listed
<1>3. Listed(job[n]) \subseteq Jobs
  <2>1. CASE job[n] = <<>>
    BY <2>1 DEF Listed
  <2>2. ASSUME NEW t \in Jobs, job[n] = <<t>> PROVE Listed(job[n]) \subseteq Jobs
    BY <2>2 DEF Listed
  <2> QED BY <2>1, <2>2, Zenon DEF FlowType
<1>4. /\ \A x \in Messages : x.task \in Tasks
      /\ \A x \in Jobs : x.task \in Tasks
  BY Zenon DEF Messages, Jobs
<1> QED BY <1>1, <1>2, <1>3, <1>4, Zenon DEF TasksOf

(* What is listed in a queue of one. *)
LEMMA ListedOne ==
  /\ Listed(<<>>) = {} /\ TasksOf(<<>>) = {}
  /\ \A t : Listed(<<t>>) = {t} /\ TasksOf(<<t>>) = {t.task}
<1>1. Listed(<<>>) = {}
  BY DEF Listed
<1>2. ASSUME NEW t PROVE Listed(<<t>>) = {t}
  BY DEF Listed
<1>3. TasksOf(<<>>) = {}
  BY <1>1, Zenon DEF TasksOf
<1>4. ASSUME NEW t PROVE TasksOf(<<t>>) = {t.task}
  BY <1>2 DEF TasksOf
<1> QED BY <1>1, <1>2, <1>3, <1>4

(* Delivery of a message about a request that waits nowhere, behind the    *)
(* earlier ones.                                                           *)
LEMMA DeliverEffect ==
  ASSUME FlowType, OnceInv, OrderInv, NEW to \in Nodes, NEW m \in Messages, Deliver(to, m),
         m.task \notin TasksOf(inbox[to]), \A x \in Listed(inbox[to]) : Before(x, m)
  PROVE  \E lost \in SUBSET TasksOf(inbox[to]) :
           /\ inbox' \in [Nodes -> Seq(Messages)] /\ dropped' = dropped \cup lost
           /\ \A k \in Nodes : k # to => inbox'[k] = inbox[k]
           /\ Listed(inbox'[to]) \subseteq Listed(inbox[to]) \cup {m}
           /\ TasksOf(inbox'[to]) = (TasksOf(inbox[to]) \ lost) \cup {m.task}
           /\ \A k \in Nodes : Once(inbox'[k]) /\ InOrder(inbox'[k])
<1>1. PICK q \in Seq(Messages) : q = inbox[to]
  BY FlowTypes, Zenon
<1>2. MailboxCapacity \in Nat /\ Once(q) /\ InOrder(q)
  BY <1>1, Roles, Zenon DEF OnceInv, OrderInv
<1>3. m.task \notin TasksOf(q) /\ \A x \in Listed(q) : Before(x, m)
  BY <1>1, Zenon
<1>4. PICK p : /\ p = PushBounded(q, m, MailboxCapacity)
               /\ p \in Seq(Messages) /\ Listed(p) \subseteq Listed(q) \cup {m}
               /\ TasksOf(p) = (TasksOf(q) \ Lost(q, MailboxCapacity)) \cup {m.task}
               /\ Lost(q, MailboxCapacity) \subseteq TasksOf(q) /\ Once(p) /\ InOrder(p)
  <2>1. /\ PushBounded(q, m, MailboxCapacity) \in Seq(Messages)
        /\ Listed(PushBounded(q, m, MailboxCapacity)) \subseteq Listed(q) \cup {m}
        /\ TasksOf(PushBounded(q, m, MailboxCapacity))
             = (TasksOf(q) \ Lost(q, MailboxCapacity)) \cup {m.task}
        /\ Lost(q, MailboxCapacity) \subseteq TasksOf(q)
        /\ Once(PushBounded(q, m, MailboxCapacity))
        /\ InOrder(PushBounded(q, m, MailboxCapacity))
    BY <1>2, <1>3, PushMessage
  <2> QED BY <2>1, Zenon
<1>5. inbox' = [inbox EXCEPT ![to] = p]
  BY <1>1, <1>4, Zenon DEF Deliver
<1>6. /\ inbox' \in [Nodes -> Seq(Messages)] /\ inbox'[to] = p
      /\ \A k \in Nodes : k # to => inbox'[k] = inbox[k]
  BY <1>4, <1>5, Zenon DEF FlowType
<1>7. \A k \in Nodes : Once(inbox'[k]) /\ InOrder(inbox'[k])
  BY <1>4, <1>6 DEF OnceInv, OrderInv
<1>8. dropped' = dropped \cup Lost(q, MailboxCapacity)
  BY <1>1, Zenon DEF Deliver
<1> QED BY <1>1, <1>4, <1>6, <1>7, <1>8, Zenon

(* A request that has just been made is nowhere. *)
LEMMA NewRequest ==
  ASSUME FlowInv, NEW n \in Submitters
  PROVE  /\ [by |-> n, wr |-> nextId[n]] \in Tasks /\ ~Submitted([by |-> n, wr |-> nextId[n]])
         /\ [by |-> n, wr |-> nextId[n]] \notin dropped
         /\ \A k \in Nodes : [by |-> n, wr |-> nextId[n]] \notin Here(k)
<1>1. nextId[n] \in Positive
  BY Roles, Zenon DEF FlowInv, FlowType
<1>2. [by |-> n, wr |-> nextId[n]] \in Tasks /\ ~Submitted([by |-> n, wr |-> nextId[n]])
  BY <1>1 DEF Tasks, Submitted, Positive
<1> QED BY <1>2, Zenon DEF FlowInv, OnceInv

(* A new request keeps everything: it is in no place and later than all    *)
(* requests of its submitter.                                              *)
LEMMA EnterKeeps ==
  ASSUME FlowInv, NEW n \in Submitters, NEW to \in Nodes, NEW m \in Messages,
         EnterStep(n, to, m)
  PROVE  FlowInv'
<1> USE DEF FlowInv
<1>1. /\ m.task \in Tasks /\ ~Submitted(m.task) /\ m.task \notin dropped
      /\ \A k \in Nodes : m.task \notin Here(k)
  BY NewRequest, Zenon DEF EnterStep
<1>2. /\ m.from = n /\ m.task.by = n /\ m.task.wr = nextId[n] /\ n \notin Answerers
      /\ n \in Nodes /\ nextId[n] \in Nat /\ nextId[n] > 0 /\ Pooled(n) \in Nat
  BY Roles DEF EnterStep, FlowType, Positive, Pooled
<1>3. ASSUME NEW k \in Nodes, NEW x \in TasksOf(inbox[k]) \cup TasksOf(job[k]) \cup TasksOf(got[k])
      PROVE  x \in Tasks /\ x.wr < nextId[x.by] /\ Earlier(x, m.task)
  <2>1. x \in Tasks
    BY <1>3, FlowTypes, Zenon
  <2>2. x.wr < nextId[x.by]
    BY <1>3, Zenon DEF TasksOf, RouteInv
  <2> QED BY <1>2, <2>1, <2>2, Zenon DEF Earlier
<1>4. \A k \in Nodes : \A x \in Listed(inbox[k]) \cup Listed(got[k]) : Before(x, m)
  BY <1>3, Zenon DEF TasksOf, Earlier, Before
<1>5. PICK lost \in SUBSET TasksOf(inbox[to]) :
           /\ inbox' \in [Nodes -> Seq(Messages)] /\ dropped' = dropped \cup lost
           /\ \A k \in Nodes : k # to => inbox'[k] = inbox[k]
           /\ Listed(inbox'[to]) \subseteq Listed(inbox[to]) \cup {m}
           /\ TasksOf(inbox'[to]) = (TasksOf(inbox[to]) \ lost) \cup {m.task}
           /\ \A k \in Nodes : Once(inbox'[k]) /\ InOrder(inbox'[k])
  <2>1. m.task \notin TasksOf(inbox[to])
    BY <1>1, Zenon DEF Here
  <2>2. Deliver(to, m)
    BY Zenon DEF EnterStep
  <2> QED BY <1>4, <2>1, <2>2, DeliverEffect, Zenon
<1>6. /\ job' = job /\ got' = got /\ nextId' = [nextId EXCEPT ![n] = @ + 1]
      /\ registry' = [registry EXCEPT ![n] = RegistryOf(Pooled(n) + nextId[n])]
      /\ Addressed(to, m)
  BY Zenon DEF EnterStep
<1>7. \A b \in Nodes : nextId[b] \in Nat /\ nextId'[b] \in Nat /\ nextId[b] <= nextId'[b]
  BY <1>2, <1>6, SMTT(30) DEF FlowType, Positive
<1>8. FlowType'
  <2>1. dropped' \subseteq Tasks
    BY <1>5, FlowTypes, Zenon DEF FlowType
  <2>2. nextId' \in [Nodes -> Positive]
    BY <1>2, <1>6 DEF FlowType, Positive
  <2>3. registry' \in [Nodes -> [regions : SUBSET Nat, next : Nat]]
    <3>1. RegistryOf(Pooled(n) + nextId[n]) \in [regions : SUBSET Nat, next : Nat]
      BY <1>2 DEF RegistryOf
    <3> QED BY <1>6, <3>1, Zenon DEF FlowType
  <2>4. ASSUME NEW b \in Submitters
        PROVE  registry'[b] = RegistryOf(Pooled(b) + nextId'[b] - 1)
    <3>1. b \in Nodes
      BY Roles, Zenon
    <3>2. CASE b = n
      <4>1. nextId'[n] = nextId[n] + 1 /\ registry'[n] = RegistryOf(Pooled(n) + nextId[n])
        BY <1>2, <1>6 DEF FlowType
      <4>2. Pooled(n) + nextId'[n] - 1 = Pooled(n) + nextId[n]
        BY <1>2, <4>1
      <4> QED BY <3>2, <4>1, <4>2
    <3>3. CASE b # n
      BY <1>6, <3>1, <3>3 DEF FlowType
    <3> QED BY <3>2, <3>3, Zenon
  <2> QED BY <1>5, <1>6, <2>1, <2>2, <2>3, <2>4, Zenon DEF FlowType, Pooled
<1>9. RouteInv'
  <2>1. m.task.wr < nextId'[m.task.by]
    BY <1>2, <1>6 DEF FlowType
  <2>2. ASSUME NEW x \in Tasks, x.wr < nextId[x.by] PROVE x.wr < nextId'[x.by]
    BY <1>7, <2>2, Roles DEF Tasks, Positive
  <2>3. ASSUME NEW k \in Nodes, NEW x \in Listed(inbox[k]) \cup Listed(got[k])
        PROVE  Addressed(k, x) /\ x.task.wr < nextId'[x.task.by]
    <3>1. x.task \in Tasks /\ x.task.wr < nextId[x.task.by] /\ Addressed(k, x)
      BY <1>3, <2>3 DEF TasksOf, RouteInv
    <3> QED BY <2>2, <3>1
  <2>4. ASSUME NEW k \in Nodes, NEW x \in Listed(inbox'[k]) \cup Listed(got'[k])
        PROVE  Addressed(k, x) /\ x.task.wr < nextId'[x.task.by]
    BY <1>5, <1>6, <2>1, <2>3
  <2>5. ASSUME NEW k \in Nodes, NEW t \in Listed(job'[k])
        PROVE  /\ k \in Answerers /\ t.source = t.task.by /\ t.source \in Askers
               /\ t.task.wr < nextId'[t.task.by]
    <3>1. t.task \in Tasks /\ t.task.wr < nextId[t.task.by] /\ t \in Listed(job[k])
      BY <1>3, <1>6, <2>5, Zenon DEF TasksOf
    <3> QED BY <2>2, <3>1, Zenon DEF RouteInv
  <2> QED BY <2>4, <2>5, Zenon DEF RouteInv, Addressed, Pooled
<1>10. OnceInv'
  <2>1. \A k \in Nodes : k # to => Here(k)' = Here(k)
    BY <1>5, <1>6 DEF Here
  <2>2. Here(to)' = (Here(to) \ lost) \cup {m.task} /\ lost \subseteq Here(to)
    BY <1>5, <1>6, Zenon DEF Here, OnceInv
  <2>3. \A k \in Nodes : Once(inbox'[k]) /\ Once(got'[k])
    BY <1>5, <1>6 DEF OnceInv
  <2>4. ASSUME NEW k \in Nodes
        PROVE  /\ TasksOf(inbox'[k]) \cap TasksOf(job'[k]) = {}
               /\ TasksOf(inbox'[k]) \cap TasksOf(got'[k]) = {}
               /\ TasksOf(job'[k]) \cap TasksOf(got'[k]) = {}
    <3>1. job'[k] = job[k] /\ got'[k] = got[k] /\ m.task \notin Here(k)
      BY <1>1, <1>6
    <3>2. CASE k = to
      <4>1. /\ TasksOf(inbox[k]) \cap TasksOf(job[k]) = {}
            /\ TasksOf(inbox[k]) \cap TasksOf(got[k]) = {}
            /\ TasksOf(job[k]) \cap TasksOf(got[k]) = {}
            /\ m.task \notin TasksOf(job[k]) \cup TasksOf(got[k])
        BY <3>1 DEF OnceInv, Here
      <4>2. TasksOf(inbox'[k]) \subseteq TasksOf(inbox[k]) \cup {m.task}
        BY <1>5, <3>2, Zenon
      <4> QED BY <3>1, <4>1, <4>2, Zenon
    <3>3. CASE k # to
      BY <1>5, <3>1, <3>3, Zenon DEF OnceInv
    <3> QED BY <3>2, <3>3
  <2>5. \A k \in Nodes : Here(k)' \cap dropped' = {}
    BY <1>1, <1>5, <2>1, <2>2, SMTT(30) DEF OnceInv
  <2>6. \A i, k \in Nodes : i # k => Here(i)' \cap Here(k)' = {}
    BY <1>1, <2>1, <2>2 DEF OnceInv
  <2>7. ASSUME NEW r \in Tasks
        PROVE  Submitted(r)' <=> r \in dropped' \/ \E k \in Nodes : r \in Here(k)'
    <3>1. Submitted(r)' <=> Submitted(r) \/ r = m.task
      <4>1. m.task = [by |-> n, wr |-> nextId[n]]
        BY DEF EnterStep
      <4>2. r = m.task <=> r.by = n /\ r.wr = nextId[n]
        BY <4>1 DEF Tasks
      <4>3. CASE r.by = n
        BY <1>2, <1>6, <4>2, <4>3, SMTT(30) DEF Submitted, FlowType, Tasks, Positive
      <4>4. CASE r.by # n
        BY <1>2, <1>6, <4>2, <4>4, Roles, Zenon DEF Submitted, FlowType, Tasks
      <4> QED BY <4>3, <4>4
    <3>2. Submitted(r) <=> r \in dropped \/ \E k \in Nodes : r \in Here(k)
      BY Zenon DEF OnceInv
    <3>3. (r \in dropped' \/ \E k \in Nodes : r \in Here(k)')
            <=> (r \in dropped \/ r = m.task \/ \E k \in Nodes : r \in Here(k))
      BY <1>5, <2>1, <2>2
    <3> QED BY <3>1, <3>2, <3>3, Zenon
  <2> QED BY <2>3, <2>4, <2>5, <2>6, <2>7, Zenon DEF OnceInv
<1>11. OrderInv'
  <2>1. \A k \in Nodes : InOrder(inbox'[k]) /\ InOrder(got'[k])
    BY <1>5, <1>6, Zenon DEF OrderInv
  <2>2. \A k \in Nodes : \A x \in Listed(got'[k]), y \in Listed(inbox'[k]) : Before(x, y)
    BY <1>4, <1>5, <1>6, Zenon DEF OrderInv
  <2>3. \A d \in Nodes : \A x \in TasksOf(job'[d]), y \in TasksOf(inbox'[d]) : Earlier(x, y)
    BY <1>3, <1>5, <1>6, Zenon DEF OrderInv
  <2>4. ASSUME NEW d \in Answerers, NEW k \in Askers,
               NEW x \in Listed(got'[k]) \cup Listed(inbox'[k]), x.from = d,
               NEW y \in TasksOf(job'[d]) \cup TasksOf(inbox'[d])
        PROVE  Earlier(x.task, y)
    <3>1. k \in Nodes /\ d \in Nodes
      BY Roles
    <3>2. x \in Listed(got[k]) \cup Listed(inbox[k])
      <4>1. x # m /\ got'[k] = got[k]
        BY <1>2, <1>6, <2>4, Zenon
      <4>2. CASE k = to
        BY <1>5, <2>4, <4>1, <4>2, Zenon
      <4>3. CASE k # to
        BY <1>5, <2>4, <3>1, <4>1, <4>3
      <4> QED BY <4>2, <4>3, Zenon
    <3>3. Earlier(x.task, m.task)
      BY <1>3, <3>1, <3>2, Zenon DEF TasksOf
    <3>4. y \in TasksOf(job[d]) \cup TasksOf(inbox[d]) \/ y = m.task
      BY <1>5, <1>6, <3>1, Zenon
    <3> QED BY <2>4, <3>2, <3>3, <3>4, Zenon DEF OrderInv
  <2> QED BY <2>1, <2>2, <2>3, <2>4, Zenon DEF OrderInv
<1> QED BY <1>8, <1>9, <1>10, <1>11

(* What is kept was first in its inbox. *)
LEMMA KeepKeeps ==
  ASSUME FlowInv, NEW n \in Nodes, KeepStep(n)
  PROVE  FlowInv'
<1> USE DEF FlowInv
<1>1. PICK q \in Seq(Messages) : q = inbox[n] /\ q # <<>>
  BY FlowTypes DEF KeepStep
<1>2. PICK h \in Messages, rest \in Seq(Messages) :
        /\ h = Head(q) /\ rest = Tail(q) /\ Listed(q) = {h} \cup Listed(rest)
        /\ TasksOf(q) = {h.task} \cup TasksOf(rest)
        /\ Once(rest) /\ h.task \notin TasksOf(rest)
        /\ InOrder(rest) /\ \A x \in Listed(rest) : Before(h, x)
  <2>1. Once(q) /\ InOrder(q)
    BY <1>1, Zenon DEF OnceInv, OrderInv
  <2> QED BY <1>1, <2>1, TakeFront, TakeMessage, Zenon
<1>3. PICK g \in Seq(Messages) : g = got[n]
  BY FlowTypes, Zenon
<1>4. PICK more \in Seq(Messages) :
        /\ more = Append(g, h) /\ Listed(more) = Listed(g) \cup {h}
        /\ TasksOf(more) = TasksOf(g) \cup {h.task} /\ Once(more) /\ InOrder(more)
  <2>1. Once(g) /\ InOrder(g)
    BY <1>3, Zenon DEF OnceInv, OrderInv
  <2>2. h.task \notin TasksOf(g)
    BY <1>1, <1>2, <1>3, Zenon DEF OnceInv
  <2>3. \A x \in Listed(g) : Before(x, h)
    BY <1>1, <1>2, <1>3, Zenon DEF OrderInv
  <2>4. Append(g, h) \in Seq(Messages) /\ Listed(Append(g, h)) = Listed(g) \cup {h}
    BY PutLast
  <2>5. /\ TasksOf(Append(g, h)) = TasksOf(g) \cup {h.task}
        /\ Once(Append(g, h)) /\ InOrder(Append(g, h))
    BY <2>1, <2>2, <2>3, PutMessage, Zenon
  <2> QED BY <2>4, <2>5, Zenon
<1>5. /\ inbox' = [inbox EXCEPT ![n] = rest] /\ got' = [got EXCEPT ![n] = more]
      /\ UNCHANGED <<dropped, nextId, registry, job>>
  BY <1>1, <1>2, <1>3, <1>4, Zenon DEF KeepStep
<1>6. /\ inbox' \in [Nodes -> Seq(Messages)] /\ got' \in [Nodes -> Seq(Messages)]
      /\ inbox'[n] = rest /\ got'[n] = more
      /\ \A k \in Nodes : k # n => inbox'[k] = inbox[k] /\ got'[k] = got[k]
  BY <1>5, Zenon DEF FlowType
<1>7. FlowType'
  BY <1>5, <1>6 DEF FlowType, Pooled
<1>8. \A k \in Nodes : Listed(inbox'[k]) \cup Listed(got'[k]) = Listed(inbox[k]) \cup Listed(got[k])
  BY <1>1, <1>2, <1>3, <1>4, <1>6, Zenon
<1>9. RouteInv'
  BY <1>5, <1>8, Zenon DEF RouteInv, Addressed, Pooled
<1>10. OnceInv'
  <2>1. \A k \in Nodes : TasksOf(inbox'[k]) \subseteq TasksOf(inbox[k])
    BY <1>1, <1>2, <1>6, Zenon
  <2>2. \A k \in Nodes : Here(k)' = Here(k)
    BY <1>1, <1>2, <1>3, <1>4, <1>5, <1>6 DEF Here
  <2>3. \A k \in Nodes : Once(inbox'[k]) /\ Once(got'[k])
    BY <1>2, <1>4, <1>6, Zenon DEF OnceInv
  <2>4. ASSUME NEW k \in Nodes
        PROVE  /\ TasksOf(inbox'[k]) \cap TasksOf(job'[k]) = {}
               /\ TasksOf(inbox'[k]) \cap TasksOf(got'[k]) = {}
               /\ TasksOf(job'[k]) \cap TasksOf(got'[k]) = {}
    <3>1. /\ TasksOf(inbox[k]) \cap TasksOf(job[k]) = {}
          /\ TasksOf(inbox[k]) \cap TasksOf(got[k]) = {}
          /\ TasksOf(job[k]) \cap TasksOf(got[k]) = {} /\ job'[k] = job[k]
      BY <1>5, Zenon DEF OnceInv
    <3>2. CASE k = n
      <4>1. inbox[k] = q /\ inbox'[k] = rest /\ got[k] = g /\ got'[k] = more
        BY <1>1, <1>3, <1>6, <3>2, Zenon
      <4> QED BY <1>2, <1>4, <3>1, <4>1
    <3>3. CASE k # n
      BY <1>6, <3>1, <3>3, Zenon
    <3> QED BY <3>2, <3>3
  <2>5. \A r : Submitted(r)' <=> Submitted(r)
    BY <1>5 DEF Submitted
  <2>6. \A k \in Nodes : Here(k)' \cap dropped' = {}
    BY <1>5, <2>2 DEF OnceInv
  <2>7. \A i, k \in Nodes : i # k => Here(i)' \cap Here(k)' = {}
    BY <2>2 DEF OnceInv
  <2>8. \A r \in Tasks : Submitted(r)' <=> r \in dropped' \/ \E k \in Nodes : r \in Here(k)'
    BY <1>5, <2>2, <2>5 DEF OnceInv
  <2> QED BY <2>3, <2>4, <2>6, <2>7, <2>8, Zenon DEF OnceInv
<1>11. OrderInv'
  <2>1. \A k \in Nodes : InOrder(inbox'[k]) /\ InOrder(got'[k])
    BY <1>2, <1>4, <1>6, Zenon DEF OrderInv
  <2>2. ASSUME NEW k \in Nodes, NEW x \in Listed(got'[k]), NEW y \in Listed(inbox'[k])
        PROVE  Before(x, y)
    <3>1. CASE k = n
      <4>1. x \in Listed(g) \cup {h} /\ y \in Listed(rest)
        BY <1>4, <1>6, <2>2, <3>1, Zenon
      <4>2. \A z \in Listed(g), w \in Listed(q) : Before(z, w)
        BY <1>1, <1>3, Zenon DEF OrderInv
      <4> QED BY <1>2, <4>1, <4>2, Zenon
    <3>2. CASE k # n
      BY <1>6, <2>2, <3>2, Zenon DEF OrderInv
    <3> QED BY <3>1, <3>2
  <2>3. \A k \in Nodes : TasksOf(inbox'[k]) \subseteq TasksOf(inbox[k]) /\ job'[k] = job[k]
    BY <1>1, <1>2, <1>5, <1>6
  <2>4. \A d \in Nodes : \A x \in TasksOf(job'[d]), y \in TasksOf(inbox'[d]) : Earlier(x, y)
    BY <2>3, Zenon DEF OrderInv
  <2>5. ASSUME NEW d \in Answerers, NEW k \in Askers,
               NEW x \in Listed(got'[k]) \cup Listed(inbox'[k]), x.from = d,
               NEW y \in TasksOf(job'[d]) \cup TasksOf(inbox'[d])
        PROVE  Earlier(x.task, y)
    <3>1. x \in Listed(got[k]) \cup Listed(inbox[k])
      BY <1>8, <2>5, Roles
    <3>2. y \in TasksOf(job[d]) \cup TasksOf(inbox[d])
      BY <2>3, <2>5, Roles, Zenon
    <3> QED BY <2>5, <3>1, <3>2, Zenon DEF OrderInv
  <2> QED BY <2>1, <2>2, <2>4, <2>5, Zenon DEF OrderInv
<1> QED BY <1>7, <1>9, <1>10, <1>11

(* A task that is taken up came from its submitter, ahead of the others. *)
LEMMA TakeKeeps ==
  ASSUME FlowInv, NEW n \in Answerers, TakeStep(n)
  PROVE  FlowInv'
<1> USE DEF FlowInv
<1>1. PICK q \in Seq(Messages) : q = inbox[n] /\ q # <<>> /\ n \in Nodes
  BY FlowTypes, Roles, Zenon DEF TakeStep
<1>2. PICK h \in Messages, rest \in Seq(Messages) :
        /\ h = Head(q) /\ rest = Tail(q) /\ Listed(q) = {h} \cup Listed(rest)
        /\ TasksOf(q) = {h.task} \cup TasksOf(rest)
        /\ Once(rest) /\ h.task \notin TasksOf(rest)
        /\ InOrder(rest) /\ \A x \in Listed(rest) : Before(h, x)
  <2>1. Once(q) /\ InOrder(q)
    BY <1>1, Zenon DEF OnceInv, OrderInv
  <2> QED BY <1>1, <2>1, TakeFront, TakeMessage, Zenon
<1>3. /\ h.task.wr < nextId[h.task.by] /\ n \notin Askers /\ n \notin Runtimes
      /\ \A x \in Listed(q) : x.topic = "task" /\ x.from = x.task.by /\ x.from \in Askers
  <2>1. n \notin Askers /\ n \notin Runtimes
    BY Roles, Zenon
  <2>2. \A x \in Listed(q) : Addressed(n, x) /\ x.task.wr < nextId[x.task.by]
    BY <1>1, Zenon DEF RouteInv
  <2> QED BY <1>2, <2>1, <2>2, Zenon DEF Addressed
<1>4. PICK t \in Jobs : t = AsTask(h) /\ t.task = h.task /\ t.source = h.from
  <2>1. AsTask(h) = [task |-> h.task, source |-> h.from]
    BY <1>2, <1>3, Zenon DEF AsTask
  <2> QED BY <2>1, SMTT(30) DEF Messages, Jobs
<1>5. /\ inbox' = [inbox EXCEPT ![n] = rest] /\ job' = [job EXCEPT ![n] = <<t>>]
      /\ UNCHANGED <<dropped, nextId, registry, got>>
  BY <1>1, <1>2, <1>4, Zenon DEF TakeStep
<1>6. /\ inbox' \in [Nodes -> Seq(Messages)] /\ inbox'[n] = rest
      /\ job' \in [Nodes -> {<<>>} \cup {<<u>> : u \in Jobs}] /\ job'[n] = <<t>>
      /\ \A k \in Nodes : k # n => inbox'[k] = inbox[k] /\ job'[k] = job[k]
  BY <1>1, <1>5, Zenon DEF FlowType
<1>7. /\ Listed(job[n]) = {} /\ TasksOf(job[n]) = {}
      /\ Listed(job'[n]) = {t} /\ TasksOf(job'[n]) = {h.task}
  BY <1>4, <1>6, ListedOne DEF TakeStep
<1>8. FlowType'
  BY <1>5, <1>6, Zenon DEF FlowType, Pooled
<1>9. \A k \in Nodes : /\ Listed(inbox'[k]) \subseteq Listed(inbox[k]) /\ got'[k] = got[k]
                       /\ TasksOf(inbox'[k]) \subseteq TasksOf(inbox[k])
                       /\ k # n => TasksOf(job'[k]) = TasksOf(job[k])
  BY <1>1, <1>2, <1>5, <1>6
<1>10. RouteInv'
  <2>1. ASSUME NEW k \in Nodes, NEW x \in Listed(inbox'[k]) \cup Listed(got'[k])
        PROVE  Addressed(k, x) /\ x.task.wr < nextId'[x.task.by]
    BY <1>5, <1>9, Zenon DEF RouteInv
  <2>2. ASSUME NEW k \in Nodes, NEW u \in Listed(job'[k])
        PROVE  /\ k \in Answerers /\ u.source = u.task.by /\ u.source \in Askers
               /\ u.task.wr < nextId'[u.task.by]
    <3>1. CASE k = n
      BY <1>2, <1>3, <1>4, <1>5, <1>7, <2>2, <3>1, Zenon
    <3>2. CASE k # n
      BY <1>5, <1>6, <2>2, <3>2, Zenon DEF RouteInv
    <3> QED BY <3>1, <3>2
  <2> QED BY <2>1, <2>2, Zenon DEF RouteInv, Addressed, Pooled
<1>11. OnceInv'
  <2>1. \A k \in Nodes : Here(k)' = Here(k)
    BY <1>1, <1>2, <1>5, <1>6, <1>7, Zenon DEF Here
  <2>2. \A k \in Nodes : Once(inbox'[k]) /\ Once(got'[k])
    BY <1>2, <1>5, <1>6, Zenon DEF OnceInv
  <2>3. ASSUME NEW k \in Nodes
        PROVE  /\ TasksOf(inbox'[k]) \cap TasksOf(job'[k]) = {}
               /\ TasksOf(inbox'[k]) \cap TasksOf(got'[k]) = {}
               /\ TasksOf(job'[k]) \cap TasksOf(got'[k]) = {}
    <3>1. /\ TasksOf(inbox[k]) \cap TasksOf(job[k]) = {}
          /\ TasksOf(inbox[k]) \cap TasksOf(got[k]) = {}
          /\ TasksOf(job[k]) \cap TasksOf(got[k]) = {} /\ got'[k] = got[k]
      BY <1>5, Zenon DEF OnceInv
    <3>2. CASE k = n
      <4>1. inbox[k] = q /\ inbox'[k] = rest /\ TasksOf(job'[k]) = {h.task}
        BY <1>1, <1>6, <1>7, <3>2, Zenon
      <4> QED BY <1>2, <3>1, <4>1, Zenon
    <3>3. CASE k # n
      BY <1>6, <3>1, <3>3, Zenon
    <3> QED BY <3>2, <3>3
  <2>4. \A r : Submitted(r)' <=> Submitted(r)
    BY <1>5, Zenon DEF Submitted
  <2>5. \A k \in Nodes : Here(k)' \cap dropped' = {}
    BY <1>5, <2>1, Zenon DEF OnceInv
  <2>6. \A i, k \in Nodes : i # k => Here(i)' \cap Here(k)' = {}
    BY <2>1 DEF OnceInv
  <2>7. \A r \in Tasks : Submitted(r)' <=> r \in dropped' \/ \E k \in Nodes : r \in Here(k)'
    BY <1>5, <2>1, <2>4 DEF OnceInv
  <2> QED BY <2>2, <2>3, <2>5, <2>6, <2>7, Zenon DEF OnceInv
<1>12. OrderInv'
  <2>1. \A k \in Nodes : InOrder(inbox'[k]) /\ InOrder(got'[k])
    BY <1>2, <1>5, <1>6 DEF OrderInv
  <2>2. \A k \in Nodes : \A x \in Listed(got'[k]), y \in Listed(inbox'[k]) : Before(x, y)
    BY <1>9, Zenon DEF OrderInv
  <2>3. ASSUME NEW d \in Nodes, NEW x \in TasksOf(job'[d]), NEW y \in TasksOf(inbox'[d])
        PROVE  Earlier(x, y)
    <3>1. CASE d = n
      <4>1. x = h.task /\ y \in TasksOf(rest)
        BY <1>6, <1>7, <2>3, <3>1
      <4>2. PICK w \in Listed(rest) : w.task = y
        BY <4>1 DEF TasksOf
      <4>3. Before(h, w) /\ h.from = h.task.by /\ w.from = w.task.by
        BY <1>2, <1>3, SMTT(30)
      <4> QED BY <4>1, <4>2, <4>3 DEF Before, Earlier
    <3>2. CASE d # n
      BY <1>6, <2>3, <3>2 DEF OrderInv
    <3> QED BY <3>1, <3>2
  <2>4. ASSUME NEW d \in Answerers, NEW k \in Askers,
               NEW x \in Listed(got'[k]) \cup Listed(inbox'[k]), x.from = d,
               NEW y \in TasksOf(job'[d]) \cup TasksOf(inbox'[d])
        PROVE  Earlier(x.task, y)
    <3>1. x \in Listed(got[k]) \cup Listed(inbox[k])
      BY <1>9, <2>4, Roles
    <3>2. y \in TasksOf(job[d]) \cup TasksOf(inbox[d])
      <4>1. CASE d = n
        BY <1>1, <1>2, <1>6, <1>7, <2>4, <4>1, Zenon
      <4>2. CASE d # n
        BY <1>9, <2>4, <4>2, Roles, SMTT(30)
      <4> QED BY <4>1, <4>2
    <3> QED BY <2>4, <3>1, <3>2, SMTT(30) DEF OrderInv
  <2> QED BY <2>1, <2>2, <2>3, <2>4, Zenon DEF OrderInv
<1> QED BY <1>8, <1>10, <1>11, <1>12

(* The result takes the place of its task, behind the earlier results of   *)
(* the one who answers.                                                    *)
LEMMA AnswerKeeps ==
  ASSUME FlowInv, NEW n \in Answerers, NEW t \in Jobs, AnswerStep(n, t)
  PROVE  FlowInv'
<1> USE DEF FlowInv
<1>1. PICK to \in Nodes : to = t.source /\ to = t.task.by /\ to \in Askers /\ to \notin Answerers
  BY Roles, Zenon DEF AnswerStep
<1>2. /\ n \in Nodes /\ n # to /\ job[n] = <<t>> /\ t.task \in Tasks
      /\ t \in Listed(job[n]) /\ t.task \in TasksOf(job[n])
  BY <1>1, Roles, ListedOne DEF AnswerStep, Jobs
<1>3. PICK m \in Messages : /\ m = Result(n, t.task) /\ m.topic = "result" /\ m.from = n
                            /\ m.task = t.task /\ m.region = 0
  <2>1. Result(n, t.task) \in Messages
    BY <1>2 DEF Result, Messages
  <2> QED BY <2>1, Zenon DEF Result
<1>4. /\ \A k \in Nodes : m.task \notin TasksOf(inbox[k]) \cup TasksOf(got[k])
      /\ \A k \in Nodes : k # n => m.task \notin TasksOf(job[k])
      /\ m.task \notin dropped
  <2>1. m.task \in Here(n) /\ m.task \notin TasksOf(inbox[n]) \cup TasksOf(got[n])
    BY <1>2, <1>3, Zenon DEF OnceInv, Here
  <2>2. \A k \in Nodes : k # n => m.task \notin Here(k)
    BY <1>2, <2>1 DEF OnceInv
  <2>3. m.task \notin dropped
    BY <1>2, <2>1 DEF OnceInv
  <2> QED BY <2>1, <2>2, <2>3, Zenon DEF Here
<1>5. \A x \in Listed(inbox[to]) \cup Listed(got[to]) : Before(x, m)
  <2>1. ASSUME NEW x \in Listed(inbox[to]) \cup Listed(got[to]), x.from = n
        PROVE  Earlier(x.task, t.task)
    BY <1>1, <1>2, <2>1 DEF OrderInv
  <2> QED BY <1>3, <2>1 DEF Before, Earlier
<1>6. PICK lost \in SUBSET TasksOf(inbox[to]) :
           /\ inbox' \in [Nodes -> Seq(Messages)] /\ dropped' = dropped \cup lost
           /\ \A k \in Nodes : k # to => inbox'[k] = inbox[k]
           /\ Listed(inbox'[to]) \subseteq Listed(inbox[to]) \cup {m}
           /\ TasksOf(inbox'[to]) = (TasksOf(inbox[to]) \ lost) \cup {m.task}
           /\ \A k \in Nodes : Once(inbox'[k]) /\ InOrder(inbox'[k])
  <2>1. m.task \notin TasksOf(inbox[to]) /\ \A x \in Listed(inbox[to]) : Before(x, m)
    BY <1>4, <1>5
  <2>2. Deliver(to, m)
    BY <1>1, <1>3 DEF AnswerStep
  <2> QED BY <2>1, <2>2, DeliverEffect, Zenon
<1>7. /\ job' = [job EXCEPT ![n] = <<>>] /\ UNCHANGED <<registry, got>>
      /\ nextId' \in [Nodes -> Positive] /\ \A b \in Submitters : nextId'[b] = nextId[b]
  BY Zenon DEF AnswerStep
<1>8. /\ job' \in [Nodes -> {<<>>} \cup {<<u>> : u \in Jobs}]
      /\ \A k \in Nodes : k # n => job'[k] = job[k]
      /\ Listed(job'[n]) = {} /\ TasksOf(job'[n]) = {} /\ TasksOf(job[n]) = {m.task}
  BY <1>2, <1>3, <1>7, ListedOne DEF FlowType
<1>9. FlowType'
  <2>1. dropped' \subseteq Tasks
    BY <1>6, FlowTypes, Zenon DEF FlowType
  <2> QED BY <1>6, <1>7, <1>8, <2>1, Zenon DEF FlowType, Pooled
<1>10. RouteInv'
  <2>1. \A x \in Tasks : nextId'[x.by] = nextId[x.by]
    BY <1>7, Zenon DEF Tasks
  <2>2. Addressed(to, m) /\ m.task.wr < nextId'[m.task.by]
    <3>1. t.task.wr < nextId[t.task.by]
      BY <1>2, Zenon DEF RouteInv
    <3> QED BY <1>1, <1>2, <1>3, <2>1, <3>1 DEF Addressed
  <2>3. ASSUME NEW k \in Nodes, NEW x \in Listed(inbox[k]) \cup Listed(got[k])
        PROVE  Addressed(k, x) /\ x.task.wr < nextId'[x.task.by]
    <3>1. x.task \in Tasks /\ x.task.wr < nextId[x.task.by] /\ Addressed(k, x)
      BY <2>3, FlowTypes, SMTT(30) DEF RouteInv, TasksOf
    <3> QED BY <2>1, <3>1
  <2>4. ASSUME NEW k \in Nodes, NEW x \in Listed(inbox'[k]) \cup Listed(got'[k])
        PROVE  Addressed(k, x) /\ x.task.wr < nextId'[x.task.by]
    <3>1. x \in Listed(inbox[k]) \cup Listed(got[k]) \/ (x = m /\ k = to)
      <4>1. CASE k = to
        BY <1>6, <1>7, <2>4, <4>1, Zenon
      <4>2. CASE k # to
        BY <1>6, <1>7, <2>4, <4>2
      <4> QED BY <4>1, <4>2
    <3> QED BY <2>2, <2>3, <3>1, SMTT(30)
  <2>5. ASSUME NEW k \in Nodes, NEW u \in Listed(job'[k])
        PROVE  /\ k \in Answerers /\ u.source = u.task.by /\ u.source \in Askers
               /\ u.task.wr < nextId'[u.task.by]
    <3>1. u \in Listed(job[k])
      BY <1>8, <2>5
    <3>2. u.task \in Tasks
      BY <3>1, FlowTypes DEF TasksOf
    <3> QED BY <2>1, <3>1, <3>2, Zenon DEF RouteInv
  <2> QED BY <2>4, <2>5, Zenon DEF RouteInv, Addressed, Pooled
<1>11. OnceInv'
  <2>1. \A k \in Nodes : k # n /\ k # to => Here(k)' = Here(k)
    BY <1>6, <1>7, <1>8 DEF Here
  <2>2. Here(n)' = Here(n) \ {m.task} /\ m.task \in Here(n)
    <3>1. m.task \notin TasksOf(inbox[n]) \cup TasksOf(got[n])
      BY <1>2, <1>4
    <3> QED BY <1>2, <1>6, <1>7, <1>8, <3>1, Zenon DEF Here
  <2>3. Here(to)' = (Here(to) \ lost) \cup {m.task} /\ lost \subseteq Here(to)
    <3>1. /\ TasksOf(inbox[to]) \cap TasksOf(job[to]) = {}
          /\ TasksOf(inbox[to]) \cap TasksOf(got[to]) = {}
      BY Zenon DEF OnceInv
    <3> QED BY <1>2, <1>6, <1>7, <1>8, <3>1, Zenon DEF Here
  <2>4. \A k \in Nodes : Once(inbox'[k]) /\ Once(got'[k])
    BY <1>6, <1>7, Zenon DEF OnceInv
  <2>5. ASSUME NEW k \in Nodes
        PROVE  /\ TasksOf(inbox'[k]) \cap TasksOf(job'[k]) = {}
               /\ TasksOf(inbox'[k]) \cap TasksOf(got'[k]) = {}
               /\ TasksOf(job'[k]) \cap TasksOf(got'[k]) = {}
    <3>1. /\ TasksOf(inbox[k]) \cap TasksOf(job[k]) = {}
          /\ TasksOf(inbox[k]) \cap TasksOf(got[k]) = {}
          /\ TasksOf(job[k]) \cap TasksOf(got[k]) = {} /\ got'[k] = got[k]
          /\ m.task \notin TasksOf(got[k])
      BY <1>4, <1>7, Zenon DEF OnceInv
    <3>2. CASE k = n
      BY <1>2, <1>6, <1>8, <3>1, <3>2, Zenon
    <3>3. CASE k = to
      <4>1. m.task \notin TasksOf(job'[k]) /\ job'[k] = job[k]
        BY <1>2, <1>4, <1>8, <3>3, Zenon
      <4> QED BY <1>6, <3>1, <3>3, <4>1, Zenon
    <3>4. CASE k # n /\ k # to
      BY <1>6, <1>8, <3>1, <3>4, Zenon
    <3> QED BY <3>2, <3>3, <3>4, Zenon
  <2>6. \A k \in Nodes : Here(k)' \cap dropped' = {}
    <3>1. m.task \notin dropped'
      BY <1>4, <1>6
    <3>2. ASSUME NEW k \in Nodes, k # to PROVE Here(k)' \cap dropped' = {}
      <4>1. Here(k)' \subseteq Here(k) /\ Here(k) \cap Here(to) = {} /\ Here(k) \cap dropped = {}
        BY <2>1, <2>2, <3>2, Zenon DEF OnceInv
      <4> QED BY <1>6, <2>3, <4>1
    <3>3. Here(to)' \cap dropped' = {}
      <4>1. Here(to) \cap dropped = {}
        BY Zenon DEF OnceInv
      <4> QED BY <1>6, <2>3, <3>1, <4>1
    <3> QED BY <3>2, <3>3
  <2>7. \A i, k \in Nodes : i # k => Here(i)' \cap Here(k)' = {}
    <3>1. ASSUME NEW k \in Nodes, k # to
          PROVE  Here(k)' \subseteq Here(k) /\ m.task \notin Here(k)'
      <4>1. k # n => Here(k) \cap Here(n) = {}
        BY <1>2 DEF OnceInv
      <4> QED BY <2>1, <2>2, <3>1, <4>1, SMTT(30)
    <3>2. \A i, k \in Nodes : i # k => Here(i) \cap Here(k) = {}
      BY Zenon DEF OnceInv
    <3> QED BY <2>3, <3>1, <3>2
  <2>8. ASSUME NEW r \in Tasks
        PROVE  Submitted(r)' <=> r \in dropped' \/ \E k \in Nodes : r \in Here(k)'
    <3>1. Submitted(r)' <=> Submitted(r)
      BY <1>7 DEF Submitted, Tasks
    <3>2. Submitted(r) <=> r \in dropped \/ \E k \in Nodes : r \in Here(k)
      BY Zenon DEF OnceInv
    <3>3. (r \in dropped' \/ \E k \in Nodes : r \in Here(k)')
            <=> (r \in dropped \/ \E k \in Nodes : r \in Here(k))
      <4>1. ASSUME NEW k \in Nodes, r \in Here(k)'
            PROVE  \E i \in Nodes : r \in Here(i)
        <5>1. k # n /\ k # to => r \in Here(k)
          BY <2>1, <4>1
        <5>2. k = n => r \in Here(n)
          BY <2>2, <4>1
        <5>3. k = to => r \in Here(to) \/ r \in Here(n)
          BY <2>2, <2>3, <4>1
        <5> QED BY <1>2, <5>1, <5>2, <5>3
      <4>2. ASSUME NEW k \in Nodes, r \in Here(k)
            PROVE  r \in dropped' \/ \E i \in Nodes : r \in Here(i)'
        <5>1. k # n /\ k # to => r \in Here(k)'
          BY <2>1, <4>2
        <5>2. k = n => r \in Here(n)' \/ r \in Here(to)'
          BY <2>2, <2>3, <4>2
        <5>3. k = to => r \in dropped' \/ r \in Here(to)'
          BY <1>6, <2>3, <4>2
        <5> QED BY <1>2, <5>1, <5>2, <5>3
      <4>3. r \in dropped' <=> r \in dropped \/ r \in lost
        BY <1>6
      <4>4. r \in lost => r \in Here(to)
        BY <2>3
      <4> QED BY <4>1, <4>2, <4>3, <4>4
    <3> QED BY <3>1, <3>2, <3>3, Zenon
  <2> QED BY <2>4, <2>5, <2>6, <2>7, <2>8, Zenon DEF OnceInv
<1>12. OrderInv'
  <2>1. \A k \in Nodes : InOrder(inbox'[k]) /\ InOrder(got'[k])
    BY <1>6, <1>7 DEF OrderInv
  <2>2. ASSUME NEW k \in Nodes, NEW x \in Listed(got'[k]), NEW y \in Listed(inbox'[k])
        PROVE  Before(x, y)
    <3>1. x \in Listed(got[k]) /\ (y \in Listed(inbox[k]) \/ (y = m /\ k = to))
      BY <1>6, <1>7, <2>2, Zenon
    <3> QED BY <1>5, <3>1, Zenon DEF OrderInv
  <2>3. ASSUME NEW d \in Nodes, NEW x \in TasksOf(job'[d]), NEW y \in TasksOf(inbox'[d])
        PROVE  Earlier(x, y)
    <3>1. x \in TasksOf(job[d]) /\ d # n
      BY <1>8, <2>3, Zenon
    <3>2. d # to
      BY <1>1, <3>1, Zenon DEF TasksOf, RouteInv
    <3> QED BY <1>6, <2>3, <3>1, <3>2, Zenon DEF OrderInv
  <2>4. ASSUME NEW d \in Answerers, NEW k \in Askers,
               NEW x \in Listed(got'[k]) \cup Listed(inbox'[k]), x.from = d,
               NEW y \in TasksOf(job'[d]) \cup TasksOf(inbox'[d])
        PROVE  Earlier(x.task, y)
    <3>1. k \in Nodes /\ d \in Nodes /\ d # to
      BY <1>1, Roles, Zenon
    <3>2. y \in TasksOf(job[d]) \cup TasksOf(inbox[d]) /\ (d = n => y \in TasksOf(inbox[d]))
      <4>1. inbox'[d] = inbox[d]
        BY <1>6, <3>1, Zenon
      <4>2. CASE d = n
        BY <1>8, <2>4, <4>1, <4>2, Zenon
      <4>3. CASE d # n
        BY <1>8, <2>4, <3>1, <4>1, <4>3
      <4> QED BY <4>2, <4>3
    <3>3. CASE x \in Listed(got[k]) \cup Listed(inbox[k])
      BY <2>4, <3>2, <3>3, Zenon DEF OrderInv
    <3>4. CASE x = m
      BY <1>2, <1>3, <2>4, <3>1, <3>2, <3>4, Zenon DEF OrderInv
    <3> QED BY <1>6, <1>7, <2>4, <3>1, <3>3, <3>4, Zenon
  <2> QED BY <2>1, <2>2, <2>3, <2>4, Zenon DEF OrderInv
<1> QED BY <1>9, <1>10, <1>11, <1>12

(* There are no messages at first. *)
LEMMA FlowInvInit == Init => FlowInv
<1> SUFFICES ASSUME Init PROVE FlowInv
  BY Zenon
<1>1. /\ inbox = [n \in Nodes |-> <<>>] /\ got = [n \in Nodes |-> <<>>]
      /\ job = [n \in Nodes |-> <<>>] /\ dropped = {}
      /\ nextId = [n \in Nodes |-> 1]
      /\ registry = [n \in Nodes |-> RegistryOf(Pooled(n))]
  BY Zenon DEF Init, BrokerInit, Pooled
<1>2. \A n \in Nodes : /\ Listed(inbox[n]) = {} /\ Listed(got[n]) = {} /\ Listed(job[n]) = {}
                       /\ TasksOf(inbox[n]) = {} /\ TasksOf(got[n]) = {}
                       /\ TasksOf(job[n]) = {} /\ Here(n) = {}
  BY <1>1, ListedOne, Zenon DEF Here
<1>3. FlowType
  <2>1. ASSUME NEW n \in Submitters PROVE registry[n] = RegistryOf(Pooled(n) + nextId[n] - 1)
    <3>1. n \in Nodes /\ Pooled(n) \in Nat /\ nextId[n] = 1
      BY <1>1, Roles, Zenon DEF Pooled
    <3>2. Pooled(n) + nextId[n] - 1 = Pooled(n)
      BY <3>1
    <3> QED BY <1>1, <3>1, <3>2, Zenon
  <2>2. registry \in [Nodes -> [regions : SUBSET Nat, next : Nat]]
    <3>1. \A n \in Nodes : RegistryOf(Pooled(n)) \in [regions : SUBSET Nat, next : Nat]
      BY Roles DEF Pooled, RegistryOf
    <3> QED BY <1>1, <3>1, Zenon
  <2>3. /\ inbox \in [Nodes -> Seq(Messages)] /\ got \in [Nodes -> Seq(Messages)]
        /\ nextId \in [Nodes -> Positive]
    BY <1>1 DEF Positive
  <2>4. job \in [Nodes -> {<<>>} \cup {<<t>> : t \in Jobs}]
    BY <1>1, Zenon
  <2> QED BY <1>1, <2>1, <2>2, <2>3, <2>4, Zenon DEF FlowType
<1>4. RouteInv
  BY <1>2, Zenon DEF RouteInv
<1>5. OnceInv
  <2>1. \A n \in Nodes : Once(inbox[n]) /\ Once(got[n])
    BY <1>1 DEF Once
  <2>2. \A r \in Tasks : ~Submitted(r)
    BY <1>1, Roles DEF Submitted, Tasks, Positive
  <2> QED BY <1>1, <1>2, <2>1, <2>2, Zenon DEF OnceInv
<1>6. OrderInv
  <2>1. \A n \in Nodes : InOrder(inbox[n]) /\ InOrder(got[n])
    BY <1>1 DEF InOrder
  <2> QED BY <1>2, <2>1, Roles, Zenon DEF OrderInv
<1> QED BY <1>3, <1>4, <1>5, <1>6, Zenon DEF FlowInv

(* Every step keeps the requests apart and in order. *)
LEMMA FlowInvNext == ClientInv /\ FlowInv /\ [Next]_vars => FlowInv'
<1> SUFFICES ASSUME ClientInv, FlowInv, [Next]_vars PROVE FlowInv'
  BY Zenon
<1>1. FlowStep
  BY StepShape, Zenon DEF FlowInv
<1>2. CASE RestStep
  BY <1>2, Zenon DEF RestStep, FlowInv, FlowType, RouteInv, OnceInv, OrderInv, Here, Submitted
<1> QED BY <1>1, <1>2, EnterKeeps, KeepKeeps, TakeKeeps, AnswerKeeps, Zenon DEF FlowStep

(* The invariant the theorems below rest on. *)
LEMMA FlowCorrect == Spec => []FlowInv
  BY ClientInvInit, ClientInvNext, FlowInvInit, FlowInvNext, PTL DEF Spec
=============================================================================
