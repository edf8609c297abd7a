------------------------------ MODULE DataPlane -----------------------------
(***************************************************************************)
(* RdmaClients, an RdmaServer, WorkerSessions and WorkerRuntimes that      *)
(* share one TransportRdma.                                                *)
(***************************************************************************)
EXTENDS ClientServer, WorkerSession, WorkerRuntime

ASSUME DataPlaneAssumption ==
  /\ Nodes = Clients \cup {Server} \cup Sessions \cup Runtimes
  /\ (Clients \cup {Server}) \cap (Sessions \cup Runtimes) = {}
  /\ Sessions \cap Runtimes = {}
  /\ Submitters = (Clients \ Unnamed) \cup Controllers \cup Runtimes
  /\ Targets \subseteq {Server, None} \cup Workers

vars == <<brokerVars, clientVars, sessionVars>>

Init == BrokerInit(Sessions) /\ ClientInit /\ SessionInit

(* The rest of PostSend, and PollCompletion, of a node without a session. *)
PushCompletion(n) == Push(n) /\ UNCHANGED <<clientVars, sessionVars>>

PollCompletion(n) == Poll(n) /\ UNCHANGED <<clientVars, sessionVars>>

Next ==
  \/ ClientServerNext /\ UNCHANGED sessionVars
  \/ SessionNext /\ UNCHANGED clientVars
  \/ RuntimeNext /\ UNCHANGED <<clientVars, sessionVars>>
  \/ \E n \in Nodes \ Sessions : PushCompletion(n)
  \/ \E n \in Pollers \ Sessions : PollCompletion(n)

Spec == Init /\ [][Next]_vars

(* What the thread of node n does besides submitting: it goes on polling   *)
(* for messages and finishes what it has begun.                            *)
Work(n) ==
  \/ /\ n \in Clients \cup {Server}
     /\ (n # Server /\ PollResult(n)) \/ (n = Server /\ (PollTask \/ SendResult))
     /\ UNCHANGED sessionVars
  \/ /\ n \in Sessions
     /\ \/ n \in Workers /\ (SessionPollTask(n) \/ SessionSendResult(n))
        \/ n \in Controllers /\ TakeResult(n)
        \/ SessionPushCompletion(n) \/ RecordSend(n)
     /\ UNCHANGED clientVars
  \/ n \in Runtimes /\ RuntimePoll(n) /\ UNCHANGED <<clientVars, sessionVars>>
  \/ n \notin Sessions /\ PushCompletion(n)

(* Whether a node submits, or polls completions, is its own affair. *)
Fairness == \A n \in Nodes \ Unnamed : WF_vars(Work(n))

LiveSpec == Spec /\ Fairness

-----------------------------------------------------------------------------
(***************************************************************************)
(* Properties                                                              *)
(***************************************************************************)

Requests == [by : Submitters, wr : 1 .. MaxRequests]

Submitted(r) == r.wr < nextId[r.by]

(* The positions of request r in a queue of messages or tasks. *)
At(q, r) == {i \in DOMAIN q : q[i].task = r}

(* Where request r is: in an inbox, in a user's hands, received or lost. *)
Places(r) ==
  (UNION {({"inbox"} \X {n} \X At(inbox[n], r)) \cup ({"job"} \X {n} \X At(job[n], r))
            \cup ({"got"} \X {n} \X At(got[n], r)) : n \in Nodes})
    \cup (IF r \in dropped THEN {<<"dropped">>} ELSE {})

(* A submitted task, or its result, is in exactly one place until its      *)
(* submitter has the result, unless an overfull inbox dropped it: whoever  *)
(* shares the broker, no message is duplicated, and none is lost in any    *)
(* other way.                                                              *)
InOnePlace ==
  \A r \in Requests :
    IF Submitted(r) THEN \E p \in Places(r) : Places(r) = {p} ELSE Places(r) = {}

(* Everyone receives the answers to its own requests, and those of one     *)
(* sender in the order of the requests; overflows leave gaps and change    *)
(* no order.                                                               *)
ResultsInOrder ==
  \A n \in Submitters : \A i, j \in DOMAIN got[n] :
    /\ got[n][i].topic = "tensor" \/ got[n][i].task.by = n
    /\ i < j /\ got[n][i].from = got[n][j].from /\ got[n][i].task.by = got[n][j].task.by
         => got[n][i].task.wr < got[n][j].task.wr

(* The payload of a task that is still on its way is a region its sender's *)
(* registry holds, and no other such task has the same one.  The price is  *)
(* that a registry grows with each task for as long as its owner lives.    *)
PayloadsStayRegistered ==
  /\ \A n, k \in Nodes : \A i \in DOMAIN inbox[n], j \in DOMAIN inbox[k] :
       LET a == inbox[n][i]  b == inbox[k][j]
       IN  /\ a.topic # "result" => a.region \in registry[a.from].regions
           /\ <<n, i>> # <<k, j>> /\ a.from = b.from /\ a.topic # "result"
                => a.region # b.region
  /\ \A n \in Submitters :
       registry[n].regions = 1 .. ((IF n \in Sessions THEN Buffers ELSE 0) + nextId[n] - 1)

(* The counters agree with what happened: a send per work request but the  *)
(* one under way, none of them failed, every task a worker received        *)
(* answered or in its hands.  Completions run ahead of sends by at most    *)
(* one, and what the queue holds is the newest of them without a gap.      *)
MetricsAddUp ==
  \A s \in Sessions :
    LET m == metrics[s]
    IN  /\ m.sends + Len(posting[s]) + unrecorded[s] = nextId[s] - 1
        /\ m.failed = 0
        /\ s \in Workers => m.receives = nextId[s] - 1 + Len(job[s])
        /\ m.completions + Len(cq[s]) <= m.sends + unrecorded[s]
        /\ \A i \in DOMAIN cq[s] :
             cq[s][i].wr = nextId[s] - 1 - Len(posting[s]) - Len(cq[s]) + i

(* Submitted, and neither answered nor dropped. *)
UnderWay ==
  {r \in Requests : /\ Submitted(r) /\ r \notin dropped
                    /\ \A n \in Submitters : At(got[n], r) = {}}

(* Every submitted task is answered or dropped by an overflow.  No one has *)
(* to poll completions for that: a full completion queue holds up no       *)
(* sender.  Submissions are bounded and an answer or a drop is final, so   *)
(* this says of each task what it says of all of them.                     *)
AnsweredOrDropped == (UnderWay # {}) ~> (UnderWay = {})
=============================================================================
