---------------------------- MODULE ClientServer ----------------------------
(***************************************************************************)
(* RdmaClient with its Connection, and RdmaServer, on the shared broker.   *)
(* A client submits tasks to its server and polls results.  The server     *)
(* answers one task at a time, as in examples/pingpong.cpp.                *)
(***************************************************************************)
EXTENDS Broker

CONSTANTS
  Clients,          \* nodes that run an RdmaClient
  Unnamed,          \* clients whose configuration lacks a node name
  Server            \* the node that runs the RdmaServer

ASSUME ClientServerAssumption ==
  /\ Clients \cup {Server} \subseteq Nodes
  /\ Server \notin Clients /\ Unnamed \subseteq Clients

VARIABLES
  qp,               \* client -> QueuePair::state_
  established       \* client -> Connection::established_

clientVars == <<qp, established>>

ClientInit ==
  /\ qp = [c \in Clients |-> "reset"]
  /\ established = [c \in Clients |-> FALSE]

(* Handshake::Validate accepts: both names are there. *)
Validate(c) == c \notin Unnamed

(* Connection::Establish; an established one is left alone. *)
Establish(c) ==
  /\ ~established[c]
  /\ qp' = [qp EXCEPT ![c] = BringUp(@)]
  /\ established' = [established EXCEPT ![c] = IsReadyToSend(BringUp(qp[c]))]

(* RdmaClient::Connect, which a refused handshake ends. *)
Connect(c) ==
  /\ Validate(c)
  /\ Establish(c)
  /\ UNCHANGED brokerVars

(* Connection::Fail.  RdmaClient keeps its connection to itself and never  *)
(* calls it; the action stands for a client that drives Connection and     *)
(* TransportRdma by itself.                                                *)
Fail(c) ==
  /\ established' = [established EXCEPT ![c] = FALSE]
  /\ qp' = [qp EXCEPT ![c] = IF CanTransition(@, "error") THEN "error" ELSE @]
  /\ UNCHANGED brokerVars

(* SubmitTask; on a connection that is not established it returns 0. *)
SubmitTask(c) ==
  /\ established[c]
  /\ MaySubmit(c)
  /\ Register(c)
  /\ nextId' = [nextId EXCEPT ![c] = @ + 1]
  /\ PostSend(c, Server, IsReadyToSend(qp[c]), nextId[c], Task(c, "task"))
  /\ UNCHANGED <<cq, job, got, clientVars>>

PollResult(c) ==
  /\ PollReceive(c)
  /\ got' = [got EXCEPT ![c] = Append(@, Head(inbox[c]))]
  /\ UNCHANGED <<dropped, posting, cq, nextId, registry, job, clientVars>>

-----------------------------------------------------------------------------

(* RdmaServer::EnsurePeer, as Accept and SendResult call it: the pair it   *)
(* returns, old or new, has been brought up and is never failed.           *)
EnsureClient == IsReadyToSend(BringUp("reset"))

PollTask ==
  /\ job[Server] = <<>>
  /\ PollReceive(Server)
  /\ job' = [job EXCEPT ![Server] = <<AsTask(Head(inbox[Server]))>>]
  /\ UNCHANGED <<dropped, posting, cq, nextId, registry, got, clientVars>>

(* SendResult to the node the task names, always as work request 0. *)
SendResult ==
  /\ job[Server] # <<>>
  /\ LET t == Head(job[Server])
     IN  PostSend(Server, t.source, EnsureClient, 0, Result(Server, t.task))
  /\ job' = [job EXCEPT ![Server] = <<>>]
  /\ UNCHANGED <<cq, nextId, registry, got, clientVars>>

ClientServerNext ==
  \/ \E c \in Clients :
       Connect(c) \/ Fail(c) \/ SubmitTask(c) \/ PollResult(c)
  \/ PollTask \/ SendResult
=============================================================================
