-------------------------- MODULE DataPlaneProofs ---------------------------
(***************************************************************************)
(* Proofs about DataPlane, for any nodes in any of its roles, any queue    *)
(* limits and any number of requests.                                      *)
(***************************************************************************)
EXTENDS DataFlowProofs

(* The positions of a request in a queue that has it, or has it not. *)
LEMMA Positions ==
  ASSUME NEW q, NEW r
  PROVE  /\ r \notin TasksOf(q) => At(q, r) = {}
         /\ r \in TasksOf(q) /\ Once(q) => \E i : At(q, r) = {i}
  BY Zenon DEF TasksOf, Listed, At, Once

(* A place is a position in one of the three queues of a node. *)
LEMMA PlacesAre ==
  ASSUME NEW r
  PROVE  \A p : p \in Places(r) <=>
           \/ \E n \in Nodes : \/ \E i \in At(inbox[n], r) : p = <<"inbox", n, i>>
                               \/ \E i \in At(job[n], r) : p = <<"job", n, i>>
                               \/ \E i \in At(got[n], r) : p = <<"got", n, i>>
           \/ (r \in dropped /\ p = <<"dropped">>)
<1> DEFINE Of(n) == ({"inbox"} \X {n} \X At(inbox[n], r)) \cup ({"job"} \X {n} \X At(job[n], r))
                      \cup ({"got"} \X {n} \X At(got[n], r))
<1>1. \A p : p \in Places(r) <=>
               (\E n \in Nodes : p \in Of(n)) \/ (r \in dropped /\ p = <<"dropped">>)
  <2> DEFINE Queued == UNION {Of(n) : n \in Nodes}
  <2> DEFINE Gone == IF r \in dropped THEN {<<"dropped">>} ELSE {}
  <2>1. Places(r) = Queued \cup Gone
    BY Zenon DEF Places
  <2>2. \A p : p \in Queued <=> \E n \in Nodes : p \in Of(n)
    BY Zenon
  <2>3. \A p : p \in Gone <=> r \in dropped /\ p = <<"dropped">>
    BY Zenon
  <2> HIDE DEF Queued, Gone, Of
  <2> QED BY <2>1, <2>2, <2>3, Zenon
<1>2. ASSUME NEW n, NEW p
      PROVE  p \in Of(n) <=> \/ \E i \in At(inbox[n], r) : p = <<"inbox", n, i>>
                             \/ \E i \in At(job[n], r) : p = <<"job", n, i>>
                             \/ \E i \in At(got[n], r) : p = <<"got", n, i>>
  OBVIOUS
<1> HIDE DEF Of
<1> QED BY <1>1, <1>2

(* Every request is in one place, or was dropped, whatever the roles, the  *)
(* limits and the interleaving: the broker duplicates nothing, and loses   *)
(* nothing but by overflow.                                                *)
THEOREM RequestsInOnePlace == Spec => []InOnePlace
<1>1. FlowInv => InOnePlace
  <2> SUFFICES ASSUME FlowInv, NEW r \in Requests
               PROVE  IF Submitted(r) THEN \E p \in Places(r) : Places(r) = {p}
                                      ELSE Places(r) = {}
    BY Zenon DEF InOnePlace
  <2> USE DEF FlowInv
  <2>1. r \in Tasks
    BY BrokerAssumption DEF Requests, Tasks, Positive
  <2>2. Submitted(r) <=> r \in dropped \/ \E n \in Nodes : r \in Here(n)
    BY <2>1, Zenon DEF OnceInv
  <2>3. CASE \A n \in Nodes : r \notin Here(n)
    <3>1. \A n \in Nodes : At(inbox[n], r) = {} /\ At(job[n], r) = {} /\ At(got[n], r) = {}
      BY <2>3, Positions, Zenon DEF Here
    <3>2. \A p : p \in Places(r) <=> r \in dropped /\ p = <<"dropped">>
      BY <3>1, PlacesAre
    <3>3. IF r \in dropped THEN Places(r) = {<<"dropped">>} ELSE Places(r) = {}
      BY <3>2
    <3> QED BY <2>2, <2>3, <3>3, Zenon
  <2>4. ASSUME NEW n \in Nodes, r \in Here(n)
        PROVE  Submitted(r) /\ \E p \in Places(r) : Places(r) = {p}
    <3>1. r \notin dropped
      BY <2>4 DEF OnceInv
    <3>2. ASSUME NEW k \in Nodes, k # n
          PROVE  At(inbox[k], r) = {} /\ At(job[k], r) = {} /\ At(got[k], r) = {}
      <4>1. r \notin Here(k)
        BY <2>4, <3>2, Zenon DEF OnceInv
      <4> QED BY <4>1, Positions DEF Here
    <3>3. Once(inbox[n]) /\ Once(job[n]) /\ Once(got[n])
      <4>1. Once(inbox[n]) /\ Once(got[n])
        BY Zenon DEF OnceInv
      <4>2. job[n] \in {<<>>} \cup {<<t>> : t \in Jobs}
        BY Zenon DEF FlowType
      <4>3. PICK q : q = job[n]
        BY Zenon
      <4>4. DOMAIN q \subseteq {1}
        BY <4>2, <4>3
      <4>5. Once(q)
        BY <4>4, Zenon DEF Once
      <4> QED BY <4>1, <4>3, <4>5, Zenon
    <3>4. \E p : Places(r) = {p}
      <4>1. /\ TasksOf(inbox[n]) \cap TasksOf(job[n]) = {}
            /\ TasksOf(inbox[n]) \cap TasksOf(got[n]) = {}
            /\ TasksOf(job[n]) \cap TasksOf(got[n]) = {}
        BY DEF OnceInv
      <4>2. CASE r \in TasksOf(inbox[n])
        <5>1. PICK i : At(inbox[n], r) = {i}
          BY <3>3, <4>2, Positions, Zenon
        <5>2. At(job[n], r) = {} /\ At(got[n], r) = {}
          BY <4>1, <4>2, Positions, Zenon
        <5>3. \A p : p \in Places(r) <=> p = <<"inbox", n, i>>
          BY <3>1, <3>2, <5>1, <5>2, PlacesAre
        <5>4. Places(r) = {<<"inbox", n, i>>}
          BY <5>3, Zenon
        <5> QED BY <5>4, Zenon
      <4>3. CASE r \in TasksOf(job[n])
        <5>1. PICK i : At(job[n], r) = {i}
          BY <3>3, <4>3, Positions, Zenon
        <5>2. At(inbox[n], r) = {} /\ At(got[n], r) = {}
          BY <4>1, <4>3, Positions, Zenon
        <5>3. \A p : p \in Places(r) <=> p = <<"job", n, i>>
          BY <3>1, <3>2, <5>1, <5>2, PlacesAre
        <5>4. Places(r) = {<<"job", n, i>>}
          BY <5>3, Zenon
        <5> QED BY <5>4, Zenon
      <4>4. CASE r \in TasksOf(got[n])
        <5>1. PICK i : At(got[n], r) = {i}
          BY <3>3, <4>4, Positions, Zenon
        <5>2. At(inbox[n], r) = {} /\ At(job[n], r) = {}
          BY <4>1, <4>4, Positions, Zenon
        <5>3. \A p : p \in Places(r) <=> p = <<"got", n, i>>
          BY <3>1, <3>2, <5>1, <5>2, PlacesAre
        <5>4. Places(r) = {<<"got", n, i>>}
          BY <5>3, Zenon
        <5> QED BY <5>4, Zenon
      <4> QED BY <2>4, <4>2, <4>3, <4>4, Zenon DEF Here
    <3> QED BY <2>2, <2>4, <3>4
  <2> QED BY <2>3, <2>4
<1> QED BY FlowCorrect, <1>1, PTL

(* Results come back to the submitter, in the order of its requests, from  *)
(* each that answers.                                                      *)
THEOREM ResultsStayInOrder == Spec => []ResultsInOrder
<1>1. FlowInv => ResultsInOrder
  <2> SUFFICES ASSUME FlowInv, NEW n \in Submitters,
                      NEW i \in DOMAIN got[n], NEW j \in DOMAIN got[n]
               PROVE  /\ got[n][i].topic = "tensor" \/ got[n][i].task.by = n
                      /\ i < j /\ got[n][i].from = got[n][j].from
                           /\ got[n][i].task.by = got[n][j].task.by
                         => got[n][i].task.wr < got[n][j].task.wr
    BY Zenon DEF ResultsInOrder
  <2>1. n \in Nodes /\ n \notin Answerers
    BY Roles
  <2>2. Addressed(n, got[n][i])
    BY <2>1 DEF FlowInv, RouteInv, Listed
  <2>3. i < j => Before(got[n][i], got[n][j])
    BY <2>1, Zenon DEF FlowInv, OrderInv, InOrder
  <2> QED BY <2>1, <2>2, <2>3, Zenon DEF Addressed, Before
<1> QED BY FlowCorrect, <1>1, PTL

(* The payload of what waits in an inbox is registered under a key of its  *)
(* own, and a registry has as many of them as its owner made requests.     *)
THEOREM PayloadsAreRegistered == Spec => []PayloadsStayRegistered
<1>1. FlowInv => PayloadsStayRegistered
  <2> SUFFICES ASSUME FlowInv PROVE PayloadsStayRegistered
    BY Zenon
  <2> USE DEF FlowInv
  <2>1. ASSUME NEW n \in Nodes, NEW i \in DOMAIN inbox[n]
        PROVE  /\ inbox[n][i] \in Messages /\ inbox[n][i].task \in Here(n)
               /\ inbox[n][i] \in Listed(inbox[n]) /\ Addressed(n, inbox[n][i])
               /\ inbox[n][i].task.wr < nextId[inbox[n][i].task.by]
    <3>1. inbox[n][i] \in Listed(inbox[n])
      BY Zenon DEF Listed
    <3> QED BY <3>1, FlowTypes, Zenon DEF Here, TasksOf, RouteInv
  <2>2. \A b \in Submitters : Pooled(b) \in Nat /\ nextId[b] \in Nat /\ nextId[b] > 0
    BY Roles DEF Pooled, FlowType, Positive
  <2>3. ASSUME NEW n \in Nodes, NEW i \in DOMAIN inbox[n], inbox[n][i].topic # "result"
        PROVE  /\ inbox[n][i].from = inbox[n][i].task.by
               /\ inbox[n][i].region = Pooled(inbox[n][i].from) + inbox[n][i].task.wr
               /\ inbox[n][i].region \in registry[inbox[n][i].from].regions
               /\ inbox[n][i].region > 0
    <3>1. PICK a \in Messages : a = inbox[n][i]
      BY <2>1
    <3>2. a.from = a.task.by /\ a.region = Pooled(a.from) + a.task.wr
      BY <2>1, <2>3, <3>1, Zenon DEF Addressed
    <3>3. a.task.by \in Submitters /\ a.task.wr \in Nat /\ a.task.wr > 0
          /\ a.task.wr < nextId[a.task.by]
      BY <2>1, <3>1, SMTT(30) DEF Messages, Tasks, Positive
    <3>4. registry[a.from].regions = 1 .. (Pooled(a.from) + nextId[a.from] - 1)
      <4>1. registry[a.from] = RegistryOf(Pooled(a.from) + nextId[a.from] - 1)
        BY <3>2, <3>3, Zenon DEF FlowType
      <4> QED BY <4>1 DEF RegistryOf
    <3>5. PICK w \in Nat, c \in Nat, x \in Nat :
            w = a.task.wr /\ c = Pooled(a.from) /\ x = nextId[a.from]
      BY <2>2, <3>2, <3>3
    <3>6. w > 0 /\ w < x
      BY <3>2, <3>3, <3>5
    <3>7. c + w > 0 /\ c + w \in 1 .. (c + x - 1)
      BY <3>6
    <3> QED BY <3>1, <3>2, <3>4, <3>5, <3>7, Zenon
  <2>4. ASSUME NEW n \in Nodes, NEW k \in Nodes,
               NEW i \in DOMAIN inbox[n], NEW j \in DOMAIN inbox[k], <<n, i>> # <<k, j>>,
               inbox[n][i].from = inbox[k][j].from, inbox[n][i].topic # "result"
        PROVE  inbox[n][i].region # inbox[k][j].region
    <3>1. PICK a \in Messages, b \in Messages : a = inbox[n][i] /\ b = inbox[k][j]
      BY <2>1
    <3>2. a.task # b.task
      <4>1. CASE n = k
        BY <2>4, <3>1, <4>1 DEF OnceInv, Once
      <4>2. CASE n # k
        <5>1. a.task \in Here(n) /\ b.task \in Here(k)
          BY <2>1, <3>1
        <5> QED BY <4>2, <5>1 DEF OnceInv
      <4> QED BY <4>1, <4>2, SMTT(30)
    <3>3. CASE b.topic = "result"
      <4>1. b.region = 0
        BY <2>1, <3>1, <3>3, Zenon DEF Addressed
      <4> QED BY <2>3, <2>4, <3>1, <4>1
    <3>4. CASE b.topic # "result"
      <4>1. /\ a.from = a.task.by /\ b.from = b.task.by /\ a.from = b.from
            /\ a.region = Pooled(a.from) + a.task.wr /\ b.region = Pooled(b.from) + b.task.wr
        BY <2>3, <2>4, <3>1, <3>4, Zenon
      <4>2. a.task.wr \in Nat /\ b.task.wr \in Nat /\ Pooled(a.from) \in Nat
        BY <2>2, <4>1, Zenon DEF Messages, Tasks, Positive
      <4>3. a.task.wr # b.task.wr
        <5>1. \A x, y \in Tasks : x.by = y.by /\ x.wr = y.wr => x = y
          BY DEF Tasks
        <5>2. a.task \in Tasks /\ b.task \in Tasks /\ a.task.by = b.task.by
          BY <4>1 DEF Messages
        <5> QED BY <3>2, <5>1, <5>2
      <4> QED BY <3>1, <4>1, <4>2, <4>3
    <3> QED BY <3>3, <3>4
  <2>5. ASSUME NEW n \in Submitters
        PROVE  registry[n].regions
                 = 1 .. ((IF n \in Sessions THEN Buffers ELSE 0) + nextId[n] - 1)
    <3>1. registry[n] = RegistryOf(Pooled(n) + nextId[n] - 1)
      BY Zenon DEF FlowType
    <3> QED BY <3>1 DEF RegistryOf, Pooled
  <2> QED BY <2>3, <2>4, <2>5 DEF PayloadsStayRegistered
<1> QED BY FlowCorrect, <1>1, PTL

-----------------------------------------------------------------------------
(***************************************************************************)
(* The counters of sessions                                                *)
(***************************************************************************)

Events == [wr : Nat, ok : BOOLEAN]
Sent == [wr : Nat, ok : {TRUE}]
Counters == [sends : Nat, receives : Nat, completions : Nat, failed : Nat]

(* MetricsAddUp for session s.  What it pushes next is its last work       *)
(* request, and while it owes that completion it has no send to count.     *)
SessionInv(s) ==
  /\ cq[s] \in Seq(Sent)
  /\ \/ posting[s] = <<>>
     \/ posting[s] = <<[wr |-> nextId[s] - 1, ok |-> TRUE]>> /\ unrecorded[s] = 0
  /\ metrics[s].sends + Len(posting[s]) + unrecorded[s] = nextId[s] - 1
  /\ metrics[s].failed = 0
  /\ s \in Workers => metrics[s].receives = nextId[s] - 1 + Len(job[s])
  /\ metrics[s].completions + Len(cq[s]) <= metrics[s].sends + unrecorded[s]
  /\ \A i \in DOMAIN cq[s] : cq[s][i].wr = nextId[s] - 1 - Len(posting[s]) - Len(cq[s]) + i

CountType ==
  /\ posting \in [Nodes -> Seq(Events)] /\ cq \in [Nodes -> Seq(Events)]
  /\ metrics \in [Sessions -> Counters] /\ unrecorded \in [Sessions -> {0, 1}]

CountInv == CountType /\ \A s \in Sessions : SessionInv(s)

(* Nothing of a session changes. *)
Elsewhere ==
  /\ posting' \in [Nodes -> Seq(Events)] /\ cq' \in [Nodes -> Seq(Events)]
  /\ \A s \in Sessions : /\ posting'[s] = posting[s] /\ cq'[s] = cq[s]
                         /\ nextId'[s] = nextId[s] /\ job'[s] = job[s]
  /\ UNCHANGED sessionVars

(* A bounded push keeps completions that are the newest, without a gap. *)
LEMMA PushNewest ==
  ASSUME NEW q \in Seq(Sent), NEW limit \in Nat, NEW w \in Nat, NEW e \in Sent, e.wr = w,
         \A i \in DOMAIN q : q[i].wr = w - 1 - Len(q) + i
  PROVE  \E p \in Seq(Sent) :
           /\ p = PushBounded(q, e, limit) /\ Len(p) <= Len(q) + 1
           /\ \A i \in DOMAIN p : p[i].wr = w - Len(p) + i
<1>1. Len(q) \in Nat /\ DOMAIN q = 1 .. Len(q)
  BY LenProperties
<1>2. CASE IsFull(q, limit)
  <2>1. q # <<>>
    BY <1>2 DEF IsFull
  <2>2. PICK rest \in Seq(Sent) :
          /\ rest = Tail(q) /\ Len(rest) = Len(q) - 1
          /\ \A i \in 1 .. Len(rest) : rest[i] = q[i + 1]
    <3>1. /\ Tail(q) \in Seq(Sent) /\ Len(Tail(q)) = Len(q) - 1
          /\ \A i \in 1 .. Len(Tail(q)) : Tail(q)[i] = q[i + 1]
      BY <2>1, HeadTailProperties
    <3> QED BY <3>1, Zenon
  <2>3. Len(q) > 0
    BY <1>1, <2>1, EmptySeq
  <2>4. PICK p \in Seq(Sent) :
          /\ p = Append(rest, e) /\ Len(p) = Len(rest) + 1 /\ p[Len(rest) + 1] = e
          /\ \A i \in 1 .. Len(rest) : p[i] = rest[i]
    <3>1. /\ Append(rest, e) \in Seq(Sent) /\ Len(Append(rest, e)) = Len(rest) + 1
          /\ Append(rest, e)[Len(rest) + 1] = e
          /\ \A i \in 1 .. Len(rest) : Append(rest, e)[i] = rest[i]
      BY AppendProperties
    <3> QED BY <3>1, Zenon
  <2>5. DOMAIN p = 1 .. Len(p)
    BY LenProperties, Zenon
  <2>6. ASSUME NEW i \in DOMAIN p PROVE p[i].wr = w - Len(p) + i
    <3>1. CASE i = Len(q)
      BY <1>1, <2>2, <2>4, <3>1
    <3>2. CASE i # Len(q)
      <4>1. i \in 1 .. Len(rest) /\ i + 1 \in DOMAIN q /\ p[i] = q[i + 1]
        BY <1>1, <2>2, <2>3, <2>4, <2>5, <3>2
      <4>2. q[i + 1].wr = w - 1 - Len(q) + (i + 1)
        BY <4>1
      <4> QED BY <1>1, <2>2, <2>4, <4>1, <4>2
    <3> QED BY <3>1, <3>2, Zenon
  <2>7. p = PushBounded(q, e, limit)
    BY <1>2, <2>2, <2>4 DEF PushBounded
  <2>8. Len(p) <= Len(q) + 1
    BY <1>1, <2>2, <2>4
  <2> QED BY <2>6, <2>7, <2>8, Zenon
<1>3. CASE ~IsFull(q, limit)
  <2>1. PICK p \in Seq(Sent) :
          /\ p = Append(q, e) /\ Len(p) = Len(q) + 1 /\ p[Len(q) + 1] = e
          /\ \A i \in 1 .. Len(q) : p[i] = q[i]
    <3>1. /\ Append(q, e) \in Seq(Sent) /\ Len(Append(q, e)) = Len(q) + 1
          /\ Append(q, e)[Len(q) + 1] = e
          /\ \A i \in 1 .. Len(q) : Append(q, e)[i] = q[i]
      BY AppendProperties
    <3> QED BY <3>1, Zenon
  <2>2. DOMAIN p = 1 .. Len(p)
    BY LenProperties, Zenon
  <2>3. ASSUME NEW i \in DOMAIN p PROVE p[i].wr = w - Len(p) + i
    <3>1. CASE i = Len(q) + 1
      BY <1>1, <2>1, <3>1
    <3>2. CASE i # Len(q) + 1
      <4>1. i \in DOMAIN q /\ p[i] = q[i]
        BY <1>1, <2>1, <2>2, <3>2
      <4> QED BY <1>1, <2>1, <4>1
    <3> QED BY <3>1, <3>2, Zenon
  <2>4. p = PushBounded(q, e, limit)
    BY <1>3, <2>1, Zenon DEF PushBounded
  <2>5. Len(p) <= Len(q) + 1
    BY <1>1, <2>1
  <2> QED BY <2>3, <2>4, <2>5, Zenon
<1> QED BY <1>2, <1>3, Zenon

(* A bounded push of an event. *)
LEMMA PushEvent ==
  ASSUME NEW q \in Seq(Events), NEW e \in Events, NEW limit \in Nat
  PROVE  PushBounded(q, e, limit) \in Seq(Events)
<1>1. IsFull(q, limit) => q # <<>>
  BY DEF IsFull
<1>2. PICK rest \in Seq(Events) : rest = IF IsFull(q, limit) THEN Tail(q) ELSE q
  BY <1>1, HeadTailProperties, Zenon
<1>3. Append(rest, e) \in Seq(Events)
  BY AppendProperties
<1> QED BY <1>2, <1>3 DEF PushBounded

(* Sessions keep their own books, and clients, the server and runtimes     *)
(* have none.                                                              *)
LEMMA ElsewhereKeeps ==
  ASSUME FlowType, CountInv, Elsewhere
  PROVE  CountInv'
<1>1. CountType'
  BY DEF CountInv, CountType, Elsewhere, sessionVars
<1>2. ASSUME NEW s \in Sessions PROVE SessionInv(s)'
  <2>1. SessionInv(s)
    BY DEF CountInv
  <2>2. /\ posting'[s] = posting[s] /\ cq'[s] = cq[s] /\ nextId'[s] = nextId[s]
        /\ job'[s] = job[s] /\ metrics' = metrics /\ unrecorded' = unrecorded
    BY Zenon DEF Elsewhere, sessionVars
  <2> QED BY <2>1, <2>2, Zenon DEF SessionInv
<1> QED BY <1>1, <1>2 DEF CountInv

(* PostSend owes a completion. *)
LEMMA PostOwes ==
  ASSUME CountType, NEW n \in Nodes, NEW to, NEW ready \in BOOLEAN, NEW wr \in Nat, NEW m,
         PostSend(n, to, ready, wr, m)
  PROVE  /\ posting' \in [Nodes -> Seq(Events)] /\ posting'[n] = <<[wr |-> wr, ok |-> ready]>>
         /\ \A k \in Nodes : k # n => posting'[k] = posting[k]
<1>1. posting' = [posting EXCEPT ![n] = <<[wr |-> wr, ok |-> ready]>>]
  BY DEF PostSend
<1>2. <<[wr |-> wr, ok |-> ready]>> \in Seq(Events)
  BY DEF Events
<1> QED BY <1>1, <1>2 DEF CountType

(* Push and Poll change one node's completions. *)
LEMMA PushPollTypes ==
  ASSUME CountType, NEW n \in Nodes, Push(n) \/ Poll(n)
  PROVE  /\ posting' \in [Nodes -> Seq(Events)] /\ cq' \in [Nodes -> Seq(Events)]
         /\ \A k \in Nodes : k # n => posting'[k] = posting[k] /\ cq'[k] = cq[k]
<1>1. CASE Push(n)
  <2>1. posting[n] \in Seq(Events) /\ posting[n] # <<>> /\ cq[n] \in Seq(Events) /\ Depth \in Nat
    BY <1>1, Roles DEF Push, CountType
  <2>2. Head(posting[n]) \in Events
    BY <2>1, HeadTailProperties
  <2>3. PICK p \in Seq(Events) : p = PushBounded(cq[n], Head(posting[n]), Depth)
    BY <2>1, <2>2, PushEvent, Zenon
  <2>4. cq' = [cq EXCEPT ![n] = p] /\ posting' = [posting EXCEPT ![n] = <<>>]
    BY <1>1, <2>3, Zenon DEF Push
  <2>5. <<>> \in Seq(Events)
    BY EmptySeq
  <2> QED BY <2>4, <2>5 DEF CountType
<1>2. CASE Poll(n)
  <2>1. PICK p \in Seq(Events) : p = Tail(cq[n])
    BY <1>2, HeadTailProperties, Zenon DEF Poll, CountType
  <2>2. cq' = [cq EXCEPT ![n] = p] /\ posting' = posting
    BY <1>2, <2>1, Zenon DEF Poll
  <2> QED BY <2>2 DEF CountType
<1> QED BY <1>1, <1>2, Zenon

(* A step of session s is one of no other session. *)
LEMMA OthersKeep ==
  ASSUME CountInv, NEW s \in Sessions, CountType', SessionInv(s)',
         \A k \in Sessions : k # s =>
           /\ posting'[k] = posting[k] /\ cq'[k] = cq[k] /\ nextId'[k] = nextId[k]
           /\ job'[k] = job[k] /\ metrics'[k] = metrics[k] /\ unrecorded'[k] = unrecorded[k]
  PROVE  CountInv'
<1>1. ASSUME NEW k \in Sessions, k # s PROVE SessionInv(k)'
  <2>1. SessionInv(k)
    BY Zenon DEF CountInv
  <2>2. /\ posting'[k] = posting[k] /\ cq'[k] = cq[k] /\ nextId'[k] = nextId[k]
        /\ job'[k] = job[k] /\ metrics'[k] = metrics[k] /\ unrecorded'[k] = unrecorded[k]
    BY <1>1
  <2> QED BY <2>1, <2>2, Zenon DEF SessionInv
<1> QED BY <1>1, Zenon DEF CountInv

(* The types of what a session counts. *)
LEMMA SessionTypes ==
  ASSUME FlowType, CountInv, NEW s \in Sessions
  PROVE  /\ s \in Nodes /\ SessionInv(s) /\ CountType
         /\ metrics[s].sends \in Nat /\ metrics[s].receives \in Nat
         /\ metrics[s].completions \in Nat /\ metrics[s] \in Counters
         /\ unrecorded[s] \in {0, 1} /\ nextId[s] \in Nat /\ nextId[s] > 0
         /\ Len(cq[s]) \in Nat /\ DOMAIN cq[s] = 1 .. Len(cq[s])
         /\ metrics[s].sends + Len(posting[s]) + unrecorded[s] = nextId[s] - 1
         /\ s \in Workers => metrics[s].receives = nextId[s] - 1 + Len(job[s])
         /\ metrics[s].completions + Len(cq[s]) <= metrics[s].sends + unrecorded[s]
<1>1. s \in Nodes /\ SessionInv(s) /\ CountType
  BY Roles, Zenon DEF CountInv
<1>2. metrics[s] \in Counters /\ unrecorded[s] \in {0, 1} /\ nextId[s] \in Positive
  BY <1>1 DEF CountType, FlowType
<1>3. Len(cq[s]) \in Nat /\ DOMAIN cq[s] = 1 .. Len(cq[s])
  BY <1>1, LenProperties DEF SessionInv
<1>4. /\ metrics[s].sends + Len(posting[s]) + unrecorded[s] = nextId[s] - 1
      /\ s \in Workers => metrics[s].receives = nextId[s] - 1 + Len(job[s])
      /\ metrics[s].completions + Len(cq[s]) <= metrics[s].sends + unrecorded[s]
  BY <1>1, Zenon DEF SessionInv
<1> QED BY <1>1, <1>2, <1>3, <1>4 DEF Counters, Positive

(* A worker has a task in its hands or has none. *)
LEMMA JobLength ==
  ASSUME FlowType, NEW n \in Nodes
  PROVE  (job[n] = <<>> => Len(job[n]) = 0) /\ (job[n] # <<>> => Len(job[n]) = 1)
<1>1. \A t : Len(<<t>>) = 1
  OBVIOUS
<1> QED BY <1>1 DEF FlowType

(* The number before the next one. *)
LEMMA NumberBefore ==
  ASSUME NEW a \in Nat, NEW b, b = a + 1
  PROVE  b - 1 = a
OBVIOUS

(* Submit and SendResult owe the completion of the next work request. *)
LEMMA SessionPostKeeps ==
  ASSUME FlowType, CountInv, NEW s \in Sessions, NEW to, NEW m, Idle(s), SessionPost(s, to, m),
         UNCHANGED <<cq, metrics, unrecorded>>,
         \A k \in Sessions : k # s => job'[k] = job[k],
         s \in Workers => Len(job[s]) = 1 /\ Len(job'[s]) = 0
  PROVE  CountInv'
<1>0. /\ s \in Nodes /\ SessionInv(s) /\ CountType /\ nextId[s] \in Nat
      /\ metrics[s].sends \in Nat /\ metrics[s].receives \in Nat
      /\ metrics[s].sends + Len(posting[s]) + unrecorded[s] = nextId[s] - 1
      /\ s \in Workers => metrics[s].receives = nextId[s] - 1 + Len(job[s])
      /\ Len(cq[s]) \in Nat /\ DOMAIN cq[s] = 1 .. Len(cq[s])
  BY SessionTypes
<1> USE <1>0
<1>1. PostSend(s, to, TRUE, nextId[s], m) /\ nextId' = [nextId EXCEPT ![s] = @ + 1]
  BY PairsCanSend, Zenon DEF SessionPost
<1>2. /\ posting' \in [Nodes -> Seq(Events)]
      /\ posting'[s] = <<[wr |-> nextId[s], ok |-> TRUE]>>
      /\ \A k \in Nodes : k # s => posting'[k] = posting[k]
  BY <1>1, PostOwes, Zenon
<1>3. nextId'[s] = nextId[s] + 1 /\ \A k \in Nodes : k # s => nextId'[k] = nextId[k]
  BY <1>1, Zenon DEF FlowType
<1>4. CountType'
  BY <1>2, Zenon DEF CountType
<1>5. /\ posting[s] = <<>> /\ Len(posting[s]) = 0 /\ Len(posting'[s]) = 1
      /\ unrecorded[s] = 0 /\ cq'[s] = cq[s] /\ metrics'[s] = metrics[s]
      /\ unrecorded'[s] = unrecorded[s]
  BY <1>2, Zenon DEF Idle
<1>6. nextId'[s] - 1 = nextId[s]
  BY <1>3, NumberBefore, Zenon
<1>7. SessionInv(s)'
  <2>1. posting'[s] = <<[wr |-> nextId'[s] - 1, ok |-> TRUE]>> /\ unrecorded'[s] = 0
    BY <1>2, <1>5, <1>6, Zenon
  <2>2. metrics'[s].sends + Len(posting'[s]) + unrecorded'[s] = nextId'[s] - 1
    BY <1>5, <1>6
  <2>3. s \in Workers => metrics'[s].receives = nextId'[s] - 1 + Len(job'[s])
    <3>1. ASSUME s \in Workers PROVE metrics'[s].receives = nextId'[s] - 1 + Len(job'[s])
      <4>1. /\ metrics[s].receives = nextId[s] - 1 + Len(job[s])
            /\ Len(job[s]) = 1 /\ Len(job'[s]) = 0
        BY <3>1
      <4> HIDE <1>0
      <4>2. nextId[s] \in Nat /\ nextId'[s] = nextId[s] + 1
        BY <1>0, <1>3, Zenon
      <4>3. nextId[s] - 1 + 1 = nextId'[s] - 1 + 0
        BY <4>2
      <4> QED BY <1>5, <4>1, <4>3, Zenon
    <3> QED BY <3>1, Zenon
  <2>4. metrics'[s].completions + Len(cq'[s]) <= metrics'[s].sends + unrecorded'[s]
    BY <1>5, Zenon DEF SessionInv
  <2>5. \A i \in DOMAIN cq'[s] :
          cq'[s][i].wr = nextId'[s] - 1 - Len(posting'[s]) - Len(cq'[s]) + i
    <3>1. \A i \in DOMAIN cq[s] :
            cq[s][i].wr = nextId[s] - 1 - Len(posting[s]) - Len(cq[s]) + i
      BY Zenon DEF SessionInv
    <3> HIDE <1>0
    <3>2. /\ nextId[s] \in Nat /\ Len(cq[s]) \in Nat /\ DOMAIN cq[s] = 1 .. Len(cq[s])
          /\ nextId'[s] = nextId[s] + 1
      BY <1>0, <1>3, Zenon
    <3>3. \A i \in DOMAIN cq[s] :
            nextId[s] - 1 - 0 - Len(cq[s]) + i = nextId'[s] - 1 - 1 - Len(cq[s]) + i
      BY <3>2
    <3> QED BY <1>5, <3>1, <3>3, Zenon
  <2>6. metrics'[s].failed = 0 /\ cq'[s] \in Seq(Sent)
    BY <1>5 DEF SessionInv
  <2> QED BY <2>1, <2>2, <2>3, <2>4, <2>5, <2>6, Zenon DEF SessionInv
<1>8. \A k \in Sessions : k # s =>
           /\ posting'[k] = posting[k] /\ cq'[k] = cq[k] /\ nextId'[k] = nextId[k]
           /\ job'[k] = job[k] /\ metrics'[k] = metrics[k] /\ unrecorded'[k] = unrecorded[k]
  BY <1>2, <1>3, Roles, Zenon
<1> QED BY <1>4, <1>7, <1>8, OthersKeep

(* PollTask counts what it receives. *)
LEMMA SessionPollTaskKeeps ==
  ASSUME FlowType, CountInv, NEW s \in Workers, SessionPollTask(s)
  PROVE  CountInv'
<1>1. s \in Sessions
  BY Zenon DEF Sessions
<1>2. /\ UNCHANGED <<posting, cq, nextId, unrecorded>> /\ job[s] = <<>>
      /\ metrics' = [metrics EXCEPT ![s].receives = @ + 1]
      /\ \E t : job' = [job EXCEPT ![s] = <<t>>]
  BY Zenon DEF SessionPollTask, RecordReceive
<1>3. Len(job'[s]) = 1 /\ Len(job[s]) = 0 /\ \A k \in Nodes : k # s => job'[k] = job[k]
  BY <1>1, <1>2, SessionTypes DEF FlowType
<1>4. /\ metrics' \in [Sessions -> Counters]
      /\ metrics'[s].sends = metrics[s].sends /\ metrics'[s].failed = metrics[s].failed
      /\ metrics'[s].receives = metrics[s].receives + 1
      /\ metrics'[s].completions = metrics[s].completions
      /\ \A k \in Sessions : k # s => metrics'[k] = metrics[k]
  <2>1. metrics \in [Sessions -> Counters] /\ metrics[s].receives \in Nat
    BY <1>1, SessionTypes DEF CountType
  <2>2. PICK c \in Counters : c = [metrics[s] EXCEPT !.receives = @ + 1]
    <3>1. [metrics[s] EXCEPT !.receives = @ + 1] \in Counters
      BY <1>1, <2>1 DEF Counters
    <3> QED BY <3>1
  <2>3. metrics' = [metrics EXCEPT ![s] = c]
    BY <1>2, <2>2, Zenon
  <2>4. /\ c.sends = metrics[s].sends /\ c.failed = metrics[s].failed
        /\ c.receives = metrics[s].receives + 1 /\ c.completions = metrics[s].completions
    BY <1>1, <2>1, <2>2 DEF Counters
  <2> QED BY <1>1, <2>1, <2>3, <2>4
<1>5. CountType'
  BY <1>1, <1>2, <1>4, SessionTypes DEF CountType
<1>6. SessionInv(s)'
  <2>1. s \in Workers => metrics'[s].receives = nextId'[s] - 1 + Len(job'[s])
    <3>1. metrics[s].receives = nextId[s] - 1 + Len(job[s])
      BY <1>1, SessionTypes, Zenon
    <3>2. nextId[s] \in Nat /\ metrics[s].receives \in Nat /\ nextId'[s] = nextId[s]
      BY <1>1, <1>2, SessionTypes
    <3> QED BY <1>3, <1>4, <3>1, <3>2
  <2> QED BY <1>1, <1>2, <1>4, <2>1, SessionTypes DEF SessionInv
<1>7. \A k \in Sessions : k # s =>
           /\ posting'[k] = posting[k] /\ cq'[k] = cq[k] /\ nextId'[k] = nextId[k]
           /\ job'[k] = job[k] /\ metrics'[k] = metrics[k] /\ unrecorded'[k] = unrecorded[k]
  BY <1>2, <1>3, <1>4, Roles, SMTT(30)
<1> QED BY <1>1, <1>5, <1>6, <1>7, OthersKeep, Zenon

(* The completion is that of the last work request. *)
LEMMA SessionPushKeeps ==
  ASSUME FlowType, CountInv, NEW s \in Sessions, SessionPushCompletion(s)
  PROVE  CountInv'
<1>0. /\ s \in Nodes /\ SessionInv(s) /\ CountType /\ nextId[s] \in Nat /\ nextId[s] > 0
      /\ metrics[s].sends \in Nat /\ metrics[s].completions \in Nat
      /\ metrics[s].sends + Len(posting[s]) + unrecorded[s] = nextId[s] - 1
      /\ metrics[s].completions + Len(cq[s]) <= metrics[s].sends + unrecorded[s]
      /\ Len(cq[s]) \in Nat /\ DOMAIN cq[s] = 1 .. Len(cq[s])
  BY SessionTypes
<1> USE <1>0
<1>1. /\ Push(s) /\ posting[s] # <<>> /\ metrics' = metrics
      /\ unrecorded' = [unrecorded EXCEPT ![s] = 1]
      /\ UNCHANGED <<nextId, job>>
  BY Zenon DEF SessionPushCompletion, Push
<1>2. /\ posting' \in [Nodes -> Seq(Events)] /\ cq' \in [Nodes -> Seq(Events)]
      /\ \A k \in Nodes : k # s => posting'[k] = posting[k] /\ cq'[k] = cq[k]
  BY <1>1, PushPollTypes, Zenon
<1>3. /\ unrecorded' \in [Sessions -> {0, 1}] /\ unrecorded'[s] = 1
      /\ \A k \in Sessions : k # s => unrecorded'[k] = unrecorded[k]
  BY <1>1 DEF CountType
<1>4. CountType'
  BY <1>1, <1>2, <1>3 DEF CountType
<1>5. PICK w \in Nat : w = nextId[s] - 1
  <2> HIDE <1>0
  <2>1. nextId[s] \in Nat /\ nextId[s] > 0
    BY <1>0, Zenon
  <2>2. nextId[s] - 1 \in Nat
    BY <2>1
  <2> QED BY <2>2, Zenon
<1>6. /\ posting[s] = <<[wr |-> w, ok |-> TRUE]>> /\ unrecorded[s] = 0
      /\ Len(posting[s]) = 1
  <2>1. posting[s] = <<[wr |-> nextId[s] - 1, ok |-> TRUE]>> /\ unrecorded[s] = 0
    BY <1>1, Zenon DEF SessionInv
  <2> QED BY <1>5, <2>1
<1>7. PICK e \in Sent : e = Head(posting[s]) /\ e.wr = w
  <2>1. [wr |-> w, ok |-> TRUE] \in Sent /\ Head(posting[s]) = [wr |-> w, ok |-> TRUE]
    BY <1>6 DEF Sent
  <2> QED BY <2>1
<1>8. PICK q \in Seq(Sent) : q = cq[s]
  BY DEF SessionInv
<1>9. \A i \in DOMAIN q : q[i].wr = w - 1 - Len(q) + i
  <2>1. \A i \in DOMAIN cq[s] : cq[s][i].wr = w - 1 - Len(cq[s]) + i
    BY <1>5, <1>6 DEF SessionInv
  <2> QED BY <1>8, <2>1, Zenon
<1>10. PICK p \in Seq(Sent) :
           /\ p = PushBounded(q, e, Depth) /\ Len(p) <= Len(q) + 1
           /\ \A i \in DOMAIN p : p[i].wr = w - Len(p) + i
  <2>1. Depth \in Nat
    BY Roles, Zenon
  <2> HIDE <1>0
  <2>2. q \in Seq(Sent) /\ e \in Sent /\ w \in Nat /\ e.wr = w
    BY <1>7
  <2> QED BY <2>1, <2>2, <1>9, PushNewest, Zenon
<1>11. cq'[s] = p /\ posting'[s] = <<>> /\ Len(posting'[s]) = 0
  <2>1. cq' = [cq EXCEPT ![s] = p] /\ posting' = [posting EXCEPT ![s] = <<>>]
    BY <1>1, <1>7, <1>8, <1>10, Zenon DEF Push
  <2> QED BY <2>1 DEF CountType
<1>12. SessionInv(s)'
  <2>1. Len(p) \in Nat /\ DOMAIN p = 1 .. Len(p)
    BY LenProperties, Zenon
  <2>2. metrics'[s].sends + Len(posting'[s]) + unrecorded'[s] = nextId'[s] - 1
    <3> HIDE <1>0
    <3>1. metrics[s].sends \in Nat /\ metrics[s].sends + 1 + 0 = nextId[s] - 1
      BY <1>0, <1>6, Zenon
    <3>2. metrics[s].sends + 0 + 1 = metrics[s].sends + 1 + 0
      BY <3>1
    <3> QED BY <1>1, <1>3, <1>11, <3>1, <3>2, Zenon
  <2>3. metrics'[s].completions + Len(cq'[s]) <= metrics'[s].sends + unrecorded'[s]
    <3> HIDE <1>0
    <3>1. PICK c \in Nat, d \in Nat, l \in Nat, n \in Nat :
            c = metrics[s].completions /\ d = metrics[s].sends /\ l = Len(q) /\ n = Len(p)
      BY <1>0, <1>8, <2>1, Zenon
    <3>2. c + l <= d + 0 /\ n <= l + 1
      BY <1>0, <1>6, <1>8, <1>10, <3>1, Zenon
    <3>3. c + n <= d + 1
      BY <3>2
    <3> QED BY <1>1, <1>3, <1>11, <3>1, <3>3, Zenon
  <2>4. \A i \in DOMAIN cq'[s] :
          cq'[s][i].wr = nextId'[s] - 1 - Len(posting'[s]) - Len(cq'[s]) + i
    <3> HIDE <1>0
    <3>1. PICK n \in Nat : n = Len(p)
      BY <2>1, Zenon
    <3>2. \A i \in DOMAIN p : w - n + i = w - 0 - n + i
      OBVIOUS
    <3>3. \A i \in DOMAIN p : p[i].wr = w - 0 - n + i
      BY <1>10, <3>1, <3>2, Zenon
    <3> QED BY <1>1, <1>5, <1>11, <3>1, <3>3, Zenon
  <2> QED BY <1>1, <1>11, <2>2, <2>3, <2>4, Zenon DEF SessionInv
<1>13. \A k \in Sessions : k # s =>
           /\ posting'[k] = posting[k] /\ cq'[k] = cq[k] /\ nextId'[k] = nextId[k]
           /\ job'[k] = job[k] /\ metrics'[k] = metrics[k] /\ unrecorded'[k] = unrecorded[k]
  BY <1>1, <1>2, <1>3, Roles, Zenon
<1> QED BY <1>4, <1>12, <1>13, OthersKeep

(* RecordSend counts the send that has completed. *)
LEMMA RecordSendKeeps ==
  ASSUME FlowType, CountInv, NEW s \in Sessions, RecordSend(s)
  PROVE  CountInv'
<1>0. /\ s \in Nodes /\ SessionInv(s) /\ CountType /\ nextId[s] \in Nat
      /\ metrics[s].sends \in Nat /\ metrics[s].completions \in Nat
      /\ metrics[s].sends + Len(posting[s]) + unrecorded[s] = nextId[s] - 1
      /\ metrics[s].completions + Len(cq[s]) <= metrics[s].sends + unrecorded[s]
      /\ Len(cq[s]) \in Nat /\ metrics[s] \in Counters
  BY SessionTypes, Zenon
<1>1. /\ unrecorded[s] = 1 /\ unrecorded' = [unrecorded EXCEPT ![s] = 0]
      /\ metrics' = [metrics EXCEPT ![s].sends = @ + 1]
      /\ UNCHANGED <<posting, cq, nextId, job>>
  BY Zenon DEF RecordSend, brokerVars
<1>2. posting[s] = <<>> /\ Len(posting[s]) = 0
  <2>1. posting[s] = <<>>
    BY <1>0, <1>1 DEF SessionInv
  <2> QED BY <2>1
<1>3. /\ metrics' \in [Sessions -> Counters]
      /\ metrics'[s].sends = metrics[s].sends + 1 /\ metrics'[s].failed = metrics[s].failed
      /\ metrics'[s].receives = metrics[s].receives
      /\ metrics'[s].completions = metrics[s].completions
      /\ \A k \in Sessions : k # s => metrics'[k] = metrics[k]
  <2>1. metrics \in [Sessions -> Counters]
    BY <1>0, Zenon DEF CountType
  <2>2. PICK c \in Counters : c = [metrics[s] EXCEPT !.sends = @ + 1]
    <3>1. [metrics[s] EXCEPT !.sends = @ + 1] \in Counters
      <4>1. metrics[s].sends + 1 \in Nat
        BY <1>0
      <4> QED BY <1>0, <4>1, Zenon DEF Counters
    <3> QED BY <3>1
  <2>3. metrics' = [metrics EXCEPT ![s] = c]
    BY <1>1, <2>2, Zenon
  <2>4. /\ c.sends = metrics[s].sends + 1 /\ c.failed = metrics[s].failed
        /\ c.receives = metrics[s].receives /\ c.completions = metrics[s].completions
    BY <1>0, <2>2 DEF Counters
  <2> QED BY <2>1, <2>3, <2>4, Zenon
<1>4. /\ unrecorded' \in [Sessions -> {0, 1}] /\ unrecorded'[s] = 0
      /\ \A k \in Sessions : k # s => unrecorded'[k] = unrecorded[k]
  BY <1>0, <1>1 DEF CountType
<1>5. CountType'
  BY <1>0, <1>1, <1>3, <1>4 DEF CountType
<1>6. SessionInv(s)'
  <2>1. metrics'[s].sends + Len(posting'[s]) + unrecorded'[s] = nextId'[s] - 1
    BY <1>0, <1>1, <1>2, <1>3, <1>4
  <2>2. metrics'[s].completions + Len(cq'[s]) <= metrics'[s].sends + unrecorded'[s]
    BY <1>0, <1>1, <1>3, <1>4
  <2> QED BY <1>0, <1>1, <1>2, <1>3, <2>1, <2>2 DEF SessionInv
<1>7. \A k \in Sessions : k # s =>
           /\ posting'[k] = posting[k] /\ cq'[k] = cq[k] /\ nextId'[k] = nextId[k]
           /\ job'[k] = job[k] /\ metrics'[k] = metrics[k] /\ unrecorded'[k] = unrecorded[k]
  BY <1>1, <1>3, <1>4, Zenon
<1> QED BY <1>5, <1>6, <1>7, OthersKeep, Zenon

(* PollCompletion takes the oldest completion there is, and none of them   *)
(* has failed.                                                             *)
LEMMA SessionPollKeeps ==
  ASSUME FlowType, CountInv, NEW s \in Sessions, SessionPollCompletion(s)
  PROVE  CountInv'
<1>0. /\ s \in Nodes /\ SessionInv(s) /\ CountType /\ nextId[s] \in Nat
      /\ metrics[s].sends \in Nat /\ metrics[s].completions \in Nat
      /\ metrics[s].completions + Len(cq[s]) <= metrics[s].sends + unrecorded[s]
      /\ unrecorded[s] \in {0, 1}
      /\ Len(cq[s]) \in Nat /\ metrics[s] \in Counters /\ DOMAIN cq[s] = 1 .. Len(cq[s])
  BY SessionTypes
<1>1. /\ Poll(s) /\ cq[s] # <<>> /\ RecordCompletion(s, Head(cq[s]))
      /\ UNCHANGED <<posting, nextId, job, unrecorded>>
  BY DEF SessionPollCompletion, Poll
<1>2. PICK q \in Seq(Sent) : q = cq[s]
  BY <1>0 DEF SessionInv
<1>3. q # <<>> /\ Head(q).ok = TRUE
  <2>1. q # <<>>
    BY <1>1, <1>2
  <2>2. Head(q) \in Sent
    BY <2>1, HeadTailProperties
  <2> QED BY <2>1, <2>2, Zenon DEF Sent
<1>4. PICK rest \in Seq(Sent) :
        /\ rest = Tail(q) /\ Len(rest) = Len(q) - 1
        /\ \A i \in 1 .. Len(rest) : rest[i] = q[i + 1]
  <2>1. /\ Tail(q) \in Seq(Sent) /\ Len(Tail(q)) = Len(q) - 1
        /\ \A i \in 1 .. Len(Tail(q)) : Tail(q)[i] = q[i + 1]
    BY <1>3, HeadTailProperties
  <2> QED BY <2>1, Zenon
<1>5. /\ posting' \in [Nodes -> Seq(Events)] /\ cq' \in [Nodes -> Seq(Events)]
      /\ cq'[s] = rest /\ \A k \in Nodes : k # s => cq'[k] = cq[k]
  <2>1. /\ posting' \in [Nodes -> Seq(Events)] /\ cq' \in [Nodes -> Seq(Events)]
        /\ \A k \in Nodes : k # s => cq'[k] = cq[k]
    BY <1>0, <1>1, PushPollTypes, Zenon
  <2>2. cq' = [cq EXCEPT ![s] = rest]
    BY <1>1, <1>2, <1>4, Zenon DEF Poll
  <2> QED BY <1>0, <2>1, <2>2 DEF CountType
<1>6. /\ metrics' \in [Sessions -> Counters]
      /\ metrics'[s].sends = metrics[s].sends /\ metrics'[s].failed = metrics[s].failed
      /\ metrics'[s].receives = metrics[s].receives
      /\ metrics'[s].completions = metrics[s].completions + 1
      /\ \A k \in Sessions : k # s => metrics'[k] = metrics[k]
  <2>1. metrics \in [Sessions -> Counters]
    BY <1>0 DEF CountType
  <2>2. PICK c \in Counters : c = [metrics[s] EXCEPT !.completions = @ + 1]
    <3>1. [metrics[s] EXCEPT !.completions = @ + 1] \in Counters
      <4>1. metrics[s].completions + 1 \in Nat
        BY <1>0
      <4> QED BY <1>0, <4>1, Zenon DEF Counters
    <3> QED BY <3>1
  <2>3. metrics' = [metrics EXCEPT ![s].completions = @ + 1, ![s].failed = @]
    BY <1>1, <1>2, <1>3, Zenon DEF RecordCompletion
  <2>4. metrics' = [metrics EXCEPT ![s] = c]
    BY <1>0, <2>1, <2>2, <2>3, Zenon DEF Counters
  <2>5. /\ c.sends = metrics[s].sends /\ c.failed = metrics[s].failed
        /\ c.receives = metrics[s].receives /\ c.completions = metrics[s].completions + 1
    BY <1>0, <2>2 DEF Counters
  <2> QED BY <2>1, <2>4, <2>5
<1>7. CountType'
  BY <1>0, <1>1, <1>5, <1>6 DEF CountType
<1>8. SessionInv(s)'
  <2>1. metrics'[s].completions + Len(cq'[s]) <= metrics'[s].sends + unrecorded'[s]
    <3>1. metrics[s].completions + Len(cq[s]) <= metrics[s].sends + unrecorded[s]
      BY <1>0, Zenon
    <3>2. PICK c \in Nat, d \in Nat, u \in Nat, l \in Nat :
            /\ c = metrics[s].completions /\ d = metrics[s].sends /\ u = unrecorded[s]
            /\ l = Len(q)
      <4>1. unrecorded[s] \in Nat
        BY <1>0 DEF CountType
      <4>2. Len(q) \in Nat
        BY LenProperties, Zenon
      <4> QED BY <1>0, <4>1, <4>2, Zenon
    <3>3. c + l <= d + u
      BY <1>2, <3>1, <3>2, Zenon
    <3>4. c + 1 + (l - 1) <= d + u
      BY <3>3
    <3> QED BY <1>1, <1>4, <1>5, <1>6, <3>2, <3>4, Zenon
  <2>2. PICK last \in Int : last = nextId[s] - 1 - Len(posting[s])
    BY <1>0, LenProperties DEF CountType
  <2>3. \A i \in DOMAIN q : q[i].wr = last - Len(q) + i
    BY <1>0, <1>2, <2>2, Zenon DEF SessionInv
  <2>4. \A i \in DOMAIN rest : rest[i].wr = last - Len(rest) + i
    <3>1. DOMAIN rest = 1 .. Len(rest) /\ DOMAIN q = 1 .. Len(q) /\ Len(q) \in Nat
      BY LenProperties
    <3>2. ASSUME NEW i \in DOMAIN rest PROVE rest[i].wr = last - Len(rest) + i
      <4>1. i + 1 \in DOMAIN q /\ rest[i] = q[i + 1]
        BY <1>4, <3>1
      <4>2. q[i + 1].wr = last - Len(q) + (i + 1)
        BY <2>3, <4>1, Zenon
      <4> QED BY <1>4, <3>1, <4>1, <4>2
    <3> QED BY <3>2
  <2>5. \A i \in DOMAIN cq'[s] :
          cq'[s][i].wr = nextId'[s] - 1 - Len(posting'[s]) - Len(cq'[s]) + i
    BY <1>1, <1>5, <2>2, <2>4
  <2> QED BY <1>0, <1>1, <1>5, <1>6, <2>1, <2>5, Zenon DEF SessionInv
<1>9. \A k \in Sessions : k # s =>
           /\ posting'[k] = posting[k] /\ cq'[k] = cq[k] /\ nextId'[k] = nextId[k]
           /\ job'[k] = job[k] /\ metrics'[k] = metrics[k] /\ unrecorded'[k] = unrecorded[k]
  BY <1>1, <1>5, <1>6, Roles, Zenon
<1> QED BY <1>7, <1>8, <1>9, OthersKeep

(* What clients, the server and runtimes do. *)
LEMMA OthersElsewhere ==
  ASSUME FlowType, CountInv, NEW n \in Nodes \ Sessions, UNCHANGED sessionVars,
         \/ Push(n) \/ Poll(n)
         \/ PollReceive(n) /\ UNCHANGED <<posting, cq, nextId>>
         \/ \E to, m : \E ready \in BOOLEAN, wr \in Nat :
              PostSend(n, to, ready, wr, m) /\ UNCHANGED cq,
         \A k \in Nodes : k # n => nextId'[k] = nextId[k] /\ job'[k] = job[k]
  PROVE  CountInv'
<1>1. CountType /\ \A s \in Sessions : s \in Nodes /\ s # n
  BY Roles, Zenon DEF CountInv
<1>2. CASE Push(n) \/ Poll(n)
  <2>1. /\ posting' \in [Nodes -> Seq(Events)] /\ cq' \in [Nodes -> Seq(Events)]
        /\ \A k \in Nodes : k # n => posting'[k] = posting[k] /\ cq'[k] = cq[k]
    BY <1>1, <1>2, PushPollTypes, Zenon
  <2>2. Elsewhere
    BY <1>1, <2>1, Zenon DEF Elsewhere
  <2> QED BY <2>2, ElsewhereKeeps
<1>3. CASE PollReceive(n) /\ UNCHANGED <<posting, cq, nextId>>
  <2>1. Elsewhere
    BY <1>1, <1>3, Zenon DEF Elsewhere, CountType
  <2> QED BY <2>1, ElsewhereKeeps
<1>4. ASSUME NEW to, NEW m, NEW ready \in BOOLEAN, NEW wr \in Nat,
             PostSend(n, to, ready, wr, m), UNCHANGED cq
      PROVE  CountInv'
  <2>1. /\ posting' \in [Nodes -> Seq(Events)]
        /\ \A k \in Nodes : k # n => posting'[k] = posting[k]
    BY <1>1, <1>4, PostOwes, Zenon
  <2>2. Elsewhere
    BY <1>1, <1>4, <2>1, Zenon DEF Elsewhere, CountType
  <2> QED BY <2>2, ElsewhereKeeps
<1> QED BY <1>2, <1>3, <1>4, Zenon

(* Nothing is counted at first. *)
LEMMA CountInvInit == Init => CountInv
<1> SUFFICES ASSUME Init PROVE CountInv
  BY Zenon
<1>1. <<>> \in Seq(Events) /\ <<>> \in Seq(Sent) /\ Len(<<>>) = 0
  BY EmptySeq
<1>2. /\ posting = [n \in Nodes |-> <<>>] /\ cq = [n \in Nodes |-> <<>>]
      /\ job = [n \in Nodes |-> <<>>] /\ nextId = [n \in Nodes |-> 1]
      /\ metrics = [s \in Sessions |->
                      [sends |-> 0, receives |-> 0, completions |-> 0, failed |-> 0]]
      /\ unrecorded = [s \in Sessions |-> 0]
  BY DEF Init, BrokerInit, SessionInit
<1>3. CountType
  BY <1>1, <1>2 DEF CountType, Counters
<1>4. ASSUME NEW s \in Sessions PROVE SessionInv(s)
  <2>1. /\ posting[s] = <<>> /\ cq[s] = <<>> /\ job[s] = <<>> /\ nextId[s] = 1
        /\ metrics[s] = [sends |-> 0, receives |-> 0, completions |-> 0, failed |-> 0]
        /\ unrecorded[s] = 0
    BY <1>2, Roles
  <2>2. DOMAIN cq[s] = {}
    BY <2>1
  <2>3. /\ metrics[s].sends = 0 /\ metrics[s].receives = 0 /\ metrics[s].completions = 0
        /\ metrics[s].failed = 0
    BY <2>1
  <2>4. 0 + 0 + 0 = 1 - 1 /\ 0 = 1 - 1 + 0 /\ 0 + 0 <= 0 + 0
    OBVIOUS
  <2> QED BY <1>1, <2>1, <2>2, <2>3, <2>4, Zenon DEF SessionInv
<1> QED BY <1>3, <1>4 DEF CountInv

(* Every step keeps the books. *)
LEMMA CountInvNext == FlowType /\ CountInv /\ [Next]_vars => CountInv'
<1> SUFFICES ASSUME FlowType, CountInv, [Next]_vars PROVE CountInv'
  BY Zenon
<1>0. /\ nextId \in [Nodes -> Nat] /\ job \in [Nodes -> {<<>>} \cup {<<t>> : t \in Jobs}]
      /\ \A k \in Nodes : nextId[k] \in Nat
  BY Zenon DEF FlowType, Positive
<1>1. ASSUME NEW c \in Clients, Connect(c) \/ Fail(c), UNCHANGED sessionVars
      PROVE  CountInv'
  <2>1. UNCHANGED brokerVars
    BY <1>1 DEF Connect, Fail
  <2>2. Elsewhere
    BY <1>1, <2>1, Zenon DEF Elsewhere, brokerVars, CountInv, CountType
  <2> QED BY <2>2, ElsewhereKeeps
<1>2. ASSUME NEW c \in Clients, SubmitTask(c), UNCHANGED sessionVars PROVE CountInv'
  <2>1. c \in Nodes \ Sessions /\ IsReadyToSend(qp[c]) \in BOOLEAN /\ nextId[c] \in Nat
    BY <1>0, Roles, Zenon DEF IsReadyToSend
  <2>2. PostSend(c, Server, IsReadyToSend(qp[c]), nextId[c], Task(c, "task")) /\ UNCHANGED cq
    BY <1>2, Zenon DEF SubmitTask
  <2>3. \A k \in Nodes : k # c => nextId'[k] = nextId[k] /\ job'[k] = job[k]
    BY <1>0, <1>2, Zenon DEF SubmitTask
  <2> QED BY <1>2, <2>1, <2>2, <2>3, OthersElsewhere, Zenon
<1>3. ASSUME NEW c \in Clients, PollResult(c), UNCHANGED sessionVars PROVE CountInv'
  <2>1. c \in Nodes \ Sessions
    BY Roles
  <2>2. PollReceive(c) /\ UNCHANGED <<posting, cq, nextId, job>>
    BY <1>3 DEF PollResult
  <2> QED BY <1>3, <2>1, <2>2, OthersElsewhere, Zenon
<1>4. ASSUME PollTask \/ SendResult, UNCHANGED sessionVars PROVE CountInv'
  <2>1. Server \in Nodes \ Sessions
    BY Roles
  <2>2. \A k \in Nodes : k # Server => nextId'[k] = nextId[k] /\ job'[k] = job[k]
    BY <1>0, <1>4, Zenon DEF PollTask, SendResult
  <2>3. CASE PollTask
    <3>1. PollReceive(Server) /\ UNCHANGED <<posting, cq, nextId>>
      BY <2>3 DEF PollTask
    <3> QED BY <1>4, <2>1, <2>2, <3>1, OthersElsewhere, Zenon
  <2>4. CASE SendResult
    <3>1. EnsureClient \in BOOLEAN /\ 0 \in Nat
      BY PairsCanSend
    <3>2. PICK to, m : PostSend(Server, to, EnsureClient, 0, m) /\ UNCHANGED cq
      BY <2>4 DEF SendResult
    <3> QED BY <1>4, <2>1, <2>2, <3>1, <3>2, OthersElsewhere, Zenon
  <2> QED BY <1>4, <2>3, <2>4
<1>5. ASSUME NEW n \in Runtimes, UNCHANGED sessionVars,
             (\E target \in TensorTargets : RuntimeSubmit(n, target)) \/ RuntimePoll(n)
      PROVE  CountInv'
  <2>1. n \in Nodes \ Sessions /\ nextId[n] \in Nat
    BY <1>0, Roles
  <2>2. ASSUME NEW target \in TensorTargets, RuntimeSubmit(n, target) PROVE CountInv'
    <3>1. IsReadyToSend(FreshPair) \in BOOLEAN
      BY PairsCanSend
    <3>2. PICK to, m :
            PostSend(n, to, IsReadyToSend(FreshPair), nextId[n], m) /\ UNCHANGED cq
      BY <2>2 DEF RuntimeSubmit, Execute
    <3>3. \A k \in Nodes : k # n => nextId'[k] = nextId[k] /\ job'[k] = job[k]
      BY <1>0, <2>2 DEF RuntimeSubmit, Execute
    <3> QED BY <1>5, <2>1, <3>1, <3>2, <3>3, OthersElsewhere, Zenon
  <2>3. ASSUME RuntimePoll(n) PROVE CountInv'
    <3>1. PollReceive(n) /\ UNCHANGED <<posting, cq, nextId, job>>
      BY <2>3 DEF RuntimePoll
    <3> QED BY <1>5, <2>1, <3>1, OthersElsewhere, Zenon
  <2> QED BY <1>5, <2>2, <2>3
<1>6. ASSUME NEW n \in Nodes \ Sessions, PushCompletion(n) \/ PollCompletion(n)
      PROVE  CountInv'
  <2>1. Push(n) \/ Poll(n)
    BY <1>6 DEF PushCompletion, PollCompletion
  <2>2. UNCHANGED <<nextId, job, sessionVars>>
    BY <1>6, Zenon DEF PushCompletion, PollCompletion, Push, Poll
  <2> QED BY <2>1, <2>2, OthersElsewhere, Zenon
<1>7. ASSUME NEW s \in Controllers, NEW target \in Targets, Submit(s, target) PROVE CountInv'
  <2>1. /\ s \in Sessions /\ s \notin Workers /\ Idle(s)
        /\ SessionPost(s, Peer(s, target), Task(s, "task"))
        /\ UNCHANGED <<cq, job, metrics, unrecorded>>
    BY <1>7, SessionAssumption DEF Submit, Sessions
  <2> QED BY <2>1, SessionPostKeeps
<1>8. ASSUME NEW s \in Controllers, TakeResult(s) PROVE CountInv'
  <2>1. Elsewhere
    BY <1>8 DEF TakeResult, Elsewhere, sessionVars, CountInv, CountType
  <2> QED BY <2>1, ElsewhereKeeps, Zenon
<1>9. ASSUME NEW s \in Workers, SessionSendResult(s) PROVE CountInv'
  <2>1. /\ s \in Sessions /\ s \in Nodes /\ Idle(s) /\ job[s] # <<>>
        /\ job' = [job EXCEPT ![s] = <<>>] /\ UNCHANGED <<cq, metrics, unrecorded>>
    BY <1>9, SessionAssumption DEF SessionSendResult, Sessions
  <2>2. PICK to, m : SessionPost(s, to, m)
    BY <1>9 DEF SessionSendResult
  <2>3. Len(job[s]) = 1 /\ Len(job'[s]) = 0 /\ \A k \in Sessions : k # s => job'[k] = job[k]
    BY <1>0, <2>1, JobLength, Roles
  <2> QED BY <2>1, <2>2, <2>3, SessionPostKeeps, Zenon
<1>10. ASSUME NEW s \in Sessions,
              SessionPushCompletion(s) \/ RecordSend(s) \/ SessionPollCompletion(s)
       PROVE  CountInv'
  BY <1>10, SessionPushKeeps, RecordSendKeeps, SessionPollKeeps
<1>11. CASE UNCHANGED vars
  <2>1. Elsewhere
    BY <1>11, Zenon DEF vars, Elsewhere, brokerVars, CountInv, CountType
  <2> QED BY <2>1, ElsewhereKeeps
<1>12. CASE ClientServerNext /\ UNCHANGED sessionVars
  BY <1>1, <1>2, <1>3, <1>4, <1>12 DEF ClientServerNext
<1>13. CASE SessionNext
  BY <1>7, <1>8, <1>9, <1>10, <1>13, SessionPollTaskKeeps DEF SessionNext
<1>14. CASE RuntimeNext /\ UNCHANGED sessionVars
  BY <1>5, <1>14, Zenon DEF RuntimeNext
<1>15. Pollers \ Sessions \subseteq Nodes \ Sessions
  BY BrokerAssumption, Zenon
<1> QED BY <1>6, <1>11, <1>12, <1>13, <1>14, <1>15 DEF Next

(* The counters of a WorkerSession agree with its work requests, its       *)
(* completion queue and the task in its hands, for any number of sessions, *)
(* nodes that share the broker and depths of the queues: the increments    *)
(* that SendResult, Submit, PollTask and PollCompletion make outside the   *)
(* transport's lock are never lost and never doubled.                      *)
THEOREM SessionsCount == Spec => []MetricsAddUp
<1>1. CountInv => MetricsAddUp
  BY Zenon DEF CountInv, SessionInv, MetricsAddUp
<1>2. FlowInv => FlowType
  BY Zenon DEF FlowInv
<1> QED BY <1>1, <1>2, CountInvInit, CountInvNext, FlowCorrect, PTL DEF Spec

=============================================================================
