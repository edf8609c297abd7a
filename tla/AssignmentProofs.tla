-------------------------- MODULE AssignmentProofs --------------------------
(***************************************************************************)
(* Proofs about how assignments leave the scheduler: as a stream           *)
(* (WatchAssignments), for any number of streams and tasks, and as a line  *)
(* that a report answers (TaskFrame), for texts of any length.             *)
(***************************************************************************)
EXTENDS WatchAssignments, TaskFrame, SequenceLemmas

-----------------------------------------------------------------------------
(***************************************************************************)
(* Streams                                                                 *)
(***************************************************************************)

Rows == [status : {"pending", "running"} \cup Scheduler!Terminal,
         worker : {Worker, Other, NoWorker}]

Own(t) == t \in DOMAIN board /\ board[t].worker = Worker

(* A task that waits to be sent was placed on the worker when the stream   *)
(* looked, and what was sent is in the stream's map.  A placement is final *)
(* because only a task that was never placed is pending.                   *)
WatchInv ==
  /\ board \in Seq(Rows) /\ Len(board) <= MaxTasks
  /\ \A t \in DOMAIN board : board[t].status = "pending" => board[t].worker = NoWorker
  /\ sent \in [Streams -> SUBSET Tasks]
  /\ todo \in [Streams -> SUBSET Tasks]
  /\ count \in [Streams -> [Tasks -> Nat]]
  /\ \A s \in Streams : \A t \in todo[s] : Own(t)
  /\ \A s \in Streams, t \in Tasks : count[s][t] > 0 => t \in sent[s]
  /\ OnlyOwnTasks

(* No stream is open at first. *)
LEMMA WatchInvInit == Init => WatchInv
<1> SUFFICES ASSUME Init PROVE WatchInv
  OBVIOUS
<1>1. /\ board = <<>>
      /\ sent = [s \in Streams |-> {}] /\ todo = [s \in Streams |-> {}]
      /\ count = [s \in Streams |-> [t \in Tasks |-> 0]]
  BY DEF Init, Scheduler!Init
<1>2. board \in Seq(Rows) /\ Len(board) = 0 /\ DOMAIN board = {} /\ MaxTasks \in Nat
  BY <1>1, WatchAssumption
<1>3. /\ count \in [Streams -> [Tasks -> Nat]]
      /\ \A s \in Streams, t \in Tasks : count[s][t] = 0
  BY <1>1
<1>4. OnlyOwnTasks
  BY <1>3 DEF OnlyOwnTasks
<1> QED BY <1>1, <1>2, <1>3, <1>4 DEF WatchInv

(* The scheduler never moves or withdraws a placement. *)
LEMMA TableSteps ==
  ASSUME WatchInv, Table
  PROVE  /\ board' \in Seq(Rows) /\ Len(board') <= MaxTasks
         /\ \A t \in DOMAIN board' :
              board'[t].status = "pending" => board'[t].worker = NoWorker
         /\ \A t : Own(t) => Own(t)'
<1>1. /\ board \in Seq(Rows) /\ Len(board) \in Nat
      /\ Len(board) <= MaxTasks /\ MaxTasks \in Nat
  BY WatchAssumption DEF WatchInv
<1>2. ASSUME NEW w, Scheduler!Join(w)
      PROVE  board' = board
  BY <1>2 DEF Scheduler!Join
<1>3. CASE Len(board) < MaxTasks /\ Scheduler!Submit
  <2> DEFINE row == [status |-> "pending", worker |-> NoWorker]
  <2>1. row \in Rows /\ row.worker = NoWorker
    BY DEF Rows
  <2>2. board' = Append(board, row)
    BY <1>3 DEF Scheduler!Submit
  <2> HIDE DEF row
  <2>3. /\ board' \in Seq(Rows) /\ Len(board') = Len(board) + 1
        /\ DOMAIN board = 1 .. Len(board) /\ DOMAIN board' = 1 .. Len(board) + 1
        /\ \A i \in 1 .. Len(board) : board'[i] = board[i]
        /\ board'[Len(board) + 1] = row
    BY <1>1, <2>1, <2>2, AppendProperties, LenProperties
  <2>4. \A t \in DOMAIN board : t \in DOMAIN board' /\ board'[t] = board[t]
    BY <1>1, <2>3
  <2>5. \A t \in DOMAIN board' : t \in DOMAIN board \/ board'[t] = row
    BY <1>1, <2>3
  <2>6. \A t : Own(t) => Own(t)'
    BY <2>4 DEF Own
  <2>7. \A t \in DOMAIN board' : board'[t].status = "pending" => board'[t].worker = NoWorker
    BY <2>1, <2>4, <2>5 DEF WatchInv
  <2>8. Len(board') <= MaxTasks
    BY <1>1, <1>3, <2>3
  <2> QED BY <2>3, <2>6, <2>7, <2>8
<1>4. ASSUME NEW u \in DOMAIN board, NEW w \in {Worker, Other}, Scheduler!Assign(u, w)
      PROVE  /\ board' \in Seq(Rows) /\ Len(board') <= MaxTasks
             /\ \A t \in DOMAIN board' :
                  board'[t].status = "pending" => board'[t].worker = NoWorker
             /\ \A t : Own(t) => Own(t)'
  <2> DEFINE row == [status |-> "running", worker |-> w]
  <2>1. row \in Rows /\ row.status # "pending"
    BY DEF Rows
  <2>2. board[u].worker # Worker /\ board' = [board EXCEPT ![u] = row]
    BY <1>4, WatchAssumption DEF Scheduler!Assign, WatchInv
  <2> HIDE DEF row
  <2>3. board' \in Seq(Rows) /\ Len(board') = Len(board) /\ DOMAIN board' = DOMAIN board
    BY <1>1, <2>1, <2>2
  <2>4. \A t \in DOMAIN board : board'[t] = IF t = u THEN row ELSE board[t]
    BY <1>1, <2>2
  <2>5. \A t : Own(t) => Own(t)'
    BY <2>2, <2>3, <2>4 DEF Own
  <2>6. \A t \in DOMAIN board' : board'[t].status = "pending" => board'[t].worker = NoWorker
    BY <2>1, <2>3, <2>4 DEF WatchInv
  <2> QED BY <1>1, <2>3, <2>5, <2>6
<1>5. ASSUME NEW u \in DOMAIN board, NEW o \in Scheduler!Terminal, Scheduler!Finish(u, o)
      PROVE  /\ board' \in Seq(Rows) /\ Len(board') <= MaxTasks
             /\ \A t \in DOMAIN board' :
                  board'[t].status = "pending" => board'[t].worker = NoWorker
             /\ \A t : Own(t) => Own(t)'
  <2> DEFINE row == [board[u] EXCEPT !.status = o]
  <2>1. row \in Rows /\ row.worker = board[u].worker /\ row.status # "pending"
    <3>1. board[u] \in Rows /\ o # "pending"
      BY <1>1, <1>5 DEF Scheduler!Terminal
    <3> QED BY <3>1 DEF Rows
  <2>2. board' = [board EXCEPT ![u] = row]
    BY <1>5 DEF Scheduler!Finish
  <2> HIDE DEF row
  <2>3. board' \in Seq(Rows) /\ Len(board') = Len(board) /\ DOMAIN board' = DOMAIN board
    BY <1>1, <2>1, <2>2
  <2>4. \A t \in DOMAIN board : board'[t] = IF t = u THEN row ELSE board[t]
    BY <1>1, <2>2
  <2>5. \A t : Own(t) => Own(t)'
    BY <2>1, <2>3, <2>4 DEF Own
  <2>6. \A t \in DOMAIN board' : board'[t].status = "pending" => board'[t].worker = NoWorker
    BY <2>1, <2>3, <2>4 DEF WatchInv
  <2> QED BY <1>1, <2>3, <2>5, <2>6
<1>6. CASE board' = board
  BY <1>6 DEF WatchInv, Own
<1> QED BY <1>2, <1>3, <1>4, <1>5, <1>6 DEF Table

(* Every step of the scheduler and of the streams keeps the invariant. *)
LEMMA WatchInvNext == WatchInv /\ [Next]_vars => WatchInv'
<1> SUFFICES ASSUME WatchInv, [Next]_vars PROVE WatchInv'
  OBVIOUS
<1>1. CASE Table
  <2>1. UNCHANGED <<sent, todo, count>>
    BY <1>1 DEF Table, streamVars
  <2>2. OnlyOwnTasks'
    BY <1>1, <2>1, TableSteps DEF OnlyOwnTasks, WatchInv, Own
  <2> QED BY <1>1, <2>1, <2>2, TableSteps DEF WatchInv
<1>2. \A t \in runningAssignments : t \in Tasks /\ Own(t)
  <2>1. DOMAIN board = 1 .. Len(board) /\ Len(board) \in Nat /\ Len(board) <= MaxTasks
    BY LenProperties DEF WatchInv
  <2>2. DOMAIN board \subseteq Tasks
    BY <2>1, WatchAssumption DEF Tasks
  <2> QED BY <2>2 DEF runningAssignments, Own
<1>3. ASSUME board' = board PROVE \A t : Own(t)' <=> Own(t)
  BY <1>3 DEF Own
<1>4. ASSUME NEW s \in Streams, NEW resume \in BOOLEAN, Open(s, resume) PROVE WatchInv'
  <2>1. /\ board' = board /\ todo' = [todo EXCEPT ![s] = {}]
        /\ sent' = [sent EXCEPT ![s] = IF resume THEN {} ELSE runningAssignments]
        /\ count' = [count EXCEPT ![s] = [t \in Tasks |-> 0]]
    BY <1>4 DEF Open
  <2>2. /\ todo' \in [Streams -> SUBSET Tasks] /\ sent' \in [Streams -> SUBSET Tasks]
        /\ count' \in [Streams -> [Tasks -> Nat]]
    BY <1>2, <2>1 DEF WatchInv
  <2>3. \A r \in Streams, t \in Tasks :
          count'[r][t] = IF r = s THEN 0 ELSE count[r][t]
    BY <2>1 DEF WatchInv
  <2>4. \A r \in Streams, t \in Tasks : count'[r][t] > 0 => t \in sent'[r]
    BY <2>1, <2>3 DEF WatchInv
  <2>5. OnlyOwnTasks'
    BY <2>1, <2>3 DEF WatchInv, OnlyOwnTasks
  <2>6. \A r \in Streams : \A t \in todo'[r] : Own(t)'
    BY <1>3, <2>1 DEF WatchInv
  <2> QED BY <2>1, <2>2, <2>4, <2>5, <2>6, Zenon DEF WatchInv
<1>5. ASSUME NEW s \in Streams, Look(s) PROVE WatchInv'
  <2>1. /\ UNCHANGED <<board, sent, count>>
        /\ todo' = [todo EXCEPT ![s] = runningAssignments]
    BY <1>5 DEF Look
  <2>2. todo' \in [Streams -> SUBSET Tasks]
    BY <1>2, <2>1 DEF WatchInv
  <2>3. \A r \in Streams : \A t \in todo'[r] : Own(t)'
    BY <1>2, <1>3, <2>1 DEF WatchInv
  <2>4. OnlyOwnTasks'
    BY <2>1 DEF WatchInv, OnlyOwnTasks
  <2> QED BY <2>1, <2>2, <2>3, <2>4 DEF WatchInv
<1>6. ASSUME NEW s \in Streams, NEW u \in Tasks, Send(s, u) PROVE WatchInv'
  <2>1. /\ board' = board /\ u \in todo[s]
        /\ todo' = [todo EXCEPT ![s] = @ \ {u}]
        /\ sent' = [sent EXCEPT ![s] = @ \cup {u}]
        /\ count' = [count EXCEPT ![s][u] = IF u \in sent[s] THEN @ ELSE @ + 1]
    BY <1>6 DEF Send
  <2>2. /\ todo' \in [Streams -> SUBSET Tasks] /\ sent' \in [Streams -> SUBSET Tasks]
        /\ count' \in [Streams -> [Tasks -> Nat]]
    BY <2>1 DEF WatchInv
  <2>3. \A r \in Streams, t \in Tasks :
          count'[r][t] = IF r = s /\ t = u /\ u \notin sent[s] THEN count[r][t] + 1
                                                               ELSE count[r][t]
    BY <2>1 DEF WatchInv
  <2>4. u \notin sent[s] => count[s][u] = 0
    BY DEF WatchInv
  <2>5. \A r \in Streams, t \in Tasks : count'[r][t] > 0 => t \in sent'[r]
    BY <2>1, <2>3 DEF WatchInv
  <2>6. Own(u)
    BY <2>1 DEF WatchInv
  <2>7. OnlyOwnTasks'
    BY <2>1, <2>3, <2>4, <2>6 DEF WatchInv, OnlyOwnTasks, Own
  <2>8. \A r \in Streams : \A t \in todo'[r] : Own(t)'
    BY <1>3, <2>1 DEF WatchInv
  <2> QED BY <2>1, <2>2, <2>5, <2>7, <2>8 DEF WatchInv
<1>7. ASSUME UNCHANGED <<board, sent, todo, count>> PROVE WatchInv'
  BY <1>3, <1>7 DEF WatchInv, OnlyOwnTasks
<1>8. ASSUME NEW s \in Streams, Close(s) PROVE WatchInv'
  BY <1>7, <1>8 DEF Close
<1>9. CASE UNCHANGED vars
  BY <1>7, <1>9 DEF vars
<1> QED BY <1>1, <1>4, <1>5, <1>6, <1>8, <1>9, Zenon DEF Next

(* A stream brings each task at most once, and only its worker's own, for  *)
(* any number of streams and tasks.                                        *)
THEOREM StreamsBringOwnTasks == Spec => []OnlyOwnTasks
<1>1. WatchInv => OnlyOwnTasks
  BY DEF WatchInv
<1> QED BY WatchInvInit, WatchInvNext, <1>1, PTL DEF Spec

-----------------------------------------------------------------------------

(* What a resumed stream will skip as sent, it has sent: its map holds no  *)
(* task that was only running when it was opened.                          *)
SkipsOnlySent ==
  \A s \in Streams, t \in Tasks : s \in resumed /\ t \in sent[s] => count[s][t] = 1

(* A resumed stream passes over no task it did not bring, for any number   *)
(* of streams and tasks and however streams are opened anew: the safety    *)
(* behind ResumedStreamMissesNothing.                                      *)
THEOREM ResumedSkipsOnlySent == Spec => []SkipsOnlySent
<1>1. Init => SkipsOnlySent
  BY DEF Init, SkipsOnlySent
<1>2. WatchInv /\ SkipsOnlySent /\ [Next]_vars => SkipsOnlySent'
  <2> SUFFICES ASSUME WatchInv, SkipsOnlySent, [Next]_vars,
                      NEW r \in Streams, NEW t \in Tasks, r \in resumed', t \in sent'[r]
               PROVE  count'[r][t] = 1
    BY DEF SkipsOnlySent
  <2>1. ASSUME UNCHANGED <<resumed, sent, count>> PROVE count'[r][t] = 1
    BY <2>1 DEF SkipsOnlySent
  <2>2. ASSUME NEW s \in Streams, NEW resume \in BOOLEAN, Open(s, resume)
        PROVE  count'[r][t] = 1
    <3>1. CASE r = s
      BY <2>2, <3>1 DEF Open, WatchInv
    <3>2. CASE r # s
      BY <2>2, <3>2 DEF Open, WatchInv, SkipsOnlySent
    <3> QED BY <3>1, <3>2
  <2>3. ASSUME NEW s \in Streams, NEW u \in Tasks, Send(s, u) PROVE count'[r][t] = 1
    <3>1. CASE r = s /\ t = u
      <4>1. count'[s][u] = IF u \in sent[s] THEN count[s][u] ELSE count[s][u] + 1
        BY <2>3 DEF Send, WatchInv
      <4>2. u \notin sent[s] => count[s][u] = 0
        BY DEF WatchInv
      <4>3. s \in resumed
        BY <2>3, <3>1 DEF Send
      <4> QED BY <3>1, <4>1, <4>2, <4>3 DEF SkipsOnlySent
    <3>2. CASE ~(r = s /\ t = u)
      <4>1. count'[r][t] = count[r][t] /\ t \in sent[r] /\ r \in resumed
        BY <2>3, <3>2 DEF Send, WatchInv
      <4> QED BY <4>1 DEF SkipsOnlySent
    <3> QED BY <3>1, <3>2
  <2>4. CASE Table \/ UNCHANGED vars \/ \E s \in Streams : Look(s) \/ Close(s)
    BY <2>1, <2>4 DEF Table, streamVars, vars, Look, Close
  <2> QED BY <2>2, <2>3, <2>4 DEF Next
<1> QED BY WatchInvInit, WatchInvNext, <1>1, <1>2, PTL DEF Spec

-----------------------------------------------------------------------------
(***************************************************************************)
(* The line of a task                                                      *)
(***************************************************************************)

(* find() returns the first place of a byte, and 0 only when it is nowhere. *)
LEMMA FindFirst ==
  ASSUME NEW S, NEW s \in Seq(S), NEW b
  PROVE  \/ Find(s, b) = 0 /\ \A i \in 1 .. Len(s) : s[i] # b
         \/ /\ Find(s, b) \in 1 .. Len(s) /\ s[Find(s, b)] = b
            /\ \A i \in 1 .. Len(s) : i < Find(s, b) => s[i] # b
<1>1. Find(s, b) = FirstOf(s, b)
  BY Zenon DEF Find, FirstOf
<1> QED BY <1>1, FirstIs, Zenon

(* What is in the line, byte by byte. *)
LEMMA LineIs ==
  ASSUME NEW i \in IDs, NEW p \in Seq(Bytes)
  PROVE  /\ i \in Seq({"n"}) /\ i \in Seq(Bytes) /\ Len(i) \in Nat \ {0}
         /\ Len(p) \in Nat
         /\ Line(i, p) \in Seq(Bytes) /\ Len(Line(i, p)) = Len(i) + Len(p) + 2
         /\ \A k \in 1 .. Len(i) : Line(i, p)[k] = i[k] /\ i[k] = "n"
         /\ Line(i, p)[Len(i) + 1] = Separator
         /\ \A k \in 1 .. Len(p) : Line(i, p)[Len(i) + 1 + k] = p[k]
         /\ Line(i, p)[Len(i) + Len(p) + 2] = Newline
<1>1. i \in Seq({"n"}) /\ i \in Seq(Bytes) /\ i # <<>>
  <2>1. i \in Seq({"n"}) /\ i # <<>>
    BY FrameAssumption
  <2>2. {"n"} \subseteq Bytes
    BY DEF Bytes
  <2> QED BY <2>1, <2>2, SeqMonotonic
<1>2. Len(i) \in Nat \ {0} /\ \A k \in 1 .. Len(i) : i[k] = "n"
  BY <1>1, EmptySeq, LenProperties
<1>3. Len(p) \in Nat
  BY LenProperties
<1>4. PICK sep \in Seq(Bytes) : sep = <<Separator>>
  <2>1. Separator \in Bytes
    BY DEF Bytes
  <2>2. <<>> \in Seq(Bytes) /\ <<Separator>> = Append(<<>>, Separator)
    OBVIOUS
  <2> QED BY <2>1, <2>2, AppendProperties, Zenon
<1>40. Len(sep) = 1 /\ sep[1] = Separator
  BY <1>4
<1>5. PICK nl \in Seq(Bytes) : nl = <<Newline>>
  <2>1. Newline \in Bytes
    BY DEF Bytes
  <2>2. <<>> \in Seq(Bytes) /\ <<Newline>> = Append(<<>>, Newline)
    OBVIOUS
  <2> QED BY <2>1, <2>2, AppendProperties, Zenon
<1>50. Len(nl) = 1 /\ nl[1] = Newline
  BY <1>5
<1>6. PICK a \in Seq(Bytes) : a = i \o sep
  BY <1>1, ConcatProperties, Zenon
<1>60. /\ Len(a) = Len(i) + 1
       /\ \A k \in 1 .. Len(i) + 1 : a[k] = IF k <= Len(i) THEN i[k] ELSE sep[k - Len(i)]
  <2>1. /\ Len(a) = Len(i) + Len(sep)
        /\ \A k \in 1 .. Len(i) + Len(sep) :
             a[k] = IF k <= Len(i) THEN i[k] ELSE sep[k - Len(i)]
    BY <1>1, <1>6, ConcatProperties, Zenon
  <2> QED BY <1>40, <2>1
<1>7. PICK b \in Seq(Bytes) : b = a \o p
  BY ConcatProperties, Zenon
<1>70. /\ Len(b) = Len(a) + Len(p)
       /\ \A k \in 1 .. Len(a) + Len(p) : b[k] = IF k <= Len(a) THEN a[k] ELSE p[k - Len(a)]
  BY <1>7, ConcatProperties, Zenon
<1>8. PICK c \in Seq(Bytes) : c = b \o nl
  BY ConcatProperties, Zenon
<1>80. /\ Len(c) = Len(b) + 1
       /\ \A k \in 1 .. Len(b) + 1 : c[k] = IF k <= Len(b) THEN b[k] ELSE nl[k - Len(b)]
  <2>1. /\ Len(c) = Len(b) + Len(nl)
        /\ \A k \in 1 .. Len(b) + Len(nl) :
             c[k] = IF k <= Len(b) THEN b[k] ELSE nl[k - Len(b)]
    BY <1>8, ConcatProperties, Zenon
  <2> QED BY <1>50, <2>1
<1>9. Line(i, p) = c
  BY <1>4, <1>5, <1>6, <1>7, <1>8, Zenon DEF Line
<1>10. Len(c) = Len(i) + Len(p) + 2
  BY <1>2, <1>3, <1>60, <1>70, <1>80
<1>11. \A k \in 1 .. Len(i) : c[k] = i[k]
  BY <1>2, <1>3, <1>60, <1>70, <1>80
<1>12. c[Len(i) + 1] = Separator
  <2>1. b[Len(i) + 1] = a[Len(i) + 1] /\ a[Len(i) + 1] = sep[1]
    BY <1>2, <1>3, <1>60, <1>70
  <2>2. c[Len(i) + 1] = b[Len(i) + 1]
    BY <1>2, <1>3, <1>60, <1>70, <1>80
  <2> QED BY <1>40, <2>1, <2>2
<1>13. \A k \in 1 .. Len(p) : c[Len(i) + 1 + k] = p[k]
  BY <1>2, <1>3, <1>60, <1>70, <1>80
<1>14. c[Len(i) + Len(p) + 2] = Newline
  BY <1>2, <1>3, <1>50, <1>60, <1>70, <1>80
<1> QED BY <1>1, <1>2, <1>3, <1>9, <1>10, <1>11, <1>12, <1>13, <1>14

(* A beginning of the line is split after the ID, at the first separator:  *)
(* what follows is a beginning of the payload.                             *)
LEMMA SplitAfterID ==
  ASSUME NEW i \in IDs, NEW p \in Seq(Bytes), NEW t \in Seq(Bytes),
         Len(t) <= Len(i) + 1 + Len(p),
         \A j \in 1 .. Len(t) : t[j] = Line(i, p)[j]
  PROVE  \/ SeparatorAt(t) = 0 /\ Len(t) <= Len(i)
         \/ /\ SeparatorAt(t) = Len(i) + 1 /\ Len(i) < Len(t)
            /\ SubSeq(t, 1, Len(i)) = i
            /\ SubSeq(t, Len(i) + 2, Len(t)) = SubSeq(p, 1, Len(t) - Len(i) - 1)
<1> DEFINE L == Line(i, p)
<1> DEFINE f == SeparatorAt(t)
<1>1. /\ Len(i) \in Nat \ {0} /\ Len(p) \in Nat /\ Len(t) \in Nat
      /\ i \in Seq(Bytes)
      /\ \A k \in 1 .. Len(i) : L[k] = i[k] /\ i[k] = "n"
      /\ L[Len(i) + 1] = Separator
      /\ \A k \in 1 .. Len(p) : L[Len(i) + 1 + k] = p[k]
  BY LineIs, LenProperties, Zenon
<1> HIDE DEF L
<1>2. \/ f = 0 /\ \A j \in 1 .. Len(t) : t[j] # Separator
      \/ f \in 1 .. Len(t) /\ t[f] = Separator /\ \A j \in 1 .. Len(t) : j < f => t[j] # Separator
  BY FindFirst DEF SeparatorAt
<1>3. \A j \in 1 .. Len(t) : t[j] = L[j]
  BY DEF L
<1> HIDE DEF f
<1>4. CASE f = 0 /\ \A j \in 1 .. Len(t) : t[j] # Separator
  <2>1. Len(t) <= Len(i)
    <3>1. SUFFICES ASSUME ~(Len(t) <= Len(i)) PROVE FALSE
      OBVIOUS
    <3>2. Len(i) + 1 \in 1 .. Len(t)
      BY <1>1, <3>1
    <3> QED BY <1>1, <1>3, <1>4, <3>2
  <2> QED BY <1>4, <2>1 DEF f
<1>5. CASE f \in 1 .. Len(t) /\ t[f] = Separator /\ \A j \in 1 .. Len(t) : j < f => t[j] # Separator
  <2>1. ~(f <= Len(i))
    <3>1. SUFFICES ASSUME f <= Len(i) PROVE FALSE
      OBVIOUS
    <3>2. f \in 1 .. Len(i) /\ L[f] = Separator
      BY <1>1, <1>3, <1>5, <3>1
    <3>3. "n" = Separator
      BY <1>1, <3>2
    <3> QED BY <3>3 DEF Separator
  <2>2. Len(i) + 1 \in 1 .. Len(t) /\ t[Len(i) + 1] = Separator
    BY <1>1, <1>3, <1>5, <2>1
  <2>3. f = Len(i) + 1 /\ Len(i) < Len(t)
    BY <1>1, <1>5, <2>1, <2>2
  <2>4. SubSeq(t, 1, Len(i)) = i
    <3>1. \A j \in 1 .. Len(i) : t[j] = i[j]
      BY <1>1, <1>3, <2>3
    <3>2. SubSeq(t, 1, Len(i)) = SubSeq(i, 1, Len(i))
      BY <1>1, <2>3, <3>1, SameBeginnings
    <3>3. SubSeq(i, 1, Len(i)) = i
      BY <1>1, SubSeqFull
    <3> QED BY <3>2, <3>3
  <2>5. SubSeq(t, Len(i) + 2, Len(t)) = SubSeq(p, 1, Len(t) - Len(i) - 1)
    <3>1. PICK n \in Nat, a \in Nat : n = Len(t) - Len(i) - 1 /\ a = Len(i) + 1
      <4>1. Len(t) - Len(i) - 1 \in Nat /\ Len(i) + 1 \in Nat
        BY <1>1, <2>3
      <4> QED BY <4>1, Zenon
    <3>2. a + n <= Len(t) /\ 0 + n <= Len(p) /\ n <= Len(p)
      BY <1>1, <3>1
    <3>3. \A j \in 1 .. n : t[a + j] = p[0 + j]
      <4>1. \A j \in 1 .. n : p[j] = L[Len(i) + 1 + j]
        BY <1>1, <3>2
      <4>2. \A j \in 1 .. n : t[a + j] = L[a + j]
        BY <1>1, <1>3, <3>1, <3>2
      <4>3. \A j \in 1 .. n : 0 + j = j
        OBVIOUS
      <4> QED BY <3>1, <4>1, <4>2, <4>3, Zenon
    <3>4. Part(t, a, n) = Part(p, 0, n)
      BY <3>2, <3>3, SameParts
    <3> QED BY <1>1, <3>1, <3>4 DEF Part
  <2> QED BY <2>3, <2>4, <2>5 DEF f
<1> QED BY <1>2, <1>4, <1>5

(* What the handler is called with when a beginning of the line without a  *)
(* newline has come: nothing, or the ID that was sent and a beginning of   *)
(* the payload; all of it when the newline follows and no '\r' is dropped. *)
LEMMA ParsesBeginning ==
  ASSUME NEW i \in IDs, NEW p \in Seq(Bytes), NEW t \in Seq(Bytes),
         Len(t) <= Len(i) + 1 + Len(p),
         \A j \in 1 .. Len(t) : t[j] = Line(i, p)[j]
  PROVE  /\ \/ Parse(t) = NoTask
            \/ Parse(t).id = i /\ Begins(Parse(t).prompt, p)
         /\ Parse(t).prompt \in Seq(Bytes)
         /\ /\ Len(t) = Len(i) + 1 + Len(p)
            /\ p # <<>> => p[Len(p)] # Return
            => Parse(t) = [id |-> i, prompt |-> p]
<1>1. /\ i \in Seq(Bytes) /\ Len(i) \in Nat \ {0} /\ Len(p) \in Nat /\ Len(t) \in Nat
      /\ Line(i, p)[Len(i) + 1] = Separator
      /\ \A k \in 1 .. Len(p) : Line(i, p)[Len(i) + 1 + k] = p[k]
  BY LineIs, LenProperties
<1>2. PICK x : x = IF t # <<>> /\ t[Len(t)] = Return THEN SubSeq(t, 1, Len(t) - 1) ELSE t
  BY Zenon
<1>3. Parse(t) = IF SeparatorAt(x) <= 1 THEN NoTask
                 ELSE [id |-> SubSeq(x, 1, SeparatorAt(x) - 1),
                       prompt |-> SubSeq(x, SeparatorAt(x) + 1, Len(x))]
  BY <1>2 DEF Parse
<1>4. /\ x \in Seq(Bytes) /\ Len(x) <= Len(t)
      /\ \A j \in 1 .. Len(x) : x[j] = t[j]
  <2>1. CASE t # <<>> /\ t[Len(t)] = Return
    <3>1. PICK n \in Nat : n = Len(t) - 1
      <4>1. Len(t) - 1 \in Nat
        BY <1>1, <2>1, EmptySeq
      <4> QED BY <4>1, Zenon
    <3>2. x = SubSeq(t, 1, n)
      BY <1>2, <2>1, <3>1, Zenon
    <3>3. /\ SubSeq(t, 1, n) \in Seq(Bytes) /\ Len(SubSeq(t, 1, n)) = n
          /\ \A j \in 1 .. n : SubSeq(t, 1, n)[j] = t[j]
      <4>1. n <= Len(t)
        BY <1>1, <3>1
      <4> QED BY <4>1, BeginningOf, Zenon
    <3> QED BY <1>1, <3>1, <3>2, <3>3
  <2>2. CASE ~(t # <<>> /\ t[Len(t)] = Return)
    <3>1. x = t
      BY <1>2, <2>2
    <3> QED BY <1>1, <3>1
  <2> QED BY <2>1, <2>2
<1>5. /\ Len(x) \in Nat /\ Len(x) <= Len(i) + 1 + Len(p)
      /\ \A j \in 1 .. Len(x) : x[j] = Line(i, p)[j]
  BY <1>1, <1>4, LenProperties
<1>6. \/ SeparatorAt(x) = 0 /\ Len(x) <= Len(i)
      \/ /\ SeparatorAt(x) = Len(i) + 1 /\ Len(i) < Len(x)
         /\ SubSeq(x, 1, Len(i)) = i
         /\ SubSeq(x, Len(i) + 2, Len(x)) = SubSeq(p, 1, Len(x) - Len(i) - 1)
  BY <1>4, <1>5, SplitAfterID
<1>7. ASSUME Len(t) = Len(i) + 1 + Len(p), p # <<>> => p[Len(p)] # Return
      PROVE  x = t
  <2>1. t[Len(t)] = Line(i, p)[Len(t)]
    BY <1>1, <1>7
  <2>2. t[Len(t)] # Return
    <3>1. CASE p = <<>>
      <4>1. t[Len(t)] = Separator
        BY <1>1, <1>7, <2>1, <3>1
      <4> QED BY <4>1 DEF Separator, Return
    <3>2. CASE p # <<>>
      <4>1. Len(p) # 0 /\ Line(i, p)[Len(i) + 1 + Len(p)] = p[Len(p)]
        BY <1>1, <3>2, EmptySeq
      <4>2. t[Len(t)] = p[Len(p)]
        BY <1>7, <2>1, <4>1
      <4> QED BY <1>7, <3>2, <4>2
    <3> QED BY <3>1, <3>2
  <2> QED BY <1>2, <2>2
<1>8. CASE SeparatorAt(x) = 0 /\ Len(x) <= Len(i)
  <2>1. Parse(t) = NoTask /\ NoTask.prompt \in Seq(Bytes)
    BY <1>3, <1>8, EmptySeq DEF NoTask
  <2>2. ~(Len(t) = Len(i) + 1 + Len(p) /\ (p # <<>> => p[Len(p)] # Return))
    BY <1>1, <1>7, <1>8
  <2> QED BY <2>1, <2>2
<1>9. CASE /\ SeparatorAt(x) = Len(i) + 1 /\ Len(i) < Len(x)
           /\ SubSeq(x, 1, Len(i)) = i
           /\ SubSeq(x, Len(i) + 2, Len(x)) = SubSeq(p, 1, Len(x) - Len(i) - 1)
  <2>1. PICK n \in Nat : n = Len(x) - Len(i) - 1
    <3>1. Len(x) - Len(i) - 1 \in Nat
      BY <1>1, <1>5, <1>9
    <3> QED BY <3>1, Zenon
  <2>2. PICK q \in Seq(Bytes) : q = SubSeq(p, 1, n)
    <3>1. SubSeq(p, 1, n) \in Seq(Bytes)
      BY <1>1, <1>5, <2>1, BeginningOf
    <3> QED BY <3>1, Zenon
  <2>3. Len(q) = n /\ n <= Len(p)
    BY <1>1, <1>5, <2>1, <2>2, BeginningOf
  <2>4. Parse(t) = [id |-> i, prompt |-> q]
    <3>1. /\ ~(SeparatorAt(x) <= 1) /\ SeparatorAt(x) - 1 = Len(i)
          /\ SeparatorAt(x) + 1 = Len(i) + 2
      BY <1>1, <1>9
    <3>2. Parse(t) = [id |-> SubSeq(x, 1, Len(i)), prompt |-> SubSeq(x, Len(i) + 2, Len(x))]
      BY <1>3, <3>1, Zenon
    <3> QED BY <1>9, <2>1, <2>2, <3>2, Zenon
  <2>5. Begins(q, p)
    <3>1. SubSeq(q, 1, Len(q)) = q
      BY SubSeqFull
    <3> QED BY <2>2, <2>3, <3>1, Zenon DEF Begins
  <2>6. ASSUME Len(t) = Len(i) + 1 + Len(p), p # <<>> => p[Len(p)] # Return
        PROVE  q = p
    <3>1. x = t
      BY <1>7, <2>6
    <3>2. Len(x) = Len(i) + 1 + Len(p)
      BY <2>6, <3>1, Zenon
    <3>3. n = Len(p)
      BY <1>1, <2>1, <3>2
    <3> QED BY <2>2, <3>3, SubSeqFull, Zenon
  <2> QED BY <2>4, <2>5, <2>6
<1> QED BY <1>6, <1>8, <1>9

-----------------------------------------------------------------------------
(***************************************************************************)
(* The frame                                                               *)
(***************************************************************************)

(* The receiver has a beginning of the line, free of newlines, and what it *)
(* has not got follows it.  Once the loop is left, the handler was called  *)
(* with that beginning, or not at all when the stream broke; if it did not *)
(* break, the newline comes next in the line.                              *)
FrameInv ==
  LET L == Line(id, payload)
      k == Len(buffer)
  IN  /\ id \in IDs /\ payload \in Seq(Bytes)
      /\ buffer \in Seq(Bytes) /\ k <= Len(id) + 1 + Len(payload)
      /\ \A j \in 1 .. k : buffer[j] = L[j] /\ L[j] # Newline
      /\ state = "receiving" =>
           /\ left \in Seq(Bytes) /\ k + Len(left) = Len(L)
           /\ \A j \in 1 .. Len(left) : left[j] = L[k + j]
           /\ task = NoTask
      /\ state # "receiving" =>
           \/ task = NoTask /\ broken
           \/ task = Parse(buffer) /\ (broken \/ L[k + 1] = Newline)

(* It holds of a line no byte of which has come. *)
LEMMA FrameInvInit == FrameInit => FrameInv
<1> SUFFICES ASSUME FrameInit PROVE FrameInv
  OBVIOUS
<1> DEFINE L == Line(id, payload)
<1>1. id \in IDs /\ payload \in Seq(Bytes)
  <2>1. payload \in UNION {[1 .. m -> Bytes] : m \in 0 .. MaxPayload}
    BY DEF FrameInit
  <2>2. PICK m \in 0 .. MaxPayload : payload \in [1 .. m -> Bytes]
    BY <2>1
  <2>3. m \in Nat
    BY FrameAssumption
  <2> QED BY <2>2, <2>3 DEF FrameInit
<1>2. /\ L \in Seq(Bytes) /\ Len(L) \in Nat /\ Len(id) \in Nat /\ Len(payload) \in Nat
  BY <1>1, LineIs, LenProperties
<1>3. buffer = <<>> /\ left = L /\ state = "receiving" /\ task = NoTask
  BY DEF FrameInit
<1>4. buffer \in Seq(Bytes) /\ Len(buffer) = 0
  BY <1>3, EmptySeq
<1> HIDE DEF L
<1>5. /\ Len(buffer) <= Len(id) + 1 + Len(payload)
      /\ \A j \in 1 .. Len(buffer) : buffer[j] = L[j] /\ L[j] # Newline
      /\ Len(buffer) + Len(left) = Len(L)
      /\ \A j \in 1 .. Len(left) : left[j] = L[Len(buffer) + j]
  BY <1>2, <1>3, <1>4
<1> QED BY <1>1, <1>2, <1>3, <1>4, <1>5, Zenon DEF FrameInv, L

(* A piece of the line comes. *)
LEMMA ReceiveKeeps ==
  ASSUME FrameInv, NEW n \in 1 .. Len(left), Receive(n)
  PROVE  FrameInv'
<1> DEFINE L == Line(id, payload)
<1>1. /\ id \in IDs /\ payload \in Seq(Bytes)
      /\ buffer \in Seq(Bytes) /\ Len(buffer) <= Len(id) + 1 + Len(payload)
      /\ \A j \in 1 .. Len(buffer) : buffer[j] = L[j] /\ L[j] # Newline
      /\ left \in Seq(Bytes) /\ Len(buffer) + Len(left) = Len(L)
      /\ \A j \in 1 .. Len(left) : left[j] = L[Len(buffer) + j]
      /\ task = NoTask
  BY DEF FrameInv, Receive
<1>2. /\ L \in Seq(Bytes) /\ Len(L) = Len(id) + Len(payload) + 2
      /\ L[Len(id) + Len(payload) + 2] = Newline
      /\ Len(id) \in Nat /\ Len(payload) \in Nat
  BY <1>1, LineIs, Zenon
<1>3. Len(buffer) \in Nat /\ Len(left) \in Nat /\ n \in Nat /\ n <= Len(left)
  BY <1>1, LenProperties
<1>4. id' = id /\ payload' = payload /\ broken' = broken
  BY DEF Receive
<1> HIDE DEF L
<1>5. PICK piece \in Seq(Bytes) : piece = SubSeq(left, 1, n)
  <2>1. SubSeq(left, 1, n) \in Seq(Bytes)
    BY <1>1, <1>3, BeginningOf
  <2> QED BY <2>1, Zenon
<1>6. Len(piece) = n /\ \A j \in 1 .. n : piece[j] = left[j]
  BY <1>1, <1>3, <1>5, BeginningOf
<1>7. PICK got \in Seq(Bytes) : got = buffer \o piece
  <2>1. buffer \o piece \in Seq(Bytes)
    BY <1>1, ConcatProperties
  <2> QED BY <2>1, Zenon
<1>8. /\ Len(got) = Len(buffer) + n
      /\ \A j \in 1 .. Len(buffer) + n :
           got[j] = IF j <= Len(buffer) THEN buffer[j] ELSE piece[j - Len(buffer)]
  <2>1. /\ Len(buffer \o piece) = Len(buffer) + Len(piece)
        /\ \A j \in 1 .. Len(buffer) + Len(piece) : (buffer \o piece)[j] =
                    IF j <= Len(buffer) THEN buffer[j] ELSE piece[j - Len(buffer)]
    BY <1>1, ConcatProperties
  <2> QED BY <1>6, <1>7, <2>1, Zenon
<1>9. \A j \in 1 .. Len(got) : got[j] = L[j]
  <2> TAKE j \in 1 .. Len(got)
  <2>1. CASE j <= Len(buffer)
    <3>1. got[j] = buffer[j] /\ j \in 1 .. Len(buffer)
      BY <1>3, <1>8, <2>1
    <3> QED BY <1>1, <3>1
  <2>2. CASE ~(j <= Len(buffer))
    <3>1. PICK m \in 1 .. n : m = j - Len(buffer)
      <4>1. j - Len(buffer) \in 1 .. n
        BY <1>3, <1>8, <2>2
      <4> QED BY <4>1, Zenon
    <3>2. got[j] = piece[m] /\ j = Len(buffer) + m /\ m \in 1 .. Len(left)
      BY <1>3, <1>8, <2>2, <3>1
    <3> QED BY <1>1, <1>6, <3>2, Zenon
  <2> QED BY <2>1, <2>2
<1>10. PICK nl : nl = Find(got, Newline)
  OBVIOUS
<1>11. \/ nl = 0 /\ \A j \in 1 .. Len(got) : got[j] # Newline
       \/ /\ nl \in 1 .. Len(got) /\ got[nl] = Newline
          /\ \A j \in 1 .. Len(got) : j < nl => got[j] # Newline
  BY <1>10, FindFirst
<1>12. /\ left' = SubSeq(left, n + 1, Len(left))
       /\ buffer' = IF nl = 0 THEN got ELSE SubSeq(got, 1, nl - 1)
       /\ state' = IF nl = 0 THEN "receiving" ELSE "done"
       /\ task' = IF nl = 0 THEN task ELSE Parse(buffer')
  BY <1>5, <1>7, <1>10 DEF Receive
<1>13. CASE nl = 0 /\ \A j \in 1 .. Len(got) : got[j] # Newline
  <2>1. Len(got) \in Nat /\ Len(got) <= Len(L)
    BY <1>1, <1>3, <1>8
  <2>2. Len(got) # Len(L)
    <3>1. SUFFICES ASSUME Len(got) = Len(L) PROVE FALSE
      OBVIOUS
    <3>2. PICK e \in 1 .. Len(got) : e = Len(id) + Len(payload) + 2
      <4>1. Len(id) + Len(payload) + 2 \in 1 .. Len(got)
        BY <1>2, <3>1
      <4> QED BY <4>1, Zenon
    <3> QED BY <1>2, <1>9, <1>13, <3>2, Zenon
  <2>3. PICK r \in Nat : r = Len(left) - n
    <3>1. Len(left) - n \in Nat
      BY <1>3
    <3> QED BY <3>1, Zenon
  <2>4. left' = Part(left, n, r)
    <3>1. n + r = Len(left)
      BY <1>3, <2>3
    <3> QED BY <1>12, <3>1, Zenon DEF Part
  <2>5. left' \in Seq(Bytes) /\ Len(left') = r /\ \A j \in 1 .. r : left'[j] = left[n + j]
    <3>1. left \in Seq(Bytes) /\ n \in Nat /\ n + r <= Len(left)
      BY <1>1, <1>3, <2>3
    <3>2. /\ Part(left, n, r) \in Seq(Bytes) /\ Len(Part(left, n, r)) = r
          /\ \A j \in 1 .. r : Part(left, n, r)[j] = left[n + j]
      BY <3>1, PartOf, Zenon
    <3> QED BY <2>4, <3>2, Zenon
  <2>6. \A j \in 1 .. r : left[n + j] = L[Len(got) + j]
    <3> TAKE j \in 1 .. r
    <3>1. PICK m \in 1 .. Len(left) : m = n + j
      <4>1. n + j \in 1 .. Len(left)
        BY <1>3, <2>3
      <4> QED BY <4>1, Zenon
    <3>2. Len(buffer) + m = Len(got) + j
      BY <1>3, <1>8, <3>1
    <3> QED BY <1>1, <3>1, <3>2
  <2>7. buffer' = got /\ state' = "receiving" /\ task' = NoTask
    BY <1>1, <1>12, <1>13
  <2>8. Len(got) <= Len(id) + 1 + Len(payload) /\ Len(got) + r = Len(L)
    <3>1. /\ Len(got) = Len(buffer) + n /\ Len(buffer) + Len(left) = Len(L)
          /\ Len(L) = Len(id) + Len(payload) + 2
          /\ Len(id) \in Nat /\ Len(payload) \in Nat
      BY <1>1, <1>2, <1>8
    <3> QED BY <1>3, <2>1, <2>2, <2>3, <3>1, SMTT(30)
  <2>9. \A j \in 1 .. Len(got) : got[j] = L[j] /\ L[j] # Newline
    BY <1>9, <1>13, Zenon
  <2> QED BY <1>1, <1>4, <2>5, <2>6, <2>7, <2>8, <2>9, Zenon DEF FrameInv, L
<1>14. CASE /\ nl \in 1 .. Len(got) /\ got[nl] = Newline
            /\ \A j \in 1 .. Len(got) : j < nl => got[j] # Newline
  <2>1. PICK k \in Nat : k = nl - 1
    <3>1. nl - 1 \in Nat
      BY <1>3, <1>8, <1>14
    <3> QED BY <3>1, Zenon
  <2>2. /\ k < Len(got) /\ k + 1 = nl /\ nl # 0
        /\ \A j \in 1 .. k : j \in 1 .. Len(got) /\ j < nl
    BY <1>3, <1>8, <1>14, <2>1
  <2>3. buffer' = SubSeq(got, 1, k) /\ state' = "done" /\ task' = Parse(buffer')
    BY <1>12, <2>1, <2>2
  <2>4. buffer' \in Seq(Bytes) /\ Len(buffer') = k /\ \A j \in 1 .. k : buffer'[j] = got[j]
    <3>1. k <= Len(got)
      BY <1>3, <1>8, <2>2
    <3>2. /\ SubSeq(got, 1, k) \in Seq(Bytes) /\ Len(SubSeq(got, 1, k)) = k
          /\ \A j \in 1 .. k : SubSeq(got, 1, k)[j] = got[j]
      BY <3>1, BeginningOf, Zenon
    <3> QED BY <2>3, <3>2, Zenon
  <2>5. \A j \in 1 .. k : buffer'[j] = L[j] /\ L[j] # Newline
    BY <1>9, <1>14, <2>2, <2>4, Zenon
  <2>6. L[k + 1] = Newline
    BY <1>9, <1>14, <2>2, Zenon
  <2>7. k <= Len(id) + 1 + Len(payload)
    BY <1>1, <1>2, <1>3, <1>8, <2>2
  <2> QED BY <1>1, <1>4, <2>3, <2>4, <2>5, <2>6, <2>7, Zenon DEF FrameInv, L
<1> QED BY <1>11, <1>13, <1>14, Zenon

(* Every step keeps it. *)
LEMMA FrameInvNext == FrameInv /\ [FrameNext]_frameVars => FrameInv'
<1> SUFFICES ASSUME FrameInv, [FrameNext]_frameVars PROVE FrameInv'
  OBVIOUS
<1>1. ASSUME NEW n \in 1 .. Len(left), Receive(n) PROVE FrameInv'
  BY <1>1, ReceiveKeeps, Zenon
<1>2. CASE StreamEnds
  BY <1>2, Zenon DEF FrameInv, StreamEnds
<1>3. CASE StreamFails
  BY <1>3, Zenon DEF FrameInv, StreamFails
<1>4. CASE Report
  BY <1>4, Zenon DEF FrameInv, Report
<1>5. CASE UNCHANGED frameVars
  BY <1>5 DEF FrameInv, frameVars
<1> QED BY <1>1, <1>2, <1>3, <1>4, <1>5, Zenon DEF FrameNext

(* The invariant says what arrives. *)
LEMMA FrameInvArrives == FrameInv => ArrivesAsSent
<1> SUFFICES ASSUME FrameInv PROVE ArrivesAsSent
  OBVIOUS
<1> DEFINE L == Line(id, payload)
<1> DEFINE k == Len(buffer)
<1>1. /\ id \in IDs /\ payload \in Seq(Bytes)
      /\ buffer \in Seq(Bytes) /\ k <= Len(id) + 1 + Len(payload)
      /\ \A j \in 1 .. k : buffer[j] = L[j] /\ L[j] # Newline
  BY DEF FrameInv
<1>2. \/ task = NoTask /\ (broken \/ state = "receiving")
      \/ task = Parse(buffer) /\ (broken \/ L[k + 1] = Newline)
  BY Zenon DEF FrameInv
<1>3. /\ \/ Parse(buffer) = NoTask
         \/ Parse(buffer).id = id /\ Begins(Parse(buffer).prompt, payload)
      /\ k = Len(id) + 1 + Len(payload) /\ (payload # <<>> => payload[Len(payload)] # Return)
           => Parse(buffer) = [id |-> id, prompt |-> payload]
  BY <1>1, ParsesBeginning
<1>4. task # NoTask => task.id = id /\ Begins(task.prompt, payload)
  BY <1>2, <1>3
<1>5. ASSUME Find(payload, Newline) = 0, payload # <<>> => payload[Len(payload)] # Return,
             state \in {"done", "reported"}, ~broken
      PROVE  task = [id |-> id, prompt |-> payload]
  <2>1. task = Parse(buffer) /\ L[k + 1] = Newline
    BY <1>2, <1>5
  <2>2. /\ Len(id) \in Nat \ {0} /\ Len(payload) \in Nat
        /\ \A j \in 1 .. Len(id) : L[j] = id[j] /\ id[j] = "n"
        /\ L[Len(id) + 1] = Separator
        /\ \A j \in 1 .. Len(payload) : L[Len(id) + 1 + j] = payload[j]
    BY <1>1, LineIs, Zenon
  <2>20. k \in Nat /\ k <= Len(id) + 1 + Len(payload)
    BY <1>1, LenProperties, Zenon
  <2> HIDE DEF L, k
  <2>3. \A j \in 1 .. Len(payload) : payload[j] # Newline
    BY <1>1, <1>5, FindFirst
  <2>4. ~(k + 1 <= Len(id))
    <3>1. SUFFICES ASSUME k + 1 <= Len(id) PROVE FALSE
      OBVIOUS
    <3>2. L[k + 1] = "n"
      BY <2>2, <2>20, <3>1
    <3> QED BY <2>1, <3>2 DEF Newline
  <2>5. k # Len(id)
    <3>1. SUFFICES ASSUME k = Len(id) PROVE FALSE
      OBVIOUS
    <3> QED BY <2>1, <2>2, <3>1 DEF Newline, Separator
  <2>6. ~(Len(id) < k /\ k < Len(id) + 1 + Len(payload))
    <3>1. SUFFICES ASSUME Len(id) < k, k < Len(id) + 1 + Len(payload) PROVE FALSE
      OBVIOUS
    <3>2. PICK j \in 1 .. Len(payload) : j = k - Len(id)
      <4>1. k - Len(id) \in 1 .. Len(payload)
        BY <2>2, <2>20, <3>1
      <4> QED BY <4>1, Zenon
    <3>3. Len(id) + 1 + j = k + 1
      BY <2>2, <2>20, <3>2
    <3>4. L[k + 1] = payload[j]
      BY <2>2, <3>3
    <3> QED BY <2>1, <2>3, <3>4
  <2>7. k = Len(id) + 1 + Len(payload)
    <3>1. Len(id) \in Nat /\ Len(payload) \in Nat
      BY <2>2
    <3> QED BY <2>20, <2>4, <2>5, <2>6, <3>1
  <2> QED BY <1>3, <1>5, <2>1, <2>7
<1> QED BY <1>4, <1>5 DEF ArrivesAsSent

(* Whatever pieces the stream comes in and wherever it ends, for IDs and   *)
(* payloads of every length, the handler gets the ID that was sent and a   *)
(* beginning of the payload; a whole line without newlines in the payload  *)
(* and a '\r' at its end gives the payload that was sent.                  *)
THEOREM FrameArrivesAsSent == FrameSpec => []ArrivesAsSent
<1>1. FrameSpec => []FrameInv
  BY FrameInvInit, FrameInvNext, PTL DEF FrameSpec
<1> QED BY <1>1, FrameInvArrives, PTL

-----------------------------------------------------------------------------
(***************************************************************************)
(* The report                                                              *)
(***************************************************************************)

(* The alphabet of a report, and what its reader has. *)
Characters == Bytes \cup {"r", "t"}

Readings == [out : Seq(Characters), esc : BOOLEAN, end : BOOLEAN, ok : BOOLEAN]

(* A byte leaves a reading. *)
LEMMA ReadByteReads ==
  ASSUME NEW acc \in Readings, NEW c \in Characters
  PROVE  ReadByte(acc, c) \in Readings
<1>1. acc.out \in Seq(Characters)
  BY DEF Readings
<1>2. \A b \in Characters : Append(acc.out, b) \in Seq(Characters)
  BY <1>1, AppendProperties, Zenon
<1>3. \A o \in Seq(Characters), e \in BOOLEAN, d \in BOOLEAN, k \in BOOLEAN :
         [out |-> o, esc |-> e, end |-> d, ok |-> k] \in Readings
  BY DEF Readings
<1>4. acc = [out |-> acc.out, esc |-> acc.esc, end |-> acc.end, ok |-> acc.ok]
  BY DEF Readings
<1>5. /\ [acc EXCEPT !.ok = FALSE] \in Readings
      /\ [acc EXCEPT !.esc = TRUE] \in Readings
      /\ [acc EXCEPT !.end = TRUE] \in Readings
  BY Zenon DEF Readings
<1>6. \A b \in Characters :
        /\ [acc EXCEPT !.out = Append(@, b)] \in Readings
        /\ [acc EXCEPT !.esc = FALSE, !.out = Append(@, b)] \in Readings
  BY <1>2, Zenon DEF Readings
<1>7. CASE acc.end
  BY <1>5, <1>7 DEF ReadByte
<1>8. CASE ~acc.end /\ acc.esc
  <2>1. CASE \E b \in DOMAIN Escapes : Escapes[b] = c
    <3>1. PICK b : b = CHOOSE d \in DOMAIN Escapes : Escapes[d] = c
      OBVIOUS
    <3>2. b \in DOMAIN Escapes
      BY <2>1, <3>1, Zenon
    <3>3. b \in Characters
      BY <3>2 DEF Escapes, Characters, Bytes
    <3>4. ReadByte(acc, c) = [acc EXCEPT !.esc = FALSE, !.out = Append(@, b)]
      BY <1>8, <2>1, <3>1 DEF ReadByte
    <3> QED BY <1>6, <3>3, <3>4, Zenon
  <2>2. CASE ~\E b \in DOMAIN Escapes : Escapes[b] = c
    BY <1>5, <1>8, <2>2 DEF ReadByte
  <2> QED BY <2>1, <2>2
<1>9. CASE ~acc.end /\ ~acc.esc
  BY <1>5, <1>6, <1>9, Zenon DEF ReadByte
<1> QED BY <1>7, <1>8, <1>9

(* The reader's loop, as a function of the bytes it has read. *)
LEMMA UnescapeIs ==
  ASSUME NEW s \in Seq(Characters)
  PROVE  \E f \in [0 .. Len(s) -> Readings] :
           /\ Unescape(s) = [ok  |-> f[Len(s)].ok /\ f[Len(s)].end,
                             out |-> ToUTF8(f[Len(s)].out)]
           /\ f[0] = [out |-> <<>>, esc |-> FALSE, end |-> FALSE, ok |-> TRUE]
           /\ \A n \in 1 .. Len(s) : f[n] = ReadByte(f[n - 1], s[n])
<1> DEFINE Loop(f) ==
      [n \in 0 .. Len(s) |->
         IF n = 0 THEN [out |-> <<>>, esc |-> FALSE, end |-> FALSE, ok |-> TRUE]
                  ELSE ReadByte(f[n - 1], s[n])]
<1>1. Len(s) \in Nat /\ \A n \in 1 .. Len(s) : s[n] \in Characters
  BY LenProperties
<1>2. PICK first \in Readings :
         first = [out |-> <<>>, esc |-> FALSE, end |-> FALSE, ok |-> TRUE]
  <2>1. <<>> \in Seq(Characters)
    BY EmptySeq
  <2> QED BY <2>1, Zenon DEF Readings
<1>3. PICK step \in Steps(Readings, Characters) :
         \A a \in Readings, c \in Characters : step[<<a, c>>] = ReadByte(a, c)
  <2> DEFINE h == [p \in Readings \X Characters |-> ReadByte(p[1], p[2])]
  <2>1. h \in Steps(Readings, Characters)
    BY ReadByteReads DEF Steps
  <2>2. \A a \in Readings, c \in Characters : h[<<a, c>>] = ReadByte(a, c)
    OBVIOUS
  <2> HIDE DEF h
  <2> QED BY <2>1, <2>2, Zenon
<1>4. PICK g : IsLoop(g, s, Readings, first, step)
  BY LoopExists, Zenon
<1>5. g \in [0 .. Len(s) -> Readings] /\ g[0] = first
  BY <1>4, Zenon DEF IsLoop
<1>6. \A n \in 1 .. Len(s) : g[n] = ReadByte(g[n - 1], s[n])
  <2> TAKE n \in 1 .. Len(s)
  <2>1. n - 1 \in 0 .. Len(s) /\ s[n] \in Characters
    BY <1>1
  <2>2. g[n] = step[<<g[n - 1], s[n]>>]
    BY <1>4, Zenon DEF IsLoop
  <2> QED BY <1>3, <1>5, <2>1, <2>2, Zenon
<1>7. g = Loop(g)
  BY <1>1, <1>2, <1>5, <1>6
<1>8. PICK f : f = Loop(f) /\ Unescape(s) = [ok  |-> f[Len(s)].ok /\ f[Len(s)].end,
                                             out |-> ToUTF8(f[Len(s)].out)]
  <2> DEFINE c == CHOOSE f : f = Loop(f)
  <2>1. Unescape(s) = [ok  |-> c[Len(s)].ok /\ c[Len(s)].end,
                       out |-> ToUTF8(c[Len(s)].out)]
    BY Zenon DEF Unescape
  <2> HIDE DEF Loop
  <2>2. c = Loop(c)
    BY <1>7, Zenon
  <2> QED BY <2>1, <2>2, Zenon
<1>9. /\ f[0] = [out |-> <<>>, esc |-> FALSE, end |-> FALSE, ok |-> TRUE]
      /\ \A n \in 1 .. Len(s) : f[n] = ReadByte(f[n - 1], s[n])
  <2>1. ASSUME NEW n \in 0 .. Len(s)
        PROVE  f[n] = IF n = 0 THEN [out |-> <<>>, esc |-> FALSE, end |-> FALSE, ok |-> TRUE]
                               ELSE ReadByte(f[n - 1], s[n])
    BY <1>8, Zenon
  <2>2. \A n \in 1 .. Len(s) : n \in 0 .. Len(s) /\ n # 0
    BY <1>1
  <2>3. 0 \in 0 .. Len(s)
    BY <1>1
  <2> QED BY <2>1, <2>2, <2>3, Zenon
<1>10. \A n \in 0 .. Len(s) : f[n] \in Readings
  <2> DEFINE T == {n \in 0 .. Len(s) : f[n] \in Readings}
  <2>1. 0 \in T
    BY <1>1, <1>2, <1>9
  <2>2. \A n \in 1 .. Len(s) : n - 1 \in T => n \in T
    <3> TAKE n \in 1 .. Len(s)
    <3>1. n \in 0 .. Len(s) /\ s[n] \in Characters /\ f[n] = ReadByte(f[n - 1], s[n])
      BY <1>1, <1>9
    <3>2. ASSUME f[n - 1] \in Readings PROVE f[n] \in Readings
      BY <3>1, <3>2, ReadByteReads
    <3> QED BY <3>1, <3>2, Zenon
  <2> HIDE DEF T
  <2>3. \A n \in 0 .. Len(s) : n \in T
    BY <1>1, <2>1, <2>2, UpTo, Zenon
  <2> QED BY <2>3, Zenon DEF T
<1>11. f \in [0 .. Len(s) -> Readings]
  <2>1. f = [n \in 0 .. Len(s) |-> f[n]]
    BY <1>8, Zenon
  <2> QED BY <1>10, <2>1, Zenon
<1> QED BY <1>8, <1>9, <1>11, Zenon

(* A character is taken, or the string refused. *)
Taken(acc, c) == [acc EXCEPT !.out = Append(@, c)]

Refused(acc) == [acc EXCEPT !.ok = FALSE]

(* An escaped character is read as the character, one that is not escaped  *)
(* as itself, and a control character is refused.                          *)
LEMMA ReadsEscaped ==
  ASSUME NEW acc \in Readings, ~acc.esc, ~acc.end, NEW c \in Bytes
  PROVE  /\ c \in DOMAIN Escapes =>
              ReadByte(ReadByte(acc, "backslash"), Escapes[c]) = Taken(acc, c)
         /\ c = Control => ReadByte(acc, c) = Refused(acc)
         /\ c \notin DOMAIN Escapes /\ c # Control => ReadByte(acc, c) = Taken(acc, c)
<1>1. DOMAIN Escapes = {"backslash", "quote", Newline, Return, "tab"}
  BY DEF Escapes
<1>2. ASSUME c \in DOMAIN Escapes
      PROVE  ReadByte(ReadByte(acc, "backslash"), Escapes[c]) = Taken(acc, c)
  <2>1. \A b \in DOMAIN Escapes : Escapes[b] = Escapes[c] => b = c
    BY <1>2 DEF Escapes, Newline, Return
  <2>2. (CHOOSE b \in DOMAIN Escapes : Escapes[b] = Escapes[c]) = c
    BY <1>2, <2>1, Zenon
  <2>3. PICK a \in Readings : a = [acc EXCEPT !.esc = TRUE]
    BY Zenon DEF Readings
  <2>4. ReadByte(acc, "backslash") = a
    BY <2>3 DEF ReadByte, Newline, Return, Control
  <2>5. ~a.end /\ a.esc
    BY <2>3 DEF Readings
  <2>6. ReadByte(a, Escapes[c]) = [a EXCEPT !.esc = FALSE, !.out = Append(@, c)]
    BY <1>2, <2>2, <2>5, Zenon DEF ReadByte
  <2>7. [a EXCEPT !.esc = FALSE, !.out = Append(@, c)] = Taken(acc, c)
    BY <2>3, Zenon DEF Readings, Taken
  <2> QED BY <2>4, <2>6, <2>7
<1>3. c = Control => ReadByte(acc, c) = Refused(acc)
  BY DEF ReadByte, Control, Refused
<1>4. ASSUME c \notin DOMAIN Escapes, c # Control
      PROVE  ReadByte(acc, c) = Taken(acc, c)
  BY <1>1, <1>4, Zenon DEF ReadByte, Taken
<1> QED BY <1>2, <1>3, <1>4

(* What was read when n characters of s were: they themselves, unless one  *)
(* of them is a control character.                                         *)
ReadSoFar(acc, s, n) ==
  /\ acc \in Readings /\ ~acc.esc /\ ~acc.end
  /\ acc.ok <=> \A i \in 1 .. n : s[i] # Control
  /\ acc.ok => Len(acc.out) = n /\ \A i \in 1 .. n : acc.out[i] = s[i]

(* One more character. *)
LEMMA ReadsOneMore ==
  ASSUME NEW s \in Seq(Bytes), NEW n \in 1 .. Len(s), NEW acc, ReadSoFar(acc, s, n - 1)
  PROVE  /\ s[n] = Control => ReadSoFar(Refused(acc), s, n)
         /\ s[n] # Control => ReadSoFar(Taken(acc, s[n]), s, n)
<1>1. Len(s) \in Nat /\ s[n] \in Bytes /\ n \in Nat
  BY LenProperties
<1>2. PICK m \in Nat : m = n - 1
  <2>1. n - 1 \in Nat
    BY <1>1
  <2> QED BY <2>1, Zenon
<1>3. /\ n = m + 1 /\ \A i \in 1 .. n : i = n \/ i \in 1 .. m
      /\ \A i \in 1 .. m : i \in 1 .. n /\ i # n
  BY <1>1, <1>2
<1>4. /\ acc \in Readings /\ ~acc.esc /\ ~acc.end
      /\ acc.ok <=> \A i \in 1 .. m : s[i] # Control
      /\ acc.ok => Len(acc.out) = m /\ \A i \in 1 .. m : acc.out[i] = s[i]
  BY <1>2, Zenon DEF ReadSoFar
<1>5. n \in 1 .. n
  BY <1>1
<1>6. ASSUME s[n] = Control PROVE ReadSoFar(Refused(acc), s, n)
  <2>1. PICK a \in Readings : a = Refused(acc) /\ ~a.ok /\ ~a.esc /\ ~a.end
    <3> DEFINE x == Refused(acc)
    <3>1. x \in Readings /\ ~x.ok /\ ~x.esc /\ ~x.end
      BY <1>4, Zenon DEF Readings, Refused
    <3> QED BY <3>1, Zenon
  <2> QED BY <1>5, <1>6, <2>1, Zenon DEF ReadSoFar
<1>7. ASSUME s[n] # Control PROVE ReadSoFar(Taken(acc, s[n]), s, n)
  <2>1. PICK o \in Seq(Characters) : o = acc.out
    BY <1>4 DEF Readings
  <2>2. s[n] \in Characters
    BY <1>1 DEF Characters
  <2>3. PICK p \in Seq(Characters) : p = Append(o, s[n])
    BY <2>2, AppendProperties, Zenon
  <2>4. Len(p) = Len(o) + 1 /\ (\A i \in 1 .. Len(o) : p[i] = o[i]) /\ p[Len(o) + 1] = s[n]
    BY <2>2, <2>3, AppendProperties
  <2>5. PICK a \in Readings : /\ a = Taken(acc, s[n]) /\ a.out = p
                              /\ a.ok = acc.ok /\ ~a.esc /\ ~a.end
    <3> DEFINE x == Taken(acc, s[n])
    <3>1. x \in Readings /\ x.out = p /\ x.ok = acc.ok /\ ~x.esc /\ ~x.end
      BY <1>4, <2>1, <2>3, Zenon DEF Readings, Taken
    <3> QED BY <3>1, Zenon
  <2>6. a.ok <=> \A i \in 1 .. n : s[i] # Control
    BY <1>3, <1>4, <1>5, <1>7, <2>5, Zenon
  <2>7. a.ok => Len(p) = n /\ \A i \in 1 .. n : p[i] = s[i]
    BY <1>3, <1>4, <2>1, <2>4, <2>5, Zenon
  <2> QED BY <2>5, <2>6, <2>7, Zenon DEF ReadSoFar
<1> QED BY <1>6, <1>7

(* The escapes of a character are characters. *)
LEMMA EscapeByteIs ==
  ASSUME NEW c \in Bytes
  PROVE  /\ EscapeByte(c) \in Seq(Characters)
         /\ c \in DOMAIN Escapes => EscapeByte(c) = <<"backslash", Escapes[c]>>
         /\ c \notin DOMAIN Escapes => EscapeByte(c) = <<c>>
<1>1. c \in Characters /\ "backslash" \in Characters
  BY DEF Characters, Bytes
<1>2. c \in DOMAIN Escapes => Escapes[c] \in Characters
  BY DEF Escapes, Characters, Bytes
<1>3. CASE c \in DOMAIN Escapes
  BY <1>1, <1>2, <1>3 DEF EscapeByte
<1>4. CASE c \notin DOMAIN Escapes
  BY <1>1, <1>4 DEF EscapeByte
<1> QED BY <1>3, <1>4

(* escapeJSONString, as a function of the characters it has seen. *)
Escaping(f, s) ==
  /\ f \in [0 .. Len(s) -> Seq(Characters)] /\ f[0] = <<>>
  /\ \A n \in 1 .. Len(s) : f[n] = f[n - 1] \o EscapeByte(s[n])

(* Its result is what it has after the last one. *)
LEMMA EscapingIs ==
  ASSUME NEW s \in Seq(Bytes)
  PROVE  \E f : Escaping(f, s) /\ escapeJSONString(s) = f[Len(s)]
<1> DEFINE Loop(f) == [n \in 0 .. Len(s) |->
                         IF n = 0 THEN <<>> ELSE f[n - 1] \o EscapeByte(s[n])]
<1>1. Len(s) \in Nat /\ \A n \in 1 .. Len(s) : s[n] \in Bytes
  BY LenProperties
<1>2. PICK first \in Seq(Characters) : first = <<>>
  BY EmptySeq, Zenon
<1>3. PICK step \in Steps(Seq(Characters), Bytes) :
         \A a \in Seq(Characters), c \in Bytes : step[<<a, c>>] = a \o EscapeByte(c)
  <2> DEFINE h == [p \in Seq(Characters) \X Bytes |-> p[1] \o EscapeByte(p[2])]
  <2>1. \A a \in Seq(Characters), c \in Bytes : a \o EscapeByte(c) \in Seq(Characters)
    BY EscapeByteIs, ConcatProperties
  <2>2. h \in Steps(Seq(Characters), Bytes)
    BY <2>1 DEF Steps
  <2>3. \A a \in Seq(Characters), c \in Bytes : h[<<a, c>>] = a \o EscapeByte(c)
    BY Zenon
  <2> HIDE DEF h
  <2> QED BY <2>2, <2>3, Zenon
<1>4. PICK g : IsLoop(g, s, Seq(Characters), first, step)
  BY LoopExists, Zenon
<1>5. g \in [0 .. Len(s) -> Seq(Characters)] /\ g[0] = <<>>
  BY <1>2, <1>4, Zenon DEF IsLoop
<1>6. ASSUME NEW n \in 1 .. Len(s) PROVE g[n] = g[n - 1] \o EscapeByte(s[n])
  <2>1. n - 1 \in 0 .. Len(s) /\ s[n] \in Bytes
    BY <1>1
  <2>2. g[n] = step[<<g[n - 1], s[n]>>]
    BY <1>4, Zenon DEF IsLoop
  <2> QED BY <1>3, <1>5, <2>1, <2>2, Zenon
<1>7. g = Loop(g)
  <2>1. ASSUME NEW n \in 0 .. Len(s)
        PROVE  g[n] = IF n = 0 THEN <<>> ELSE g[n - 1] \o EscapeByte(s[n])
    <3>1. n # 0 => n \in 1 .. Len(s)
      BY <1>1
    <3> QED BY <1>5, <1>6, <3>1, Zenon
  <2>2. g = [n \in 0 .. Len(s) |-> g[n]]
    BY <1>5
  <2> QED BY <2>1, <2>2, Zenon
<1>8. PICK f : f = Loop(f) /\ escapeJSONString(s) = f[Len(s)]
  <2> DEFINE c == CHOOSE f : f = Loop(f)
  <2>1. escapeJSONString(s) = c[Len(s)]
    BY Zenon DEF escapeJSONString
  <2> HIDE DEF Loop
  <2>2. c = Loop(c)
    BY <1>7, Zenon
  <2> QED BY <2>1, <2>2, Zenon
<1>9. f[0] = <<>> /\ \A n \in 1 .. Len(s) : f[n] = f[n - 1] \o EscapeByte(s[n])
  <2>1. ASSUME NEW n \in 0 .. Len(s)
        PROVE  f[n] = IF n = 0 THEN <<>> ELSE f[n - 1] \o EscapeByte(s[n])
    BY <1>8, Zenon
  <2>2. \A n \in 1 .. Len(s) : n \in 0 .. Len(s) /\ n # 0
    BY <1>1
  <2>3. 0 \in 0 .. Len(s)
    BY <1>1
  <2> QED BY <2>1, <2>2, <2>3, Zenon
<1>10. \A n \in 0 .. Len(s) : f[n] \in Seq(Characters)
  <2> DEFINE T == {n \in 0 .. Len(s) : f[n] \in Seq(Characters)}
  <2>1. 0 \in T
    <3>1. f[0] = <<>> /\ <<>> \in Seq(Characters)
      BY <1>9, EmptySeq, Zenon
    <3>2. 0 \in 0 .. Len(s)
      BY <1>1
    <3> QED BY <3>1, <3>2, Zenon
  <2>2. ASSUME NEW n \in 1 .. Len(s), n - 1 \in T PROVE n \in T
    <3>1. n \in 0 .. Len(s) /\ s[n] \in Bytes /\ f[n - 1] \in Seq(Characters)
      BY <1>1, <2>2
    <3>2. f[n] \in Seq(Characters)
      BY <1>9, <3>1, EscapeByteIs, ConcatProperties, Zenon
    <3> QED BY <3>1, <3>2
  <2> HIDE DEF T
  <2>3. \A n \in 0 .. Len(s) : n \in T
    BY <1>1, <2>1, <2>2, UpTo, Zenon
  <2> QED BY <2>3 DEF T
<1>11. f \in [0 .. Len(s) -> Seq(Characters)]
  <2>1. f = [n \in 0 .. Len(s) |-> f[n]]
    BY <1>8
  <2> QED BY <1>10, <2>1
<1>12. Escaping(f, s)
  BY <1>9, <1>11, Zenon DEF Escaping
<1> QED BY <1>8, <1>12, Zenon

(* Text that is made UTF-8 keeps its length, and what is in a character. *)
LEMMA ToUTF8Is ==
  ASSUME NEW s \in Seq(Bytes)
  PROVE  /\ Len(ToUTF8(s)) = Len(s)
         /\ \A n \in 1 .. Len(s) :
              ToUTF8(s)[n] = IF InCharacter(s, n) THEN s[n] ELSE Replacement
<1> DEFINE At(n) == IF InCharacter(s, n) THEN s[n] ELSE Replacement
<1>1. Len(s) \in Nat /\ \A n \in 1 .. Len(s) : s[n] \in Bytes \cup {Replacement}
  BY LenProperties
<1>2. \A n \in 1 .. Len(s) : At(n) \in Bytes \cup {Replacement}
  BY <1>1, Zenon
<1>3. ToUTF8(s) = [n \in 1 .. Len(s) |-> At(n)]
  BY Zenon DEF ToUTF8
<1>4. \A n \in 1 .. Len(s) : ToUTF8(s)[n] = At(n)
  BY <1>3, Zenon
<1> HIDE DEF At
<1>5. ToUTF8(s) \in Seq(Bytes \cup {Replacement}) /\ DOMAIN ToUTF8(s) = 1 .. Len(s)
  <2>1. ToUTF8(s) \in [1 .. Len(s) -> Bytes \cup {Replacement}]
    BY <1>2, <1>3, Zenon
  <2> QED BY <1>1, <2>1, SeqDef
<1>6. Len(ToUTF8(s)) = Len(s)
  BY <1>1, <1>5, LenProperties
<1> QED BY <1>4, <1>6 DEF At

(* What reportResult escapes is read as it was, made UTF-8, unless there   *)
(* is a control character in it, which the reader refuses.                 *)
LEMMA OutputSurvives ==
  ASSUME NEW s \in Seq(Bytes), Len(s) # 0, NEW r,
         r = Unescape(escapeJSONString(s) \o <<"quote">>)
  PROVE  /\ r.ok <=> \A i \in 1 .. Len(s) : s[i] # Control
         /\ r.ok => r.out = ToUTF8(s)
<1>1. PICK N \in Nat \ {0} : N = Len(s) /\ \A n \in 1 .. N : s[n] \in Bytes
  BY LenProperties
<1>2. PICK q : q = [n \in 1 .. N |-> EscapeByte(s[n])]
  BY Zenon
<1>3. \A n \in 1 .. N : q[n] = EscapeByte(s[n]) /\ q[n] \in Seq(Characters)
  BY <1>1, <1>2, EscapeByteIs, Zenon
<1>4. PICK e \in [0 .. N -> Seq(Characters)] :
         /\ escapeJSONString(s) = e[N] /\ e[0] = <<>>
         /\ \A n \in 1 .. N : e[n] = e[n - 1] \o q[n]
         /\ \A n \in 0 .. N : /\ Len(e[n]) <= Len(e[N])
                               /\ \A i \in 1 .. Len(e[n]) : e[N][i] = e[n][i]
  <2>1. PICK f : Escaping(f, s) /\ escapeJSONString(s) = f[Len(s)]
    BY EscapingIs, Zenon
  <2>2. /\ f \in [0 .. N -> Seq(Characters)] /\ f[0] = <<>>
        /\ \A n \in 1 .. N : f[n] = f[n - 1] \o q[n]
    BY <1>1, <1>3, <2>1, Zenon DEF Escaping
  <2>3. ASSUME NEW n \in 0 .. N
        PROVE  Len(f[n]) <= Len(f[N]) /\ \A i \in 1 .. Len(f[n]) : f[N][i] = f[n][i]
    <3>1. Joining(f, q, N, Characters)
      BY <1>3, <2>2, Zenon DEF Joining
    <3>2. BeginsAs(f, N, n)
      BY <3>1, JoiningBegins, Zenon
    <3> QED BY <3>2, Zenon DEF BeginsAs
  <2> QED BY <1>1, <2>1, <2>2, <2>3, Zenon
<1>5. PICK E \in Nat : E = Len(e[N]) /\ N \in 0 .. N /\ e[N] \in Seq(Characters)
  BY <1>1, LenProperties
<1>6. PICK t \in Seq(Characters) : t = e[N] \o <<"quote">>
  <2>1. "quote" \in Characters
    BY DEF Characters, Bytes
  <2>2. <<"quote">> \in Seq(Characters)
    BY <2>1
  <2> QED BY <1>5, <2>2, ConcatProperties, Zenon
<1>7. Len(t) = E + 1 /\ t[E + 1] = "quote" /\ \A i \in 1 .. E : t[i] = e[N][i]
  <2>1. PICK one \in Seq(Characters) : one = <<"quote">> /\ Len(one) = 1 /\ one[1] = "quote"
    <3>1. "quote" \in Characters
      BY DEF Characters, Bytes
    <3>2. <<"quote">> \in Seq(Characters) /\ Len(<<"quote">>) = 1 /\ <<"quote">>[1] = "quote"
      BY <3>1
    <3> QED BY <3>2, Zenon
  <2>2. /\ Len(e[N] \o one) = Len(e[N]) + Len(one)
        /\ \A i \in 1 .. Len(e[N]) + Len(one) :
             (e[N] \o one)[i] = IF i <= Len(e[N]) THEN e[N][i] ELSE one[i - Len(e[N])]
    BY <1>5, ConcatProperties
  <2>3. /\ Len(t) = E + 1
        /\ \A i \in 1 .. E + 1 : t[i] = IF i <= E THEN e[N][i] ELSE one[i - E]
    BY <1>5, <1>6, <2>1, <2>2, Zenon
  <2> QED BY <2>1, <2>3
<1>8. r = Unescape(t)
  BY <1>4, <1>6, Zenon
<1>9. PICK f \in [0 .. E + 1 -> Readings] :
         /\ r = [ok |-> f[E + 1].ok /\ f[E + 1].end, out |-> ToUTF8(f[E + 1].out)]
         /\ f[0] = [out |-> <<>>, esc |-> FALSE, end |-> FALSE, ok |-> TRUE]
         /\ \A n \in 1 .. E + 1 : f[n] = ReadByte(f[n - 1], t[n])
  <2>1. \E f \in [0 .. Len(t) -> Readings] :
           /\ Unescape(t) = [ok  |-> f[Len(t)].ok /\ f[Len(t)].end,
                             out |-> ToUTF8(f[Len(t)].out)]
           /\ f[0] = [out |-> <<>>, esc |-> FALSE, end |-> FALSE, ok |-> TRUE]
           /\ \A n \in 1 .. Len(t) : f[n] = ReadByte(f[n - 1], t[n])
    BY UnescapeIs, Zenon
  <2> QED BY <1>7, <1>8, <2>1, Zenon
<1> DEFINE T == {n \in 0 .. N : ReadSoFar(f[Len(e[n])], s, n)}
<1>10. 0 \in T
  <2>1. Len(e[0]) = 0
    BY <1>4, EmptySeq
  <2>2. PICK a \in Readings : /\ a = f[0] /\ a.out = <<>> /\ ~a.esc /\ ~a.end /\ a.ok
    <3>1. 0 \in 0 .. E + 1
      OBVIOUS
    <3>2. PICK a \in Readings :
             a = f[0] /\ a = [out |-> <<>>, esc |-> FALSE, end |-> FALSE, ok |-> TRUE]
      BY <1>9, <3>1, Zenon
    <3>3. a.out = <<>> /\ ~a.esc /\ ~a.end /\ a.ok
      BY <3>2
    <3> QED BY <3>2, <3>3, Zenon
  <2>3. ReadSoFar(a, s, 0)
    BY <2>2, EmptySeq DEF ReadSoFar
  <2>4. ReadSoFar(f[Len(e[0])], s, 0)
    BY <2>1, <2>2, <2>3, Zenon
  <2> QED BY <2>4
<1>11. ASSUME NEW n \in 1 .. N, n - 1 \in T PROVE n \in T
  <2>1. PICK m \in 0 .. N : m = n - 1 /\ n \in 0 .. N
    <3>1. n - 1 \in 0 .. N /\ n \in 0 .. N
      OBVIOUS
    <3> QED BY <3>1, Zenon
  <2>2. PICK a \in Nat, b \in Nat, d \in Nat :
           a = Len(e[m]) /\ b = Len(q[n]) /\ d = Len(e[n])
    <3>1. e[m] \in Seq(Characters) /\ e[n] \in Seq(Characters) /\ q[n] \in Seq(Characters)
      BY <1>3, <2>1
    <3> QED BY <3>1, LenProperties
  <2>3. d = a + b /\ \A i \in 1 .. b : e[n][a + i] = q[n][i]
    <3>1. e[m] \in Seq(Characters) /\ q[n] \in Seq(Characters) /\ e[n] = e[m] \o q[n]
      BY <1>3, <1>4, <2>1, Zenon
    <3>2. /\ Len(e[m] \o q[n]) = Len(e[m]) + Len(q[n])
          /\ \A i \in 1 .. Len(e[m]) + Len(q[n]) :
               (e[m] \o q[n])[i] = IF i <= Len(e[m]) THEN e[m][i] ELSE q[n][i - Len(e[m])]
      BY <3>1, ConcatProperties
    <3>3. /\ d = a + b
          /\ \A i \in 1 .. a + b : e[n][i] = IF i <= a THEN e[m][i] ELSE q[n][i - a]
      BY <2>2, <3>1, <3>2, Zenon
    <3>4. \A i \in 1 .. b : a + i \in 1 .. a + b /\ ~(a + i <= a) /\ (a + i) - a = i
      OBVIOUS
    <3> QED BY <3>3, <3>4, Zenon
  <2>4. d <= E /\ \A i \in 1 .. d : e[N][i] = e[n][i]
    BY <1>4, <1>5, <2>1, <2>2, Zenon
  <2>5. \A i \in 1 .. b : /\ a + i \in 1 .. E + 1 /\ t[a + i] = q[n][i]
                          /\ f[a + i] = ReadByte(f[(a + i) - 1], q[n][i])
    <3> TAKE i \in 1 .. b
    <3>1. a + i \in 1 .. E /\ a + i \in 1 .. d /\ a + i \in 1 .. E + 1
      BY <2>3, <2>4, SMTT(30)
    <3>2. t[a + i] = q[n][i]
      BY <1>7, <2>3, <2>4, <3>1, Zenon
    <3> QED BY <1>9, <3>1, <3>2, Zenon
  <2>6. ReadSoFar(f[a], s, n - 1) /\ s[n] \in Bytes /\ n \in 1 .. Len(s)
    BY <1>1, <1>11, <2>1, <2>2, Zenon
  <2>7. f[a] \in Readings /\ ~f[a].esc /\ ~f[a].end
    BY <2>6, Zenon DEF ReadSoFar
  <2>8. CASE s[n] \in DOMAIN Escapes
    <3>1. q[n] = <<"backslash", Escapes[s[n]]>>
      BY <1>3, <2>6, <2>8, EscapeByteIs, Zenon
    <3>2. b = 2 /\ q[n][1] = "backslash" /\ q[n][2] = Escapes[s[n]]
      BY <2>2, <3>1
    <3>3. f[a + 1] = ReadByte(f[a], "backslash")
      <4>1. 1 \in 1 .. b /\ (a + 1) - 1 = a
        BY <3>2
      <4> QED BY <2>5, <3>2, <4>1, Zenon
    <3>4. f[d] = ReadByte(f[a + 1], Escapes[s[n]])
      <4>1. 2 \in 1 .. b /\ (a + 2) - 1 = a + 1 /\ a + 2 = d
        BY <2>3, <3>2
      <4> QED BY <2>5, <3>2, <4>1, Zenon
    <3>5. f[d] = Taken(f[a], s[n])
      BY <2>6, <2>7, <2>8, <3>3, <3>4, ReadsEscaped, Zenon
    <3>6. s[n] # Control
      BY <2>8 DEF Escapes, Control, Newline, Return
    <3>7. ReadSoFar(f[d], s, n)
      BY <2>6, <3>5, <3>6, ReadsOneMore, Zenon
    <3> QED BY <2>1, <2>2, <3>7
  <2>9. CASE s[n] \notin DOMAIN Escapes
    <3>1. q[n] = <<s[n]>>
      BY <1>3, <2>6, <2>9, EscapeByteIs, Zenon
    <3>2. b = 1 /\ q[n][1] = s[n]
      BY <2>2, <3>1
    <3>3. f[d] = ReadByte(f[a], s[n])
      <4>1. 1 \in 1 .. b /\ (a + 1) - 1 = a /\ a + 1 = d
        BY <2>3, <3>2
      <4> QED BY <2>5, <3>2, <4>1, Zenon
    <3>4. f[d] = IF s[n] = Control THEN Refused(f[a]) ELSE Taken(f[a], s[n])
      BY <2>6, <2>7, <2>9, <3>3, ReadsEscaped, Zenon
    <3>5. ReadSoFar(f[d], s, n)
      BY <2>6, <3>4, ReadsOneMore, Zenon
    <3> QED BY <2>1, <2>2, <3>5
  <2> QED BY <2>8, <2>9
<1>12. ReadSoFar(f[E], s, N)
  <2>1. \A n \in 0 .. N : n \in T
    <3> HIDE DEF T
    <3> QED BY <1>1, <1>10, <1>11, UpTo, Zenon
  <2> QED BY <1>5, <2>1
<1>13. PICK a \in Readings :
         /\ a = f[E] /\ ~a.esc /\ ~a.end
         /\ a.ok <=> \A i \in 1 .. N : s[i] # Control
         /\ a.ok => Len(a.out) = N /\ \A i \in 1 .. N : a.out[i] = s[i]
  BY <1>12, Zenon DEF ReadSoFar
<1>14. f[E + 1] = [a EXCEPT !.end = TRUE]
  <2>1. E + 1 \in 1 .. E + 1 /\ (E + 1) - 1 = E
    OBVIOUS
  <2>2. f[E + 1] = ReadByte(a, "quote")
    BY <1>7, <1>9, <1>13, <2>1, Zenon
  <2> QED BY <1>13, <2>2 DEF ReadByte, Newline, Return, Control
<1>15. r = [ok |-> a.ok, out |-> ToUTF8(a.out)]
  <2>1. f[E + 1].ok = a.ok /\ f[E + 1].end = TRUE /\ f[E + 1].out = a.out /\ a.ok \in BOOLEAN
    BY <1>14 DEF Readings
  <2> QED BY <1>9, <2>1, Zenon
<1>16. r.ok = a.ok /\ r.out = ToUTF8(a.out)
  BY <1>15
<1>17. ASSUME a.ok PROVE a.out = s
  <2>1. a.out \in Seq(Characters) /\ s \in Seq(Characters)
    <3>1. Bytes \subseteq Characters
      BY DEF Characters
    <3> QED BY <3>1, SeqMonotonic DEF Readings
  <2> QED BY <1>1, <1>13, <1>17, <2>1, SeqEqual, Zenon
<1> QED BY <1>1, <1>13, <1>16, <1>17, Zenon

(* The scheduler has nothing before the report, whose text it then keeps   *)
(* as UTF-8, or refuses.                                                   *)
ReportInv ==
  /\ state # "reported" => message = <<>>
  /\ ReportKeepsOutput

(* The report's step. *)
LEMMA ReportKeeps ==
  ASSUME FrameInv, ReportInv, Report
  PROVE  ReportInv'
<1>1. PICK p \in Seq(Bytes) : p = task.prompt
  <2>1. task = NoTask \/ task = Parse(buffer)
    BY DEF FrameInv, Report
  <2>2. task = Parse(buffer)
    BY <2>1, Zenon DEF Report
  <2>3. /\ id \in IDs /\ payload \in Seq(Bytes) /\ buffer \in Seq(Bytes)
        /\ Len(buffer) <= Len(id) + 1 + Len(payload)
        /\ \A j \in 1 .. Len(buffer) : buffer[j] = Line(id, payload)[j]
    BY DEF FrameInv
  <2>4. Parse(buffer).prompt \in Seq(Bytes)
    BY <2>3, ParsesBeginning
  <2> QED BY <2>2, <2>4, Zenon
<1>2. PICK s \in Seq(Bytes) :
         /\ s = Infer(p) /\ Len(p) \in Nat /\ Len(s) = Len(p) + 1 /\ s[1] = "n"
         /\ \A i \in 1 .. Len(p) : s[i + 1] = p[i]
  <2>1. "n" \in Bytes
    BY DEF Bytes
  <2>2. PICK one \in Seq(Bytes) : one = <<"n">> /\ Len(one) = 1 /\ one[1] = "n"
    <3>1. <<"n">> \in Seq(Bytes) /\ Len(<<"n">>) = 1 /\ <<"n">>[1] = "n"
      BY <2>1
    <3> QED BY <3>1, Zenon
  <2>3. Len(p) \in Nat
    BY LenProperties, Zenon
  <2>4. /\ one \o p \in Seq(Bytes) /\ Len(one \o p) = Len(one) + Len(p)
        /\ \A i \in 1 .. Len(one) + Len(p) :
             (one \o p)[i] = IF i <= Len(one) THEN one[i] ELSE p[i - Len(one)]
    BY ConcatProperties
  <2>5. PICK x \in Seq(Bytes) :
           /\ x = one \o p /\ Len(x) = 1 + Len(p)
           /\ \A i \in 1 .. 1 + Len(p) : x[i] = IF i <= 1 THEN one[i] ELSE p[i - 1]
    BY <2>2, <2>4, Zenon
  <2>6. Len(x) = Len(p) + 1 /\ x[1] = "n" /\ \A i \in 1 .. Len(p) : x[i + 1] = p[i]
    BY <2>2, <2>3, <2>5
  <2>7. x = Infer(p)
    BY <2>2, <2>5, Zenon DEF Infer
  <2> QED BY <2>3, <2>6, <2>7, Zenon
<1>3. PICK r : r = Unescape(escapeJSONString(s) \o <<"quote">>)
  BY Zenon
<1>4. /\ answer' = IF r.ok THEN 200 ELSE 400
      /\ message' = IF r.ok THEN r.out ELSE message
      /\ state = "done" /\ state' = "reported" /\ task' = task
  BY <1>1, <1>2, <1>3, Zenon DEF Report
<1>5. message = <<>>
  BY <1>4 DEF ReportInv
<1>6. /\ r.ok <=> \A i \in 1 .. Len(s) : s[i] # Control
      /\ r.ok => r.out = ToUTF8(s)
  <2>1. Len(s) # 0
    BY <1>2
  <2> QED BY <1>3, <2>1, OutputSurvives, Zenon
<1>7. (\A i \in 1 .. Len(s) : s[i] # Control) <=> \A i \in 1 .. Len(p) : p[i] # Control
  <2>1. ASSUME \A i \in 1 .. Len(p) : p[i] # Control, NEW i \in 1 .. Len(s)
        PROVE  s[i] # Control
    <3>1. CASE i = 1
      BY <1>2, <3>1, Zenon DEF Control
    <3>2. CASE i # 1
      <4>1. PICK j \in 1 .. Len(p) : i = j + 1
        <5>1. i - 1 \in 1 .. Len(p) /\ i = (i - 1) + 1
          BY <1>2, <3>2
        <5> QED BY <5>1, Zenon
      <4> QED BY <1>2, <2>1, <4>1
    <3> QED BY <3>1, <3>2, Zenon
  <2>2. ASSUME \A i \in 1 .. Len(s) : s[i] # Control, NEW i \in 1 .. Len(p)
        PROVE  p[i] # Control
    <3>1. i + 1 \in 1 .. Len(s)
      BY <1>2
    <3> QED BY <1>2, <2>2, <3>1, Zenon
  <2> QED BY <2>1, <2>2, Zenon
<1>8. Find(p, Control) = 0 <=> \A i \in 1 .. Len(p) : p[i] # Control
  BY FindFirst
<1>9. IF Find(p, Control) = 0 THEN answer' = 200 /\ message' = ToUTF8(s)
                              ELSE answer' = 400 /\ message' = <<>>
  BY <1>4, <1>5, <1>6, <1>7, <1>8, Zenon
<1>10. s = Infer(task'.prompt) /\ p = task'.prompt
  BY <1>1, <1>2, <1>4, Zenon
<1>11. ReportKeepsOutput'
  <2>1. IF Find(p, Control) = 0
        THEN /\ answer' = 200 /\ Len(message') = Len(s)
             /\ \A n \in 1 .. Len(s) :
                  message'[n] = IF InCharacter(s, n) THEN s[n] ELSE Replacement
        ELSE answer' = 400 /\ message' = <<>>
    <3>1. PICK u : /\ u = ToUTF8(s) /\ Len(u) = Len(s)
                   /\ \A n \in 1 .. Len(s) :
                        u[n] = IF InCharacter(s, n) THEN s[n] ELSE Replacement
      <4>1. PICK u : u = ToUTF8(s)
        BY Zenon
      <4> QED BY <4>1, ToUTF8Is
    <3>2. CASE Find(p, Control) = 0
      <4>1. answer' = 200 /\ message' = u
        BY <1>9, <3>1, <3>2, Zenon
      <4> QED BY <3>1, <3>2, <4>1, Zenon
    <3> QED BY <1>9, <3>2, Zenon
  <2> QED BY <1>10, <2>1, Zenon DEF ReportKeepsOutput
<1> QED BY <1>4, <1>11 DEF ReportInv

(* The scheduler keeps what the model answered, for prompts of every       *)
(* length: all that is UTF-8, with U+FFFD for each byte that is not.  It   *)
(* refuses the report only for a control character that escapeJSONString   *)
(* does not know.                                                          *)
THEOREM ReportStaysKept == FrameSpec => []ReportKeepsOutput
<1>1. FrameInit => ReportInv
  BY DEF FrameInit, ReportInv, ReportKeepsOutput
<1>2. FrameInv /\ ReportInv /\ [FrameNext]_frameVars => ReportInv'
  <2> SUFFICES ASSUME FrameInv, ReportInv, [FrameNext]_frameVars PROVE ReportInv'
    OBVIOUS
  <2>1. ASSUME state' # "reported", message' = message, state # "reported" PROVE ReportInv'
    BY <2>1, Zenon DEF ReportInv, ReportKeepsOutput
  <2>2. ASSUME NEW n \in 1 .. Len(left), Receive(n) PROVE ReportInv'
    BY <2>1, <2>2, Zenon DEF Receive
  <2>3. CASE StreamEnds \/ StreamFails
    BY <2>1, <2>3 DEF StreamEnds, StreamFails
  <2>4. CASE Report
    BY <2>4, ReportKeeps, Zenon
  <2>5. CASE UNCHANGED frameVars
    BY <2>5 DEF frameVars, ReportInv, ReportKeepsOutput
  <2> QED BY <2>2, <2>3, <2>4, <2>5 DEF FrameNext
<1>3. ReportInv => ReportKeepsOutput
  BY Zenon DEF ReportInv
<1>4. FrameSpec => []FrameInv
  BY FrameInvInit, FrameInvNext, PTL DEF FrameSpec
<1> QED BY <1>1, <1>2, <1>3, <1>4, PTL DEF FrameSpec
=============================================================================
