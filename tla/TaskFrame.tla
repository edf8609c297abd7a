----------------------------- MODULE TaskFrame ------------------------------
(***************************************************************************)
(* The text of one task on its way to a worker and back: the line          *)
(* AssignmentDeliverer.deliver writes (scheduler/internal/monitor/         *)
(* deliverer.go), the loop and the parser of TcpTransport::handleClient    *)
(* (worker/src/transport_tcp.cpp), and the JSON string in which            *)
(* SchedulerClient::reportResult returns the output, which FakeModel makes *)
(* by putting a fixed text before the prompt.                              *)
(*                                                                         *)
(* The stream arrives in pieces of any size and may end anywhere: deliver  *)
(* writes under a deadline and closes the connection whether or not the    *)
(* whole line went out.  Bytes are those the code looks for, 'n', which    *)
(* stands for all other ASCII text, 'r' and 't', which only the escapes    *)
(* use, one for the control characters that are not escaped, and two of    *)
(* which every other character is made in UTF-8.  Payloads need not be     *)
(* UTF-8: TaskInput.inline_bytes holds any bytes, and a stream may end     *)
(* inside a character.                                                     *)
(***************************************************************************)
EXTENDS Naturals, Sequences, FiniteSetsExt

CONSTANTS
  IDs,           \* task IDs: no separator, newline or return in task-%06d
  MaxPayload     \* bound on the payload's length

Newline == "newline"
Return == "return"
Separator == "|"
Control == "control"

Lead == "lead"                  \* first byte of a character beyond ASCII
Continuation == "continuation"  \* the rest of that character

Bytes == {Separator, Newline, Return, Control, "tab", "quote", "backslash", "n",
          Lead, Continuation}

Replacement == "U+FFFD"         \* what encoding/json puts for an invalid byte

ASSUME FrameAssumption ==
  /\ IDs \subseteq Seq({"n"}) \ {<<>>}
  /\ MaxPayload \in Nat

NoTask == [id |-> <<>>, prompt |-> <<>>]   \* the handler is not called

VARIABLES
  id, payload,   \* the assignment
  left,          \* what the receiver has not got of the line
  buffer,        \* handleClient's local payload
  broken,        \* the stream ended before the line did
  state,         \* "receiving", "done" or "reported"
  task,          \* what the handler was called with
  answer,        \* the status reportResult got
  message        \* what the scheduler took from an accepted report

frameVars == <<id, payload, left, buffer, broken, state, task, answer, message>>

(* item.TaskID + "|" + item.Payload + "\n" *)
Line(i, p) == i \o <<Separator>> \o p \o <<Newline>>

FrameInit ==
  /\ id \in IDs
  /\ payload \in UNION {[1 .. n -> Bytes] : n \in 0 .. MaxPayload}
  /\ left = Line(id, payload)
  /\ buffer = <<>>
  /\ broken = FALSE
  /\ state = "receiving"
  /\ task = NoTask
  /\ answer = 0
  /\ message = <<>>

(* The index of the first byte b, 0 when there is none. *)
Find(s, b) ==
  LET at == {i \in 1 .. Len(s) : s[i] = b} IN IF at = {} THEN 0 ELSE Min(at)

(* Mutated form: the text is split at its last separator. *)
SeparatorAtLast(text) == Max({0} \cup {i \in 1 .. Len(text) : text[i] = Separator})

SeparatorAt(text) == Find(text, Separator)

(* handleClient after its loop: an optional '\r' is dropped and the text   *)
(* split at the first separator; without one, or with nothing before it,   *)
(* the handler is not called.                                              *)
Parse(line) ==
  LET len  == Len(line)
      text == IF line # <<>> /\ line[len] = Return THEN SubSeq(line, 1, len - 1) ELSE line
      sep  == SeparatorAt(text)
  IN  IF sep <= 1 THEN NoTask
      ELSE [id |-> SubSeq(text, 1, sep - 1),
            prompt |-> SubSeq(text, sep + 1, Len(text))]

(* recv returns the next n bytes; a newline among them ends the loop. *)
Receive(n) ==
  LET got == buffer \o SubSeq(left, 1, n)
      nl  == Find(got, Newline)
  IN  /\ state = "receiving"
      /\ n \in 1 .. Len(left)
      /\ left' = SubSeq(left, n + 1, Len(left))
      /\ buffer' = IF nl = 0 THEN got ELSE SubSeq(got, 1, nl - 1)
      /\ state' = IF nl = 0 THEN "receiving" ELSE "done"
      /\ task' = IF nl = 0 THEN task ELSE Parse(buffer')
      /\ UNCHANGED <<id, payload, broken, answer, message>>

(* recv returns 0: what has come is parsed like a whole line. *)
StreamEnds ==
  /\ state = "receiving"
  /\ broken' = TRUE
  /\ state' = "done"
  /\ task' = Parse(buffer)
  /\ UNCHANGED <<id, payload, left, buffer, answer, message>>

(* recv fails: the handler is not called. *)
StreamFails ==
  /\ state = "receiving"
  /\ broken' = TRUE
  /\ state' = "done"
  /\ UNCHANGED <<id, payload, left, buffer, task, answer, message>>

-----------------------------------------------------------------------------
(***************************************************************************)
(* The report                                                              *)
(***************************************************************************)

(* FakeModel::infer: a fixed text and the prompt. *)
Infer(prompt) == <<"n">> \o prompt

(* The characters that are escaped, and what stands after the backslash. *)
Escapes ==
  [c \in {"backslash", "quote", Newline, Return, "tab"} |->
     CASE c = Newline -> "n" [] c = Return -> "r" [] c = "tab" -> "t" [] OTHER -> c]

(* Mutated form: a backslash is written as it is. *)
EscapeButBackslash(c) ==
  IF c \in DOMAIN Escapes \ {"backslash"} THEN <<"backslash", Escapes[c]>> ELSE <<c>>

EscapeByte(c) ==
  IF c \in DOMAIN Escapes THEN <<"backslash", Escapes[c]>> ELSE <<c>>

escapeJSONString(s) ==
  LET after[n \in 0 .. Len(s)] ==
        IF n = 0 THEN <<>> ELSE after[n - 1] \o EscapeByte(s[n])
  IN  after[Len(s)]

(* encoding/json reading the next byte of a string: what it has so far,    *)
(* whether a backslash came last, whether the closing quote has come, and  *)
(* whether it still accepts the string.                                    *)
ReadByte(acc, c) ==
  IF acc.end THEN [acc EXCEPT !.ok = FALSE]
  ELSE IF acc.esc
       THEN IF \E b \in DOMAIN Escapes : Escapes[b] = c
            THEN [acc EXCEPT !.esc = FALSE,
                             !.out = Append(@, CHOOSE b \in DOMAIN Escapes : Escapes[b] = c)]
            ELSE [acc EXCEPT !.ok = FALSE]
       ELSE CASE c = "backslash" -> [acc EXCEPT !.esc = TRUE]
              [] c = "quote" -> [acc EXCEPT !.end = TRUE]
              [] c \in {Newline, Return, "tab", Control} -> [acc EXCEPT !.ok = FALSE]
              [] OTHER -> [acc EXCEPT !.out = Append(@, c)]

(* Byte n of the text is ASCII or part of a whole character. *)
InCharacter(s, n) ==
  CASE s[n] = Lead -> n < Len(s) /\ s[n + 1] = Continuation
    [] s[n] = Continuation -> n > 1 /\ s[n - 1] = Lead
    [] OTHER -> TRUE

(* encoding/json replaces each byte that belongs to no character. *)
ToUTF8(s) ==
  [n \in 1 .. Len(s) |-> IF InCharacter(s, n) THEN s[n] ELSE Replacement]

(* The string up to its closing quote, which must be the end of the text.  *)
(* Escapes stand for ASCII, so it makes no difference whether characters   *)
(* are put together before or after they are resolved.                     *)
Unescape(s) ==
  LET after[n \in 0 .. Len(s)] ==
        IF n = 0 THEN [out |-> <<>>, esc |-> FALSE, end |-> FALSE, ok |-> TRUE]
                 ELSE ReadByte(after[n - 1], s[n])
      r == after[Len(s)]
  IN  [ok |-> r.ok /\ r.end, out |-> ToUTF8(r.out)]

(* reportResult, and the scheduler's answer to its body. *)
Report ==
  /\ state = "done" /\ task # NoTask
  /\ LET r == Unescape(escapeJSONString(Infer(task.prompt)) \o <<"quote">>)
     IN  /\ answer' = IF r.ok THEN 200 ELSE 400
         /\ message' = IF r.ok THEN r.out ELSE message
  /\ state' = "reported"
  /\ UNCHANGED <<id, payload, left, buffer, broken, task>>

FrameNext ==
  (\E n \in 1 .. Len(left) : Receive(n)) \/ StreamEnds \/ StreamFails \/ Report

FrameSpec == FrameInit /\ [][FrameNext]_frameVars

-----------------------------------------------------------------------------
(***************************************************************************)
(* Properties                                                              *)
(***************************************************************************)

(* s is a beginning of t. *)
Begins(s, t) == Len(s) <= Len(t) /\ s = SubSeq(t, 1, Len(s))

(* Whatever pieces the stream comes in and wherever it ends, the handler   *)
(* gets the ID that was sent, and as prompt a beginning of the payload:    *)
(* never another task's ID, never bytes that were not sent.  If the line   *)
(* arrives, a payload on one line that does not end in a '\r' arrives as   *)
(* it was sent; separators inside it do no harm.                           *)
ArrivesAsSent ==
  LET oneLine == /\ Find(payload, Newline) = 0
                 /\ payload # <<>> => payload[Len(payload)] # Return
  IN  /\ task # NoTask => task.id = id /\ Begins(task.prompt, payload)
      /\ oneLine /\ state \in {"done", "reported"} /\ ~broken =>
           task = [id |-> id, prompt |-> payload]

(* The scheduler keeps what the model answered, quotes, tabs and line ends *)
(* included, except that a byte which belongs to no character, such as one *)
(* of a character the stream was cut in, becomes U+FFFD: text that is      *)
(* valid UTF-8 is kept exactly.  It refuses the report only for a control  *)
(* character that escapeJSONString does not know: then the task stays      *)
(* assigned.                                                               *)
ReportKeepsOutput ==
  LET output == Infer(task.prompt)
  IN  state = "reported" =>
        IF Find(task.prompt, Control) = 0
        THEN /\ answer = 200 /\ Len(message) = Len(output)
             /\ \A n \in 1 .. Len(output) :
                  message[n] = IF InCharacter(output, n) THEN output[n] ELSE Replacement
        ELSE answer = 400 /\ message = <<>>
=============================================================================
