---------------------------- MODULE MessageCodec ----------------------------
(***************************************************************************)
(* The text TaskMessage and ResultMessage of rdma/ are sent as: a line     *)
(* "key=value" for each field and a line "meta:key=value" for each entry   *)
(* of the metadata, and nothing escaped.  A reader takes a message for     *)
(* what it was asked to read, whatever it is.                              *)
(*                                                                         *)
(* Text is a sequence of tokens: the characters the code looks for, the    *)
(* words it compares with, and one that stands for all other text.         *)
(***************************************************************************)
EXTENDS Naturals, Sequences, FiniteSetsExt

CONSTANTS
  Values,        \* values of fields and of metadata
  MetaKeys,      \* keys of metadata
  MaxMetadata    \* bound on the entries of metadata

TaskKeys == <<"task_id", "kind", "source_node", "target_node", "description">>

ResultKeys == <<"task_id", "worker_node", "target_node", "success", "detail">>

Tokens ==
  Range(TaskKeys) \cup Range(ResultKeys)
    \cup {"newline", "=", "meta:", "1", "0", "letter"}

ASSUME CodecAssumption ==
  Values \cup MetaKeys \subseteq Seq(Tokens) /\ MaxMetadata \in Nat

(* Lists of keys in which none is twice. *)
KeyLists ==
  {s \in UNION {[1 .. n -> MetaKeys] : n \in 0 .. MaxMetadata} : IsInjective(s)}

Metadata == UNION {[Range(s) -> Values] : s \in KeyLists}

(* A message of each type: its fields as text, and its metadata. *)
TaskMessages == [fields : [Range(TaskKeys) -> Values], metadata : Metadata]

(* success is written as "1" or "0". *)
ResultMessages ==
  [fields : {f \in [Range(ResultKeys) -> Values \cup {<<"1">>, <<"0">>}] :
               \A k \in DOMAIN f :
                 f[k] \in IF k = "success" THEN {<<"1">>, <<"0">>} ELSE Values},
   metadata : Metadata]

-----------------------------------------------------------------------------
(***************************************************************************)
(* Writing                                                                 *)
(***************************************************************************)

FieldLine(m, k) == <<k, "=">> \o m.fields[k]

MetaLine(m, k) == <<"meta:">> \o k \o <<"=">> \o m.metadata[k]

MessageLines(keys, m, order) ==
  [i \in DOMAIN keys |-> FieldLine(m, keys[i])]
    \o [i \in DOMAIN order |-> MetaLine(m, order[i])]

(* stream << line << "\n", for each of them. *)
Written(lines) ==
  LET after[n \in 0 .. Len(lines)] ==
        IF n = 0 THEN <<>> ELSE after[n - 1] \o Append(lines[n], "newline")
  IN  after[Len(lines)]

SerializeTask(m, order) == Written(MessageLines(TaskKeys, m, order))

SerializeResult(m, order) == Written(MessageLines(ResultKeys, m, order))

-----------------------------------------------------------------------------
(***************************************************************************)
(* Reading                                                                 *)
(***************************************************************************)

(* Mutated form: the line is split at its last '='. *)
SplitAtLast(s) == Max({0} \cup {i \in 1 .. Len(s) : s[i] = "="})

(* find('='), 0 when there is none. *)
SplitAt(s) ==
  LET at == {i \in 1 .. Len(s) : s[i] = "="} IN IF at = {} THEN 0 ELSE Min(at)

Key(s) == SubSeq(s, 1, SplitAt(s) - 1)

Value(s) == SubSeq(s, SplitAt(s) + 1, Len(s))

(* A line without '=' is skipped, a field that is not known as well. *)
ReadField(keys, m, line) ==
  IF SplitAt(line) > 0 /\ \E k \in Range(keys) : Key(line) = <<k>>
  THEN [m EXCEPT !.fields[Head(Key(line))] = Value(line)]
  ELSE m

ReadMeta(m, pair) ==
  IF SplitAt(pair) > 0
  THEN [m EXCEPT !.metadata = [k \in DOMAIN @ \cup {Key(pair)} |->
                                 IF k = Key(pair) THEN Value(pair) ELSE @[k]]]
  ELSE m

ReadLine(keys, m, line) ==
  IF line = <<>> THEN m
  ELSE IF Head(line) = "meta:" THEN ReadMeta(m, Tail(line))
       ELSE ReadField(keys, m, line)

(* The next token of the stream: getline returns when it is a newline. *)
ReadToken(keys, acc, c) ==
  IF c = "newline"
  THEN [line |-> <<>>, message |-> ReadLine(keys, acc.message, acc.line)]
  ELSE [acc EXCEPT !.line = Append(@, c)]

Blank(keys) == [fields |-> [k \in Range(keys) |-> <<>>], metadata |-> [k \in {} |-> <<>>]]

(* The last line need not end in a newline. *)
Read(keys, s) ==
  LET after[n \in 0 .. Len(s)] ==
        IF n = 0 THEN [line |-> <<>>, message |-> Blank(keys)]
                 ELSE ReadToken(keys, after[n - 1], s[n])
      end == after[Len(s)]
  IN  ReadLine(keys, end.message, end.line)

DeserializeTask(s) == Read(TaskKeys, s)

(* Whatever is not "1" is no success. *)
DeserializeResult(s) ==
  LET m == Read(ResultKeys, s)
  IN  [m EXCEPT !.fields["success"] = IF @ = <<"1">> THEN @ ELSE <<"0">>]

-----------------------------------------------------------------------------
(***************************************************************************)
(* A message is written by one node and read by another                    *)
(***************************************************************************)

NoMessage == [fields |-> <<>>, metadata |-> <<>>]

VARIABLES
  topic,         \* "task" or "result", what was sent
  original,      \* the message
  text,          \* what it was written as
  read,          \* what it was read as, or "nothing" yet
  decoded        \* what the reader got

codecVars == <<topic, original, text, read, decoded>>

CodecInit ==
  /\ \/ topic = "task" /\ original \in TaskMessages
     \/ topic = "result" /\ original \in ResultMessages
  /\ text = <<>> /\ read = "nothing" /\ decoded = NoMessage

(* The metadata is a std::map, whose keys come in their order.  Which one  *)
(* that is makes no difference to the reader, so the model takes any.      *)
Write ==
  /\ text = <<>>
  /\ \E order \in KeyLists :
       /\ Range(order) = DOMAIN original.metadata
       /\ text' = IF topic = "task" THEN SerializeTask(original, order)
                                    ELSE SerializeResult(original, order)
  /\ UNCHANGED <<topic, original, read, decoded>>

(* Whoever polls the inbox decides how the message is read. *)
ReadAs(t) ==
  /\ text # <<>> /\ read = "nothing"
  /\ read' = t
  /\ decoded' = IF t = "task" THEN DeserializeTask(text) ELSE DeserializeResult(text)
  /\ UNCHANGED <<topic, original, text>>

CodecNext == Write \/ ReadAs("task") \/ ReadAs("result")

CodecSpec == CodecInit /\ [][CodecNext]_codecVars

-----------------------------------------------------------------------------
(***************************************************************************)
(* Properties                                                              *)
(***************************************************************************)

(* What Serialize leaves unescaped does not occur. *)
Clean(m) ==
  /\ \A k \in DOMAIN m.fields : "newline" \notin Range(m.fields[k])
  /\ \A k \in DOMAIN m.metadata :
       /\ "newline" \notin Range(k) \cup Range(m.metadata[k])
       /\ "=" \notin Range(k)

(* A message without newlines, and without '=' in a metadata key, is read  *)
(* as it was written: values may hold '=', "meta:" or the names of fields. *)
(* Read as the other type, it yields what the two have in common, task_id, *)
(* target_node and metadata, and nothing else: a result that is polled as  *)
(* a task has no source to answer to, and a task polled as a result is no  *)
(* success.                                                                *)
ReadBack ==
  Clean(original) /\ read # "nothing" =>
    /\ decoded.metadata = original.metadata
    /\ \A k \in DOMAIN decoded.fields :
         decoded.fields[k] =
           IF k \in DOMAIN original.fields THEN original.fields[k]
           ELSE IF k = "success" THEN <<"0">> ELSE <<>>
    /\ read = topic => decoded = original
=============================================================================
