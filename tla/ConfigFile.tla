----------------------------- MODULE ConfigFile -----------------------------
(***************************************************************************)
(* WorkerNode::loadConfig, which start() calls as long as the node does    *)
(* not run.  A file is the sequence of its lines that are not blank or a   *)
(* comment, already trimmed.  A key that is missing keeps the value the    *)
(* node has, the default or one of an earlier file; one that is not known  *)
(* is ignored.                                                             *)
(***************************************************************************)
EXTENDS Naturals, Sequences

CONSTANTS
  Numbers,       \* value text -> int, for the texts std::stoi takes whole
  Texts,         \* the other value texts; EmptyText is the empty one
  MaxLines,      \* bound on the lines of a file
  MaxLoads       \* bound on the calls of start()

StringKeys == {"worker_id", "scheduler_addr"}

IntKeys == {"listen_port", "heartbeat_interval", "threads"}

NoColon == "no_colon"      \* a line that is no entry

EmptyText == ""

FileLines ==
  [key : StringKeys \cup IntKeys \cup {"unknown"}, value : DOMAIN Numbers \cup Texts]
    \cup {[key |-> NoColon, value |-> EmptyText]}

(* The compiled-in values: some text, some positive number. *)
Default == [k \in StringKeys \cup IntKeys |-> IF k \in IntKeys THEN "5" ELSE "text"]

ASSUME ConfigAssumption ==
  /\ DOMAIN Numbers \cap Texts = {} /\ "5" \in DOMAIN Numbers /\ Numbers["5"] > 0
  /\ {MaxLines, MaxLoads} \subseteq Nat

VARIABLES
  config,        \* config_
  accepted,      \* the lines of the files that were accepted, in order
  loads          \* how often loadConfig was called

configVars == <<config, accepted, loads>>

ConfigInit == config = Default /\ accepted = <<>> /\ loads = 0

parseInt(text) == text \in DOMAIN Numbers

(* One line: what is loaded after it, and whether loading goes on. *)
LoadLine(acc, line) ==
  IF ~acc.ok \/ line.key = "unknown" THEN acc
  ELSE IF line.key = NoColon \/ (line.key \in IntKeys /\ ~parseInt(line.value))
       THEN [acc EXCEPT !.ok = FALSE]
       ELSE [acc EXCEPT !.loaded[line.key] = line.value]

Sound(c) ==
  /\ \A k \in StringKeys : c[k] # EmptyText
  /\ \A k \in IntKeys : Numbers[c[k]] > 0

(* Mutated form: what a refused file has set stays. *)
KeepLoaded(r) == r.loaded

(* config_ = std::move(loaded), reached only by a file without an error. *)
Keep(r) == IF r.ok /\ Sound(r.loaded) THEN r.loaded ELSE config

(* The loop over the lines, which starts from what the node has. *)
Loading(file) ==
  LET after[n \in 0 .. Len(file)] ==
        IF n = 0 THEN [loaded |-> config, ok |-> TRUE]
                 ELSE LoadLine(after[n - 1], file[n])
  IN  after[Len(file)]

LoadConfig(file) ==
  LET r == Loading(file)
  IN  /\ loads < MaxLoads
      /\ loads' = loads + 1
      /\ config' = Keep(r)
      /\ accepted' = IF r.ok /\ Sound(r.loaded) THEN accepted \o file ELSE accepted

ConfigNext ==
  \E n \in 0 .. MaxLines : \E file \in [1 .. n -> FileLines] : LoadConfig(file)

ConfigSpec == ConfigInit /\ [][ConfigNext]_configVars

-----------------------------------------------------------------------------

(* The node runs with sound values only, and each of them is the last one  *)
(* given in the files that were accepted, or the default: a file that was  *)
(* refused half way has left no trace, in whatever order files are tried.  *)
ConfigIsLastGiven ==
  /\ \A k \in IntKeys : Numbers[config[k]] > 0
  /\ \A k \in StringKeys : config[k] # EmptyText
  /\ \A k \in DOMAIN config :
       LET at == {i \in DOMAIN accepted : accepted[i].key = k}
       IN  config[k] = IF at = {} THEN Default[k]
                       ELSE accepted[CHOOSE i \in at : \A j \in at : j <= i].value
=============================================================================
