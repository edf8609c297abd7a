------------------------------ MODULE MCUnits -------------------------------
(***************************************************************************)
(* The parts that share no state with the rest: the scan for a node, the   *)
(* three text formats and the buffer pool, each over all its bounded       *)
(* inputs.  The others rest while one is looked at.                        *)
(*                                                                         *)
(* IDs have one or two bytes, so that the end of an ID can be lost.        *)
(***************************************************************************)
EXTENDS MCSelectNode, TaskFrame, MessageCodec, ConfigFile, BufferPool

CONSTANTS Select, Frame, Codec, Config, Pool

VARIABLE looked     \* at which one

vars == <<looked, scanVars, frameVars, codecVars, configVars, poolVars>>

MCIDs == {<<"n">>, <<"n", "n">>}

MCValues == {<<>>, <<"letter">>, <<"meta:", "=", "kind">>, <<"newline", "kind", "=", "letter">>}

MCMetaKeys == {<<>>, <<"kind">>, <<"letter", "=">>}

MCNumbers == [t \in {"0", "5", "70000"} |-> CASE t = "0" -> 0 [] t = "5" -> 5 [] OTHER -> 70000]

ScanRests == order = <<>> /\ start = 0 /\ offset = 0 /\ bestIndex = -1

FrameRests ==
  /\ id = <<>> /\ payload = <<>> /\ left = <<>> /\ buffer = <<>> /\ broken = FALSE
  /\ state = "none" /\ task = NoTask /\ answer = 0 /\ message = <<>>

CodecRests ==
  /\ topic = "none" /\ original = NoMessage /\ text = <<>>
  /\ read = "nothing" /\ decoded = NoMessage

Init ==
  /\ looked \in {Select, Frame, Codec, Config, Pool}
  /\ IF looked = Select THEN ScanInit ELSE ScanRests
  /\ IF looked = Frame THEN FrameInit ELSE FrameRests
  /\ IF looked = Codec THEN CodecInit ELSE CodecRests
  /\ ConfigInit /\ PoolInit

Next ==
  /\ \/ /\ looked = Select /\ ScanNext
        /\ UNCHANGED <<frameVars, codecVars, configVars, poolVars>>
     \/ /\ looked = Frame /\ FrameNext
        /\ UNCHANGED <<scanVars, codecVars, configVars, poolVars>>
     \/ /\ looked = Codec /\ CodecNext
        /\ UNCHANGED <<scanVars, frameVars, configVars, poolVars>>
     \/ /\ looked = Config /\ ConfigNext
        /\ UNCHANGED <<scanVars, frameVars, codecVars, poolVars>>
     \/ /\ looked = Pool /\ PoolNext
        /\ UNCHANGED <<scanVars, frameVars, codecVars, configVars>>
  /\ UNCHANGED looked

Spec == Init /\ [][Next]_vars
=============================================================================
