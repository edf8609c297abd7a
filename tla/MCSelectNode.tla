---------------------------- MODULE MCSelectNode ----------------------------
(***************************************************************************)
(* SelectNode over every node list of up to MaxNodes nodes whose capacity  *)
(* and count stay below the bounds here: ties of the load ratio between    *)
(* nodes of different size (1/2 and 2/4), full, over-full and offline      *)
(* nodes all occur.                                                        *)
(***************************************************************************)
EXTENDS SelectNode

MCLoads ==
  [capacity : {1, 2, 4}, runningTasks : 0 .. 2, status : {"ready"}]
    \cup {[capacity |-> 2, runningTasks |-> 0, status |-> "offline"],
          [capacity |-> 1, runningTasks |-> 1, status |-> "busy"]}
=============================================================================
