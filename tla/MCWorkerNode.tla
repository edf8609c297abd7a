---------------------------- MODULE MCWorkerNode ----------------------------
(***************************************************************************)
(* WorkerNode for TLC.                                                     *)
(***************************************************************************)
EXTENDS WorkerNode, TLC

(* Task IDs and pool threads are never ordered. *)
MCSymmetry == Permutations(Tasks) \cup Permutations(Consumers)
=============================================================================
