---------------------------- MODULE MCScheduler ----------------------------
(***************************************************************************)
(* Scheduler for TLC.  A registration asks for 0 (normalised to 1) or 2    *)
(* slots, a heartbeat reports -1 (normalised to 0) or 1 running tasks.     *)
(***************************************************************************)
EXTENDS Scheduler, TLC

MCCapacities == {0, 2}
MCReports == {-1, 1}

(* One slot per worker, whatever it registers: no capacity ever shrinks. *)
MCOneSlot == {0}

(* Neither worker IDs nor goroutines are compared, so both permute. *)
MCSymmetry == Permutations(Workers) \cup Permutations(Handlers)
=============================================================================
