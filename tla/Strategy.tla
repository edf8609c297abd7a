------------------------------ MODULE Strategy ------------------------------
(***************************************************************************)
(* Node ranking used by the scheduler when it places a task:               *)
(* scheduler/internal/scheduler/strategy.go and the selection rule of      *)
(* scheduler/internal/scheduler/dispatch.go.                               *)
(*                                                                         *)
(* A node is a record with at least the fields capacity, runningTasks and  *)
(* status.  The nil cases of Compare are left out: selectNodeLocked only   *)
(* compares nodes it has found in the store.                               *)
(***************************************************************************)
EXTENDS Integers, Sequences

CONSTANT MaxInt          \* the largest int64; a small number in TLC's models

ASSUME MaxIntAssumption == MaxInt \in Nat

(* The value an int64 holds after a product is stored in it. *)
Int64(x) ==
  IF x \in (-MaxInt - 1) .. MaxInt
  THEN x
  ELSE ((x + MaxInt + 1) % (2 * (MaxInt + 1))) - (MaxInt + 1)

NodeStates == {"ready", "busy", "offline"}

-----------------------------------------------------------------------------
(***************************************************************************)
(* LeastLoadedStrategy                                                     *)
(***************************************************************************)

snapshotNodeLoad(node) ==
  LET running   == IF node.runningTasks < 0 THEN 0 ELSE node.runningTasks
      capacity  == IF node.capacity <= 0 THEN 1 ELSE node.capacity
      available == IF capacity < running THEN 0 ELSE capacity - running
  IN  [runningTasks |-> running, capacity |-> capacity, available |-> available]

compareAscending(left, right) ==
  IF left < right THEN -1 ELSE IF left > right THEN 1 ELSE 0

compareDescending(left, right) == compareAscending(right, left)

compareLoadRatio(left, right) ==
  compareAscending(Int64(left.runningTasks * right.capacity),
                   Int64(right.runningTasks * left.capacity))

(* Negative when left is the better target, 0 when the two are equivalent. *)
Compare(left, right) ==
  LET l == snapshotNodeLoad(left)
      r == snapshotNodeLoad(right)
      ratio == compareLoadRatio(l, r)
      room  == compareDescending(l.available, r.available)
  IN  IF ratio # 0 THEN ratio
      ELSE IF room # 0 THEN room
      ELSE compareAscending(l.runningTasks, r.runningTasks)

-----------------------------------------------------------------------------
(***************************************************************************)
(* The rule selectNodeLocked follows, as a condition on the chosen index.  *)
(* SelectNode.tla models the scan loop itself and shows that it meets it.  *)
(* Indices are 0-based, as in the code; at(i) is the node at index i.      *)
(***************************************************************************)

(* Offline and full nodes are skipped by the scan. *)
Selectable(node) ==
  /\ node.status # "offline"
  /\ ~(node.capacity > 0 /\ node.runningTasks >= node.capacity)

(* How many positions after start the scan of n nodes meets index i. *)
ScanOffset(i, start, n) == IF i >= start THEN i - start ELSE i - start + n

(* Index i beats or ties every index of S, and is met first among its ties. *)
IsBest(at(_), i, S, start, n) ==
  /\ i \in S
  /\ \A j \in S :
       \/ Compare(at(i), at(j)) < 0
       \/ /\ Compare(at(i), at(j)) = 0
          /\ ScanOffset(i, start, n) <= ScanOffset(j, start, n)
=============================================================================
