----------------------------- MODULE SelectNode -----------------------------
(***************************************************************************)
(* The scan loop of selectNodeLocked (scheduler/internal/scheduler/        *)
(* dispatch.go), one step per iteration.  The caller holds the store's     *)
(* write lock for the whole loop, so the nodes do not change under it.     *)
(*                                                                         *)
(* The loop keeps only the best node so far and replaces it when a later   *)
(* one is strictly better.  What it returns is a minimum only because      *)
(* Compare is transitive, and it is the first of several minima in         *)
(* rotation order only because the test is strict.                         *)
(***************************************************************************)
EXTENDS Strategy

CONSTANTS
  Loads,         \* the node records that may be registered
  MaxNodes       \* bound on len(state.NodeOrder)

(* Capacity is at least 1 once Register has run, counters are never        *)
(* negative, and no product of a count and a capacity leaves int64.        *)
ASSUME LoadsAssumption ==
  /\ Loads \subseteq [capacity : Nat \ {0}, runningTasks : Nat,
                      status : NodeStates]
  /\ \A m, n \in Loads : m.runningTasks * n.capacity <= MaxInt

ASSUME MaxNodesAssumption == MaxNodes \in Nat

VARIABLES
  order,         \* the nodes in NodeOrder order; order[i + 1] is at index i
  start,         \* where the scan starts
  offset,        \* the loop counter
  bestIndex      \* best index so far, -1 for none

scanVars == <<order, start, offset, bestIndex>>

at(i) == order[i + 1]

ScanInit ==
  /\ order \in UNION {[1 .. n -> Loads] : n \in 1 .. MaxNodes}
  /\ start \in 0 .. (Len(order) - 1)
  /\ offset = 0
  /\ bestIndex = -1

(* The index the loop looks at next: (start + offset) % len(NodeOrder). *)
ScanIndex == (start + offset) % Len(order)

(* Mutated form: the later of two equivalent nodes wins. *)
ReplacesLateTies(i) ==
  /\ Selectable(at(i))
  /\ bestIndex = -1 \/ Compare(at(i), at(bestIndex)) <= 0

(* The node at index i becomes the best so far. *)
Replaces(i) ==
  /\ Selectable(at(i))
  /\ bestIndex = -1 \/ Compare(at(i), at(bestIndex)) < 0

Scan ==
  /\ offset < Len(order)
  /\ bestIndex' = IF Replaces(ScanIndex) THEN ScanIndex ELSE bestIndex
  /\ offset' = offset + 1
  /\ UNCHANGED <<order, start>>

ScanNext == Scan

ScanSpec == ScanInit /\ [][ScanNext]_scanVars

-----------------------------------------------------------------------------
(***************************************************************************)
(* Properties                                                              *)
(***************************************************************************)

Indices == 0 .. (Len(order) - 1)

(* The selectable indices the loop has already looked at. *)
Seen == {i \in Indices : ScanOffset(i, start, Len(order)) < offset
                         /\ Selectable(at(i))}

(* The loop's variables keep their ranges: the scan never indexes outside  *)
(* NodeOrder.                                                              *)
ScanTypeOK ==
  /\ order \in Seq(Loads)
  /\ Len(order) > 0
  /\ start \in Indices
  /\ offset \in 0 .. Len(order)
  /\ bestIndex \in Indices \cup {-1}

(* The loop invariant of selectNodeLocked: bestIndex is the best of the    *)
(* nodes seen so far, the earliest in rotation order among equivalent      *)
(* ones, and -1 only when none of them can take a task.                    *)
ScanInv ==
  IF Seen = {} THEN bestIndex = -1
               ELSE IsBest(at, bestIndex, Seen, start, Len(order))

(* What selectNodeLocked returns after the loop: -1 when every node is     *)
(* offline or full, otherwise the least loaded node, ties broken by the    *)
(* rotation that starts at NextNodeIndex.                                  *)
SelectsBest ==
  LET candidates == {i \in Indices : Selectable(at(i))}
  IN  offset = Len(order) =>
        IF candidates = {}
        THEN bestIndex = -1
        ELSE IsBest(at, bestIndex, candidates, start, Len(order))

(* The chosen node has the lowest load ratio of all that could take the    *)
(* task, said without Compare: its chain of tie-breaks and its products    *)
(* never let a fuller node win.  This is the rule in the comment on        *)
(* LeastLoadedStrategy; docs/architecture.md has another one, see          *)
(* SelectsFewestRunning.                                                   *)
SelectsLowestRatio ==
  (offset = Len(order) /\ bestIndex # -1) =>
    \A i \in Indices :
      Selectable(at(i)) =>
        at(bestIndex).runningTasks * at(i).capacity
          <= at(i).runningTasks * at(bestIndex).capacity

(* What docs/architecture.md:17 says of the choice: no node that could     *)
(* take the task has fewer running tasks than the chosen one.  Compare     *)
(* ranks by load ratio and then by free capacity, so that a larger node    *)
(* with more running tasks may be preferred: this does not hold.           *)
SelectsFewestRunning ==
  (offset = Len(order) /\ bestIndex # -1) =>
    \A i \in Indices :
      Selectable(at(i)) => at(bestIndex).runningTasks <= at(i).runningTasks
=============================================================================
