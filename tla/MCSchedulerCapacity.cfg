SPECIFICATION Spec
CONSTANTS
  MaxInt = 1000
  Workers = {w1}
  NoWorker = NoWorker
  Handlers = {h1, h2}
  Checker = Checker
  Free = Free
  Capacities <- MCOneSlot
  Reports <- MCReports
  OfflineAfter = 0
  MaxTasks = 2
  MaxTime = 1
SYMMETRY MCSymmetry
INVARIANTS
  WithinCapacity
