SPECIFICATION Spec
CONSTANTS
  MaxInt = 1000
  Workers = {w1, w2}
  NoWorker = NoWorker
  Handlers = {h1}
  Checker = Checker
  Free = Free
  Capacities <- MCCapacities
  Reports <- MCReports
  OfflineAfter = 0
  MaxTasks = 3
  MaxTime = 0
SYMMETRY MCSymmetry
INVARIANTS
  TypeOK
  RegistryConsistent
  AssignmentConsistent
PROPERTIES
  KeepsLifecycle
  SlotsFollowTasks
