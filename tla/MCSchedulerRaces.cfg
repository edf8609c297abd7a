SPECIFICATION LiveSpec
CONSTANTS
  MaxInt = 1000
  Workers = {w1}
  NoWorker = NoWorker
  Handlers = {h1, h2}
  Checker = Checker
  Free = Free
  Capacities <- MCCapacities
  Reports <- MCReports
  OfflineAfter = 0
  MaxTasks = 2
  MaxTime = 1
INVARIANTS
  NoLostDispatch
PROPERTIES
  PlacedOnLiveNode
  StableRoomDrains
