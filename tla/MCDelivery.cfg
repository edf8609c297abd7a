SPECIFICATION Spec
CONSTANTS
  Worker = w1
  NoWorker = NoWorker
  MaxTasks = 2
  MaxCopies = 2
  MaxReports = 2
  MaxCrashes = 1
  MaxEpoch = 1
INVARIANTS
  OnlyPlacedTravels
  RefusedUntilRestart
PROPERTY
  SettledStaysSettled
