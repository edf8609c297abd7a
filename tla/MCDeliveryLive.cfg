SPECIFICATION LiveSpec
CONSTANTS
  Worker = w1
  NoWorker = NoWorker
  MaxTasks = 2
  MaxCopies = 1
  MaxReports = 1
  MaxCrashes = 1
  MaxEpoch = 1
PROPERTY
  EveryPlacedTaskSettles
