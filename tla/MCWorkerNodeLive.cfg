SPECIFICATION LiveSpec
CONSTANTS
  Tasks = {t1, t2}
  NoTask = NoTask
  Consumers = {c1}
  MaxBacklog = 1
CHECK_DEADLOCK FALSE
PROPERTIES
  StopTerminates
  SleeperReturns
  QueuedTaskRuns
