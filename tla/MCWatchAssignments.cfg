SPECIFICATION LiveSpec
CONSTANTS
  Worker = w1
  Other = w2
  NoWorker = NoWorker
  Streams = {s1, s2}
  MaxTasks = 2
INVARIANTS
  OnlyOwnTasks
PROPERTIES
  ResumedStreamMissesNothing
