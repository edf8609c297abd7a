SPECIFICATION Spec
CONSTANTS
  Tasks = {t1, t2}
  NoTask = NoTask
  Consumers = {c1, c2}
  MaxBacklog = 1
CHECK_DEADLOCK FALSE
SYMMETRY MCSymmetry
INVARIANTS
  HeldOnce
  ActiveExact
  StoppedIsQuiet
PROPERTIES
  FarewellIsLast
  KeepsContract
