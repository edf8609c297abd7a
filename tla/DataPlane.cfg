SPECIFICATION LiveSpec
CONSTANTS
  Nodes = {c1, c2, srv, s1, w1, r1}
  Submitters = {c1, s1, r1}
  None = none
  Clients = {c1, c2}
  Unnamed = {c2}
  Server = srv
  Controllers = {s1}
  Workers = {w1}
  Targets = {srv, w1, none}
  Runtimes = {r1}
  TensorTargets = {none}
  MailboxCapacity = 2
  Depth = 1
  Buffers = 1
  Pollers = {s1, r1}
  MaxRequests = 2
  MaxTotal = 3
INVARIANTS
  InOnePlace
  ResultsInOrder
  PayloadsStayRegistered
  MetricsAddUp
PROPERTIES
  AnsweredOrDropped
