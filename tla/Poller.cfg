SPECIFICATION PollerLiveSpec
CONSTANTS
  Pushers = {p1, p2}
  Depth = 2
  MaxEvents = 3
  MailboxCapacity = 2
  MaxMessages = 3
CHECK_DEADLOCK FALSE
INVARIANTS
  QueueIsNewest
  HandledInOrder
  QuietAfterStop
PROPERTIES
  EventPolledOrDropped
  StopReturns
  MessageHandled
