SPECIFICATION Spec
CONSTANTS
  Clients = {c}
  Nodes = {x}
  QueueMax = 2
  SubscriberMax = 2
  NodeLimit = 1
  SnapshotMax = 1
  ListMax = 2
  PointsMax = 2
  EventCap = 2
  VisitCap = 1
INVARIANT ListOnce
CHECK_DEADLOCK FALSE
