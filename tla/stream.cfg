SPECIFICATION FairSpec
CONSTANTS
  Clients = {c}
  Nodes = {x, y}
  QueueMax = 2
  SubscriberMax = 2
  NodeLimit = 1
  SnapshotMax = 1
  ListMax = 2
  PointsMax = 1
  EventCap = 3
  VisitCap = 2
INVARIANTS TypeOK Current NothingMissed
PROPERTY CatchesUp
CHECK_DEADLOCK FALSE
