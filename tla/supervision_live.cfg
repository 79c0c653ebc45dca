SPECIFICATION FairSpec
CONSTANTS
  Radios = {"c", "d"}
  Kind <- LiveKind
  QueueMax = 2
  SeedMax = 1
  PostedMax = 1
  DelayMin = 1
  DelayMax = 3
  AttemptsCap = 4
INVARIANTS BackoffFollowsAttempts OnlyCancelledLeak
PROPERTIES Reopens Retries ShutdownEnds
CHECK_DEADLOCK FALSE
