SPECIFICATION Spec
CONSTANTS
  Radios = {"t", "c"}
  Kind <- MixedKind
  QueueMax = 3
  SeedMax = 1
  PostedMax = 1
  DelayMin = 1
  DelayMax = 1
  AttemptsCap = 1
INVARIANTS TypeOK NoLostWakeup OneDevice ErrorOnShow OnlyCancelledLeak
PROPERTIES FreshSession LeaseKept
CHECK_DEADLOCK FALSE
