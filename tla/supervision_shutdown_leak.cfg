SPECIFICATION Spec
CONSTANTS
  Radios = {"t"}
  Kind <- TasticKind
  QueueMax = 3
  SeedMax = 1
  PostedMax = 1
  DelayMin = 1
  DelayMax = 1
  AttemptsCap = 1
INVARIANTS CleanClose
CHECK_DEADLOCK FALSE
