SPECIFICATION Spec
CONSTANTS
  Radios = {"t"}
  Kind <- TasticKind
  QueueMax = 2
  SeedMax = 1
  PostedMax = 1
  DelayMin = 1
  DelayMax = 1
  AttemptsCap = 1
INVARIANTS WokenWhenDown
CHECK_DEADLOCK FALSE
