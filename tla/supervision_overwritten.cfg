SPECIFICATION Spec
CONSTANTS
  Radios = {"c"}
  Kind <- CoreKind
  QueueMax = 3
  SeedMax = 1
  PostedMax = 1
  DelayMin = 1
  DelayMax = 1
  AttemptsCap = 1
INVARIANTS HandledLossReopens
CHECK_DEADLOCK FALSE
