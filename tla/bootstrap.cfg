SPECIFICATION FairSpec
CONSTANTS
  ReqsCap = 2
  PyCap = 2
  StopCap = 2
  None = None
INVARIANTS TypeOK StampSound LaunchSound
PROPERTIES ConfigKept RecreateRepairs
