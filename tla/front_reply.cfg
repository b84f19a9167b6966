SPECIFICATION FairSpec
CONSTANTS
  Identity = {i1, i2}
  Key = {k1, k2}
  None = None
  QUEUE_MAX = 2
  AdminActivates = FALSE
  Faults = {"ingest"}
  MaxFrames = 2
  MaxSwitches = 2
PROPERTIES
  AnsweredDespiteFaults
CHECK_DEADLOCK FALSE
