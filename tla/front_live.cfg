SPECIFICATION FairSpec
CONSTANTS
  Identity = {i1, i2}
  Key = {k1, k2}
  None = None
  QUEUE_MAX = 2
  AdminActivates = TRUE
  Faults = {"record"}
  MaxFrames = 2
  MaxSwitches = 2
PROPERTIES
  EveryRequestAnswered
CHECK_DEADLOCK FALSE
