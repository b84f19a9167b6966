SPECIFICATION Spec
CONSTANTS
  Identity = {i1, i2}
  Key = {k1, k2}
  None = None
  QUEUE_MAX = 2
  AdminActivates = TRUE
  Faults = {}
  MaxFrames = 2
  MaxSwitches = 2
SYMMETRY Symmetry
INVARIANTS
  NoCrossModel
CHECK_DEADLOCK FALSE
