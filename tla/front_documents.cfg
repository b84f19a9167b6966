SPECIFICATION Spec
CONSTANTS
  Identity = {i1, i2}
  Key = {k1, k2}
  None = None
  QUEUE_MAX = 2
  AdminActivates = FALSE
  Faults = {}
  MaxFrames = 2
  MaxSwitches = 2
SYMMETRY Symmetry
\* Claims of the documents that the code does not keep, one at a time.
PROPERTY SupersededStaysOut
\* PROPERTY NotAdvertised
\* PROPERTY SwitchWhenDrained
\* INVARIANT NoSecondClient
CHECK_DEADLOCK FALSE
