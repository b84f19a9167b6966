SPECIFICATION Spec
CONSTANTS
  Run = {i1, i2, i3}
  None = None
  MaxInfers = 2
  MaxName = 3
  ClockSteps = FALSE
SYMMETRY Symmetry
CONSTRAINT Bounded
INVARIANTS
  DeviceRecorded
  NothingLost
  PassIsEarned
  NoEscalation
  Reviewed
CHECK_DEADLOCK FALSE
