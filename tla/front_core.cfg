SPECIFICATION Spec
CONSTANTS
  Identity = {i1, i2, i3}
  Key = {k1, k2}
  None = None
  QUEUE_MAX = 2
  AdminActivates = FALSE
  Faults = {"ingest"}
  MaxFrames = 2
  MaxSwitches = 2
SYMMETRY Symmetry
INVARIANTS
  TypeOK
  OneReply
  BindingsMatch
  RightModel
PROPERTIES
  SwitchWhenQuiescent
CHECK_DEADLOCK FALSE
