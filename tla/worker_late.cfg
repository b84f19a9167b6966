SPECIFICATION Spec
CONSTANTS
  Key = {k1, k2}
  None = None
  Timeouts = {"recv"}
  MayHang = FALSE
  MayFail = FALSE
  MaxChildren = 2
  MaxFrames = 2
  MaxDeaths = 0
SYMMETRY Symmetry
INVARIANTS
  OwnAnswer
CHECK_DEADLOCK FALSE
