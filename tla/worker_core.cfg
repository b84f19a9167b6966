SPECIFICATION Spec
CONSTANTS
  Key = {k1, k2}
  None = None
  Timeouts = {}
  MayHang = TRUE
  MayFail = TRUE
  MaxChildren = 3
  MaxFrames = 2
  MaxDeaths = 0
SYMMETRY Symmetry
INVARIANTS
  NoLostChild
  PublishedIdentity
  NoServiceGap
PROPERTIES
  ServesAsPromised
CHECK_DEADLOCK FALSE
