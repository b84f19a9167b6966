SPECIFICATION FairSpec
CONSTANTS
  Key = {k1, k2}
  None = None
  Timeouts = {"recv", "mid", "zero", "send"}
  MayHang = TRUE
  MayFail = TRUE
  MaxChildren = 2
  MaxFrames = 2
  MaxDeaths = 1
PROPERTIES
  ServesAsPromised
  LockReleased
CHECK_DEADLOCK FALSE
