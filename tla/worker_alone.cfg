SPECIFICATION FairSpec
CONSTANTS
  Key = {k1, k2}
  None = None
  Timeouts = {}
  MayHang = FALSE
  MayFail = FALSE
  MaxChildren = 2
  MaxFrames = 2
  MaxDeaths = 1
PROPERTIES
  LoneChildExits
CHECK_DEADLOCK FALSE
