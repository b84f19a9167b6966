SPECIFICATION Spec
CONSTANTS
  Key = {k1, k2}
  None = None
  Timeouts = {"zero"}
  MayHang = TRUE
  MayFail = FALSE
  MaxChildren = 2
  MaxFrames = 2
  MaxDeaths = 1
SYMMETRY Symmetry
\* Claims of the documents that the code does not keep, one at a time.
PROPERTY HealthyKept
\* PROPERTY GenerationChanges
\* PROPERTY FaultBlocksActivation
\* PROPERTY NoLaunchOverStuck
\* PROPERTY SafetyStands
\* PROPERTY CleanExit
CHECK_DEADLOCK FALSE
