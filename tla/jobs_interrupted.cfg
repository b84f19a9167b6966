SPECIFICATION Spec
CONSTANTS
  Ref = {r1}
  Configured = {}
  Key = {k1}
  Admin = {t1}
  Evidence = {"timeout"}
  FailStage = {"COMPILE_FAILED"}
  None = None
  Inhibitions = {}
  Prunable = {}
  MaxJobs = 3
  MaxRestarts = 2
INVARIANTS
  InterruptedRecorded
CHECK_DEADLOCK FALSE
