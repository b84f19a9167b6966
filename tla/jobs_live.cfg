SPECIFICATION FairSpec
CONSTANTS
  Ref = {r1}
  Configured = {}
  Key = {k1, k2}
  Admin = {t1, t2}
  Evidence = {"timeout"}
  FailStage = {"COMPILE_FAILED"}
  None = None
  Inhibitions = {}
  Prunable = {}
  MaxJobs = 2
  MaxRestarts = 1
PROPERTIES
  JobSettles
  RetryHappens
CHECK_DEADLOCK FALSE
