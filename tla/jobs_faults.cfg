SPECIFICATION Spec
CONSTANTS
  Ref = {r1, r2}
  Configured = {r2}
  Key = {k1}
  Admin = {t1, t2}
  Evidence = {"timeout", "memlock"}
  FailStage = {"COMPILE_FAILED"}
  None = None
  Inhibitions <- BothClasses
  Prunable = {k1}
  MaxJobs = 3
  MaxRestarts = 1
SYMMETRY Symmetry
INVARIANTS
  CommittedOnDisk
PROPERTIES
  KeepsHistory
  NoResumeUnderInhibition
  TerminalIsHistory
CHECK_DEADLOCK FALSE
