SPECIFICATION Spec
CONSTANTS
  Ref = {r1, r2}
  Configured = {}
  Key = {k1, k2}
  Admin = {t1, t2}
  Evidence = {"timeout", "probe"}
  FailStage = {"COMPILE_FAILED"}
  None = None
  Inhibitions = {}
  Prunable = {}
  MaxJobs = 4
  MaxRestarts = 1
SYMMETRY Symmetry
INVARIANTS
  OneCompilePerKey
  NoneForgotten
  ResumeChain
  AttemptBudget
  AliasesFollow
CHECK_DEADLOCK FALSE
