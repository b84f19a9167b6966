SPECIFICATION Spec
CONSTANTS
  Ref = {r1, r2}
  Configured = {}
  Key = {k1}
  Admin = {t1, t2, t3}
  Evidence = {"timeout"}
  FailStage = {"COMPILE_FAILED"}
  None = None
  Inhibitions = {}
  Prunable = {}
  MaxJobs = 4
  MaxRestarts = 0
SYMMETRY Symmetry
\* Claims of the documents that the code does not keep, one at a time.
PROPERTY NoDuplicateJob
\* INVARIANT PreparedIsDurable
\* PROPERTY ConsumedForGood
\* PROPERTY NoCompileOnHit
\* INVARIANT NoneLeftQueued
CHECK_DEADLOCK FALSE
