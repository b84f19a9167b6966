SPECIFICATION Spec
CONSTANTS
  Ref = {r1, r2}
  Configured = {r1}
  Digest = {d1, d2}
  Thread = {t1, t2}
  None = None
  MaxOps = 4
SYMMETRY Symmetry
\* Claims of the documents that the code does not keep, one at a time.
PROPERTY ActiveProtected
\* INVARIANT NoneMissing
\* PROPERTY NoSilentChange
\* PROPERTY OnlyDanglingCleared
CHECK_DEADLOCK FALSE
