SPECIFICATION Spec
CONSTANTS
    Daemon = {d1, d2}
    Cli = {c1}
    None = None
    MaxRev = 1
    MaxKills = 1
\* Claims of the documents that the code does not keep, one at a time.
INVARIANT ZeroMeansDone
\* PROPERTY StartingIsAlive
\* INVARIANT UnreachableIsNotDone
\* PROPERTY PreparedAtZero
CHECK_DEADLOCK FALSE
