SPECIFICATION FairSpec
CONSTANTS
    Daemon = {d1, d2}
    Cli = {c1}
    None = None
    MaxRev = 2
    MaxKills = 1
INVARIANTS OwnerWrites Reachable ZeroIsDone
CHECK_DEADLOCK FALSE
PROPERTIES StopFrees
