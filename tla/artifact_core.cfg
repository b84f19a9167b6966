SPECIFICATION Spec
CONSTANTS
    Key = {k1}
    Bytes = {b1, b2}
    Backend = {real, fake}
    Thread = {t1, t2, t3}
    None = None
    MaxOps = 5
    MaxCompiles = 3
    MaxDeaths = 2
SYMMETRY Symmetry
INVARIANTS RowDescribes Unobstructed
PROPERTIES Converges LostOnlyByOverlap NeverInPlace
CHECK_DEADLOCK FALSE
