SPECIFICATION Spec
CONSTANTS
    Key = {k1}
    Bytes = {b1, b2}
    Backend = {real, fake}
    Thread = {t1, t2}
    None = None
    MaxOps = 3
    MaxCompiles = 2
    MaxDeaths = 1
\* Claims of the documents that the code does not keep, one at a time.
INVARIANT VerifiedIsChecked
\* PROPERTY LoadsIntact
\* PROPERTY LoadsOwn
\* PROPERTY PublishedIsOwn
\* PROPERTY OwnIsKept
CHECK_DEADLOCK FALSE
