SPECIFICATION Spec
CONSTANTS
  Run = {i1, i2}
  None = None
  MaxInfers = 1
  MaxName = 2
  ClockSteps = FALSE
\* Claims of the documents that the code does not keep, one at a time.
PROPERTY ReviewedAfterwards
\* INVARIANT LatchHolds
\* INVARIANT RetirementRecorded
\* INVARIANT StopIsObeyed
\* INVARIANT RefusalIsTrue
CHECK_DEADLOCK FALSE
