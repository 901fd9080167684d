

SPECIFICATION FairSpec
CONSTANTS
  Syncs = {1, 2}
  MaxWaits = 0
  Patience = 1
  Period = 1
  MaxTicks = 2
  MaxTime = 2

PROPERTIES TimeoutErrorMeansTimeout
CHECK_DEADLOCK FALSE
