\* Two calls of run_sync, one of wait(), and a PeriodicCallback with two chains
\* of timeouts at most.
SPECIFICATION FairSpec
CONSTANTS
  Syncs = {1, 2}
  MaxWaits = 1
  Patience = 1
  Period = 1
  MaxTicks = 2
  MaxTime = 2
INVARIANTS RunningMeansScheduled
PROPERTIES CallsReturn
CHECK_DEADLOCK FALSE
