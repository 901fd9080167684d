\* A key, a task and a future, yielded alone or in pairs.
SPECIFICATION FairSpec
CONSTANTS
  Names = {a}
  Tasks = {t}
  Futures = {f}
  MaxKids = 2
INVARIANTS NoLostResume EndIsReported
PROPERTIES WaitsEnd
CHECK_DEADLOCK FALSE
