\* Two tasks and a stranger, of whom three may die and one is started again; three
\* subprocesses; two files, each missing or of one of two times; two calls of
\* run_sync, one of wait(), and a PeriodicCallback with two chains of timeouts at
\* most; a coroutine that yields a key, a task and a future, alone or in pairs.
SPECIFICATION Spec
CONSTANTS
  Tasks = {0, 1}
  Pids = {1, 2, 3}
  Sockets = {s}
  Conns = {c}
  MaxRestarts = 1
  MaxDeaths = 3
  Subprocs = {p, q, r}
  Files = {f, g}
  MaxSourceTime = 2
  Syncs = {1, 2}
  MaxWaits = 1
  Patience = 1
  Period = 1
  MaxTicks = 2
  MaxTime = 2
  Names = {a}
  GenTasks = {t}
  Futures = {u}
  MaxKids = 2
INVARIANTS ExitMeansDone RunningMeansScheduled NoLostResume
PROPERTIES TasksComeBack ExitIsReported ChangesAreSeen CallsReturn WaitsEnd
CHECK_DEADLOCK FALSE
