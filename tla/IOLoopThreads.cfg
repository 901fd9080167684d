\* Two threads' worth of callers (a thread and signals on the loop's own
\* thread) and the timeouts.
SPECIFICATION Spec
CONSTANTS
  Callbacks = {c1, c2}
  Timeouts = {t1, t2}
  Fds = {}
  Threads = {th1}
  WakerFd = wakerFd
  Loop = loop
  Sig = sig
  Main = loop
  Nobody = nobody
  QueueBound = 2
  MaxTime = 1
  MaxPoll = 9
  CleanupAt = 0
  CancelBound = 2
INVARIANTS NoLostWakeup
PROPERTIES TimeoutsRunUnlessRemoved NeverSleepsPastDeadline ImplementsCallbackQueue
CHECK_DEADLOCK FALSE
