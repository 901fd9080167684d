\* The main thread uses the loop of another thread, and takes signals.
SPECIFICATION Spec
CONSTANTS
  Callbacks = {c1}
  Timeouts = {}
  Fds = {}
  Threads = {th1}
  WakerFd = wakerFd
  Loop = loop
  Sig = sig
  Main = th1
  Nobody = nobody
  QueueBound = 1
  MaxTime = 0
  MaxPoll = 9
  CleanupAt = 0
  CancelBound = 0
INVARIANTS SignalHandlerNeverSelfDeadlocks
CHECK_DEADLOCK FALSE
