\* A thread adds a callback while the loop is closed.
SPECIFICATION Spec
CONSTANTS
  Callbacks = {c1}
  Timeouts = {}
  Fds = {}
  Threads = {th1}
  WakerFd = wakerFd
  Loop = loop
  Sig = sig
  Main = nobody
  Nobody = nobody
  QueueBound = 1
  MaxTime = 0
  MaxPoll = 9
  CleanupAt = 0
  CancelBound = 0
INVARIANTS AddCallbackFailsCleanly
CHECK_DEADLOCK FALSE
