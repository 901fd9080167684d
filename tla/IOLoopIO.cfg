\* Handlers of two file descriptors that add, update and remove one another,
\* while callbacks keep being added.
SPECIFICATION FairSpec
CONSTANTS
  Callbacks = {c1}
  Timeouts = {}
  Fds = {f1, f2}
  Threads = {th1}
  WakerFd = wakerFd
  Loop = loop
  Sig = sig
  Main = nobody
  Nobody = nobody
  QueueBound = 1
  MaxTime = 0
  MaxPoll = 9
  CleanupAt = 0
  CancelBound = 0
PROPERTIES CallbacksRun EventsHandled StopReturns
CHECK_DEADLOCK FALSE
