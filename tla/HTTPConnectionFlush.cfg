\* A handler that flushes twice.
SPECIFICATION FairSpec
CONSTANTS
  MaxSent = 1
  MaxBuffer = 2
  MaxRoom = 1
  MaxWrite = 1
  MaxFlushes = 2
PROPERTIES FlushCallbackMeansWritten
CHECK_DEADLOCK FALSE
