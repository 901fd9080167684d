\* A read of a stream that is busy writing.
SPECIFICATION Spec
CONSTANTS
  MaxSent = 2
  Delims = {2}
  MaxBuffer = 2
  MaxRoom = 1
  MaxWrite = 2
  MaxOps = 3
INVARIANTS ReadIsListenedFor
CHECK_DEADLOCK FALSE
