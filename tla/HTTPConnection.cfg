\* A client that sends three bytes of requests and reads a byte at a time.
SPECIFICATION FairSpec
CONSTANTS
  MaxSent = 3
  MaxBuffer = 4
  MaxRoom = 1
  MaxWrite = 2
  MaxFlushes = 2
INVARIANTS TypeOK NotReadingWhileHandling NeverForgotten
PROPERTIES ResponsesAreOut RequestsAreServed CloseIsReported
CHECK_DEADLOCK FALSE
