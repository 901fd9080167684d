\* One stream, three calls of its user, a peer that sends two bytes.
SPECIFICATION FairSpec
CONSTANTS
  MaxSent = 2
  Delims = {2}
  MaxBuffer = 2
  MaxRoom = 1
  MaxWrite = 2
  MaxOps = 3
INVARIANTS CloseCallbackComesLast StreamIsWatched
PROPERTIES CloseCallbackRuns ReadsComplete
CHECK_DEADLOCK FALSE
