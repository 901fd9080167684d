CONSTANTS
  MaxSize = 3
  MaxVersion = 1
  ChunkSize = 2
  MaxGets = 2
SPECIFICATION Spec
INVARIANT NotModifiedIsCurrent
CHECK_DEADLOCK FALSE
