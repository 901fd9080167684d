CONSTANTS
  MaxSize = 3
  MaxVersion = 1
  ChunkSize = 2
  MaxGets = 2
SPECIFICATION Spec
INVARIANTS RangesAreServed NotModifiedIsTrue
CHECK_DEADLOCK FALSE
