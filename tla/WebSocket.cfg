\* The three clients: four frames are a fragment, what may come in between, its
\* end and a message after it.
SPECIFICATION FairSpec
CONSTANTS
  Links = {"tornado", "other", "draft76"}
  MaxFrames = 4
  MaxAhead = 1
  MaxWrites = 1
INVARIANTS MessagesAreWhole ClosingFrameIsLast
PROPERTIES NothingAfterTheEnd ClosingEnds EndIsTold
CHECK_DEADLOCK FALSE
