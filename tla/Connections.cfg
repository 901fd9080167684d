\* A client that sends three bytes of requests and reads a byte at a time; the
\* three WebSocket clients, with four frames; five fetches for two curl handles,
\* two of which cannot be set up.
SPECIFICATION Spec
CONSTANTS
  MaxSent = 3
  MaxBuffer = 4
  MaxRoom = 1
  MaxWrite = 2
  MaxFlushes = 2
  Links = {"tornado", "other", "draft76"}
  MaxFrames = 4
  MaxAhead = 1
  MaxWrites = 1
  Requests = {"r", "s", "t", "b", "c"}
  Bad = {"b", "c"}
  MaxClients = 2
  Fds = {"fd"}
INVARIANTS MessagesAreWhole
PROPERTIES ResponsesAreOut RequestsAreServed ClosingEnds EndIsTold CurlFetchesEnd
CHECK_DEADLOCK FALSE
