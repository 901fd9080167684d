CONSTANTS
  Requests = {"r", "s", "t", "b", "c"}
  Bad = {"b", "c"}
  MaxClients = 2
  Fds = {"fd"}
SPECIFICATION FairSpec
PROPERTY CurlFetchesEnd
CHECK_DEADLOCK FALSE
