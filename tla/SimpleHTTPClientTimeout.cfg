\* One fetch that is redirected once.
SPECIFICATION Spec
CONSTANTS
  Fetches = {f1}
  MaxClients = 1
  MaxRedirects = 1
  ConnectTimeout = 1
  RequestTimeout = 2
  MaxTime = 1
INVARIANTS TimeoutCoversTheRequest
CHECK_DEADLOCK FALSE
