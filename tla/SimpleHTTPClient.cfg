\* Two fetches share one slot, and each may be redirected once.
SPECIFICATION FairSpec
CONSTANTS
  Fetches = {f1, f2}
  MaxClients = 1
  MaxRedirects = 1
  ConnectTimeout = 1
  RequestTimeout = 2
  MaxTime = 0
INVARIANTS SlotsAreHeld QueueWaitsForSlots AnsweredOnce
PROPERTIES FetchesAreAnswered
CHECK_DEADLOCK FALSE
