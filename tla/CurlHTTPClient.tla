--------------------------- MODULE CurlHTTPClient ---------------------------
(***************************************************************************)
(* CurlAsyncHTTPClient of tornado.curl_httpclient.  Fetches queue for one  *)
(* of MaxClients curl handles; libcurl runs the transfers, on sockets and  *)
(* a timeout that it has the loop watch, and tells which have ended.       *)
(*                                                                         *)
(* libcurl may end any transfer whenever it is given the chance, and ask   *)
(* for any timeout.  A transfer's outcome, and so its response, is data.   *)
(***************************************************************************)
EXTENDS Naturals, Sequences, FiniteSets, SequencesExt

CONSTANTS Requests,
          Bad,        \* those _curl_setup_request raises for
          MaxClients,
          Fds         \* libcurl's sockets

VARIABLES
  requests,  \* _requests: the fetches that wait, in order
  free,      \* how many handles _free_list holds
  running,   \* the fetches whose handle libcurl has
  done,      \* the transfers info_read reports, while they are finished
  doing,     \* the callback of the loop that runs, or "idle"
  timeout,   \* _timeout is set
  fds,       \* the sockets the loop watches
  answered,  \* the fetches whose callback was called
  raised     \* the fetches whose setup raised

cu == <<requests, free, running, done, doing, timeout, fds, answered, raised>>

Callbacks == {"events", "timeout", "force"}

Init ==
  /\ requests = <<>> /\ free = MaxClients /\ running = {} /\ done = {}
  /\ doing = "idle" /\ timeout = FALSE /\ fds = {} /\ answered = {} /\ raised = {}

Fetched == Range(requests) \union running \union answered \union raised

-----------------------------------------------------------------------------
\* _curl_setup_request knows the method and the authentication, and the
\* request's own prepare_curl_callback succeeds.
CanSetUp(r) == r \notin Bad

\* _process_queue, of a queue and so many free handles: the fetches that are
\* started, and the one that raised, whose handle is lost and with which the
\* call ends.
Process(queue, handles) ==
  LET n      == IF Len(queue) < handles THEN Len(queue) ELSE handles
      bad    == SelectInSeq(SubSeq(queue, 1, n), LAMBDA r : ~CanSetUp(r))
      taken  == IF bad = 0 THEN n ELSE bad
      failed == IF bad = 0 THEN {} ELSE {queue[bad]}
  IN [requests |-> SubSeq(queue, taken + 1, Len(queue)),
      free     |-> handles - taken,
      started  |-> Range(SubSeq(queue, 1, taken)) \ failed,
      raised   |-> failed]

ProcessQueue(queue) ==
  LET p == Process(queue, free) IN
    /\ requests' = p.requests /\ free' = p.free
    /\ running' = running \union p.started /\ raised' = raised \union p.raised

\* _set_timeout: libcurl asks for a timeout, or keeps the one it has.
SetTimeout == timeout' \in {timeout, TRUE}

\* fetch_impl, by the program between two callbacks of the loop or by the
\* callback of another fetch.  What is raised goes to the caller.
FetchImpl(r) ==
  /\ r \notin Fetched
  /\ ProcessQueue(Append(requests, r))
  /\ IF raised' = raised THEN timeout' = TRUE ELSE SetTimeout
  /\ UNCHANGED <<done, doing, fds, answered>>

\* _handle_socket: libcurl, in one of its calls, has a socket watched or not.
HandleSocket(fd) ==
  /\ doing # "idle"
  /\ fds' = IF fd \in fds THEN fds \ {fd} ELSE fds \union {fd}
  /\ UNCHANGED <<requests, free, running, done, doing, timeout, answered, raised>>

\* The loop calls back, and libcurl looks at its transfers: some have ended.
SocketAction(callback) ==
  /\ doing = "idle" /\ doing' = callback
  /\ done' \in SUBSET running
  /\ UNCHANGED <<requests, free, running, fds, answered, raised>>

\* _handle_events
HandleEvents == fds # {} /\ SocketAction("events") /\ SetTimeout

\* _handle_timeout
HandleTimeout == timeout /\ SocketAction("timeout") /\ timeout' \in BOOLEAN

\* _handle_force_timeout, by a PeriodicCallback, whatever libcurl forgot.
HandleForceTimeout == SocketAction("force") /\ SetTimeout

\* _finish of one transfer: its handle is free, and its callback runs.
Finish(r) ==
  /\ r \in done /\ done' = done \ {r}
  /\ running' = running \ {r} /\ free' = free + 1
  /\ answered' = answered \union {r}
  /\ UNCHANGED <<requests, doing, timeout, fds, raised>>

\* A bug: the fetches that wait are forgotten.
FinishPendingOnly ==
  /\ doing # "idle" /\ done = {}
  /\ doing' = "idle" /\ SetTimeout
  /\ UNCHANGED <<requests, free, running, done, fds, answered, raised>>

\* The end of _finish_pending_requests, and of the callback that called it: the
\* timeout handler asks libcurl for the next timeout, if nothing was raised.
FinishPendingRequests ==
  /\ doing # "idle" /\ done = {}
  /\ ProcessQueue(requests)
  /\ doing' = "idle" /\ SetTimeout
  /\ UNCHANGED <<done, fds, answered>>

Next ==
  \/ \E r \in Requests : FetchImpl(r) \/ Finish(r)
  \/ \E fd \in Fds : HandleSocket(fd)
  \/ HandleEvents \/ HandleTimeout \/ HandleForceTimeout \/ FinishPendingRequests

\* A callback goes on, the PeriodicCallback comes again and again, and libcurl
\* ends each transfer at some time, if only by its timeout.
Fairness ==
  /\ WF_cu(FinishPendingRequests) /\ \A r \in Requests : WF_cu(Finish(r))
  /\ []<>(doing = "force") /\ \A r \in Requests : []<>(r \in running => r \in done)

Spec == Init /\ [][Next]_cu
FairSpec == Spec /\ Fairness

-----------------------------------------------------------------------------
\* Every fetch that can be set up is answered (curl_httpclient.py:93-98,
\* 184-276), also when it waits behind one that cannot, as long as there is a
\* handle left: each setup that raises has cost one.
CurlFetchesEnd ==
  <>[](Fetched = answered \union raised \/ Cardinality(raised) = MaxClients)
=============================================================================
