-------------------------- MODULE SimpleHTTPClient --------------------------
(***************************************************************************)
(* SimpleAsyncHTTPClient of tornado/simple_httpclient.py: a client that    *)
(* queues fetches and runs at most max_clients of them at a time, each on  *)
(* an _HTTPConnection of its own, and hands a redirect on to a new one.    *)
(*                                                                         *)
(* <<f, h>> is the connection of fetch f after h redirects.  Its record    *)
(* holds the object's fields and what it uses of its IOStream: the read or *)
(* connect in progress, and the callback of it that is in the loop's       *)
(* queue.  The stream's part follows module IOStream; every callback is    *)
(* one step of the loop's thread.                                          *)
(***************************************************************************)
EXTENDS Integers, Sequences, FiniteSets

CONSTANTS Fetches,
          MaxClients,      \* max_clients
          MaxRedirects,    \* max_redirects
          ConnectTimeout,  \* connect_timeout and request_timeout, 0 for none
          RequestTimeout,
          MaxTime          \* the clock runs this far, and on for any timeout

ASSUME SimpleHTTPClientAssumption ==
  /\ MaxClients \in Nat \ {0} /\ MaxRedirects \in Nat
  /\ ConnectTimeout \in Nat /\ RequestTimeout \in Nat /\ MaxTime \in Nat
  /\ IsFiniteSet(Fetches)

VARIABLES queue,    \* self.queue
          active,   \* the keys of self.active
          conn,     \* the connections
          answers,  \* how often each fetch's callback was given to the loop
          clock

vars == <<queue, active, conn, answers, clock>>

Conns == Fetches \X (0..MaxRedirects)
NoTimer == -1

Connection == [
  phase      : {"unused", "queued", "resolve", "connect", "headers", "body",
                "rest", "idle"},   \* what the connection is waiting for
  due        : {"none", "resolve", "connect", "headers", "body", "close"},
  inline     : BOOLEAN,        \* due was queued by a callback or a timeout
  stream     : {"none", "open", "closed"},
  closeCb    : BOOLEAN,        \* the stream still has _on_close to call
  waiting    : BOOLEAN,        \* final_callback is not None
  unreleased : BOOLEAN,        \* release_callback is not None
  timer      : Nat \cup {NoTimer},   \* _timeout's deadline
  start      : Nat,            \* start_time
  orphan     : BOOLEAN,        \* final_callback leads to no user callback
  bad        : BOOLEAN]        \* the URL cannot be fetched

Unused == [phase |-> "unused", due |-> "none", inline |-> FALSE,
           stream |-> "none", closeCb |-> FALSE, waiting |-> FALSE,
           unreleased |-> FALSE, timer |-> NoTimer, start |-> 0,
           orphan |-> FALSE, bad |-> FALSE]

TypeOK == /\ queue \in Seq(Conns) /\ active \subseteq Conns
          /\ conn \in [Conns -> Connection]
          /\ answers \in [Fetches -> Nat] /\ clock \in Nat

Init == /\ queue = <<>> /\ active = {} /\ conn = [c \in Conns |-> Unused]
        /\ answers = [f \in Fetches |-> 0] /\ clock = 0

-----------------------------------------------------------------------------
(* The client: the queue and the active connections.                       *)

\* A bug: one too many.
HasRoomAtTheLimit(cs, act, begun) ==
  Cardinality(act) + Cardinality({d \in begun : ~cs[d].bad}) <= MaxClients

\* Whether another fetch may start after those in begun.
HasRoom(cs, act, begun) ==
  Cardinality(act) + Cardinality({d \in begun : ~cs[d].bad}) < MaxClients

\* _HTTPConnection.__init__ asks the resolver, or raises on the URL, which
\* gives the slot back at once.
Opened(r) == [r EXCEPT !.phase = IF r.bad THEN "idle" ELSE "resolve",
                       !.start = clock, !.waiting = ~r.bad,
                       !.unreleased = ~r.bad]

\* The responses for the connections in done are handed to the loop.
Answered(cs, done) ==
  [f \in Fetches |-> answers[f] +
     Cardinality({d \in done : d[1] = f /\ ~cs[d].orphan})]

Front(q, n) == {q[i] : i \in 1..n}

\* The loop of _process_queue starts n fetches, from the front of the queue.
ProcessQueue(cs, q, act, done) ==
  \E n \in 0..Len(q) :
    LET begun   == Front(q, n)
        refused == {d \in begun : cs[d].bad}
    IN  /\ \A k \in 0..(n - 1) : HasRoom(cs, act, Front(q, k))
        /\ n = Len(q) \/ ~HasRoom(cs, act, begun)
        /\ queue' = SubSeq(q, n + 1, Len(q))
        /\ active' = act \cup (begun \ refused)
        /\ conn' = [d \in Conns |-> IF d \in begun THEN Opened(cs[d]) ELSE cs[d]]
        /\ answers' = Answered(cs, done \cup refused)

\* A bug: the key is forgotten, and no queued fetch takes its place.
ReleaseFetchOnly(c, cs, done) ==
  /\ active' = active \ {c} /\ conn' = cs /\ answers' = Answered(cs, done)
  /\ UNCHANGED queue

ReleaseFetch(c, cs, done) == ProcessQueue(cs, queue, active \ {c}, done)

\* Connection c becomes r: _run_callback releases its slot and answers the
\* fetch, each if it was not done before.
Become(c, r) ==
  LET cs   == [conn EXCEPT ![c] = r]
      done == IF conn[c].waiting /\ ~r.waiting THEN {c} ELSE {}
  IN  IF conn[c].unreleased /\ ~r.unreleased
      THEN ReleaseFetch(c, cs, done)
      ELSE /\ conn' = cs /\ answers' = Answered(cs, done)
           /\ UNCHANGED <<queue, active>>

-----------------------------------------------------------------------------
(* The connection.  A method is an operator on its record; one with several *)
(* outcomes is the set of them.                                            *)

Due(r, cb) == [r EXCEPT !.due = cb, !.inline = TRUE, !.phase = "idle"]

\* The stream calls _on_close after all other callbacks.
CloseCallback(r) ==
  IF r.stream = "closed" /\ r.closeCb /\ r.due = "none"
  THEN [Due(r, "close") EXCEPT !.closeCb = FALSE] ELSE r

\* stream.close(): a read until close completes with what there is.
Close(r) ==
  CloseCallback(
    IF r.stream # "open" THEN r
    ELSE [(IF r.phase = "rest" THEN Due(r, "body") ELSE r)
            EXCEPT !.stream = "closed"])

\* A bug: the timeout stays with the loop.
HandleExceptionKeepingTimer(r) ==
  Close(IF r.waiting THEN [r EXCEPT !.unreleased = FALSE, !.waiting = FALSE]
        ELSE r)

\* _handle_exception answers with a 599, once; an exception after that goes to
\* the stream, which is closed as well.
HandleException(r) ==
  Close(IF r.waiting THEN [r EXCEPT !.timer = NoTimer, !.unreleased = FALSE,
                                    !.waiting = FALSE]
        ELSE r)

\* A read that is not satisfied from the stream's buffer waits on an open
\* stream, finds it at its end, or raises on a closed one.
Read(r, w) ==
  LET done == Due(r, IF w = "rest" THEN "body" ELSE w)
  IN  IF r.stream = "open"
      THEN {[r EXCEPT !.phase = w], Close([r EXCEPT !.phase = w])}
           \cup (IF w = "rest" THEN {} ELSE {done})
      ELSE {done} \cup (IF w = "rest" THEN {} ELSE {HandleException(r)})

\* A bug: the wrong sign.
DeadlineSwapped(r, t) == IF t = 0 THEN NoTimer ELSE r.start - t

Deadline(r, t) == IF t = 0 THEN NoTimer ELSE r.start + t

\* The name is not found, or connect() is called; it may fail at once.
OnResolve(r) ==
  LET t == IF ConnectTimeout < RequestTimeout THEN ConnectTimeout
                                              ELSE RequestTimeout
      s == [r EXCEPT !.stream = "open", !.closeCb = TRUE, !.phase = "connect",
                     !.timer = Deadline(r, t)]
  IN  {HandleException(r), s, Close(s)}

\* A bug: nothing limits the time after the connection was made.
OnConnectUnlimited(r) ==
  LET s == [r EXCEPT !.timer = NoTimer]
  IN  {HandleException(s)}
      \cup (IF r.stream = "open" THEN Read(s, "headers") ELSE {})

\* The request is not acceptable, or is written; a closed stream refuses it.
OnConnect(r) ==
  LET s == [r EXCEPT !.timer = Deadline(r, RequestTimeout)]
  IN  {HandleException(s)}
      \cup (IF r.stream = "open" THEN Read(s, "headers") ELSE {})

\* The end of _on_body, for a response and for a redirect.
Finish(r) == Close([r EXCEPT !.timer = NoTimer, !.unreleased = FALSE,
                             !.waiting = FALSE])

\* What came is malformed; more chunks follow; or the response is complete.
OnBody(r) == {HandleException(r), Finish(r)} \cup Read(r, "body")

\* As well, these may be the headers of a 1xx response, or of a body of no
\* stated length.
OnHeaders(r) == OnBody(r) \cup Read(r, "headers") \cup Read(r, "rest")

OnClose(r) == {IF r.waiting THEN HandleException(r) ELSE r}

Handled(cb, r) == CASE cb = "resolve" -> OnResolve(r)
                    [] cb = "connect" -> OnConnect(r)
                    [] cb = "headers" -> OnHeaders(r)
                    [] cb = "body"    -> OnBody(r)
                    [] cb = "close"   -> OnClose(r)

-----------------------------------------------------------------------------
\* fetch(): queued by fetch_impl, and perhaps started.
Hop(orphan, bad) ==
  [Unused EXCEPT !.phase = "queued", !.waiting = TRUE, !.orphan = orphan,
                 !.bad = bad]

Fetch(f, bad) ==
  LET c == <<f, 0>>
  IN  /\ conn[c].phase = "unused"
      /\ ProcessQueue([conn EXCEPT ![c] = Hop(FALSE, bad)],
                      Append(queue, c), active, {})
      /\ UNCHANGED clock

\* The loop runs the callback that is due.
RunCallback(c) ==
  /\ conn[c].due # "none"
  /\ \E r \in Handled(conn[c].due, [conn[c] EXCEPT !.due = "none"]) :
       Become(c, CloseCallback(r))
  /\ UNCHANGED clock

\* A bug: the old connection keeps the callback that it handed on.
RedirectedKeepingCallback(r) ==
  Close([r EXCEPT !.timer = NoTimer, !.unreleased = FALSE])

Redirected(r) == Finish(r)

\* A redirect gives up its slot before the new fetch joins the queue.  When a
\* timeout has answered the fetch meanwhile, it is followed all the same.
FollowRedirect(c, bad) ==
  LET r == [conn[c] EXCEPT !.due = "none"]
      d == <<c[1], c[2] + 1>>
  IN  /\ conn[c].due \in {"headers", "body"} /\ c[2] < MaxRedirects
      /\ ProcessQueue(
           [conn EXCEPT ![c] = Redirected(r),
                        ![d] = Hop(r.orphan \/ ~r.waiting, bad)],
           Append(queue, d), active \ {c}, {})
      /\ UNCHANGED clock

\* The loop runs timeouts after the callbacks that were queued when it came
\* out of poll(); those that callbacks or timeouts queue come later.
OnTimeout(c) ==
  /\ conn[c].timer # NoTimer /\ conn[c].timer <= clock
  /\ \A d \in Conns : conn[d].due # "none" => conn[d].inline
  /\ LET r == [conn[c] EXCEPT !.timer = NoTimer]
     IN  Become(c, IF r.waiting THEN HandleException(r) ELSE r)
  /\ UNCHANGED clock

\* The resolver, from the loop's or from another thread.
Resolved(c) ==
  /\ conn[c].phase = "resolve" /\ conn' = [conn EXCEPT ![c] = Due(@, "resolve")]
  /\ UNCHANGED <<queue, active, answers, clock>>

\* poll() reports the stream's socket: what the stream was asked for is there,
\* or the connection is at its end.
Arrived(r) == [Due(r, r.phase) EXCEPT !.inline = FALSE]

Ended(r) ==
  [Close(r) EXCEPT !.inline = r.due # "none" /\ Close(r).inline]

StreamEvent(c) ==
  /\ conn[c].stream = "open"
  /\ \/ /\ conn[c].phase \in {"connect", "headers", "body"}
        /\ conn' = [conn EXCEPT ![c] = Arrived(@)]
     \/ conn' = [conn EXCEPT ![c] = Ended(@)]
  /\ UNCHANGED <<queue, active, answers, clock>>

Tick == /\ clock < MaxTime \/ \E c \in Conns : conn[c].timer > clock
        /\ clock' = clock + 1 /\ UNCHANGED <<queue, active, conn, answers>>

LoopRuns(c) == RunCallback(c) \/ \E bad \in BOOLEAN : FollowRedirect(c, bad)

Next == \/ \E f \in Fetches, bad \in BOOLEAN : Fetch(f, bad)
        \/ \E c \in Conns : \/ LoopRuns(c) \/ OnTimeout(c)
                            \/ Resolved(c) \/ StreamEvent(c)
        \/ Tick

Spec == Init /\ [][Next]_vars

\* The loop runs what is queued and, in every pass, the timeouts that are due;
\* the resolver answers; time passes.  Servers need not answer.
Fairness == /\ \A c \in Conns : WF_vars(LoopRuns(c))
            /\ SF_vars(\E c \in Conns : OnTimeout(c))
            /\ WF_vars(\E c \in Conns : Resolved(c))
            /\ WF_vars(Tick)

FairSpec == Spec /\ Fairness

-----------------------------------------------------------------------------
(* Properties.                                                             *)

\* A slot is held exactly by the connections that have still to release it,
\* and there are never more of them than max_clients: redirects, timeouts and
\* URLs that fail inside _process_queue neither leak a slot nor free it twice.
SlotsAreHeld == /\ active = {c \in Conns : conn[c].unreleased}
                /\ Cardinality(active) <= MaxClients

\* A fetch is queued only while all slots are taken: whoever gives one up
\* starts the next.
QueueWaitsForSlots == queue # <<>> => Cardinality(active) = MaxClients

\* The connections that will answer fetch f.
Waiters(f) == {c \in Conns : c[1] = f /\ conn[c].waiting /\ ~conn[c].orphan}

\* Every fetch that was made is answered once or is being worked on by exactly
\* one connection: none is lost and none answered twice, whatever timeouts,
\* closed streams and redirects come together.
AnsweredOnce ==
  \A f \in Fetches : answers[f] + Cardinality(Waiters(f)) =
                       IF conn[<<f, 0>>].phase = "unused" THEN 0 ELSE 1

\* No timeout outlives the connection it was made for.
TimersBelongToWaiters ==
  \A c \in Conns : conn[c].timer # NoTimer => conn[c].unreleased

\* Every fetch is answered, even if no server ever answers.
FetchesAreAnswered ==
  \A f \in Fetches : conn[<<f, 0>>].phase # "unused" ~> answers[f] = 1

\* request_timeout is the "Timeout for entire request in seconds", counted from
\* the start of the fetch's first connection.
TimeoutCoversTheRequest ==
  \A c \in Conns : conn[c].timer # NoTimer =>
    conn[c].timer <= conn[<<c[1], 0>>].start + RequestTimeout
=============================================================================
