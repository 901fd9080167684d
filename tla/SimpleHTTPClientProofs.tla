----------------------- MODULE SimpleHTTPClientProofs -----------------------
(***************************************************************************)
(* Proofs of the safety properties of module SimpleHTTPClient.             *)
(*                                                                         *)
(* The invariant has three parts: what each connection's record looks like *)
(* (RecordOK), how the queue, the slots and the answers follow from the    *)
(* records (Books), and that a connection that was handed on never acts    *)
(* again (HandedOn).  Books is stated of any records, queue and slots, for *)
(* it holds of the intermediate values on which the code calls             *)
(* _process_queue as well.                                                 *)
(***************************************************************************)
EXTENDS SimpleHTTPClient, FiniteSetTheorems, SequenceTheorems, TLAPS

-----------------------------------------------------------------------------
(* The inductive invariant.                                                *)

\* What the fields of one connection say of each other.
RecordOK(r) ==
  /\ r.due # "none" => r.phase = "idle"
  /\ r.phase \in {"unused", "queued"} =>
       /\ r.due = "none" /\ ~r.unreleased /\ r.stream = "none"
       /\ r.waiting <=> r.phase = "queued"
  /\ r.phase \notin {"unused", "queued"} => (r.waiting <=> r.unreleased)
  /\ r.timer # NoTimer => r.unreleased
  /\ r.phase = "resolve" \/ r.due = "resolve" =>
       r.waiting /\ r.stream = "none" /\ r.timer = NoTimer
  /\ r.phase = "connect" => r.waiting /\ r.stream = "open" /\ r.closeCb
  /\ r.due = "connect" => r.waiting /\ ~r.inline

\* The connection can only run its close callback.
Over(r) == /\ r.phase = "idle" /\ r.due \in {"none", "close"}
           /\ ~r.waiting /\ r.stream # "open"

HandedOn(cs) ==
  \A c, d \in Conns :
    d = <<c[1], c[2] + 1>> /\ cs[d].phase # "unused" => Over(cs[c])

QueueOK(cs, q) ==
  /\ \A i \in 1..Len(q) : cs[q[i]].phase = "queued"
  /\ \A i, j \in 1..Len(q) : q[i] = q[j] => i = j

SlotsOK(cs, act) == /\ act = {c \in Conns : cs[c].unreleased}
                    /\ Cardinality(act) <= MaxClients

WaitersIn(cs, f) == {c \in Conns : c[1] = f /\ cs[c].waiting /\ ~cs[c].orphan}

\* Each fetch is answered in ans, or by one of done, or still waited for.
AnswersOK(cs, ans, done) ==
  \A f \in Fetches :
    ans[f] + Cardinality({d \in done : d[1] = f /\ ~cs[d].orphan})
           + Cardinality(WaitersIn(cs, f))
      = IF cs[<<f, 0>>].phase = "unused" THEN 0 ELSE 1

Books(cs, q, act, ans, done) ==
  /\ q \in Seq(Conns) /\ act \subseteq Conns
  /\ cs \in [Conns -> Connection] /\ ans \in [Fetches -> Nat]
  /\ done \subseteq {d \in Conns : ~cs[d].waiting}
  /\ \A c \in Conns : RecordOK(cs[c])
  /\ HandedOn(cs) /\ QueueOK(cs, q) /\ SlotsOK(cs, act)
  /\ AnswersOK(cs, ans, done)

IInv == /\ Books(conn, queue, active, answers, {}) /\ clock \in Nat
        /\ QueueWaitsForSlots

-----------------------------------------------------------------------------
(* One connection.                                                         *)

Started(r) == r.phase \notin {"unused", "queued"}

\* r is a record of a connection that was started.
Running(r) == r \in Connection /\ RecordOK(r) /\ Started(r)

\* s is what a method of the connection may make of r.
Follows(r, s) == /\ Running(s) /\ s.orphan = r.orphan
                 /\ s.waiting => r.waiting

\* Closing the stream keeps a record well-formed and changes neither callback.
LEMMA CloseCallbackFollows ==
  ASSUME NEW r, Running(r)
  PROVE  Follows(r, CloseCallback(r))
<1> DEFINE s == CloseCallback(r)
<1>1. CASE s = r
  BY <1>1 DEF Follows
<1>2. CASE s # r
  <2>1. /\ r.stream = "closed" /\ r.due = "none"
        /\ s = [[r EXCEPT !.due = "close", !.inline = TRUE, !.phase = "idle"]
                 EXCEPT !.closeCb = FALSE]
    BY <1>2 DEF CloseCallback, Due
  <2>2. s \in Connection
    BY <2>1 DEF Running, Connection
  <2>3. /\ s.due = "close" /\ s.phase = "idle" /\ s.stream = "closed"
        /\ s.waiting = r.waiting /\ s.unreleased = r.unreleased
        /\ s.timer = r.timer /\ s.orphan = r.orphan
    BY <2>1 DEF Running, Connection
  <2> QED
    BY <2>1, <2>2, <2>3 DEF Running, Follows, RecordOK, Started, Over
<1> QED
  BY <1>1, <1>2

\* The fields that Due and the close of the stream change.
LEMMA DueFields ==
  ASSUME NEW r \in Connection,
         NEW cb \in {"none", "resolve", "connect", "headers", "body", "close"}
  PROVE  /\ Due(r, cb) \in Connection
         /\ Due(r, cb).due = cb /\ Due(r, cb).inline /\ Due(r, cb).phase = "idle"
         /\ Due(r, cb).stream = r.stream /\ Due(r, cb).closeCb = r.closeCb
         /\ Due(r, cb).waiting = r.waiting /\ Due(r, cb).timer = r.timer
         /\ Due(r, cb).unreleased = r.unreleased /\ Due(r, cb).orphan = r.orphan
BY DEF Due, Connection

\* What closing the stream makes of each field of a connection.
LEMMA CloseFields ==
  ASSUME NEW r \in Connection, r.due # "none" => r.phase = "idle"
  PROVE  LET s == Close(r) IN
         /\ s \in Connection
         /\ s.stream # "open" /\ (r.stream # "open" => s.stream = r.stream)
         /\ s.waiting = r.waiting /\ s.timer = r.timer
         /\ s.unreleased = r.unreleased /\ s.orphan = r.orphan
         /\ s.phase \in {r.phase, "idle"} /\ (s.due # "none" => s.phase = "idle")
         /\ s.due # r.due => s.due \in {"body", "close"}
         /\ (r.stream # "open" \/ r.phase # "rest") /\ s.due # r.due =>
              s.due = "close"
         /\ s.due = r.due => s.inline = r.inline
         /\ r.stream = "open" /\ r.closeCb => s.phase = "idle"
<1> DEFINE m == [(IF r.phase = "rest" THEN Due(r, "body") ELSE r)
                   EXCEPT !.stream = "closed"]
           t == IF r.stream # "open" THEN r ELSE m
<1>1. /\ m \in Connection /\ m.stream = "closed" /\ m.closeCb = r.closeCb
      /\ m.waiting = r.waiting /\ m.timer = r.timer
      /\ m.unreleased = r.unreleased /\ m.orphan = r.orphan
      /\ m.phase = IF r.phase = "rest" THEN "idle" ELSE r.phase
      /\ m.due = IF r.phase = "rest" THEN "body" ELSE r.due
      /\ r.phase # "rest" => m.inline = r.inline
  BY DueFields DEF Connection
<1>2. Close(r) = CloseCallback(t)
  BY DEF Close
<1>3. t \in Connection
  BY <1>1
<1> HIDE DEF m
<1>4. CASE t.stream = "closed" /\ t.closeCb /\ t.due = "none"
  <2> DEFINE u == Due(t, "close")
  <2>1. Close(r) = [u EXCEPT !.closeCb = FALSE]
    BY <1>2, <1>4 DEF CloseCallback
  <2>2. /\ u \in Connection /\ u.due = "close" /\ u.phase = "idle"
        /\ u.stream = "closed" /\ u.waiting = t.waiting /\ u.timer = t.timer
        /\ u.unreleased = t.unreleased /\ u.orphan = t.orphan
    BY <1>3, <1>4, DueFields
  <2> HIDE DEF u
  <2>3. Close(r) \in Connection
    BY <2>1, <2>2 DEF Connection
  <2>4. /\ Close(r).due = "close"
        /\ Close(r).phase = "idle" /\ Close(r).stream = "closed"
        /\ Close(r).waiting = t.waiting /\ Close(r).timer = t.timer
        /\ Close(r).unreleased = t.unreleased /\ Close(r).orphan = t.orphan
    BY <2>1, <2>2 DEF Connection
  <2>5. CASE r.stream # "open"
    BY <1>4, <2>3, <2>4, <2>5
  <2>6. CASE r.stream = "open"
    BY <1>1, <1>4, <2>3, <2>4, <2>6
  <2> QED
    BY <2>5, <2>6
<1>5. CASE ~(t.stream = "closed" /\ t.closeCb /\ t.due = "none")
  <2>1. Close(r) = t
    BY <1>2, <1>5 DEF CloseCallback
  <2> QED
    BY <1>1, <1>3, <1>5, <2>1
<1> QED
  BY <1>4, <1>5

\* A record that need not be well-formed is so once its stream is closed.
LEMMA CloseFollows ==
  ASSUME NEW r \in Connection, Started(r), r.due # "none" => r.phase = "idle",
         r.waiting <=> r.unreleased, r.timer # NoTimer => r.unreleased,
         r.phase # "resolve", r.due # "resolve",
         r.phase = "connect" => r.stream = "open" /\ r.closeCb,
         r.due = "connect" => r.waiting /\ ~r.inline
  PROVE  Follows(r, Close(r))
<1> DEFINE s == Close(r)
<1>1. /\ s \in Connection
      /\ s.stream # "open" /\ (r.stream # "open" => s.stream = r.stream)
      /\ s.waiting = r.waiting /\ s.timer = r.timer
      /\ s.unreleased = r.unreleased /\ s.orphan = r.orphan
      /\ s.phase \in {r.phase, "idle"} /\ (s.due # "none" => s.phase = "idle")
      /\ s.due # r.due => s.due \in {"body", "close"}
      /\ s.due = r.due => s.inline = r.inline
      /\ r.stream = "open" /\ r.closeCb => s.phase = "idle"
  BY CloseFields
<1>2. /\ r.waiting \in BOOLEAN /\ r.unreleased \in BOOLEAN
      /\ r.inline \in BOOLEAN
  BY DEF Connection
<1> HIDE DEF s
<1>3. Started(s) /\ s.phase # "resolve" /\ s.phase # "connect"
  BY <1>1 DEF Started
<1>4. RecordOK(s)
  BY <1>1, <1>2, <1>3 DEF RecordOK, Started
<1> QED
  BY <1>1, <1>2, <1>3, <1>4 DEF Follows, Running, s

\* r may get an exception: it is not with the resolver, and no connect is due.
LEMMA HandleExceptionFollows ==
  ASSUME NEW r, Running(r), r.phase # "resolve", r.due \notin {"resolve", "connect"}
  PROVE  Follows(r, HandleException(r))
<1> DEFINE h == IF r.waiting
                THEN [r EXCEPT !.timer = NoTimer, !.unreleased = FALSE,
                               !.waiting = FALSE]
                ELSE r
<1>1. /\ h \in Connection /\ h.due = r.due /\ h.phase = r.phase
      /\ h.stream = r.stream /\ h.closeCb = r.closeCb /\ h.orphan = r.orphan
      /\ ~h.waiting /\ ~h.unreleased /\ h.timer = NoTimer
  <2>1. CASE r.waiting
    BY <2>1 DEF Running, Connection, NoTimer
  <2>2. CASE ~r.waiting
    BY <2>2 DEF Running, RecordOK, Started
  <2> QED
    BY <2>1, <2>2
<1>2. HandleException(r) = Close(h)
  BY DEF HandleException
<1> HIDE DEF h
<1>3. Follows(h, Close(h))
  BY <1>1, CloseFollows DEF Running, RecordOK, Started
<1> QED
  BY <1>1, <1>2, <1>3 DEF Follows

\* A method runs: its callback is no longer due.
Called(r) == Running(r) /\ r.due = "none" /\ r.phase = "idle"

\* The end of _on_body leaves nothing to do but the close callback.
LEMMA FinishFollows ==
  ASSUME NEW r, Called(r)
  PROVE  Follows(r, Finish(r)) /\ Over(Finish(r))
<1> DEFINE h == [r EXCEPT !.timer = NoTimer, !.unreleased = FALSE,
                          !.waiting = FALSE]
<1>1. /\ h \in Connection /\ h.due = "none" /\ h.phase = "idle"
      /\ h.stream = r.stream /\ h.closeCb = r.closeCb /\ h.orphan = r.orphan
      /\ ~h.waiting /\ ~h.unreleased /\ h.timer = NoTimer
  BY DEF Called, Running, Connection, NoTimer
<1>2. Finish(r) = Close(h)
  BY DEF Finish
<1> HIDE DEF h
<1>3. Follows(h, Close(h))
  BY <1>1, CloseFollows DEF Started
<1>4. /\ Close(h).stream # "open" /\ Close(h).waiting = h.waiting
      /\ Close(h).phase \in {h.phase, "idle"}
      /\ h.phase # "rest" /\ Close(h).due # h.due => Close(h).due = "close"
  BY <1>1, CloseFields
<1> QED
  BY <1>1, <1>2, <1>3, <1>4 DEF Follows, Over

\* A read goes on, or ends in one of the ways a stream ends it.
LEMMA ReadFollows ==
  ASSUME NEW r, Called(r), NEW w \in {"headers", "body", "rest"},
         NEW s \in Read(r, w)
  PROVE  Follows(r, s)
<1> DEFINE p == [r EXCEPT !.phase = w]
           d == Due(r, IF w = "rest" THEN "body" ELSE w)
<1>1. s = p \/ s = Close(p) \/ s = d \/ s = HandleException(r)
  BY DEF Read
<1>2. /\ p \in Connection /\ p.due = "none" /\ p.phase = w
      /\ p.stream = r.stream /\ p.closeCb = r.closeCb /\ p.orphan = r.orphan
      /\ p.waiting = r.waiting /\ p.unreleased = r.unreleased
      /\ p.timer = r.timer
  BY DEF Called, Running, Connection
<1>3. /\ d \in Connection /\ d.due \in {"headers", "body"} /\ d.phase = "idle"
      /\ d.stream = r.stream /\ d.orphan = r.orphan
      /\ d.waiting = r.waiting /\ d.unreleased = r.unreleased
      /\ d.timer = r.timer
  BY DueFields DEF Called, Running
<1> HIDE DEF p, d
<1>4. Follows(r, p) /\ Follows(r, d)
  BY <1>2, <1>3 DEF Follows, Called, Running, RecordOK, Started
<1>5. Follows(p, Close(p))
  BY <1>2, CloseFollows DEF Called, Running, RecordOK, Started
<1>6. Follows(r, HandleException(r))
  BY HandleExceptionFollows DEF Called
<1> QED
  BY <1>1, <1>2, <1>4, <1>5, <1>6 DEF Follows

\* _timeout may be set while the fetch is not answered.
LEMMA DeadlineFields ==
  ASSUME NEW r, Called(r), r.waiting, NEW t \in Nat
  PROVE  LET s == [r EXCEPT !.timer = Deadline(r, t)] IN
         /\ Called(s) /\ s.waiting /\ s.orphan = r.orphan
<1> DEFINE s == [r EXCEPT !.timer = Deadline(r, t)]
<1>1. Deadline(r, t) \in Nat \cup {NoTimer}
  BY DEF Deadline, Called, Running, Connection
<1>2. /\ s \in Connection /\ s.due = r.due /\ s.phase = r.phase
      /\ s.stream = r.stream /\ s.closeCb = r.closeCb /\ s.orphan = r.orphan
      /\ s.waiting = r.waiting /\ s.unreleased = r.unreleased
  BY <1>1 DEF Called, Running, Connection
<1> HIDE DEF s
<1>3. Called(s) /\ s.waiting /\ s.orphan = r.orphan
  BY <1>2 DEF Called, Running, RecordOK, Started
<1> QED
  BY <1>3 DEF s

\* _on_resolve: the name is known, or not.
LEMMA OnResolveFollows ==
  ASSUME NEW r, Called(r), r.waiting, NEW s \in OnResolve(r)
  PROVE  Follows(r, s)
<1> DEFINE t == IF ConnectTimeout < RequestTimeout THEN ConnectTimeout
                                                  ELSE RequestTimeout
           u == [r EXCEPT !.stream = "open", !.closeCb = TRUE,
                          !.phase = "connect", !.timer = Deadline(r, t)]
<1>1. s = HandleException(r) \/ s = u \/ s = Close(u)
  BY DEF OnResolve
<1>2. Deadline(r, t) \in Nat \cup {NoTimer}
  BY SimpleHTTPClientAssumption DEF Deadline, Called, Running, Connection
<1>3. /\ u \in Connection /\ u.due = "none" /\ u.phase = "connect"
      /\ u.stream = "open" /\ u.closeCb /\ u.orphan = r.orphan
      /\ u.waiting = r.waiting /\ u.unreleased = r.unreleased
  BY <1>2 DEF Called, Running, Connection
<1> HIDE DEF u
<1>4. u.waiting /\ u.unreleased
  BY <1>3 DEF Called, Running, RecordOK, Started
<1>5. Follows(r, u)
  BY <1>3, <1>4 DEF Follows, Running, RecordOK, Started
<1>6. Follows(u, Close(u))
  BY <1>3, <1>4, CloseFollows DEF Started
<1>7. Follows(r, HandleException(r))
  BY HandleExceptionFollows DEF Called
<1> QED
  BY <1>1, <1>3, <1>5, <1>6, <1>7 DEF Follows

\* _on_connect: the request is written, or refused.
LEMMA OnConnectFollows ==
  ASSUME NEW r, Called(r), r.waiting, NEW s \in OnConnect(r)
  PROVE  Follows(r, s)
<1> DEFINE t == [r EXCEPT !.timer = Deadline(r, RequestTimeout)]
<1>1. Called(t) /\ t.waiting /\ t.orphan = r.orphan
  BY DeadlineFields, SimpleHTTPClientAssumption
<1>2. s = HandleException(t) \/ s \in Read(t, "headers")
  BY DEF OnConnect
<1> HIDE DEF t
<1>3. Follows(t, HandleException(t))
  BY <1>1, HandleExceptionFollows DEF Called
<1>4. s \in Read(t, "headers") => Follows(t, s)
  BY <1>1, ReadFollows
<1> QED
  BY <1>1, <1>2, <1>3, <1>4 DEF Follows

\* _on_body and the reads that lead to it.
LEMMA OnBodyFollows ==
  ASSUME NEW r, Called(r), NEW s \in OnBody(r)
  PROVE  Follows(r, s)
<1>1. Follows(r, HandleException(r))
  BY HandleExceptionFollows DEF Called
<1> QED
  BY <1>1, FinishFollows, ReadFollows DEF OnBody

\* _on_headers, and what it may read next.
LEMMA OnHeadersFollows ==
  ASSUME NEW r, Called(r), NEW s \in OnHeaders(r)
  PROVE  Follows(r, s)
BY OnBodyFollows, ReadFollows DEF OnHeaders

\* A callback keeps the record well-formed, and the last one a handed-on
\* connection can run leaves it handed on.
LEMMA HandledFollows ==
  ASSUME NEW r, Running(r), r.due # "none",
         NEW s \in Handled(r.due, [r EXCEPT !.due = "none"])
  PROVE  /\ Follows(r, CloseCallback(s))
         /\ Over(r) => Over(CloseCallback(s))
<1> DEFINE t == [r EXCEPT !.due = "none"]
<1>1. /\ t \in Connection /\ t.due = "none" /\ t.phase = "idle"
      /\ t.stream = r.stream /\ t.closeCb = r.closeCb /\ t.orphan = r.orphan
      /\ t.waiting = r.waiting /\ t.unreleased = r.unreleased
      /\ t.timer = r.timer
  BY DEF Running, RecordOK, Connection
<1> HIDE DEF t
<1>2. Called(t)
  BY <1>1 DEF Called, Running, RecordOK, Started
<1>3. s \in Handled(r.due, t)
  BY DEF t
<1>4. r.due \in {"resolve", "connect", "headers", "body", "close"}
  BY DEF Running, Connection
<1>5. r.due \in {"resolve", "connect"} => t.waiting
  BY <1>1 DEF Running, RecordOK
<1>6. Follows(t, HandleException(t)) /\ Follows(t, t)
  BY <1>2, HandleExceptionFollows DEF Called, Follows
<1>7. Follows(t, s)
  <2>1. CASE r.due = "resolve"
    BY <2>1, <1>2, <1>3, <1>5, OnResolveFollows DEF Handled
  <2>2. CASE r.due = "connect"
    BY <2>2, <1>2, <1>3, <1>5, OnConnectFollows DEF Handled
  <2>3. CASE r.due = "headers"
    BY <2>3, <1>2, <1>3, OnHeadersFollows DEF Handled
  <2>4. CASE r.due = "body"
    BY <2>4, <1>2, <1>3, OnBodyFollows DEF Handled
  <2>5. CASE r.due = "close"
    BY <2>5, <1>3, <1>6 DEF Handled, OnClose
  <2> QED
    BY <1>4, <2>1, <2>2, <2>3, <2>4, <2>5
<1>8. Follows(s, CloseCallback(s))
  BY <1>7, CloseCallbackFollows DEF Follows
<1>9. ASSUME Over(r)
      PROVE  Over(CloseCallback(s))
  <2>1. s = t /\ ~t.waiting
    BY <1>1, <1>3, <1>9 DEF Over, Handled, OnClose
  <2>2. CASE CloseCallback(t) = t
    BY <1>1, <1>9, <2>1, <2>2 DEF Over
  <2>3. CASE CloseCallback(t) # t
    <3> DEFINE u == Due(t, "close")
    <3>1. CloseCallback(t) = [u EXCEPT !.closeCb = FALSE]
      BY <2>3 DEF CloseCallback
    <3>2. /\ u \in Connection /\ u.due = "close" /\ u.phase = "idle"
          /\ u.stream = t.stream /\ u.waiting = t.waiting
      BY <1>1, DueFields
    <3> HIDE DEF u
    <3>3. /\ CloseCallback(t).due = "close" /\ CloseCallback(t).phase = "idle"
          /\ CloseCallback(t).stream = t.stream
          /\ CloseCallback(t).waiting = t.waiting
      BY <3>1, <3>2 DEF Connection
    <3> QED
      BY <1>1, <1>9, <2>1, <3>3 DEF Over
  <2> QED
    BY <2>1, <2>2, <2>3
<1> QED
  BY <1>1, <1>7, <1>8, <1>9 DEF Follows

\* A timeout that fires finds the fetch not answered.
LEMMA TimeoutFollows ==
  ASSUME NEW r, Running(r), r.timer # NoTimer, r.due # "none" => r.inline
  PROVE  LET t == [r EXCEPT !.timer = NoTimer]
             s == IF t.waiting THEN HandleException(t) ELSE t
         IN  Follows(r, s)
<1> DEFINE t == [r EXCEPT !.timer = NoTimer]
<1>1. /\ t \in Connection /\ t.due = r.due /\ t.phase = r.phase
      /\ t.stream = r.stream /\ t.closeCb = r.closeCb /\ t.orphan = r.orphan
      /\ t.waiting = r.waiting /\ t.unreleased = r.unreleased
      /\ t.timer = NoTimer /\ t.inline = r.inline
  BY DEF Running, Connection
<1> HIDE DEF t
<1>2. t.waiting /\ t.phase # "resolve" /\ t.due \notin {"resolve", "connect"}
  BY <1>1 DEF Running, RecordOK, Started
<1>3. Running(t)
  BY <1>1, <1>2 DEF Running, RecordOK, Started
<1>4. Follows(t, HandleException(t))
  BY <1>2, <1>3, HandleExceptionFollows
<1>5. Follows(r, HandleException(t))
  BY <1>1, <1>4 DEF Follows
<1> QED
  BY <1>2, <1>5 DEF t

\* The resolver's answer only makes _on_resolve due.
LEMMA ResolvedFollows ==
  ASSUME NEW r, Running(r), r.phase = "resolve"
  PROVE  Follows(r, Due(r, "resolve"))
<1> DEFINE s == Due(r, "resolve")
<1>1. /\ s \in Connection /\ s.due = "resolve" /\ s.phase = "idle"
      /\ s.stream = r.stream /\ s.waiting = r.waiting /\ s.timer = r.timer
      /\ s.unreleased = r.unreleased /\ s.orphan = r.orphan
  BY DueFields DEF Running
<1> HIDE DEF s
<1>2. Follows(r, s)
  BY <1>1 DEF Follows, Running, RecordOK, Started
<1> QED
  BY <1>2 DEF s

\* What was asked for has come, or the stream is closed.
LEMMA ArrivalFollows ==
  ASSUME NEW r, Running(r), r.stream = "open",
         r.phase \in {"connect", "headers", "body"}
  PROVE  Follows(r, Arrived(r)) /\ Arrived(r).waiting = r.waiting
<1> DEFINE u == Due(r, r.phase)
           s == [u EXCEPT !.inline = FALSE]
<1>1. /\ u \in Connection /\ u.due = r.phase /\ u.phase = "idle"
      /\ u.stream = r.stream /\ u.waiting = r.waiting /\ u.timer = r.timer
      /\ u.unreleased = r.unreleased /\ u.orphan = r.orphan
  BY DueFields DEF Running
<1> HIDE DEF u
<1>2. /\ s \in Connection /\ s.due = r.phase /\ s.phase = "idle" /\ ~s.inline
      /\ s.stream = r.stream /\ s.waiting = r.waiting /\ s.timer = r.timer
      /\ s.unreleased = r.unreleased /\ s.orphan = r.orphan
  BY <1>1 DEF Connection
<1> HIDE DEF s
<1>3. Follows(r, s)
  BY <1>2 DEF Follows, Running, RecordOK, Started
<1> QED
  BY <1>2, <1>3 DEF s, u, Arrived

\* The end of the connection loses neither callback.
LEMMA EndFollows ==
  ASSUME NEW r, Running(r), r.stream = "open"
  PROVE  Follows(r, Ended(r)) /\ Ended(r).waiting = r.waiting
<1> DEFINE u == Close(r)
           s == [u EXCEPT !.inline = r.due # "none" /\ u.inline]
<1>1. /\ u \in Connection /\ u.stream # "open" /\ u.waiting = r.waiting
      /\ u.due = r.due => u.inline = r.inline
  BY CloseFields DEF Running, RecordOK
<1>2. Follows(r, u)
  BY CloseFollows DEF Running, RecordOK, Started
<1> HIDE DEF u
<1>3. /\ s \in Connection /\ s.due = u.due /\ s.phase = u.phase
      /\ s.stream = u.stream /\ s.closeCb = u.closeCb /\ s.orphan = u.orphan
      /\ s.waiting = u.waiting /\ s.unreleased = u.unreleased
      /\ s.timer = u.timer /\ s.inline = (r.due # "none" /\ u.inline)
  BY <1>1 DEF Connection
<1> HIDE DEF s
<1>4. Running(s)
  BY <1>1, <1>2, <1>3 DEF Follows, Running, RecordOK, Started
<1>5. Follows(r, s) /\ s.waiting = r.waiting
  BY <1>1, <1>2, <1>3, <1>4 DEF Follows
<1> QED
  BY <1>5 DEF s, u, Ended

-----------------------------------------------------------------------------
(* The books.                                                              *)

\* There are finitely many connections, so the slots can be counted.
LEMMA ConnsFinite == IsFiniteSet(Conns)
<1>1. IsFiniteSet(0..MaxRedirects)
  BY SimpleHTTPClientAssumption, FS_Interval
<1> QED
  BY <1>1, SimpleHTTPClientAssumption, FS_Product DEF Conns

\* Counting the connections of a set without those of a part of it.
LEMMA SubsetCount ==
  ASSUME NEW S \in SUBSET Conns, NEW T \in SUBSET S
  PROVE  /\ IsFiniteSet(S) /\ Cardinality(S) \in Nat /\ Cardinality(T) \in Nat
         /\ Cardinality(T) <= Cardinality(S)
         /\ Cardinality(S \ T) = Cardinality(S) - Cardinality(T)
<1>1. IsFiniteSet(S) /\ IsFiniteSet(T)
  BY ConnsFinite, FS_Subset
<1>2. Cardinality(S) \in Nat /\ Cardinality(T) \in Nat
  BY <1>1, FS_CardinalityType
<1>3. Cardinality(T) <= Cardinality(S)
  BY <1>1, FS_Subset
<1>4. Cardinality(S \ T) = Cardinality(S) - Cardinality(S \cap T)
  BY <1>1, FS_Difference
<1>5. S \cap T = T
  OBVIOUS
<1> QED
  BY <1>1, <1>2, <1>3, <1>4, <1>5

\* Counting the connections of two sets that share none.
LEMMA DisjointCount ==
  ASSUME NEW S \in SUBSET Conns, NEW T \in SUBSET Conns, S \cap T = {}
  PROVE  Cardinality(S \cup T) = Cardinality(S) + Cardinality(T)
<1>1. IsFiniteSet(S) /\ IsFiniteSet(T)
  BY ConnsFinite, FS_Subset
<1>2. Cardinality(S) \in Nat /\ Cardinality(T) \in Nat
  BY <1>1, FS_CardinalityType
<1>3. Cardinality(S \cup T)
        = Cardinality(S) + Cardinality(T) - Cardinality(S \cap T)
  BY <1>1, FS_Union
<1>4. Cardinality(S \cap T) = 0
  BY FS_EmptySet
<1> QED
  BY <1>2, <1>3, <1>4

\* A running connection goes on, and gives up its slot when it has its answer.
LEMMA BecomeBooks ==
  ASSUME NEW cs, NEW q, NEW act, NEW ans, NEW c \in Conns, NEW r,
         Books(cs, q, act, ans, {}), Follows(cs[c], r), Started(cs[c]),
         Over(cs[c]) => Over(r)
  PROVE  LET done == IF cs[c].waiting /\ ~r.waiting THEN {c} ELSE {}
         IN  Books([cs EXCEPT ![c] = r], q, act \ done, ans, done)
<1> DEFINE ds   == [cs EXCEPT ![c] = r]
           done == IF cs[c].waiting /\ ~r.waiting THEN {c} ELSE {}
<1>1. /\ q \in Seq(Conns) /\ act \subseteq Conns
      /\ cs \in [Conns -> Connection] /\ ans \in [Fetches -> Nat]
      /\ \A d \in Conns : RecordOK(cs[d])
      /\ HandedOn(cs) /\ QueueOK(cs, q) /\ SlotsOK(cs, act)
      /\ AnswersOK(cs, ans, {})
  BY DEF Books
<1>2. /\ r \in Connection /\ RecordOK(r) /\ Started(r)
      /\ r.orphan = cs[c].orphan /\ (r.waiting => cs[c].waiting)
  BY DEF Follows, Running
<1>3. ds \in [Conns -> Connection] /\ ds[c] = r
      /\ \A d \in Conns \ {c} : ds[d] = cs[d]
  BY <1>1, <1>2
<1> HIDE DEF ds
<1>4. \A d \in Conns : RecordOK(ds[d])
  BY <1>1, <1>2, <1>3
<1>5. HandedOn(ds)
  <2> SUFFICES ASSUME NEW b \in Conns, NEW d \in Conns,
                      d = <<b[1], b[2] + 1>>, ds[d].phase # "unused"
               PROVE  Over(ds[b])
    BY DEF HandedOn
  <2>1. cs[d].phase # "unused"
    BY <1>3 DEF Started
  <2>2. Over(cs[b])
    BY <1>1, <2>1 DEF HandedOn
  <2> QED
    BY <1>3, <2>2
<1>6. QueueOK(ds, q)
  <2>1. \A i \in 1..Len(q) : q[i] \in Conns /\ q[i] # c
    BY <1>1 DEF QueueOK, Started
  <2> QED
    BY <1>1, <1>3, <2>1 DEF QueueOK
<1>7. /\ cs[c].waiting \in BOOLEAN /\ cs[c].unreleased \in BOOLEAN
      /\ r.waiting \in BOOLEAN /\ r.unreleased \in BOOLEAN
      /\ (cs[c].waiting <=> cs[c].unreleased) /\ (r.waiting <=> r.unreleased)
  BY <1>1, <1>2 DEF Connection, RecordOK, Started
<1>8. SlotsOK(ds, act \ done)
  <2>1. act = {d \in Conns : cs[d].unreleased} /\ Cardinality(act) <= MaxClients
    BY <1>1 DEF SlotsOK
  <2>2. act \ done = {d \in Conns : ds[d].unreleased}
    BY <1>2, <1>3, <1>7, <2>1
  <2>3. Cardinality(act \ done) <= Cardinality(act)
        /\ Cardinality(act) \in Nat /\ Cardinality(act \ done) \in Nat
    BY <1>1, SubsetCount
  <2> QED
    BY <2>1, <2>2, <2>3, SimpleHTTPClientAssumption DEF SlotsOK
<1>9. AnswersOK(ds, ans, done)
  <2> SUFFICES ASSUME NEW f \in Fetches
      PROVE ans[f] + Cardinality({d \in done : d[1] = f /\ ~ds[d].orphan})
                   + Cardinality(WaitersIn(ds, f))
              = IF ds[<<f, 0>>].phase = "unused" THEN 0 ELSE 1
    BY DEF AnswersOK
  <2> DEFINE D == {d \in done : d[1] = f /\ ~ds[d].orphan}
             W == WaitersIn(cs, f)
  <2>1. W \subseteq Conns /\ D \subseteq W /\ WaitersIn(ds, f) = W \ D
    BY <1>2, <1>3 DEF WaitersIn
  <2>2. /\ Cardinality(W) \in Nat /\ Cardinality(D) \in Nat
        /\ Cardinality(W \ D) = Cardinality(W) - Cardinality(D)
    BY <2>1, SubsetCount
  <2>3. {d \in {} : d[1] = f /\ ~cs[d].orphan} = {}
    OBVIOUS
  <2>4. ans[f] + Cardinality(W)
          = IF cs[<<f, 0>>].phase = "unused" THEN 0 ELSE 1
    BY <1>1, <2>2, <2>3, FS_EmptySet DEF AnswersOK
  <2>5. <<f, 0>> \in Conns
    BY SimpleHTTPClientAssumption DEF Conns
  <2>6. ds[<<f, 0>>].phase = "unused" <=> cs[<<f, 0>>].phase = "unused"
    BY <1>2, <1>3, <2>5 DEF Started
  <2> HIDE DEF D, W
  <2>7. ans[f] \in Nat
    BY <1>1
  <2> QED
    BY <2>1, <2>2, <2>4, <2>6, <2>7 DEF D
<1>10. done \subseteq {d \in Conns : ~ds[d].waiting} /\ act \ done \subseteq Conns
  BY <1>1, <1>3
<1> QED
  BY <1>1, <1>3, <1>4, <1>5, <1>6, <1>8, <1>9, <1>10 DEF Books, ds

\* _HTTPConnection.__init__ takes a slot unless it fails on the URL.
LEMMA OpenedFields ==
  ASSUME NEW r \in Connection, r.phase = "queued", RecordOK(r), clock \in Nat
  PROVE  /\ Opened(r) \in Connection /\ RecordOK(Opened(r)) /\ Started(Opened(r))
         /\ Opened(r).waiting = ~r.bad /\ Opened(r).unreleased = ~r.bad
         /\ Opened(r).orphan = r.orphan
<1> DEFINE s == Opened(r)
<1>1. /\ s \in Connection /\ s.due = r.due /\ s.stream = r.stream
      /\ s.timer = r.timer /\ s.orphan = r.orphan
      /\ s.phase = IF r.bad THEN "idle" ELSE "resolve"
      /\ s.waiting = ~r.bad /\ s.unreleased = ~r.bad
  BY DEF Opened, Connection
<1> HIDE DEF s
<1>2. RecordOK(s) /\ Started(s)
  BY <1>1 DEF RecordOK, Started
<1> QED
  BY <1>1, <1>2 DEF s

\* _process_queue starts as many fetches as there are slots, and answers those
\* whose URL is bad.
LEMMA ProcessQueueBooks ==
  ASSUME NEW cs, NEW q, NEW act, NEW done, clock \in Nat,
         Books(cs, q, act, answers, done), ProcessQueue(cs, q, act, done)
  PROVE  Books(conn', queue', active', answers', {}) /\ QueueWaitsForSlots'
<1>1. /\ q \in Seq(Conns) /\ act \subseteq Conns
      /\ cs \in [Conns -> Connection] /\ answers \in [Fetches -> Nat]
      /\ done \subseteq {d \in Conns : ~cs[d].waiting}
      /\ \A d \in Conns : RecordOK(cs[d])
      /\ HandedOn(cs) /\ QueueOK(cs, q) /\ SlotsOK(cs, act)
      /\ AnswersOK(cs, answers, done)
  BY DEF Books
<1>2. PICK n \in 0..Len(q) :
        LET begun   == Front(q, n)
            refused == {d \in begun : cs[d].bad}
        IN  /\ \A k \in 0..(n - 1) : HasRoom(cs, act, Front(q, k))
            /\ n = Len(q) \/ ~HasRoom(cs, act, begun)
            /\ queue' = SubSeq(q, n + 1, Len(q))
            /\ active' = act \cup (begun \ refused)
            /\ conn' = [d \in Conns |->
                          IF d \in begun THEN Opened(cs[d]) ELSE cs[d]]
            /\ answers' = Answered(cs, done \cup refused)
  BY DEF ProcessQueue
<1> DEFINE begun   == Front(q, n)
           refused == {d \in begun : cs[d].bad}
           opened  == {d \in begun : ~cs[d].bad}
<1>3. /\ \A i \in 1..Len(q) : q[i] \in Conns
      /\ begun = {q[i] : i \in 1..n} /\ begun \subseteq Conns
      /\ \A d \in begun : cs[d].phase = "queued"
  BY <1>1 DEF Front, QueueOK
<1>4. \A d \in begun : /\ cs[d] \in Connection /\ cs[d].waiting
                       /\ ~cs[d].unreleased /\ cs[d].bad \in BOOLEAN
  BY <1>1, <1>3 DEF Connection, RecordOK
<1>5. \A d \in begun :
        /\ conn'[d] \in Connection /\ RecordOK(conn'[d]) /\ Started(conn'[d])
        /\ conn'[d].waiting = ~cs[d].bad /\ conn'[d].unreleased = ~cs[d].bad
        /\ conn'[d].orphan = cs[d].orphan
  BY <1>1, <1>2, <1>3, <1>4, OpenedFields
<1>6. \A d \in Conns \ begun : conn'[d] = cs[d]
  BY <1>2
<1>7. conn' \in [Conns -> Connection] /\ \A d \in Conns : RecordOK(conn'[d])
  BY <1>1, <1>2, <1>5, <1>6
<1>8. HandedOn(conn')
  <2> SUFFICES ASSUME NEW b \in Conns, NEW d \in Conns,
                      d = <<b[1], b[2] + 1>>, conn'[d].phase # "unused"
               PROVE  Over(conn'[b])
    BY DEF HandedOn
  <2>1. cs[d].phase # "unused"
    BY <1>3, <1>6
  <2>2. Over(cs[b])
    BY <1>1, <2>1 DEF HandedOn
  <2> QED
    BY <1>3, <1>6, <2>2 DEF Over
<1>9. queue' \in Seq(Conns) /\ QueueOK(conn', queue')
  <2>1. \A i \in (n + 1)..Len(q) : q[i] \in Conns
    BY <1>3
  <2>2. /\ queue' \in Seq(Conns)
        /\ Len(queue') = IF n + 1 <= Len(q) THEN Len(q) - n ELSE 0
        /\ \A i \in 1..(Len(q) - n) : queue'[i] = q[n + i]
    <3>1. n \in Int /\ n + 1 \in Int /\ Len(q) \in Int
      BY <1>1
    <3> DEFINE s == SubSeq(q, n + 1, Len(q))
    <3>2. /\ s \in Seq(Conns)
          /\ Len(s) = IF n + 1 <= Len(q) THEN Len(q) - (n + 1) + 1 ELSE 0
          /\ \A i \in 1..(Len(q) - (n + 1) + 1) : s[i] = q[n + 1 + i - 1]
      BY <2>1, <3>1, SubSeqProperties
    <3>3. queue' = s
      BY <1>2
    <3> HIDE DEF s
    <3> QED
      BY <3>1, <3>2, <3>3
  <2>3. \A i \in 1..Len(queue') : n + i \in 1..Len(q) /\ queue'[i] = q[n + i]
    BY <1>1, <2>2
  <2>4. \A i \in 1..Len(queue') : queue'[i] \in Conns \ begun
    <3> SUFFICES ASSUME NEW i \in 1..Len(queue')
                 PROVE  q[n + i] \in Conns \ begun
      BY <2>3
    <3>1. n + i \in (n + 1)..Len(q)
      BY <1>1, <2>2, <2>3
    <3>2. \A k \in 1..n : k # n + i /\ k \in 1..Len(q)
      BY <1>1, <3>1
    <3>3. q[n + i] \in Conns /\ n + i \in 1..Len(q)
      BY <1>3, <2>3
    <3>4. \A k \in 1..n : q[k] # q[n + i]
      BY <1>1, <3>2, <3>3 DEF QueueOK
    <3> QED
      BY <1>3, <3>3, <3>4
  <2>5. \A i \in 1..Len(queue') : conn'[queue'[i]].phase = "queued"
    BY <1>1, <1>6, <2>3, <2>4 DEF QueueOK
  <2>6. \A i, j \in 1..Len(queue') : queue'[i] = queue'[j] => i = j
    BY <1>1, <2>2, <2>3 DEF QueueOK
  <2> QED
    BY <2>2, <2>5, <2>6 DEF QueueOK
<1> HIDE DEF begun, refused, opened
<1>10. /\ active' = act \cup opened /\ opened \subseteq begun
       /\ opened = {d \in begun : ~cs[d].bad}
       /\ refused = {d \in begun : cs[d].bad}
  BY <1>2 DEF begun, refused, opened
<1>11. act = {d \in Conns : cs[d].unreleased} /\ Cardinality(act) <= MaxClients
  BY <1>1 DEF SlotsOK
<1>12. /\ Cardinality(active') = Cardinality(act) + Cardinality(opened)
       /\ Cardinality(act) \in Nat /\ Cardinality(opened) \in Nat
  <2>1. act \cap opened = {}
    BY <1>3, <1>4, <1>10, <1>11
  <2>2. act \in SUBSET Conns /\ opened \in SUBSET Conns
    BY <1>1, <1>3, <1>10
  <2> QED
    BY <1>10, <2>1, <2>2, DisjointCount, SubsetCount
<1>13. Cardinality(active') <= MaxClients
  <2>1. CASE n = 0
    <3>1. opened = {}
      BY <1>3, <1>10, <2>1
    <3> QED
      BY <1>11, <1>12, <3>1, FS_EmptySet
  <2>2. CASE n > 0
    <3> DEFINE E == {d \in Front(q, n - 1) : ~cs[d].bad}
    <3>1. Cardinality(act) + Cardinality(E) < MaxClients
      BY <1>2, <2>2 DEF HasRoom
    <3>2. E \subseteq Conns /\ opened \subseteq E \cup {q[n]}
          /\ E \cup {q[n]} \subseteq Conns
      BY <1>3, <1>10, <2>2 DEF Front
    <3> HIDE DEF E
    <3>3. IsFiniteSet(E) /\ Cardinality(E) \in Nat
      BY <3>2, SubsetCount
    <3>4. Cardinality(E \cup {q[n]}) <= Cardinality(E) + 1
      <4>1. Cardinality(E \cup {q[n]})
              = IF q[n] \in E THEN Cardinality(E) ELSE Cardinality(E) + 1
        BY <3>3, FS_AddElement
      <4> QED
        BY <3>3, <4>1
    <3>5. /\ Cardinality(opened) <= Cardinality(E \cup {q[n]})
          /\ Cardinality(E \cup {q[n]}) \in Nat
      <4> DEFINE S == E \cup {q[n]}
      <4>1. S \in SUBSET Conns /\ opened \in SUBSET S
        BY <3>2
      <4> HIDE DEF S
      <4>2. Cardinality(opened) <= Cardinality(S) /\ Cardinality(S) \in Nat
        BY <4>1, SubsetCount
      <4> QED
        BY <4>2 DEF S
    <3> QED
      BY <1>12, <3>1, <3>3, <3>4, <3>5, SimpleHTTPClientAssumption
  <2> QED
    BY <2>1, <2>2
<1>14. SlotsOK(conn', active')
  <2>1. active' = {d \in Conns : conn'[d].unreleased}
    BY <1>3, <1>4, <1>5, <1>6, <1>10, <1>11
  <2> QED
    BY <1>13, <2>1 DEF SlotsOK
<1>15. QueueWaitsForSlots'
  <2> SUFFICES ASSUME queue' # <<>>
               PROVE  Cardinality(active') = MaxClients
    BY DEF QueueWaitsForSlots
  <2>1. n # Len(q)
    BY <1>1, <1>2, SubSeqEmpty
  <2>2. ~(Cardinality(act) + Cardinality(opened) < MaxClients)
    BY <1>2, <2>1 DEF HasRoom, opened, begun
  <2> QED
    BY <1>12, <1>13, <2>2, SimpleHTTPClientAssumption
<1>16. answers' \in [Fetches -> Nat] /\ AnswersOK(conn', answers', {})
  <2>1. ASSUME NEW f \in Fetches
        PROVE  /\ answers'[f] \in Nat
               /\ answers'[f]
                   + Cardinality({d \in {} : d[1] = f /\ ~conn'[d].orphan})
                   + Cardinality(WaitersIn(conn', f))
                   = IF conn'[<<f, 0>>].phase = "unused" THEN 0 ELSE 1
    <3> DEFINE D == {d \in done : d[1] = f /\ ~cs[d].orphan}
               R == {d \in refused : d[1] = f /\ ~cs[d].orphan}
               W == WaitersIn(cs, f)
    <3>1. /\ D \subseteq Conns /\ R \subseteq Conns /\ D \cap R = {}
          /\ W \subseteq Conns /\ R \subseteq W
      BY <1>1, <1>3, <1>4, <1>10 DEF WaitersIn
    <3>2. WaitersIn(conn', f) = W \ R
      BY <1>3, <1>4, <1>5, <1>6, <1>10 DEF WaitersIn
    <3>3. /\ {d \in done \cup refused : d[1] = f /\ ~cs[d].orphan} = D \cup R
          /\ {d \in {} : d[1] = f /\ ~conn'[d].orphan} = {}
      OBVIOUS
    <3>4. answers'[f] = answers[f] + Cardinality(D \cup R)
      BY <1>2, <3>3 DEF Answered, refused, begun
    <3>5. answers[f] + Cardinality(D) + Cardinality(W)
            = IF cs[<<f, 0>>].phase = "unused" THEN 0 ELSE 1
      BY <1>1 DEF AnswersOK
    <3>6. <<f, 0>> \in Conns
      BY SimpleHTTPClientAssumption DEF Conns
    <3>7. conn'[<<f, 0>>].phase = "unused" <=> cs[<<f, 0>>].phase = "unused"
      BY <1>3, <1>5, <1>6, <3>6 DEF Started
    <3> HIDE DEF D, R, W
    <3>8. /\ Cardinality(D \cup R) = Cardinality(D) + Cardinality(R)
          /\ Cardinality(W \ R) = Cardinality(W) - Cardinality(R)
          /\ Cardinality(D) \in Nat /\ Cardinality(R) \in Nat
          /\ Cardinality(W) \in Nat
      BY <3>1, DisjointCount, SubsetCount
    <3>9. answers[f] \in Nat
      BY <1>1
    <3>10. Cardinality({d \in {} : d[1] = f /\ ~conn'[d].orphan}) = 0
      BY <3>3, FS_EmptySet
    <3>11. answers'[f] \in Nat
      BY <3>4, <3>8, <3>9
    <3>12. answers'[f] + 0 + Cardinality(WaitersIn(conn', f))
             = IF conn'[<<f, 0>>].phase = "unused" THEN 0 ELSE 1
      BY <3>2, <3>4, <3>5, <3>7, <3>8, <3>9
    <3> QED
      BY <3>10, <3>11, <3>12
  <2>2. answers' = [f \in Fetches |-> answers'[f]]
    BY <1>2 DEF Answered
  <2> QED
    BY <2>1, <2>2 DEF AnswersOK
<1>17. active' \subseteq Conns
  BY <1>1, <1>3, <1>10
<1> QED
  BY <1>7, <1>8, <1>9, <1>14, <1>15, <1>16, <1>17 DEF Books

\* A new connection d waits for the answer that done leaves open, and is the
\* first of its fetch if done leaves none.
TakesOver(cs, done, d, orphan) ==
  \A f \in Fetches :
    Cardinality({b \in done : b[1] = f /\ ~cs[b].orphan})
      + (IF d = <<f, 0>> THEN 1 ELSE 0)
    = IF d[1] = f /\ ~orphan THEN 1 ELSE 0

\* Such a connection joins the queue.
LEMMA HopBooks ==
  ASSUME NEW cs, NEW q, NEW act, NEW ans, NEW done,
         Books(cs, q, act, ans, done), NEW d \in Conns, cs[d].phase = "unused",
         \A b \in Conns : d = <<b[1], b[2] + 1>> => Over(cs[b]),
         NEW orphan \in BOOLEAN, NEW bad \in BOOLEAN,
         TakesOver(cs, done, d, orphan)
  PROVE  Books([cs EXCEPT ![d] = Hop(orphan, bad)], Append(q, d), act, ans, {})
<1> DEFINE r  == Hop(orphan, bad)
           ds == [cs EXCEPT ![d] = r]
           p  == Append(q, d)
<1>1. /\ q \in Seq(Conns) /\ act \subseteq Conns
      /\ cs \in [Conns -> Connection] /\ ans \in [Fetches -> Nat]
      /\ \A b \in Conns : RecordOK(cs[b])
      /\ HandedOn(cs) /\ QueueOK(cs, q) /\ SlotsOK(cs, act)
      /\ AnswersOK(cs, ans, done) /\ done \subseteq Conns
  BY DEF Books
<1>2. /\ r \in Connection /\ r.phase = "queued" /\ r.due = "none"
      /\ r.stream = "none" /\ r.waiting /\ ~r.unreleased /\ r.timer = NoTimer
      /\ r.orphan = orphan
  BY DEF Hop, Unused, Connection, NoTimer
<1> HIDE DEF r
<1>3. ds \in [Conns -> Connection] /\ ds[d] = r
      /\ \A b \in Conns \ {d} : ds[b] = cs[b]
  BY <1>1, <1>2
<1> HIDE DEF ds
<1>4. \A b \in Conns : RecordOK(ds[b])
  BY <1>1, <1>2, <1>3 DEF RecordOK
<1>5. HandedOn(ds)
  <2> SUFFICES ASSUME NEW b \in Conns, NEW e \in Conns,
                      e = <<b[1], b[2] + 1>>, ds[e].phase # "unused"
               PROVE  Over(ds[b])
    BY DEF HandedOn
  <2>1. Over(cs[b])
    BY <1>1, <1>3 DEF HandedOn
  <2>2. b # d
    BY <2>1 DEF Over
  <2> QED
    BY <1>3, <2>1, <2>2
<1>6. p \in Seq(Conns) /\ QueueOK(ds, p)
  <2>1. /\ p \in Seq(Conns) /\ Len(p) = Len(q) + 1 /\ p[Len(q) + 1] = d
        /\ \A i \in 1..Len(q) : p[i] = q[i] /\ q[i] \in Conns
    BY <1>1
  <2>2. \A i \in 1..Len(q) : q[i] # d
    BY <1>1 DEF QueueOK
  <2>3. \A i \in 1..Len(p) : i \in 1..Len(q) \/ i = Len(q) + 1
    BY <1>1, <2>1
  <2> HIDE DEF p
  <2>4. \A i \in 1..Len(p) : ds[p[i]].phase = "queued"
    BY <1>1, <1>2, <1>3, <2>1, <2>2, <2>3 DEF QueueOK
  <2>5. \A i, j \in 1..Len(p) : p[i] = p[j] => i = j
    BY <1>1, <2>1, <2>2, <2>3 DEF QueueOK
  <2> QED
    BY <2>1, <2>4, <2>5 DEF QueueOK
<1>7. SlotsOK(ds, act)
  BY <1>1, <1>2, <1>3 DEF SlotsOK, RecordOK
<1>8. AnswersOK(ds, ans, {})
  <2> SUFFICES ASSUME NEW f \in Fetches
      PROVE ans[f] + Cardinality({b \in {} : b[1] = f /\ ~ds[b].orphan})
                   + Cardinality(WaitersIn(ds, f))
              = IF ds[<<f, 0>>].phase = "unused" THEN 0 ELSE 1
    BY DEF AnswersOK
  <2> DEFINE D == {b \in done : b[1] = f /\ ~cs[b].orphan}
             W == WaitersIn(cs, f)
             mine == d[1] = f /\ ~orphan
  <2>1. Cardinality({b \in {} : b[1] = f /\ ~ds[b].orphan}) = 0
    BY FS_EmptySet
  <2>2. W \subseteq Conns /\ d \notin W /\ D \subseteq Conns
    BY <1>1 DEF WaitersIn, RecordOK
  <2>3. WaitersIn(ds, f) = IF mine THEN W \cup {d} ELSE W
    BY <1>2, <1>3, <2>2 DEF WaitersIn
  <2>4. <<f, 0>> \in Conns
    BY SimpleHTTPClientAssumption DEF Conns
  <2>5. ds[<<f, 0>>].phase = "unused"
          <=> cs[<<f, 0>>].phase = "unused" /\ d # <<f, 0>>
    BY <1>2, <1>3, <2>4
  <2>6. ans[f] + Cardinality(D) + Cardinality(W)
          = IF cs[<<f, 0>>].phase = "unused" THEN 0 ELSE 1
    BY <1>1 DEF AnswersOK
  <2>7. Cardinality(D) + (IF d = <<f, 0>> THEN 1 ELSE 0)
          = IF mine THEN 1 ELSE 0
    BY DEF TakesOver
  <2> HIDE DEF D, W, mine
  <2>8. /\ IsFiniteSet(W) /\ Cardinality(W) \in Nat /\ Cardinality(D) \in Nat
        /\ ans[f] \in Nat
    BY <1>1, <2>2, SubsetCount
  <2>9. Cardinality(W \cup {d}) = Cardinality(W) + 1
    BY <2>2, <2>8, FS_AddElement
  <2>10. Cardinality(WaitersIn(ds, f))
           = Cardinality(W) + IF mine THEN 1 ELSE 0
    BY <2>3, <2>8, <2>9
  <2>11. ans[f] + 0 + Cardinality(WaitersIn(ds, f))
           = IF ds[<<f, 0>>].phase = "unused" THEN 0 ELSE 1
    <3>1. CASE d = <<f, 0>>
      <4>1. Cardinality(D) = 0 /\ mine
        BY <3>1, <2>7, <2>8
      <4>2. ans[f] + Cardinality(W) = 0
        BY <3>1, <4>1, <2>6, <2>8
      <4>3. ~(ds[<<f, 0>>].phase = "unused")
        BY <3>1, <2>5
      <4> QED
        BY <4>1, <4>2, <4>3, <2>8, <2>10
    <3>2. CASE d # <<f, 0>>
      BY <3>2, <2>5, <2>6, <2>7, <2>8, <2>10
    <3> QED
      BY <3>1, <3>2
  <2> QED
    BY <2>1, <2>11
<1> HIDE DEF p
<1> QED
  BY <1>1, <1>3, <1>4, <1>5, <1>6, <1>7, <1>8 DEF Books, ds, r, p

-----------------------------------------------------------------------------
(* The steps.                                                              *)

\* A new client has nothing in its books.
LEMMA InitIInv == Init => IInv
<1> SUFFICES ASSUME Init PROVE IInv
  OBVIOUS
<1>1. Unused \in Connection /\ RecordOK(Unused)
  BY DEF Unused, Connection, RecordOK, NoTimer
<1>2. \A c \in Conns : conn[c] = Unused
  BY DEF Init
<1>3. HandedOn(conn) /\ QueueOK(conn, queue)
  BY <1>2 DEF HandedOn, QueueOK, Init, Unused
<1>4. SlotsOK(conn, active)
  <2>1. active = {c \in Conns : conn[c].unreleased}
    BY <1>2 DEF Init, Unused
  <2> QED
    BY <2>1, FS_EmptySet, SimpleHTTPClientAssumption DEF SlotsOK, Init
<1>5. AnswersOK(conn, answers, {})
  <2> SUFFICES ASSUME NEW f \in Fetches
      PROVE answers[f] + Cardinality({d \in {} : d[1] = f /\ ~conn[d].orphan})
                       + Cardinality(WaitersIn(conn, f))
              = IF conn[<<f, 0>>].phase = "unused" THEN 0 ELSE 1
    BY DEF AnswersOK
  <2>1. WaitersIn(conn, f) = {}
        /\ {d \in {} : d[1] = f /\ ~conn[d].orphan} = {}
    BY <1>2 DEF WaitersIn, Unused
  <2>2. <<f, 0>> \in Conns
    BY SimpleHTTPClientAssumption DEF Conns
  <2>3. conn[<<f, 0>>].phase = "unused" /\ answers[f] = 0
    BY <1>2, <2>2 DEF Init, Unused
  <2> QED
    BY <2>1, <2>3, FS_EmptySet
<1> QED
  BY <1>1, <1>2, <1>3, <1>4, <1>5
  DEF IInv, Books, Init, QueueWaitsForSlots

\* Become(c, r), with the queue that a slot given up sets in motion.
LEMMA BecomeIInv ==
  ASSUME IInv, NEW c \in Conns, NEW r, Follows(conn[c], r), Started(conn[c]),
         Over(conn[c]) => Over(r), Become(c, r), clock' = clock
  PROVE  IInv'
<1> DEFINE cs   == [conn EXCEPT ![c] = r]
           done == IF conn[c].waiting /\ ~r.waiting THEN {c} ELSE {}
<1>1. Books(cs, queue, active \ done, answers, done)
  BY BecomeBooks DEF IInv
<1>2. /\ conn[c].waiting \in BOOLEAN /\ conn[c].unreleased \in BOOLEAN
      /\ r.waiting \in BOOLEAN /\ r.unreleased \in BOOLEAN
      /\ (conn[c].waiting <=> conn[c].unreleased)
      /\ (r.waiting <=> r.unreleased)
  BY DEF IInv, Books, Follows, Running, Connection, RecordOK, Started
<1>3. CASE conn[c].unreleased /\ ~r.unreleased
  <2>1. done = {c}
    BY <1>2, <1>3
  <2>2. ProcessQueue(cs, queue, active \ {c}, done)
    BY <1>3 DEF Become, ReleaseFetch
  <2> HIDE DEF cs, done
  <2>3. Books(conn', queue', active', answers', {}) /\ QueueWaitsForSlots'
    BY <1>1, <2>1, <2>2, ProcessQueueBooks DEF IInv
  <2> QED
    BY <2>3 DEF IInv
<1>4. CASE ~(conn[c].unreleased /\ ~r.unreleased)
  <2>1. done = {} /\ active \ done = active
    BY <1>2, <1>4
  <2>2. /\ conn' = cs /\ answers' = Answered(cs, {})
        /\ queue' = queue /\ active' = active
    BY <1>4, <2>1 DEF Become
  <2> HIDE DEF cs, done
  <2>3. answers' = answers
    <3>1. \A f \in Fetches : {d \in {} : d[1] = f /\ ~cs[d].orphan} = {}
      OBVIOUS
    <3>2. \A f \in Fetches :
            Cardinality({d \in {} : d[1] = f /\ ~cs[d].orphan}) = 0
      BY <3>1, FS_EmptySet
    <3>3. answers \in [Fetches -> Nat]
      BY DEF IInv, Books
    <3> QED
      BY <2>2, <3>2, <3>3 DEF Answered
  <2>4. Books(conn', queue', active', answers', {})
    BY <1>1, <2>1, <2>2, <2>3
  <2> QED
    BY <2>2, <2>4 DEF IInv, QueueWaitsForSlots
<1> QED
  BY <1>3, <1>4

\* The same when c goes on waiting.
LEMMA ContinueIInv ==
  ASSUME IInv, NEW c \in Conns, NEW r, Follows(conn[c], r), Started(conn[c]),
         ~Over(conn[c]), r.waiting = conn[c].waiting,
         conn' = [conn EXCEPT ![c] = r], UNCHANGED <<queue, active, answers, clock>>
  PROVE  IInv'
<1>1. Books([conn EXCEPT ![c] = r], queue, active \ {}, answers, {})
  <2> DEFINE done == IF conn[c].waiting /\ ~r.waiting THEN {c} ELSE {}
  <2>1. done = {}
    OBVIOUS
  <2>2. Books([conn EXCEPT ![c] = r], queue, active \ done, answers, done)
    BY BecomeBooks DEF IInv
  <2> QED
    BY <2>1, <2>2
<1>2. active \ {} = active
  OBVIOUS
<1>3. Books(conn', queue', active', answers', {})
  BY <1>1, <1>2
<1> QED
  BY <1>3 DEF IInv, QueueWaitsForSlots

\* fetch(), for a URL that is good or bad.
LEMMA FetchIInv ==
  ASSUME IInv, NEW f \in Fetches, NEW bad \in BOOLEAN, Fetch(f, bad)
  PROVE  IInv'
<1> DEFINE c == <<f, 0>>
           cs == [conn EXCEPT ![c] = Hop(FALSE, bad)]
           q  == Append(queue, c)
<1>1. Books(conn, queue, active, answers, {}) /\ clock \in Nat
  BY DEF IInv
<1>2. c \in Conns /\ conn[c].phase = "unused"
  BY SimpleHTTPClientAssumption DEF Fetch, Conns
<1>3. \A b \in Conns : c # <<b[1], b[2] + 1>>
  BY SimpleHTTPClientAssumption DEF Conns
<1>4. TakesOver(conn, {}, c, FALSE)
  <2>1. \A g \in Fetches : {b \in {} : b[1] = g /\ ~conn[b].orphan} = {}
    OBVIOUS
  <2>2. \A g \in Fetches :
          Cardinality({b \in {} : b[1] = g /\ ~conn[b].orphan}) = 0
    BY <2>1, FS_EmptySet
  <2> QED
    BY <2>2 DEF TakesOver
<1>5. ProcessQueue(cs, q, active, {}) /\ clock' = clock
  BY DEF Fetch
<1>6. Books(cs, q, active, answers, {})
  <2> HIDE DEF c
  <2>1. \A b \in Conns : c = <<b[1], b[2] + 1>> => Over(conn[b])
    BY <1>3
  <2> QED
    BY <2>1, <1>1, <1>2, <1>4, HopBooks
<1> HIDE DEF c, cs, q
<1> QED
  BY <1>1, <1>5, <1>6, ProcessQueueBooks DEF IInv

\* A redirect gives up its slot and its callback before it is queued.
LEMMA FollowRedirectIInv ==
  ASSUME IInv, NEW c \in Conns, NEW bad \in BOOLEAN, FollowRedirect(c, bad)
  PROVE  IInv'
<1> DEFINE r      == [conn[c] EXCEPT !.due = "none"]
           d      == <<c[1], c[2] + 1>>
           cs     == [conn EXCEPT ![c] = Redirected(r)]
           orphan == r.orphan \/ ~r.waiting
           ds     == [cs EXCEPT ![d] = Hop(orphan, bad)]
           q      == Append(queue, d)
           done   == IF conn[c].waiting /\ ~Redirected(r).waiting
                     THEN {c} ELSE {}
<1>1. /\ Books(conn, queue, active, answers, {}) /\ clock \in Nat
      /\ conn \in [Conns -> Connection] /\ RecordOK(conn[c])
      /\ HandedOn(conn) /\ SlotsOK(conn, active)
  BY DEF IInv, Books
<1>2. /\ conn[c].due \in {"headers", "body"} /\ c[2] < MaxRedirects
      /\ ProcessQueue(ds, q, active \ {c}, {}) /\ clock' = clock
  BY DEF FollowRedirect
<1>3. Running(conn[c])
  BY <1>1, <1>2 DEF Running, RecordOK, Started
<1>4. /\ r \in Connection /\ r.due = "none" /\ r.phase = "idle"
      /\ r.stream = conn[c].stream /\ r.orphan = conn[c].orphan
      /\ r.waiting = conn[c].waiting /\ r.unreleased = conn[c].unreleased
      /\ r.timer = conn[c].timer
  BY <1>2, <1>3 DEF Running, RecordOK, Connection
<1> HIDE DEF r
<1>5. Called(r)
  BY <1>3, <1>4 DEF Called, Running, RecordOK, Started
<1>6. Follows(r, Redirected(r)) /\ Over(Redirected(r))
  BY <1>5, FinishFollows DEF Redirected
<1>7. Follows(conn[c], Redirected(r))
  BY <1>4, <1>6 DEF Follows
<1>8. Books(cs, queue, active \ done, answers, done)
  BY <1>1, <1>3, <1>6, <1>7, BecomeBooks DEF Running
<1>9. d \in Conns /\ d[1] = c[1] /\ d # c /\ \A f \in Fetches : d # <<f, 0>>
  BY <1>2, SimpleHTTPClientAssumption DEF Conns
<1>10. cs[d].phase = "unused" /\ cs[c] = Redirected(r)
  <2>1. conn[d].phase = "unused"
    BY <1>1, <1>2, <1>9 DEF HandedOn, Over
  <2> QED
    BY <1>1, <1>9, <2>1
<1>11. \A b \in Conns : d = <<b[1], b[2] + 1>> => Over(cs[b])
  <2>1. \A b \in Conns : d = <<b[1], b[2] + 1>> => b = c
    BY SimpleHTTPClientAssumption DEF Conns
  <2> QED
    BY <1>6, <1>10, <2>1
<1>12. /\ conn[c].waiting \in BOOLEAN /\ conn[c].unreleased \in BOOLEAN
       /\ (conn[c].waiting <=> conn[c].unreleased)
       /\ orphan \in BOOLEAN /\ ~Redirected(r).waiting
       /\ cs[c].orphan = r.orphan
  BY <1>3, <1>6, <1>10
  DEF Running, RecordOK, Started, Connection, Over, Follows
<1>13. active \ done = active \ {c}
  BY <1>1, <1>12 DEF SlotsOK
<1>14. TakesOver(cs, done, d, orphan)
  <2> SUFFICES ASSUME NEW f \in Fetches
               PROVE  Cardinality({b \in done : b[1] = f /\ ~cs[b].orphan})
                        + (IF d = <<f, 0>> THEN 1 ELSE 0)
                      = IF d[1] = f /\ ~orphan THEN 1 ELSE 0
    BY DEF TakesOver
  <2>1. {b \in done : b[1] = f /\ ~cs[b].orphan}
          = IF d[1] = f /\ ~orphan THEN {c} ELSE {}
    BY <1>4, <1>9, <1>12
  <2>2. Cardinality({c}) = 1 /\ Cardinality({}) = 0
    BY FS_Singleton, FS_EmptySet
  <2> DEFINE D == {b \in done : b[1] = f /\ ~cs[b].orphan}
  <2> HIDE DEF d, cs, orphan, done, D
  <2>3. CASE d[1] = f /\ ~orphan
    <3>1. D = {c}
      BY <2>1, <2>3 DEF D
    <3>2. Cardinality(D) = 1 /\ d # <<f, 0>>
      BY <1>9, <2>2, <3>1
    <3> QED
      BY <2>3, <3>2 DEF D
  <2>4. CASE ~(d[1] = f /\ ~orphan)
    <3>1. D = {}
      BY <2>1, <2>4 DEF D
    <3>2. Cardinality(D) = 0 /\ d # <<f, 0>>
      BY <1>9, <2>2, <3>1
    <3> QED
      BY <2>4, <3>2 DEF D
  <2> QED
    BY <2>3, <2>4
<1> HIDE DEF d, cs, orphan, done
<1>15. Books(ds, q, active \ {c}, answers, {})
  <2>1. Books(cs, queue, active \ {c}, answers, done)
    BY <1>8, <1>13
  <2> QED
    BY <2>1, <1>9, <1>10, <1>11, <1>12, <1>14, HopBooks
<1> HIDE DEF ds, q
<1> QED
  BY <1>1, <1>2, <1>15, ProcessQueueBooks DEF IInv

\* The invariant is inductive.
LEMMA NextIInv == IInv /\ [Next]_vars => IInv'
<1> SUFFICES ASSUME IInv, [Next]_vars PROVE IInv'
  OBVIOUS
<1>1. \A c \in Conns : conn[c] \in Connection /\ RecordOK(conn[c])
  BY DEF IInv, Books
<1>2. ASSUME NEW f \in Fetches, NEW bad \in BOOLEAN, Fetch(f, bad)
      PROVE  IInv'
  BY <1>2, FetchIInv
<1>3. ASSUME NEW c \in Conns, RunCallback(c)
      PROVE  IInv'
  <2>1. conn[c].due # "none" /\ clock' = clock
    BY <1>3 DEF RunCallback
  <2>2. Running(conn[c])
    BY <1>1, <2>1 DEF Running, RecordOK, Started
  <2>3. PICK r \in Handled(conn[c].due, [conn[c] EXCEPT !.due = "none"]) :
          Become(c, CloseCallback(r))
    BY <1>3 DEF RunCallback
  <2>4. /\ Follows(conn[c], CloseCallback(r))
        /\ Over(conn[c]) => Over(CloseCallback(r))
    BY <2>1, <2>2, HandledFollows
  <2> QED
    BY <2>1, <2>2, <2>3, <2>4, BecomeIInv DEF Running
<1>4. ASSUME NEW c \in Conns, NEW bad \in BOOLEAN, FollowRedirect(c, bad)
      PROVE  IInv'
  BY <1>4, FollowRedirectIInv
<1>5. ASSUME NEW c \in Conns, OnTimeout(c)
      PROVE  IInv'
  <2> DEFINE t == [conn[c] EXCEPT !.timer = NoTimer]
             r == IF t.waiting THEN HandleException(t) ELSE t
  <2>1. /\ conn[c].timer # NoTimer /\ (conn[c].due # "none" => conn[c].inline)
        /\ Become(c, r) /\ clock' = clock
    BY <1>5 DEF OnTimeout
  <2>2. Running(conn[c]) /\ conn[c].waiting
    BY <1>1, <2>1 DEF Running, RecordOK, Started
  <2>3. Follows(conn[c], r)
    BY <2>1, <2>2, TimeoutFollows
  <2> HIDE DEF r
  <2> QED
    BY <2>1, <2>2, <2>3, BecomeIInv DEF Running, Over
<1>6. ASSUME NEW c \in Conns, Resolved(c)
      PROVE  IInv'
  <2>1. /\ conn[c].phase = "resolve"
        /\ conn' = [conn EXCEPT ![c] = Due(conn[c], "resolve")]
        /\ UNCHANGED <<queue, active, answers, clock>>
    BY <1>6 DEF Resolved
  <2>2. Running(conn[c])
    BY <1>1, <2>1 DEF Running, Started
  <2>3. Follows(conn[c], Due(conn[c], "resolve"))
    BY <2>1, <2>2, ResolvedFollows
  <2>4. Due(conn[c], "resolve").waiting = conn[c].waiting
    BY <2>2, DueFields DEF Running
  <2> QED
    BY <2>1, <2>2, <2>3, <2>4, ContinueIInv DEF Running, Over
<1>7. ASSUME NEW c \in Conns, StreamEvent(c)
      PROVE  IInv'
  <2> DEFINE a == Arrived(conn[c])
             e == Ended(conn[c])
  <2>1. conn[c].stream = "open" /\ UNCHANGED <<queue, active, answers, clock>>
    BY <1>7 DEF StreamEvent
  <2>2. \/ /\ conn[c].phase \in {"connect", "headers", "body"}
           /\ conn' = [conn EXCEPT ![c] = a]
        \/ conn' = [conn EXCEPT ![c] = e]
    BY <1>7 DEF StreamEvent
  <2>3. Running(conn[c])
    BY <1>1, <2>1 DEF Running, RecordOK, Started
  <2>4. conn[c].phase \in {"connect", "headers", "body"} =>
          Follows(conn[c], a) /\ a.waiting = conn[c].waiting
    BY <2>1, <2>3, ArrivalFollows
  <2>5. Follows(conn[c], e) /\ e.waiting = conn[c].waiting
    BY <2>1, <2>3, EndFollows
  <2> HIDE DEF a, e
  <2> QED
    BY <2>1, <2>2, <2>3, <2>4, <2>5, ContinueIInv DEF Running, Over
<1>8. CASE Tick
  BY <1>8 DEF Tick, IInv, QueueWaitsForSlots
<1>9. CASE UNCHANGED vars
  BY <1>9 DEF vars, IInv, QueueWaitsForSlots
<1> QED
  BY <1>2, <1>3, <1>4, <1>5, <1>6, <1>7, <1>8, <1>9 DEF Next, LoopRuns

\* The books are right in every state.
THEOREM Invariance == Spec => []IInv
BY InitIInv, NextIInv, PTL DEF Spec

\* Every variable keeps its type.
THEOREM TypeCorrect == Spec => []TypeOK
<1>1. IInv => TypeOK
  BY DEF IInv, Books, TypeOK
<1> QED
  BY <1>1, Invariance, PTL

\* The slots in use are those of the connections that have still to release
\* one, and never more than max_clients, with any number of fetches.
THEOREM SlotsHold == Spec => []SlotsAreHeld
<1>1. IInv => SlotsAreHeld
  BY DEF IInv, Books, SlotsOK, SlotsAreHeld
<1> QED
  BY <1>1, Invariance, PTL

\* No fetch stays in the queue while a slot is free.
THEOREM QueueWaits == Spec => []QueueWaitsForSlots
<1>1. IInv => QueueWaitsForSlots
  BY DEF IInv
<1> QED
  BY <1>1, Invariance, PTL

\* Every fetch is answered at most once, and until then exactly one connection
\* has its callback, over any number of redirects.
THEOREM AnsweredOnceHolds == Spec => []AnsweredOnce
<1>1. IInv => AnsweredOnce
  <2> SUFFICES ASSUME IInv, NEW f \in Fetches
      PROVE answers[f] + Cardinality(Waiters(f))
              = IF conn[<<f, 0>>].phase = "unused" THEN 0 ELSE 1
    BY DEF AnsweredOnce
  <2>1. Cardinality({d \in {} : d[1] = f /\ ~conn[d].orphan}) = 0
    <3>1. {d \in {} : d[1] = f /\ ~conn[d].orphan} = {}
      OBVIOUS
    <3> QED
      BY <3>1, FS_EmptySet
  <2>2. WaitersIn(conn, f) = Waiters(f)
    BY DEF WaitersIn, Waiters
  <2>3. answers[f] + Cardinality({d \in {} : d[1] = f /\ ~conn[d].orphan})
                   + Cardinality(WaitersIn(conn, f))
          = IF conn[<<f, 0>>].phase = "unused" THEN 0 ELSE 1
    BY DEF IInv, Books, AnswersOK
  <2>4. answers[f] \in Nat
    BY DEF IInv, Books
  <2> QED
    BY <2>1, <2>2, <2>3, <2>4
<1> QED
  BY <1>1, Invariance, PTL

\* A timeout is removed before its connection gives up its slot.
THEOREM TimersBelong == Spec => []TimersBelongToWaiters
<1>1. IInv => TimersBelongToWaiters
  BY DEF IInv, Books, RecordOK, TimersBelongToWaiters
<1> QED
  BY <1>1, Invariance, PTL
=============================================================================
