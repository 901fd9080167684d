--------------------------- MODULE ConnectionsProofs ---------------------------
(***************************************************************************)
(* Proofs about Connections: the server's HTTP connection, for any number  *)
(* of bytes, writes and callbacks, and a WebSocket, for any number of      *)
(* frames, messages and reads.  What the HTTP connection's stream does is  *)
(* proved in IOStreamProofs, for every stream.                             *)
(***************************************************************************)
EXTENDS Connections, FiniteSetTheorems, SequenceTheorems, TLAPS

S == INSTANCE IOStreamProofs WITH Delims <- 1..MaxSent, MaxOps <- 0, ops <- 0

\* The connection's stream is one of those IOStreamProofs is about: method by
\* method, from the ones that call no other.
LEMMA SameStream ==
  /\ \A x : S!Close(x) = HTTP!Stream!Close(x)
  /\ \A x : S!MaybeAddErrorListener(x) = HTTP!Stream!MaybeAddErrorListener(x)
  /\ \A x : S!TryInlineRead(x) = HTTP!Stream!TryInlineRead(x)
  /\ \A x, ev : S!HandleEvents(x, ev) = HTTP!Stream!HandleEvents(x, ev)
  /\ \A x : S!Popped(x) = HTTP!Stream!Popped(x)
  /\ \A x, kind : S!Reading(x, kind) = HTTP!Stream!Reading(x, kind)
  /\ \A x, n, cb : S!Written(x, n, cb) = HTTP!Stream!Written(x, n, cb)
  /\ \A b : S!Fresh(b) = HTTP!Stream!Fresh(b)
<1>1. \A x : S!CloseCallbackDue(x) <=> HTTP!Stream!CloseCallbackDue(x)
  BY DEF S!CloseCallbackDue, HTTP!Stream!CloseCallbackDue
<1>2. \A x : S!Unread(x) = HTTP!Stream!Unread(x)
  BY DEF S!Unread, HTTP!Stream!Unread
<1>3. \A a, b : S!Least(a, b) = HTTP!Stream!Least(a, b)
  BY DEF S!Least, HTTP!Stream!Least
<1>4. \A x, cb : S!RunCallback(x, cb) = HTTP!Stream!RunCallback(x, cb)
  BY DEF S!RunCallback, HTTP!Stream!RunCallback
<1>5. \A x, cb, n : S!Deliver(x, cb, n) = HTTP!Stream!Deliver(x, cb, n)
  BY <1>4 DEF S!Deliver, HTTP!Stream!Deliver
<1>6. \A x : S!MaybeRunCloseCallback(x) = HTTP!Stream!MaybeRunCloseCallback(x)
  BY <1>1, <1>4 DEF S!MaybeRunCloseCallback, HTTP!Stream!MaybeRunCloseCallback
<1>7. \A x : S!StreamRest(x) = HTTP!Stream!StreamRest(x)
  BY <1>2, <1>5 DEF S!StreamRest, HTTP!Stream!StreamRest
<1>8. \A x : S!FinishUntilClose(x) = HTTP!Stream!FinishUntilClose(x)
  BY <1>7, <1>5, <1>2 DEF S!FinishUntilClose, HTTP!Stream!FinishUntilClose
<1>9. \A x : S!Close(x) = HTTP!Stream!Close(x)
  BY <1>8, <1>6 DEF S!Close, HTTP!Stream!Close
<1>10. \A x, e : S!AddIOState(x, e) = HTTP!Stream!AddIOState(x, e)
  BY DEF S!AddIOState, HTTP!Stream!AddIOState
<1>11. \A x : S!MaybeAddErrorListener(x) = HTTP!Stream!MaybeAddErrorListener(x)
  BY <1>6, <1>10 DEF S!MaybeAddErrorListener, HTTP!Stream!MaybeAddErrorListener
<1>12. \A x : S!Streamed(x) = HTTP!Stream!Streamed(x)
  BY <1>2, <1>3, <1>5 DEF S!Streamed, HTTP!Stream!Streamed
<1>13. \A x : S!Delimited(x) = HTTP!Stream!Delimited(x)
  BY DEF S!Delimited, HTTP!Stream!Delimited
<1>14. \A x : S!EnoughBytes(x) <=> HTTP!Stream!EnoughBytes(x)
  BY <1>2 DEF S!EnoughBytes, HTTP!Stream!EnoughBytes
<1>15. \A x : S!Completes(x) <=> HTTP!Stream!Completes(x)
  BY <1>14, <1>13 DEF S!Completes, HTTP!Stream!Completes
<1>16. \A x : S!Amount(x) = HTTP!Stream!Amount(x)
  <2> DEFINE First(D) == CHOOSE d \in D : \A e \in D : d <= e
  <2>1. \A x : S!Amount(x) = IF S!EnoughBytes(x) THEN x.want
                                                ELSE First(S!Delimited(x)) - x.taken
    BY DEF S!Amount
  <2>2. \A x : HTTP!Stream!Amount(x) =
                  IF HTTP!Stream!EnoughBytes(x) THEN x.want
                  ELSE First(HTTP!Stream!Delimited(x)) - x.taken
    BY DEF HTTP!Stream!Amount
  <2> HIDE DEF First
  <2> QED
    BY <2>1, <2>2, <1>14, <1>13
<1>17. \A x : S!ReadFromBuffer(x) = HTTP!Stream!ReadFromBuffer(x)
  BY <1>12, <1>15, <1>14, <1>5, <1>16 DEF S!ReadFromBuffer, HTTP!Stream!ReadFromBuffer
<1>18. \A x : S!Received(x) = HTTP!Stream!Received(x)
  BY <1>3 DEF S!Received, HTTP!Stream!Received
<1>19. \A x : S!Overflows(x) <=> HTTP!Stream!Overflows(x)
  BY <1>18 DEF S!Overflows, HTTP!Stream!Overflows
<1>20. \A x : S!ReadFails(x) <=> HTTP!Stream!ReadFails(x)
  BY <1>19 DEF S!ReadFails, HTTP!Stream!ReadFails
<1>21. \A x, y : S!CloseAfterReading(x, y) = HTTP!Stream!CloseAfterReading(x, y)
  BY <1>19, <1>9 DEF S!CloseAfterReading, HTTP!Stream!CloseAfterReading
<1>22. \A x : S!Filled(x) = HTTP!Stream!Filled(x)
  BY <1>18 DEF S!Filled, HTTP!Stream!Filled
<1>23. \A x : S!ReadToBuffer(x) = HTTP!Stream!ReadToBuffer(x)
  BY <1>22, <1>21 DEF S!ReadToBuffer, HTTP!Stream!ReadToBuffer
<1>24. \A x : S!HandleRead(x) = HTTP!Stream!HandleRead(x)
  BY <1>23, <1>20, <1>15, <1>12, <1>17, <1>6, <1>9 DEF S!HandleRead, HTTP!Stream!HandleRead
<1>25. \A x : S!TryInlineRead(x) = HTTP!Stream!TryInlineRead(x)
  BY <1>17, <1>23, <1>15, <1>12, <1>20, <1>6, <1>11 DEF S!TryInlineRead, HTTP!Stream!TryInlineRead
<1>26. \A x : S!HandleWrite(x) = HTTP!Stream!HandleWrite(x)
  BY <1>3, <1>9, <1>4 DEF S!HandleWrite, HTTP!Stream!HandleWrite
<1>27. \A x : S!HandleConnect(x) = HTTP!Stream!HandleConnect(x)
  BY <1>9, <1>4 DEF S!HandleConnect, HTTP!Stream!HandleConnect
<1>28. \A x : S!Wanted(x) = HTTP!Stream!Wanted(x)
  BY DEF S!Wanted, HTTP!Stream!Wanted
<1>29. \A x, ev : S!HandleEvents(x, ev) = HTTP!Stream!HandleEvents(x, ev)
  BY <1>24, <1>27, <1>26, <1>28 DEF S!HandleEvents, HTTP!Stream!HandleEvents
<1>30. \A x : S!Popped(x) = HTTP!Stream!Popped(x)
  BY <1>9 DEF S!Popped, HTTP!Stream!Popped
<1>31. \A x, kind : S!Reading(x, kind) = HTTP!Stream!Reading(x, kind)
  BY DEF S!Reading, HTTP!Stream!Reading
<1>32. \A x, n, cb : S!Written(x, n, cb) = HTTP!Stream!Written(x, n, cb)
  BY <1>26, <1>11, <1>10 DEF S!Written, HTTP!Stream!Written
<1>33. \A b : S!Fresh(b) = HTTP!Stream!Fresh(b)
  BY DEF S!Fresh, HTTP!Stream!Fresh
<1> QED
  BY <1>9, <1>11, <1>25, <1>29, <1>30, <1>31, <1>32, <1>33

\* The assumption of IOStream holds of the connection's stream.
LEMMA StreamAssumption ==
  /\ MaxSent \in Nat /\ 1..MaxSent \subseteq 1..MaxSent /\ MaxBuffer \in Nat \ {0}
  /\ MaxRoom \in Nat \ {0} /\ MaxWrite \in Nat /\ 0 \in Nat
BY ConnectionsAssumption

-----------------------------------------------------------------------------
(* What the connection's methods do.                                       *)

\* k is a stream and its connection, with their types.
Pair(k) ==
  /\ k = [s |-> k.s, c |-> k.c]
  /\ S!StreamOK(k.s, 0)
  /\ k.c \in HTTP!Connection

\* A connection whose stream is open: nobody reads the next request while there
\* is a handler or something of the response is left, and without a request there
\* is neither.
Open(x, d, h) ==
  /\ S!Plain(x) /\ d.headerCb
  /\ S!NotAsked(x) \/ S!Asked(x) \/ S!Due(x)
  /\ ~d.request => x.unsent = 0 /\ h.state = "none" /\ ~d.finished
  /\ h.state # "none" \/ d.finished => S!NotAsked(x)
  /\ ~(h.state # "none" /\ d.finished)
  /\ ~S!NotAsked(x) => d.reader = (IF d.request THEN "body" ELSE "headers")

HttpInv ==
  /\ S!StreamOK(s, 0) /\ c \in HTTP!Connection /\ handler \in HTTP!Handler
  /\ s.closed \/ (Open(s, c, handler) /\ inCb # "close")

\* _clear_request_state.
LEMMA ClearedOK ==
  ASSUME NEW d \in HTTP!Connection
  PROVE  LET e == HTTP!Cleared(d)
         IN  /\ e \in HTTP!Connection /\ ~e.request /\ ~e.finished
             /\ e.headerCb = d.headerCb
BY DEF HTTP!Cleared, HTTP!Connection

\* close() closes the stream.
LEMMA CloseOK ==
  ASSUME NEW x, S!StreamOK(x, 0)
  PROVE  LET y == HTTP!Stream!Close(x)
         IN  S!StreamOK(y, 0) /\ y.closed
<1>1. S!Keeps(0, x, S!Close(x)) /\ S!Close(x).closed
  BY StreamAssumption, S!CloseOK
<1> QED
  BY <1>1, SameStream DEF S!Keeps

\* Closing the connection closes its stream.
LEMMA CloseConnectionOK ==
  ASSUME NEW k, Pair(k)
  PROVE  LET l == HTTP!CloseConnection(k)
         IN  Pair(l) /\ l.s.closed
<1> DEFINE d == HTTP!Cleared(k.c)
           e == [d EXCEPT !.headerCb = FALSE]
           y == HTTP!Stream!Close(k.s)
<1>1. d \in HTTP!Connection
  BY ClearedOK DEF Pair
<1>2. HTTP!CloseConnection(k) = [s |-> y, c |-> e]
  BY DEF HTTP!CloseConnection
<1>3. S!StreamOK(y, 0) /\ y.closed
  BY CloseOK DEF Pair
<1> HIDE DEF d, y
<1>4. e \in HTTP!Connection
  BY <1>1 DEF HTTP!Connection
<1> HIDE DEF e
<1> QED
  BY <1>2, <1>3, <1>4 DEF Pair

\* The headers of the next request are read, or the stream is closed.
LEMMA ReadHeadersOK ==
  ASSUME NEW k, Pair(k),
         ~k.s.closed => S!Plain(k.s) /\ S!NotAsked(k.s) /\ k.c.headerCb
  PROVE  LET l == HTTP!ReadHeaders(k)
         IN  /\ Pair(l) /\ (k.s.closed => l.s.closed)
             /\ l.s.closed \/ /\ S!Plain(l.s) /\ (S!Asked(l.s) \/ S!Due(l.s))
                              /\ k.s.unsent = 0 => l.s.unsent = 0
                              /\ l.c.request = k.c.request /\ l.c.finished = k.c.finished
                              /\ l.c.headerCb /\ l.c.reader = "headers"
<1> DEFINE w == HTTP!Stream!Reading(k.s, "until")
           b == k.c.headerCb
           x == [w EXCEPT !.reading = b]
           y == HTTP!Stream!TryInlineRead(x)
           h == IF k.c.headerCb THEN "headers" ELSE "none"
           d == [k.c EXCEPT !.reader = h]
           l == [s |-> y, c |-> d]
<1>1. HTTP!ReadHeaders(k) \in {HTTP!CloseConnection(l), l}
  BY DEF HTTP!ReadHeaders
<1>2. /\ k.s \in S!Stream /\ S!StreamOK(k.s, 0) /\ k.c \in HTTP!Connection
      /\ b \in BOOLEAN /\ "until" \in S!ReadKinds
  BY DEF Pair, S!StreamOK, HTTP!Connection, S!ReadKinds
<1>3. w = S!Reading(k.s, "until")
  BY SameStream
<1>4. y = S!TryInlineRead(x)
  BY SameStream
<1> HIDE DEF y
<1>5. S!Keeps(0, k.s, w)
  <2>1. ASSUME NEW v, S!StreamOK(v, 0), NEW n \in Nat, NEW f \in BOOLEAN
        PROVE  S!Keeps(0, v, S!Reading(v, "until"))
    BY <1>2, <2>1, StreamAssumption, S!ReadingOK
  <2>2. 0 \in Nat /\ TRUE \in BOOLEAN
    OBVIOUS
  <2> QED
    BY <1>2, <1>3, <2>1, <2>2
<1> HIDE DEF w
<1>6. w \in S!Stream /\ S!StreamOK(w, 0)
  BY <1>5 DEF S!Keeps, S!StreamOK
<1> HIDE DEF b
<1>7. /\ x \in S!Stream /\ x.queue = w.queue /\ x.pending = w.pending
      /\ x.taken = w.taken /\ x.got = w.got /\ x.sent = w.sent
      /\ x.listening = w.listening /\ x.closed = w.closed
      /\ x.connecting = w.connecting /\ x.kinds = w.kinds
      /\ x.streaming = w.streaming /\ x.unsent = w.unsent /\ x.reading = b
  BY <1>2, <1>6 DEF S!Stream
<1> HIDE DEF x
<1>8. S!StreamOK(x, 0)
  BY <1>6, <1>7 DEF S!StreamOK, S!Buffered
<1>9. S!Keeps(0, x, y) /\ S!Goes(x, y)
  BY <1>4, <1>8, StreamAssumption, S!TryInlineReadOK, S!TryInlineReadGoes
<1>10. d \in HTTP!Connection /\ h \in {"headers", "none"}
       /\ d.request = k.c.request /\ d.finished = k.c.finished
       /\ d.headerCb = k.c.headerCb /\ d.reader = h
  BY <1>2 DEF HTTP!Connection
<1>11. k.c.headerCb => h = "headers"
  OBVIOUS
<1> HIDE DEF d, h
<1>12. Pair(l)
  BY <1>9, <1>10 DEF Pair, S!Keeps
<1>13. k.s.closed => y.closed
  BY <1>5, <1>7, <1>9 DEF S!Keeps, S!Follows
<1>14. Pair(HTTP!CloseConnection(l)) /\ HTTP!CloseConnection(l).s.closed
  BY <1>12, CloseConnectionOK
<1>15. ASSUME ~k.s.closed
       PROVE  y.closed \/ /\ S!Plain(y) /\ (S!Asked(y) \/ S!Due(y))
                          /\ k.s.unsent = 0 => y.unsent = 0
                          /\ d.headerCb /\ h = "headers"
  <2>1. S!Asked(w) /\ S!Plain(w) /\ w.unsent = k.s.unsent
    BY <1>2, <1>3, <1>15, StreamAssumption, S!ReadingGoes
  <2>2. b /\ w.reading
    BY <1>15, <2>1 DEF b, S!Asked
  <2>3. S!Asked(x) /\ S!Plain(x)
    BY <1>2, <1>7, <2>1, <2>2 DEF S!Asked, S!Plain
  <2> QED
    BY <1>7, <1>9, <1>10, <1>11, <2>1, <2>2, <2>3 DEF S!Goes, S!Heeds, b
<1>16. l.s = y /\ l.c = d
  OBVIOUS
<1> HIDE DEF l
<1> QED
  BY <1>1, <1>10, <1>12, <1>13, <1>14, <1>15, <1>16

\* A request whose response is out gives way to the next one, or the connection
\* is closed.
LEMMA FinishRequestOK ==
  ASSUME NEW k, Pair(k),
         ~k.s.closed => S!Plain(k.s) /\ S!NotAsked(k.s) /\ k.c.headerCb /\ k.s.unsent = 0
  PROVE  LET l == HTTP!FinishRequest(k)
         IN  /\ Pair(l) /\ (k.s.closed => l.s.closed)
             /\ l.s.closed \/ Open(l.s, l.c, HTTP!NoHandler)
<1> DEFINE d == HTTP!Cleared(k.c)
           m == [k EXCEPT !.c = d]
<1>1. HTTP!FinishRequest(k) \in {HTTP!CloseConnection(m), HTTP!ReadHeaders(m)}
  BY DEF HTTP!FinishRequest
<1>2. d \in HTTP!Connection /\ ~d.request /\ ~d.finished /\ d.headerCb = k.c.headerCb
  BY ClearedOK DEF Pair
<1> HIDE DEF d
<1>3. m = [s |-> k.s, c |-> d]
  BY DEF Pair
<1> HIDE DEF m
<1>4. Pair(m) /\ m.s = k.s /\ m.c = d
  BY <1>2, <1>3 DEF Pair
<1>5. Pair(HTTP!CloseConnection(m)) /\ HTTP!CloseConnection(m).s.closed
  BY <1>4, CloseConnectionOK
<1> DEFINE l == HTTP!ReadHeaders(m)
<1>6. /\ Pair(l) /\ (m.s.closed => l.s.closed)
      /\ l.s.closed \/ /\ S!Plain(l.s) /\ (S!Asked(l.s) \/ S!Due(l.s))
                       /\ m.s.unsent = 0 => l.s.unsent = 0
                       /\ l.c.request = m.c.request /\ l.c.finished = m.c.finished
                       /\ l.c.headerCb /\ l.c.reader = "headers"
  BY <1>2, <1>4, ReadHeadersOK
<1> HIDE DEF l
<1>7. k.s.closed \/ l.s.closed \/ Open(l.s, l.c, HTTP!NoHandler)
  <2>1. HTTP!NoHandler.state = "none"
    BY DEF HTTP!NoHandler
  <2> QED
    BY <1>2, <1>4, <1>6, <2>1 DEF Open
<1> QED
  BY <1>1, <1>4, <1>5, <1>6, <1>7 DEF l

\* An open connection whose request has a handler.
Handling(x, d) == S!Plain(x) /\ S!NotAsked(x) /\ d.headerCb /\ d.request /\ ~d.finished

\* finish(): the request is over when everything is written.
LEMMA FinishOK ==
  ASSUME NEW k, Pair(k), k.s.closed \/ Handling(k.s, k.c)
  PROVE  LET l == HTTP!Finish(k)
         IN  /\ Pair(l) /\ (k.s.closed => l.s.closed)
             /\ l.s.closed \/ Open(l.s, l.c, HTTP!NoHandler)
<1> DEFINE yes == TRUE
           d == [k.c EXCEPT !.finished = yes]
           m == [s |-> k.s, c |-> d]
<1>1. HTTP!Finish(k) = IF k.s.unsent > 0 THEN m ELSE HTTP!FinishRequest(m)
  <2>1. [k EXCEPT !.c.finished = TRUE] = [k EXCEPT !.c = d]
    OBVIOUS
  <2>2. HTTP!Finish(k) = IF k.s.unsent > 0 THEN [k EXCEPT !.c = d]
                                           ELSE HTTP!FinishRequest([k EXCEPT !.c = d])
    BY <2>1 DEF HTTP!Finish
  <2> HIDE DEF d
  <2>3. [k EXCEPT !.c = d] = m
    BY DEF Pair
  <2> QED
    BY <2>2, <2>3
<1>2. /\ d \in HTTP!Connection /\ d.headerCb = k.c.headerCb /\ d.request = k.c.request
      /\ d.finished = yes
  <2>1. yes \in BOOLEAN /\ k.c \in HTTP!Connection
    BY DEF Pair
  <2> HIDE DEF yes
  <2> QED
    BY <2>1 DEF HTTP!Connection
<1> HIDE DEF d
<1>3. Pair(m) /\ m.s = k.s /\ m.c = d
  BY <1>2 DEF Pair
<1> HIDE DEF m
<1>4. k.s.unsent \in Nat
  BY StreamAssumption, S!StreamFields DEF Pair, S!StreamOK
<1>5. CASE k.s.unsent > 0
  <2>1. HTTP!NoHandler.state = "none"
    BY DEF HTTP!NoHandler
  <2> QED
    BY <1>1, <1>2, <1>3, <1>5, <2>1 DEF Open, Handling
<1>6. CASE ~(k.s.unsent > 0)
  <2>1. k.s.unsent = 0
    BY <1>4, <1>6
  <2>2. LET l == HTTP!FinishRequest(m)
        IN  /\ Pair(l) /\ (m.s.closed => l.s.closed)
            /\ l.s.closed \/ Open(l.s, l.c, HTTP!NoHandler)
    BY <1>2, <1>3, <2>1, FinishRequestOK DEF Handling
  <2> QED
    BY <1>1, <1>3, <1>6, <2>2
<1> QED
  BY <1>5, <1>6

\* write() on an open stream sends no more than it is given, and asks for nothing.
LEMMA WrittenOK ==
  ASSUME NEW x, S!StreamOK(x, 0), NEW n \in Nat, NEW cb \in BOOLEAN
  PROVE  LET y == HTTP!Stream!Written(x, n, cb)
         IN  /\ S!StreamOK(y, 0) /\ (x.closed => y.closed)
             /\ y.closed \/ (S!Plain(x) => S!Heeds(x, y))
<1> DEFINE y == S!Written(x, n, cb)
<1>1. S!Keeps(0, x, y)
  BY StreamAssumption, S!WrittenOK
<1>2. y.closed \/ (S!Plain(x) => S!Heeds(x, y))
  BY StreamAssumption, S!WrittenHeeds
<1>3. HTTP!Stream!Written(x, n, cb) = y
  BY SameStream
<1> HIDE DEF y
<1> QED
  BY <1>1, <1>2, <1>3 DEF S!Keeps, S!Follows

\* A write of the handler goes to the stream, and the request stays the one at hand.
LEMMA WriteOK ==
  ASSUME NEW k, Pair(k), NEW n \in Nat, NEW cb \in BOOLEAN,
         k.s.closed \/ Handling(k.s, k.c)
  PROVE  LET l == HTTP!Write(k, n, cb)
         IN  /\ Pair(l) /\ (k.s.closed => l.s.closed)
             /\ l.s.closed \/ Handling(l.s, l.c)
<1> DEFINE y == HTTP!Stream!Written(k.s, n, TRUE)
           d == [k.c EXCEPT !.writeCb = cb]
           l == [s |-> y, c |-> d]
<1>1. HTTP!Write(k, n, cb) = IF k.s.closed THEN k ELSE l
  BY DEF HTTP!Write
<1>2. S!StreamOK(y, 0) /\ (y.closed \/ (S!Plain(k.s) => S!Heeds(k.s, y)))
  <2>1. S!StreamOK(k.s, 0) /\ TRUE \in BOOLEAN
    BY DEF Pair
  <2> QED
    BY <2>1, WrittenOK
<1> HIDE DEF y
<1>3. /\ d \in HTTP!Connection /\ d.headerCb = k.c.headerCb /\ d.request = k.c.request
      /\ d.finished = k.c.finished
  BY DEF Pair, HTTP!Connection
<1> HIDE DEF d
<1>4. Pair(l) /\ l.s = y /\ l.c = d
  BY <1>2, <1>3 DEF Pair
<1> HIDE DEF l
<1> QED
  BY <1>1, <1>2, <1>3, <1>4 DEF Handling, S!Heeds

\* The body of a request is read, or the stream is closed.
LEMMA ReadBodyOK ==
  ASSUME NEW k, Pair(k), NEW n \in Nat, NEW expect \in BOOLEAN,
         k.s.closed \/ Handling(k.s, k.c)
  PROVE  LET l == HTTP!ReadBody(k, n, expect)
         IN  /\ Pair(l) /\ (k.s.closed => l.s.closed)
             /\ l.s.closed \/ /\ S!Plain(l.s) /\ (S!Asked(l.s) \/ S!Due(l.s))
                              /\ l.c.headerCb /\ l.c.request /\ ~l.c.finished
                              /\ l.c.reader = "body"
<1> DEFINE x == IF expect /\ ~k.s.closed THEN HTTP!Stream!Written(k.s, 1, FALSE) ELSE k.s
           w == S!Reading(x, "bytes")
           y == [w EXCEPT !.want = n]
           z == S!TryInlineRead(y)
           d == [k.c EXCEPT !.reader = "body"]
           l == [s |-> z, c |-> d]
           r == [k EXCEPT !.s = HTTP!Stream!Close(IF expect /\ k.s.closed THEN k.s ELSE y)]
<1>1. HTTP!ReadBody(k, n, expect) = r \/ HTTP!ReadBody(k, n, expect) = l
  <2>1. z = HTTP!Stream!TryInlineRead(y) /\ w = HTTP!Stream!Reading(x, "bytes")
    BY SameStream
  <2> HIDE DEF z, w, x
  <2> QED
    BY <2>1 DEF HTTP!ReadBody, x
<1>2. /\ S!StreamOK(x, 0) /\ (k.s.closed => x.closed)
      /\ x.closed \/ (S!Plain(k.s) => S!Heeds(k.s, x))
  <2>1. S!StreamOK(k.s, 0) /\ FALSE \in BOOLEAN /\ 1 \in Nat
    BY DEF Pair
  <2>2. LET v == HTTP!Stream!Written(k.s, 1, FALSE)
        IN  /\ S!StreamOK(v, 0) /\ (k.s.closed => v.closed)
            /\ v.closed \/ (S!Plain(k.s) => S!Heeds(k.s, v))
    BY <2>1, WrittenOK
  <2> QED
    BY <2>1, <2>2 DEF S!Heeds
<1> HIDE DEF x
<1>3. S!Keeps(0, x, w)
  <2>1. ASSUME NEW v, S!StreamOK(v, 0), NEW i \in Nat, NEW f \in BOOLEAN
        PROVE  S!Keeps(0, v, S!Reading(v, "bytes"))
    BY <2>1, StreamAssumption, S!ReadingOK DEF S!ReadKinds
  <2>2. 0 \in Nat /\ TRUE \in BOOLEAN
    OBVIOUS
  <2> QED
    BY <1>2, <2>1, <2>2
<1>4. x \in S!Stream /\ x.closed \in BOOLEAN
  BY <1>2, StreamAssumption, S!StreamFields DEF S!StreamOK
<1>5. ~x.closed => S!Asked(w) /\ S!Plain(w)
  <2>1. ~x.closed => S!NotAsked(x) /\ S!Plain(x)
    BY <1>2 DEF Handling, S!Heeds
  <2> QED
    BY <1>4, <2>1, StreamAssumption, S!ReadingGoes
<1> HIDE DEF w
<1>6. w \in S!Stream /\ S!StreamOK(w, 0)
  BY <1>3 DEF S!Keeps, S!StreamOK
<1>7. /\ y \in S!Stream /\ y.queue = w.queue /\ y.pending = w.pending
      /\ y.taken = w.taken /\ y.got = w.got /\ y.sent = w.sent
      /\ y.listening = w.listening /\ y.closed = w.closed
      /\ y.connecting = w.connecting /\ y.kinds = w.kinds
      /\ y.streaming = w.streaming /\ y.unsent = w.unsent /\ y.reading = w.reading
  BY <1>6 DEF S!Stream
<1> HIDE DEF y
<1>8. S!StreamOK(y, 0)
  BY <1>6, <1>7 DEF S!StreamOK, S!Buffered
<1>9. S!Keeps(0, y, z) /\ S!Goes(y, z)
  BY <1>8, StreamAssumption, S!TryInlineReadOK, S!TryInlineReadGoes
<1> HIDE DEF z
<1>10. z.closed \/ (S!Plain(z) /\ (S!Asked(z) \/ S!Due(z)))
  <2>1. x.closed => z.closed
    BY <1>3, <1>7, <1>9 DEF S!Keeps, S!Follows
  <2>2. ~x.closed => S!Asked(y) /\ S!Plain(y)
    BY <1>5, <1>7 DEF S!Asked, S!Plain
  <2> QED
    BY <1>9, <2>1, <2>2 DEF S!Goes, S!Heeds
<1>11. /\ d \in HTTP!Connection /\ d.headerCb = k.c.headerCb /\ d.request = k.c.request
       /\ d.finished = k.c.finished /\ d.reader = "body"
  BY DEF Pair, HTTP!Connection
<1> HIDE DEF d
<1>12. Pair(r) /\ r.s.closed
  <2> DEFINE v == IF expect /\ k.s.closed THEN k.s ELSE y
             u == HTTP!Stream!Close(v)
  <2>1. S!StreamOK(v, 0)
    BY <1>8 DEF Pair
  <2> HIDE DEF v
  <2>2. S!StreamOK(u, 0) /\ u.closed
    BY <2>1, CloseOK
  <2>3. r = [k EXCEPT !.s = u]
    BY DEF v
  <2> HIDE DEF u, r
  <2>4. r = [s |-> u, c |-> k.c]
    BY <2>3 DEF Pair
  <2> QED
    BY <2>2, <2>4 DEF Pair
<1>13. Pair(l) /\ l.s = z /\ l.c = d
  BY <1>9, <1>11 DEF Pair, S!Keeps
<1> HIDE DEF l, r
<1>14. k.s.closed => z.closed
  BY <1>2, <1>3, <1>7, <1>9 DEF S!Keeps, S!Follows
<1> QED
  BY <1>1, <1>10, <1>11, <1>12, <1>13, <1>14 DEF Handling

-----------------------------------------------------------------------------
(* What the steps do.                                                      *)

\* A step of the stream's alone.
LEMMA StreamStepInv ==
  ASSUME HttpInv, S!StreamOK(s', 0), s.closed => s'.closed, S!Goes(s, s'),
         UNCHANGED <<c, handler>>, s'.closed \/ inCb' # "close"
  PROVE  HttpInv'
<1>1. s'.closed \/ Open(s', c, handler)
  BY DEF HttpInv, Open, S!Goes, S!Heeds
<1> QED
  BY <1>1 DEF HttpInv

\* An event of the stream: what it reads or writes answers the read it has.
LEMMA DispatchInv ==
  ASSUME HttpInv, HTTP!Dispatch
  PROVE  HttpInv'
<1>1. \E ev : s' = HTTP!Stream!HandleEvents(s, ev)
  BY DEF HTTP!Dispatch, HTTP!Stream!Dispatch
<1>2. PICK ev : s' = S!HandleEvents(s, ev)
  BY <1>1, SameStream
<1>3. S!Keeps(0, s, s') /\ S!Goes(s, s')
  BY <1>2, StreamAssumption, S!HandleEventsOK, S!HandleEventsGoes DEF HttpInv
<1>4. UNCHANGED <<c, handler, inCb>>
  BY DEF HTTP!Dispatch, HTTP!Stream!Dispatch
<1> QED
  BY <1>3, <1>4, StreamStepInv DEF S!Keeps, S!Follows, HttpInv

\* The client's and the kernel's steps.
LEMMA ClientInv ==
  ASSUME HttpInv, HTTP!Client
  PROVE  HttpInv'
<1>1. UNCHANGED <<c, handler, inCb>>
  BY DEF HTTP!Client, HTTP!Stream!Arrive, HTTP!Stream!Fin, HTTP!Stream!Break,
         HTTP!Stream!Drain, HTTP!Stream!Peer
<1>2. /\ s \in S!Stream /\ S!StreamOK(s, 0) /\ S!Buffered(s)
      /\ s.sent \in Nat /\ s.room \in Nat /\ s.got \in Nat /\ s.taken \in Nat
      /\ MaxSent \in Nat /\ MaxRoom \in Nat
  BY StreamAssumption, S!StreamFields DEF HttpInv, S!StreamOK
<1> DEFINE Untouched(x) ==
             /\ x.queue = s.queue /\ x.pending = s.pending
             /\ x.taken = s.taken /\ x.got = s.got
             /\ x.listening = s.listening /\ x.closed = s.closed
             /\ x.connecting = s.connecting /\ x.streaming = s.streaming
             /\ x.reading = s.reading /\ x.kinds = s.kinds /\ x.unsent = s.unsent
<1>3. s' \in S!Stream /\ Untouched(s') /\ s'.sent \in Nat /\ s'.sent >= s.sent
  <2>1. CASE HTTP!Stream!Arrive
    <3> DEFINE n == s.sent + 1
    <3>1. n \in 0..MaxSent /\ n >= s.sent /\ s' = [s EXCEPT !.sent = n]
      BY <1>2, <2>1 DEF HTTP!Stream!Arrive, HTTP!Stream!Peer
    <3> HIDE DEF n
    <3>2. s' \in S!Stream
      BY <1>2, <3>1 DEF S!Stream
    <3>3. Untouched(s') /\ s'.sent = n
      BY <1>2, <3>1 DEF S!Stream
    <3> QED
      BY <3>1, <3>2, <3>3
  <2>2. ASSUME NEW b \in BOOLEAN, s' = [s EXCEPT !.fin = b] \/ s' = [s EXCEPT !.broken = b]
        PROVE  s' \in S!Stream /\ Untouched(s') /\ s'.sent = s.sent
    <3>1. s' \in S!Stream
      BY <1>2, <2>2 DEF S!Stream
    <3>2. Untouched(s') /\ s'.sent = s.sent
      BY <1>2, <2>2 DEF S!Stream
    <3> QED
      BY <3>1, <3>2
  <2>3. CASE HTTP!Stream!Fin \/ HTTP!Stream!Break
    <3> DEFINE yes == TRUE
    <3>1. s' = [s EXCEPT !.fin = yes] \/ s' = [s EXCEPT !.broken = yes]
      BY <2>3 DEF HTTP!Stream!Fin, HTTP!Stream!Break, HTTP!Stream!Peer
    <3>2. yes \in BOOLEAN
      OBVIOUS
    <3> HIDE DEF yes
    <3>3. s' \in S!Stream /\ Untouched(s') /\ s'.sent = s.sent
      BY <2>2, <3>1, <3>2
    <3> QED
      BY <1>2, <3>3
  <2>4. CASE HTTP!Stream!Drain
    <3> DEFINE n == s.room + 1
    <3>1. n \in 0..MaxRoom /\ s' = [s EXCEPT !.room = n]
      BY <1>2, <2>4 DEF HTTP!Stream!Drain, HTTP!Stream!Peer
    <3> HIDE DEF n
    <3>2. s' \in S!Stream
      BY <1>2, <3>1 DEF S!Stream
    <3>3. Untouched(s') /\ s'.sent = s.sent
      BY <1>2, <3>1 DEF S!Stream
    <3> QED
      BY <1>2, <3>2, <3>3
  <2> QED
    BY <2>1, <2>3, <2>4 DEF HTTP!Client
<1>4. S!StreamOK(s', 0)
  BY <1>2, <1>3 DEF S!StreamOK, S!Buffered
<1>5. S!Goes(s, s')
  BY <1>3, S!GoesOtherwise, StreamAssumption
<1> QED
  BY <1>1, <1>3, <1>4, <1>5, StreamStepInv DEF HttpInv

\* An exception of the application's closes the stream.
LEMMA CallbackRaisesInv ==
  ASSUME HttpInv, HTTP!CallbackRaises
  PROVE  HttpInv'
<1>1. s' = HTTP!Stream!Close(s) /\ UNCHANGED <<c, handler>>
  BY DEF HTTP!CallbackRaises
<1>2. S!StreamOK(s', 0) /\ s'.closed
  BY <1>1, CloseOK DEF HttpInv
<1> QED
  BY <1>1, <1>2 DEF HttpInv

\* A connection whose request is handled is as it should be with any handler.
LEMMA HandlingIsOpen ==
  ASSUME NEW x, NEW d, NEW h, Handling(x, d)
  PROVE  Open(x, d, h)
BY DEF Handling, Open

\* While there is a handler, the connection is handling a request.
LEMMA HandlerHandles ==
  ASSUME HttpInv, handler.state # "none"
  PROVE  s.closed \/ Handling(s, c)
BY DEF HttpInv, Open, Handling

\* The stream and the connection as the methods take them.
LEMMA ThePair ==
  ASSUME HttpInv
  PROVE  Pair([s |-> s, c |-> c])
BY DEF HttpInv, Pair

\* flush() of the handler.
LEMMA FlushInv ==
  ASSUME HttpInv, NEW n \in 0..MaxWrite, NEW cb \in BOOLEAN, HTTP!Flush(n, cb)
  PROVE  HttpInv'
<1> DEFINE k == [s |-> s, c |-> c]
           l == HTTP!Write(k, n, cb)
<1>1. s' = l.s /\ c' = l.c /\ inCb' = inCb /\ handler.state # "none"
  BY DEF HTTP!Flush, HTTP!Acts, HTTP!Becomes
<1>2. handler' = [handler EXCEPT !.flushed = TRUE]
  BY DEF HTTP!Flush
<1>3. handler' \in HTTP!Handler
  BY <1>2 DEF HttpInv, HTTP!Handler
<1>4. Pair(k) /\ k.s = s /\ k.c = c /\ n \in Nat
  BY ThePair, StreamAssumption
<1> HIDE DEF k
<1>5. Pair(l) /\ (s.closed => l.s.closed) /\ (l.s.closed \/ Handling(l.s, l.c))
  BY <1>1, <1>4, HandlerHandles, WriteOK
<1> HIDE DEF l
<1>6. s'.closed \/ Open(s', c', handler')
  BY <1>1, <1>5, HandlingIsOpen
<1> QED
  BY <1>1, <1>3, <1>5, <1>6 DEF HttpInv, Pair

\* finish() of the handler.
LEMMA FinishHandlerInv ==
  ASSUME HttpInv, NEW n \in 0..MaxWrite, HTTP!FinishHandler(n)
  PROVE  HttpInv'
<1> DEFINE d == [c EXCEPT !.closeCb = FALSE]
           k == [s |-> s, c |-> d]
           w == HTTP!Write(k, n, FALSE)
<1>1. \/ s' = HTTP!Finish(w).s /\ c' = HTTP!Finish(w).c
      \/ s' = HTTP!Finish(k).s /\ c' = HTTP!Finish(k).c
  BY DEF HTTP!FinishHandler, HTTP!Becomes
<1>2. handler' = HTTP!NoHandler /\ inCb' = inCb /\ handler.state # "none"
  BY DEF HTTP!FinishHandler, HTTP!Acts
<1>3. /\ d \in HTTP!Connection /\ d.headerCb = c.headerCb /\ d.request = c.request
      /\ d.finished = c.finished
  BY DEF HttpInv, HTTP!Connection
<1> HIDE DEF d
<1>4. Pair(k) /\ k.s = s /\ k.c = d /\ n \in Nat /\ FALSE \in BOOLEAN
  BY <1>3, StreamAssumption DEF HttpInv, Pair
<1> HIDE DEF k
<1>5. k.s.closed \/ Handling(k.s, k.c)
  BY <1>2, <1>3, <1>4, HandlerHandles DEF Handling
<1>6. Pair(w) /\ (k.s.closed => w.s.closed) /\ (w.s.closed \/ Handling(w.s, w.c))
  BY <1>4, <1>5, WriteOK
<1> HIDE DEF w
<1>7. ASSUME NEW v, Pair(v), v.s.closed \/ Handling(v.s, v.c),
             s' = HTTP!Finish(v).s, c' = HTTP!Finish(v).c
      PROVE  S!StreamOK(s', 0) /\ c' \in HTTP!Connection
             /\ (s'.closed \/ Open(s', c', HTTP!NoHandler))
  BY <1>7, FinishOK DEF Pair
<1>8. /\ S!StreamOK(s', 0) /\ c' \in HTTP!Connection
      /\ s'.closed \/ Open(s', c', HTTP!NoHandler)
  BY <1>1, <1>4, <1>5, <1>6, <1>7
<1>9. HTTP!NoHandler \in HTTP!Handler
  BY DEF HTTP!NoHandler, HTTP!Handler
<1>10. s.closed => s'.closed
  <2>1. ASSUME NEW v, Pair(v), v.s.closed
        PROVE  HTTP!Finish(v).s.closed
    BY <2>1, FinishOK
  <2> QED
    BY <1>1, <1>4, <1>6, <2>1
<1> QED
  BY <1>2, <1>8, <1>9, <1>10 DEF HttpInv

\* A stream that goes on stays open as it should be.
LEMMA GoesOpen ==
  ASSUME NEW x, NEW y, NEW d, NEW h, S!Goes(x, y), Open(x, d, h)
  PROVE  y.closed \/ Open(y, d, h)
BY DEF Open, S!Goes, S!Heeds

\* A callback of the stream's comes to its end.
LEMMA CallbackReturnsInv ==
  ASSUME HttpInv, HTTP!CallbackReturns
  PROVE  HttpInv'
<1> DEFINE k == [s |-> s, c |-> c]
           l == CASE inCb = "write" -> HTTP!WriteCompleted(k)
                  [] inCb = "close" -> HTTP!ConnectionClosed(k)
                  [] OTHER          -> k
           y == HTTP!Stream!MaybeAddErrorListener(l.s)
           m == [l EXCEPT !.s = y]
<1>1. s' = m.s /\ c' = m.c /\ inCb' = "none" /\ handler' = handler
  BY DEF HTTP!CallbackReturns, HTTP!Becomes
<1>2. Pair(k) /\ k.s = s /\ k.c = c
  BY ThePair
<1> HIDE DEF k
<1>3. Pair(l) /\ (s.closed => l.s.closed) /\ (l.s.closed \/ Open(l.s, l.c, handler))
  <2>1. CASE inCb = "write" /\ c.finished /\ s.unsent = 0
    <3>1. l = HTTP!FinishRequest(k)
      BY <1>2, <2>1 DEF HTTP!WriteCompleted
    <3>2. s.closed \/ /\ S!Plain(s) /\ S!NotAsked(s) /\ c.headerCb
                      /\ handler.state = "none"
      BY <2>1 DEF HttpInv, Open
    <3>3. LET f == HTTP!FinishRequest(k)
          IN  /\ Pair(f) /\ (k.s.closed => f.s.closed)
              /\ f.s.closed \/ Open(f.s, f.c, HTTP!NoHandler)
      BY <1>2, <2>1, <3>2, FinishRequestOK
    <3>4. HTTP!NoHandler.state = "none"
      BY DEF HTTP!NoHandler
    <3> HIDE DEF l
    <3> QED
      BY <1>2, <3>1, <3>2, <3>3, <3>4 DEF Open
  <2>2. CASE inCb = "close"
    <3> DEFINE e == HTTP!Cleared(c)
               d == [e EXCEPT !.headerCb = FALSE]
    <3>1. l = [k EXCEPT !.c = d]
      BY <1>2, <2>2 DEF HTTP!ConnectionClosed
    <3>2. e \in HTTP!Connection
      BY <1>2, ClearedOK DEF Pair
    <3> HIDE DEF e
    <3>3. d \in HTTP!Connection
      BY <3>2 DEF HTTP!Connection
    <3> HIDE DEF d, l
    <3>4. l = [s |-> s, c |-> d]
      BY <1>2, <3>1 DEF Pair
    <3> QED
      BY <1>2, <2>2, <3>3, <3>4 DEF Pair, HttpInv
  <2>3. CASE inCb # "close" /\ ~(inCb = "write" /\ c.finished /\ s.unsent = 0)
    <3>1. l = k
      BY <1>2, <2>3 DEF HTTP!WriteCompleted
    <3> HIDE DEF l
    <3> QED
      BY <1>2, <3>1 DEF HttpInv
  <2> QED
    BY <2>1, <2>2, <2>3
<1> HIDE DEF l
<1>4. y = S!MaybeAddErrorListener(l.s)
  BY SameStream
<1> HIDE DEF y
<1>5. S!Keeps(0, l.s, y) /\ S!Goes(l.s, y)
  BY <1>3, <1>4, StreamAssumption, S!MaybeAddErrorListenerOK, S!MaybeAddErrorListenerGoes
     DEF Pair
<1>6. m.s = y /\ m.c = l.c
  BY <1>3 DEF Pair
<1> HIDE DEF m
<1>7. y.closed \/ Open(y, l.c, handler)
  BY <1>3, <1>5, GoesOpen DEF S!Keeps, S!Follows
<1> QED
  BY <1>1, <1>3, <1>5, <1>6, <1>7 DEF HttpInv, Pair, S!Keeps

\* The application is given a request to handle.
LEMMA StartHandlerInv ==
  ASSUME NEW k, Pair(k), k.s.closed \/ Handling(k.s, k.c), HTTP!StartHandler(k)
  PROVE  /\ S!StreamOK(s', 0) /\ c' \in HTTP!Connection /\ handler' \in HTTP!Handler
         /\ s'.closed \/ Open(s', c', handler')
<1> DEFINE d == [k.c EXCEPT !.closeCb = TRUE]
           m == [k EXCEPT !.c = d]
<1>1. s' = m.s /\ c' = m.c
  BY DEF HTTP!StartHandler, HTTP!HandlerCreated, HTTP!Becomes
<1>2. /\ d \in HTTP!Connection /\ d.headerCb = k.c.headerCb /\ d.request = k.c.request
      /\ d.finished = k.c.finished
  BY DEF Pair, HTTP!Connection
<1> HIDE DEF d
<1>3. m.s = k.s /\ m.c = d
  BY DEF Pair
<1> HIDE DEF m
<1>4. handler' = [HTTP!NoHandler EXCEPT !.state = "handling"]
  BY DEF HTTP!StartHandler
<1>5. handler' \in HTTP!Handler
  BY <1>4 DEF HTTP!NoHandler, HTTP!Handler
<1>6. s'.closed \/ Open(s', c', handler')
  BY <1>1, <1>2, <1>3, HandlingIsOpen DEF Handling
<1> QED
  BY <1>1, <1>2, <1>3, <1>5, <1>6 DEF Pair

\* A callback raises.
LEMMA CallbackFailsInv ==
  ASSUME NEW k, Pair(k), handler \in HTTP!Handler, HTTP!CallbackFails(k)
  PROVE  /\ S!StreamOK(s', 0) /\ c' \in HTTP!Connection /\ handler' \in HTTP!Handler
         /\ s'.closed
<1> DEFINE y == HTTP!Stream!Close(k.s)
           m == [k EXCEPT !.s = y]
<1>1. s' = m.s /\ c' = m.c /\ handler' = handler
  BY DEF HTTP!CallbackFails, HTTP!Becomes, HTTP!NoUser
<1>2. S!StreamOK(y, 0) /\ y.closed
  BY CloseOK DEF Pair
<1> HIDE DEF y
<1>3. m.s = y /\ m.c = k.c
  BY DEF Pair
<1> HIDE DEF m
<1> QED
  BY <1>1, <1>2, <1>3 DEF Pair

\* _on_headers, of a connection that has no request.
LEMMA OnHeadersInv ==
  ASSUME NEW k, Pair(k), handler \in HTTP!Handler,
         k.s.closed \/ /\ S!Plain(k.s) /\ S!NotAsked(k.s) /\ k.c.headerCb /\ ~k.c.finished
                       /\ handler.state = "none",
         HTTP!OnHeaders(k)
  PROVE  /\ S!StreamOK(s', 0) /\ c' \in HTTP!Connection /\ handler' \in HTTP!Handler
         /\ s'.closed \/ Open(s', c', handler')
<1>1. CASE HTTP!Becomes(HTTP!CloseConnection(k)) /\ HTTP!NoUser
  BY <1>1, CloseConnectionOK DEF HTTP!Becomes, HTTP!NoUser, Pair
<1>2. ASSUME NEW keep \in BOOLEAN,
             LET l == [k EXCEPT !.c.request = TRUE, !.c.keep = keep]
             IN  \/ HTTP!StartHandler(l)
                 \/ HTTP!CallbackFails(l)
                 \/ \E n \in 0..1, expect \in BOOLEAN :
                      HTTP!Becomes(HTTP!ReadBody(l, n, expect)) /\ HTTP!NoUser
      PROVE  /\ S!StreamOK(s', 0) /\ c' \in HTTP!Connection /\ handler' \in HTTP!Handler
             /\ s'.closed \/ Open(s', c', handler')
  <2> DEFINE yes == TRUE
             d == [k.c EXCEPT !.request = yes, !.keep = keep]
             l == [k EXCEPT !.c = d]
  <2>1. [k EXCEPT !.c.request = TRUE, !.c.keep = keep] = l
    BY DEF Pair, HTTP!Connection
  <2>2. /\ d \in HTTP!Connection /\ d.headerCb = k.c.headerCb /\ d.request = yes
        /\ d.finished = k.c.finished
    <3>1. yes \in BOOLEAN /\ k.c \in HTTP!Connection
      BY DEF Pair
    <3> HIDE DEF yes
    <3> QED
      BY <3>1 DEF HTTP!Connection
  <2> HIDE DEF d
  <2>3. l = [s |-> k.s, c |-> d]
    BY DEF Pair
  <2>4. \/ HTTP!StartHandler(l)
        \/ HTTP!CallbackFails(l)
        \/ \E n \in 0..1, expect \in BOOLEAN :
             HTTP!Becomes(HTTP!ReadBody(l, n, expect)) /\ HTTP!NoUser
    BY <1>2, <2>1
  <2> HIDE DEF l
  <2>5. Pair(l) /\ l.s = k.s /\ l.c = d
    BY <2>2, <2>3 DEF Pair
  <2>6. l.s.closed \/ Handling(l.s, l.c)
    BY <2>2, <2>5 DEF Handling
  <2>7. CASE HTTP!StartHandler(l)
    BY <2>5, <2>6, <2>7, StartHandlerInv
  <2>8. CASE HTTP!CallbackFails(l)
    BY <2>5, <2>8, CallbackFailsInv
  <2>9. ASSUME NEW n \in 0..1, NEW expect \in BOOLEAN,
               HTTP!Becomes(HTTP!ReadBody(l, n, expect)), HTTP!NoUser
        PROVE  /\ S!StreamOK(s', 0) /\ c' \in HTTP!Connection /\ handler' \in HTTP!Handler
               /\ s'.closed \/ Open(s', c', handler')
    <3> DEFINE r == HTTP!ReadBody(l, n, expect)
    <3>1. s' = r.s /\ c' = r.c /\ handler' = handler
      BY <2>9 DEF HTTP!Becomes, HTTP!NoUser
    <3>2. n \in Nat
      OBVIOUS
    <3>3. /\ Pair(r) /\ (l.s.closed => r.s.closed)
          /\ r.s.closed \/ /\ S!Plain(r.s) /\ (S!Asked(r.s) \/ S!Due(r.s))
                           /\ r.c.headerCb /\ r.c.request /\ ~r.c.finished
                           /\ r.c.reader = "body"
      BY <2>5, <2>6, <3>2, ReadBodyOK
    <3> HIDE DEF r
    <3>4. k.s.closed => r.s.closed
      BY <2>5, <3>3
    <3> QED
      BY <3>1, <3>3, <3>4 DEF Open, Pair
  <2> QED
    BY <2>4, <2>7, <2>8, <2>9
<1> QED
  BY <1>1, <1>2 DEF HTTP!OnHeaders

\* The stream runs a callback.
LEMMA RunNextInv ==
  ASSUME HttpInv, HTTP!RunNext
  PROVE  HttpInv'
<1> DEFINE x == HTTP!Stream!Popped(s)
           k == [s |-> x, c |-> c]
           cb == Head(s.queue)
<1>1. /\ inCb' = IF cb = "doClose" THEN inCb ELSE cb
      /\ \/ cb = "doClose" /\ HTTP!Becomes(k) /\ HTTP!NoUser
         \/ cb = "read"    /\ HTTP!OnRead(k)
         \/ cb = "write"   /\ HTTP!OnWriteComplete(k)
         \/ cb = "close"   /\ HTTP!OnConnectionClose(k)
  BY DEF HTTP!RunNext
<1>2. s.queue # <<>> /\ S!StreamOK(s, 0) /\ handler \in HTTP!Handler
  BY DEF HTTP!RunNext, HTTP!Stream!Turn, HttpInv
<1>3. x = S!Popped(s)
  BY SameStream
<1> HIDE DEF x
<1>4. S!StreamOK(x, 0) /\ (s.closed => x.closed) /\ (cb = "doClose" => x.closed)
  BY <1>2, <1>3, StreamAssumption, S!PoppedOK
<1>5. s.closed \/ x.closed \/
        /\ S!Plain(x) /\ x.unsent = s.unsent
        /\ S!NotAsked(s) => S!NotAsked(x)
        /\ S!Asked(s) => S!Asked(x)
        /\ S!Due(s) /\ cb # "read" => S!Due(x)
        /\ S!Due(s) /\ cb = "read" => S!NotAsked(x)
  BY <1>2, <1>3, StreamAssumption, S!PoppedGoes DEF HttpInv, Open
<1>6. Pair(k) /\ k.s = x /\ k.c = c
  BY <1>4 DEF Pair, HttpInv
<1> HIDE DEF k
<1>7. s.closed \/ cb # "close"
  <2>1. s.queue \in Seq(S!Entries)
    BY <1>2, StreamAssumption, S!StreamFields DEF S!StreamOK
  <2>2. 1 \in DOMAIN s.queue /\ cb = s.queue[1]
    BY <1>2, <2>1
  <2> QED
    BY <2>2 DEF HttpInv, Open, S!Plain, S!NoneOf
<1>8. s.closed \/ cb # "read" \/ S!Due(s)
  <2>1. s.queue \in Seq(S!Entries)
    BY <1>2, StreamAssumption, S!StreamFields DEF S!StreamOK
  <2>2. 1 \in DOMAIN s.queue /\ cb = s.queue[1]
    BY <1>2, <2>1
  <2> QED
    BY <2>2 DEF HttpInv, Open, S!NotAsked, S!Asked, S!NoneOf
<1>9. x.closed \/ Open(s, c, handler)
  BY <1>4 DEF HttpInv
<1> HIDE DEF cb
<1>10. CASE cb = "doClose"
  <2>1. s' = x /\ c' = c /\ handler' = handler /\ inCb' = inCb
    BY <1>1, <1>6, <1>10 DEF HTTP!Becomes, HTTP!NoUser
  <2> QED
    BY <1>2, <1>4, <1>10, <2>1 DEF HttpInv
<1>11. CASE cb = "read"
  <2>1. x.closed \/ /\ S!Plain(x) /\ S!NotAsked(x) /\ c.headerCb /\ ~c.finished
                    /\ handler.state = "none"
                    /\ c.reader = (IF c.request THEN "body" ELSE "headers")
    <3>1. S!Due(s) => ~S!NotAsked(s)
      BY DEF S!Due, S!NotAsked, S!OneOf, S!NoneOf
    <3> QED
      BY <1>4, <1>5, <1>8, <1>9, <1>11, <3>1 DEF Open
  <2>2. HTTP!OnRead(k)
    BY <1>1, <1>11
  <2>3. CASE c.reader = "headers"
    <3>1. HTTP!OnHeaders(k)
      BY <2>2, <2>3 DEF HTTP!OnRead
    <3> QED
      BY <1>1, <1>2, <1>6, <1>11, <2>1, <3>1, OnHeadersInv DEF HttpInv
  <2>4. CASE c.reader = "body"
    <3>1. HTTP!StartHandler(k)
      BY <2>2, <2>4 DEF HTTP!OnRead
    <3>2. k.s.closed \/ Handling(k.s, k.c)
      BY <1>6, <2>1, <2>4 DEF Handling
    <3> QED
      BY <1>1, <1>6, <1>11, <3>1, <3>2, StartHandlerInv DEF HttpInv
  <2>5. CASE c.reader = "none"
    <3>1. HTTP!CallbackFails(k)
      BY <2>2, <2>5 DEF HTTP!OnRead
    <3> QED
      BY <1>2, <1>6, <3>1, CallbackFailsInv DEF HttpInv
  <2>6. c.reader \in {"headers", "body", "none"}
    BY DEF HttpInv, HTTP!Connection
  <2> QED
    BY <2>3, <2>4, <2>5, <2>6
<1>12. CASE cb = "write"
  <2> DEFINE d == [c EXCEPT !.writeCb = FALSE]
  <2>1. s' = x /\ c' = d /\ handler' = handler /\ inCb' = "write"
    <3>1. [k EXCEPT !.c.writeCb = FALSE] = [k EXCEPT !.c = d]
      BY <1>6
    <3>2. HTTP!Becomes([k EXCEPT !.c = d]) /\ handler' = handler /\ inCb' = "write"
      BY <1>1, <1>12, <3>1 DEF HTTP!OnWriteComplete
    <3> HIDE DEF d
    <3>3. [k EXCEPT !.c = d] = [s |-> x, c |-> d]
      BY <1>6 DEF Pair
    <3> QED
      BY <3>2, <3>3 DEF HTTP!Becomes
  <2>2. /\ d \in HTTP!Connection /\ d.headerCb = c.headerCb /\ d.request = c.request
        /\ d.finished = c.finished /\ d.reader = c.reader
    BY DEF HttpInv, HTTP!Connection
  <2> HIDE DEF d
  <2>3. x.closed \/ Open(x, d, handler)
    BY <1>4, <1>5, <1>9, <1>12, <2>2 DEF Open
  <2> QED
    BY <1>2, <1>4, <2>1, <2>2, <2>3 DEF HttpInv
<1>13. CASE cb = "close"
  <2> DEFINE d == [c EXCEPT !.closeCb = FALSE]
             t == [handler EXCEPT !.state = "told"]
  <2>1. s' = x /\ c' = d /\ handler' \in {t, handler}
    <3>1. [k EXCEPT !.c.closeCb = FALSE] = [k EXCEPT !.c = d]
      BY <1>6
    <3>2. HTTP!Becomes([k EXCEPT !.c = d]) /\ handler' \in {t, handler}
      BY <1>1, <1>13, <3>1 DEF HTTP!OnConnectionClose
    <3> HIDE DEF d
    <3>3. [k EXCEPT !.c = d] = [s |-> x, c |-> d]
      BY <1>6 DEF Pair
    <3> QED
      BY <3>2, <3>3 DEF HTTP!Becomes
  <2>2. d \in HTTP!Connection /\ t \in HTTP!Handler
    BY DEF HttpInv, HTTP!Connection, HTTP!Handler
  <2> HIDE DEF d, t
  <2> QED
    BY <1>2, <1>4, <1>7, <1>13, <2>1, <2>2 DEF HttpInv
<1> QED
  BY <1>1, <1>10, <1>11, <1>12, <1>13

\* A connection that was just accepted reads headers.
LEMMA InitInv ==
  ASSUME HTTP!Init
  PROVE  HttpInv
<1> DEFINE f == HTTP!Stream!Fresh(TRUE)
           x == [f EXCEPT !.closeCb = TRUE]
           d == [request |-> FALSE, finished |-> FALSE, writeCb |-> FALSE,
                 closeCb |-> FALSE, headerCb |-> TRUE, keep |-> FALSE, reader |-> "none"]
           k == [s |-> x, c |-> d]
           l == HTTP!ReadHeaders(k)
<1>1. s = l.s /\ c = l.c /\ inCb = "none" /\ handler = HTTP!NoHandler
  BY DEF HTTP!Init
<1>2. f = S!Fresh(TRUE)
  BY SameStream
<1>3. S!StreamOK(f, 0) /\ f \in S!Stream
  BY <1>2, StreamAssumption, S!FreshOK DEF S!StreamOK
<1>4. /\ f.queue = <<>> /\ f.kinds = {} /\ ~f.reading /\ ~f.streaming
      /\ ~f.connecting /\ f.unsent = 0
  <2>1. ASSUME NEW b
        PROVE  /\ S!Fresh(b).queue = <<>> /\ S!Fresh(b).kinds = {}
               /\ ~S!Fresh(b).reading /\ ~S!Fresh(b).streaming
               /\ ~S!Fresh(b).connecting /\ S!Fresh(b).unsent = 0
    BY DEF S!Fresh
  <2> HIDE DEF f
  <2> QED
    BY <1>2, <2>1
<1> HIDE DEF f
<1>5. /\ x \in S!Stream /\ x.queue = f.queue /\ x.pending = f.pending
      /\ x.taken = f.taken /\ x.got = f.got /\ x.sent = f.sent
      /\ x.listening = f.listening /\ x.closed = f.closed
      /\ x.connecting = f.connecting /\ x.kinds = f.kinds
      /\ x.streaming = f.streaming /\ x.unsent = f.unsent /\ x.reading = f.reading
  BY <1>3 DEF S!Stream
<1> HIDE DEF x
<1>6. S!StreamOK(x, 0) /\ S!Plain(x) /\ S!NotAsked(x)
  BY <1>3, <1>4, <1>5 DEF S!StreamOK, S!Buffered, S!Plain, S!NotAsked, S!NoneOf
<1>7. d \in HTTP!Connection /\ d.headerCb /\ ~d.request /\ ~d.finished
  BY DEF HTTP!Connection
<1> HIDE DEF d
<1>8. Pair(k) /\ k.s = x /\ k.c = d
  BY <1>6, <1>7 DEF Pair
<1> HIDE DEF k
<1>9. /\ Pair(l)
      /\ l.s.closed \/ /\ S!Plain(l.s) /\ (S!Asked(l.s) \/ S!Due(l.s))
                       /\ k.s.unsent = 0 => l.s.unsent = 0
                       /\ l.c.request = k.c.request /\ l.c.finished = k.c.finished
                       /\ l.c.headerCb /\ l.c.reader = "headers"
  BY <1>6, <1>7, <1>8, ReadHeadersOK
<1> HIDE DEF l
<1>10. HTTP!NoHandler \in HTTP!Handler /\ HTTP!NoHandler.state = "none"
  BY DEF HTTP!NoHandler, HTTP!Handler
<1>11. l.s.closed \/ Open(l.s, l.c, HTTP!NoHandler)
  BY <1>4, <1>5, <1>7, <1>8, <1>9, <1>10 DEF Open
<1> QED
  BY <1>1, <1>9, <1>10, <1>11 DEF HttpInv, Pair

-----------------------------------------------------------------------------

\* Whatever the client sends and when it closes, whatever the application writes,
\* and in whatever order their callbacks come: a connection never waits for a
\* request while bytes of the response before it are left.
THEOREM HttpInvariant == Spec => []HttpInv
<1>1. Init => HttpInv
  <2> SUFFICES ASSUME Init PROVE HttpInv
    OBVIOUS
  <2>1. HTTP!Init
    BY DEF Init
  <2> QED
    BY <2>1, InitInv
<1>2. HttpInv /\ [Next]_vars => HttpInv'
  <2> SUFFICES ASSUME HttpInv, [Next]_vars PROVE HttpInv'
    OBVIOUS
  <2>1. CASE UNCHANGED httpVars
    BY <2>1 DEF httpVars, HttpInv, Open
  <2>2. CASE HTTP!Next
    <3>1. CASE HTTP!LoopStep
      BY <3>1, DispatchInv, RunNextInv, CallbackReturnsInv, CallbackRaisesInv
         DEF HTTP!LoopStep
    <3>2. CASE HTTP!Client
      BY <3>2, ClientInv
    <3>3. ASSUME NEW n \in 0..MaxWrite, NEW cb \in BOOLEAN, HTTP!Flush(n, cb)
          PROVE  HttpInv'
      BY <3>3, FlushInv
    <3>4. ASSUME NEW n \in 0..MaxWrite, HTTP!FinishHandler(n)
          PROVE  HttpInv'
      BY <3>4, FinishHandlerInv
    <3> QED
      BY <2>2, <3>1, <3>2, <3>3, <3>4 DEF HTTP!Next
  <2>3. UNCHANGED httpVars \/ HTTP!Next
    BY DEF Next, vars
  <2> QED
    BY <2>1, <2>2, <2>3
<1> QED
  BY <1>1, <1>2, PTL DEF Spec

\* HTTPConnection takes up the headers of a request only when every byte of the
\* response before it is out, or its stream is closed.
THEOREM ResponsesAreOutHolds == Spec => ResponsesAreOut
<1>1. HttpInv => [~c.request /\ c'.request => s.unsent = 0 \/ s.closed]_(HTTP!vars)
  BY DEF HttpInv, Open
<1>2. Spec => []HttpInv
  BY HttpInvariant
<1> QED
  BY <1>1, <1>2, PTL DEF ResponsesAreOut, HTTP!ResponsesAreOut

\* While a request has a handler, HTTPConnection reads neither the next one's
\* headers nor this one's body: pipelined requests are answered one by one.
OneAtATime == handler.state # "none" => s.closed \/ (c.request /\ ~s.reading)

\* HTTPConnection (httpserver.py:303-362) has one request at a time, however the client
\* pipelines: the next one is not read before the handler of this one has finished.
THEOREM OneAtATimeHolds == Spec => []OneAtATime
<1>1. HttpInv => OneAtATime
  BY HandlerHandles DEF OneAtATime, Handling, S!NotAsked
<1> QED
  BY <1>1, HttpInvariant, PTL

-----------------------------------------------------------------------------
(* Messages of a WebSocket.                                                *)

\* A protocol object reads frames.
Phases == {"start", "length", "mask", "data"}

Protocols ==
  [open : BOOLEAN, told : BOOLEAN, client_terminated : BOOLEAN,
   server_terminated : BOOLEAN, waiting : BOOLEAN,
   reading : {"none", "request", "headers", "challenge"} \cup Phases,
   due : BOOLEAN, read : Nat, fragments : Seq(Nat), writes : Nat]

Written ==
  [op : {"text", "continuation", "ping", "pong", "close", "unknown", "101", "refusal"},
   fin : BOOLEAN, kind : {"good", "reserved", "garbled"}]

\* What an end of a link l may be sent as its frame number i: the handshake comes
\* first, what is not utf-8 is a text and is not split, and the server writes no wrong
\* frames.
Sendable(l, e, i, f) ==
  /\ f \in Written
  /\ f.kind = "garbled" => f.op = "text" /\ f.fin
  /\ e = "client" => f.kind = "good" /\ f.fin
  /\ e = "server" \/ i > 1 => f.op \notin {"101", "refusal"}
  /\ l = "draft76" /\ e = "server" => f \in Socket!Frames76

\* The messages in h are those that the frames fs end, up to number r.
Tells(fs, h, r) ==
  /\ \A n \in DOMAIN h : h[n] # <<>> => Socket!Whole(fs, h[n]) /\ Socket!Ended(h[n]) <= r
  /\ \A n, k \in DOMAIN h :
       n < k /\ h[n] # <<>> /\ h[k] # <<>> => Socket!Ended(h[n]) < Socket!Ended(h[k])
  /\ \A n \in DOMAIN h : h[n] # <<>> => \A j \in Socket!Messages(fs) :
       j <= Socket!Ended(h[n]) => \E k \in DOMAIN h : h[k] # <<>> /\ Socket!Ended(h[k]) = j

\* The frames, up to number r, of a message that goes on.
Unended(fs, r) == {i \in Socket!Data(fs) : i <= r /\ \A k \in Socket!Finals(fs) : i <= k => r < k}

\* Nothing was wrong up to frame r, and all messages that have ended were told.
Listening(fs, r, fragments, h) ==
  /\ \A i \in 1..r : Socket!Proper(fs, i)
  /\ \A i, j \in DOMAIN fragments : i < j => fragments[i] < fragments[j]
  /\ {fragments[i] : i \in DOMAIN fragments} = Unended(fs, r)
  /\ \A j \in Socket!Finals(fs) :
       j <= r => \E n \in DOMAIN h : h[n] # <<>> /\ Socket!Ended(h[n]) = j

\* The end e, with its protocol object p, has read frames of fs, and told h.
Between(l, e, fs, p, h) ==
  /\ p \in Protocols /\ fs \in Seq(Written) /\ h \in Seq(Seq(Nat)) /\ p.read <= Len(fs)
  /\ \A i \in DOMAIN fs : Sendable(l, e, i, fs[i])
  /\ Tells(fs, h, p.read)
  /\ e = "server" => \A n \in DOMAIN h : h[n] # <<>>
  /\ l = "draft76" => p.fragments = <<>>

Hears(e, fs, p, h) ==
  /\ e = "client" => p.read >= 1
  /\ ~p.client_terminated => Listening(fs, p.read, p.fragments, h)

\* The header of the next frame was read, and was in order.
Ready(l, fs, p) ==
  /\ p.read < Len(fs) /\ fs[p.read + 1].kind # "reserved"
  /\ l = "draft76" => fs[p.read + 1].op # "unknown"

EndInv(l, e, fs, p, h) ==
  /\ Between(l, e, fs, p, h)
  /\ p.due /\ p.reading # "request" => p.read < Len(fs)
  /\ p.reading \in Phases => Hears(e, fs, p, h)
  /\ p.reading \in Phases \ {"start"} /\ (p.open \/ p.due) => Ready(l, fs, p)
  /\ p.reading \in {"request", "headers", "challenge"} => p.read = 0 /\ p.fragments = <<>>

\* What users were given, and what the client's waits for.
HeardInv ==
  /\ heard = [e \in Socket!Ends |-> heard[e]]
  /\ heard["server"] \in Seq(Seq(Nat)) /\ heard["client"] \in Seq(Seq(Nat))
  /\ reader \in [future : {"none", "pending"}, queue : Seq(Seq(Nat))]
  /\ reader.future = "pending" => reader.queue = <<>>

Handlers == [attached : BOOLEAN, closed : BOOLEAN, on_close : Nat]

\* The server writes nothing before it has read the request.
OpeningInv ==
  /\ wsHandler \in Handlers
  /\ ws["server"].reading = "request" => sent["client"] = <<>> /\ ~wsHandler.attached

MessageInv ==
  /\ sent = [e \in Socket!Ends |-> sent[e]] /\ ws = [e \in Socket!Ends |-> ws[e]]
  /\ HeardInv
  /\ OpeningInv
  /\ \A e \in Socket!Ends : EndInv(link, e, sent[e], ws[e], Socket!Given(e))

-----------------------------------------------------------------------------
(* Frames that are the same up to number r.                                *)

Same(fs, gs, r) ==
  /\ fs \in Seq(Written) /\ gs \in Seq(Written) /\ r \in Nat /\ r <= Len(fs) /\ r <= Len(gs)
  /\ \A i \in 1..r : gs[i] = fs[i]

\* Data frames and ends are the same, ...
LEMMA SameData ==
  ASSUME NEW fs, NEW gs, NEW r, Same(fs, gs, r)
  PROVE  /\ \A i \in 1..r : /\ i \in Socket!Data(fs) <=> i \in Socket!Data(gs)
                            /\ i \in Socket!Finals(fs) <=> i \in Socket!Finals(gs)
         /\ \A x \in {fs, gs} : /\ Socket!Finals(x) \subseteq Socket!Data(x)
                                /\ Socket!Data(x) \subseteq Nat \ {0}
<1>1. /\ DOMAIN fs = 1..Len(fs) /\ DOMAIN gs = 1..Len(gs)
      /\ Len(fs) \in Nat /\ Len(gs) \in Nat /\ r \in Nat /\ r <= Len(fs) /\ r <= Len(gs)
      /\ \A i \in 1..r : gs[i] = fs[i]
  BY DEF Same
<1>2. \A i \in 1..r : i \in DOMAIN fs /\ i \in DOMAIN gs /\ gs[i] = fs[i]
  BY <1>1
<1>3. \A x \in {fs, gs} : DOMAIN x \subseteq Nat \ {0}
  BY <1>1
<1> QED
  BY <1>2, <1>3 DEF Socket!Data, Socket!Finals

\* ... and so are what is proper, ...
LEMMA SameProper ==
  ASSUME NEW fs, NEW gs, NEW r, Same(fs, gs, r), NEW i \in 1..r, Socket!Proper(fs, i)
  PROVE  Socket!Proper(gs, i)
<1>1. /\ \A k \in 1..r : /\ k \in Socket!Data(fs) <=> k \in Socket!Data(gs)
                         /\ k \in Socket!Finals(fs) <=> k \in Socket!Finals(gs)
      /\ \A x \in {fs, gs} : /\ Socket!Finals(x) \subseteq Socket!Data(x)
                             /\ Socket!Data(x) \subseteq Nat \ {0}
  BY SameData
<1>2. gs[i] = fs[i] /\ r \in Nat
  BY DEF Same
<1> DEFINE begins(x) == \A k \in Socket!Data(x) : k < i => \E j \in Socket!Finals(x) : k <= j /\ j < i
<1>3. begins(fs) = begins(gs)
  <2>1. \A x \in {fs, gs} : \A k \in Socket!Data(x) : k < i => k \in 1..r
    BY <1>1, <1>2
  <2>2. \A x \in {fs, gs} : \A j \in Socket!Finals(x) : j < i => j \in 1..r
    BY <1>1, <1>2
  <2> QED
    BY <1>1, <2>1, <2>2
<1>4. i \in Socket!Data(fs) <=> i \in Socket!Data(gs)
  BY <1>1
<1> QED
  BY <1>2, <1>3, <1>4 DEF Socket!Proper

\* ... the frames of a message, ...
LEMMA SameParts ==
  ASSUME NEW fs, NEW gs, NEW r, Same(fs, gs, r), NEW j \in 1..r
  PROVE  Socket!Parts(gs, j) = Socket!Parts(fs, j)
<1>1. /\ \A k \in 1..r : /\ k \in Socket!Data(fs) <=> k \in Socket!Data(gs)
                         /\ k \in Socket!Finals(fs) <=> k \in Socket!Finals(gs)
      /\ \A x \in {fs, gs} : /\ Socket!Finals(x) \subseteq Socket!Data(x)
                             /\ Socket!Data(x) \subseteq Nat \ {0}
  BY SameData
<1>2. r \in Nat
  BY DEF Same
<1>3. \A x \in {fs, gs} : \A k \in Socket!Data(x) : k \in 1..r \/ j < k
  BY <1>1, <1>2
<1> QED
  BY <1>1, <1>2, <1>3 DEF Socket!Parts

\* ... those of a message that goes on, ...
LEMMA SameUnended ==
  ASSUME NEW fs, NEW gs, NEW r, Same(fs, gs, r)
  PROVE  Unended(gs, r) = Unended(fs, r)
<1>1. /\ \A k \in 1..r : /\ k \in Socket!Data(fs) <=> k \in Socket!Data(gs)
                         /\ k \in Socket!Finals(fs) <=> k \in Socket!Finals(gs)
      /\ \A x \in {fs, gs} : /\ Socket!Finals(x) \subseteq Socket!Data(x)
                             /\ Socket!Data(x) \subseteq Nat \ {0}
  BY SameData
<1>2. r \in Nat
  BY DEF Same
<1>3. \A x \in {fs, gs} : \A k \in Socket!Data(x) : k \in 1..r \/ r < k
  BY <1>1, <1>2
<1> QED
  BY <1>1, <1>2, <1>3 DEF Unended

\* ... and the messages.
LEMMA SameMessages ==
  ASSUME NEW fs, NEW gs, NEW r, Same(fs, gs, r), NEW j, j <= r, j \in Socket!Messages(fs)
  PROVE  j \in Socket!Messages(gs) /\ j \in 1..r
<1>1. j \in Socket!Finals(fs) /\ \A i \in 1..j : Socket!Proper(fs, i)
  BY DEF Socket!Messages
<1>2. r \in Nat /\ j \in Nat \ {0}
  BY <1>1, SameData DEF Same
<1>3. j \in 1..r /\ \A i \in 1..j : i \in 1..r
  BY <1>2
<1>4. j \in Socket!Finals(gs)
  BY <1>1, <1>3, SameData
<1>5. \A i \in 1..j : Socket!Proper(gs, i)
  BY <1>1, <1>3, SameProper
<1> QED
  BY <1>3, <1>4, <1>5 DEF Socket!Messages

\* Sequences agree both ways.
LEMMA SameBack ==
  ASSUME NEW fs, NEW gs, NEW r, Same(fs, gs, r)
  PROVE  Same(gs, fs, r)
BY DEF Same

\* So what was told is still what was sent, ...
LEMMA SameTells ==
  ASSUME NEW fs, NEW gs, NEW r, Same(fs, gs, r), NEW h, Tells(fs, h, r)
  PROVE  Tells(gs, h, r)
<1>1. ASSUME NEW m, Socket!Whole(fs, m), Socket!Ended(m) <= r
      PROVE  Socket!Whole(gs, m)
  <2>1. Socket!Ended(m) \in Socket!Messages(gs) /\ Socket!Ended(m) \in 1..r
    BY <1>1, SameMessages DEF Socket!Whole
  <2>2. Socket!Parts(gs, Socket!Ended(m)) = Socket!Parts(fs, Socket!Ended(m))
    BY <2>1, SameParts
  <2> QED
    BY <1>1, <2>1, <2>2 DEF Socket!Whole
<1>2. ASSUME NEW n \in DOMAIN h, h[n] # <<>>, NEW j \in Socket!Messages(gs), j <= Socket!Ended(h[n])
      PROVE  j \in Socket!Messages(fs)
  <2>1. Socket!Ended(h[n]) <= r /\ Socket!Ended(h[n]) \in Socket!Messages(fs)
    BY <1>2 DEF Tells, Socket!Whole
  <2>2. Socket!Ended(h[n]) \in Nat /\ r \in Nat /\ j \in Nat
    BY <1>2, <2>1, SameData, SameBack DEF Socket!Messages, Same
  <2>3. j <= r
    BY <1>2, <2>1, <2>2
  <2> QED
    BY <2>3, SameBack, SameMessages
<1> QED
  BY <1>1, <1>2 DEF Tells

\* ... and an end that listens has still heard nothing wrong.
LEMMA SameListening ==
  ASSUME NEW fs, NEW gs, NEW r, Same(fs, gs, r), NEW fragments, NEW h,
         Listening(fs, r, fragments, h)
  PROVE  Listening(gs, r, fragments, h)
<1>1. \A i \in 1..r : Socket!Proper(gs, i)
  BY SameProper DEF Listening
<1>2. Unended(gs, r) = Unended(fs, r)
  BY SameUnended
<1>3. ASSUME NEW j \in Socket!Finals(gs), j <= r PROVE j \in Socket!Finals(fs)
  <2>1. j \in Nat \ {0} /\ r \in Nat
    BY SameData DEF Same
  <2>2. j \in 1..r
    BY <1>3, <2>1
  <2> QED
    BY <2>2, SameData
<1> QED
  BY <1>1, <1>2, <1>3 DEF Listening

-----------------------------------------------------------------------------
(* The next frame.                                                         *)

\* A text frame may come when no message goes on.
LEMMA NextBegins ==
  ASSUME NEW fs \in Seq(Written), NEW r \in Nat, r < Len(fs)
  PROVE  (\A k \in Socket!Data(fs) : k < r + 1 =>
            \E j \in Socket!Finals(fs) : k <= j /\ j < r + 1) <=> Unended(fs, r) = {}
<1>1. Socket!Data(fs) \subseteq Nat /\ Socket!Finals(fs) \subseteq Nat
  BY DEF Socket!Data, Socket!Finals
<1>2. \A k \in Nat : (k < r + 1 <=> k <= r) /\ (k < r + 1 <=> ~(r < k))
  OBVIOUS
<1> QED
  BY <1>1, <1>2 DEF Unended

\* An end that listens hears a frame: what it has of a message, ...
LEMMA NextProper ==
  ASSUME NEW fs \in Seq(Written), NEW r \in Nat, r < Len(fs), NEW fragments \in Seq(Nat), NEW h,
         Listening(fs, r, fragments, h), fs[r + 1].kind = "good",
         \/ /\ fs[r + 1].op \notin {"text", "continuation"} /\ fs[r + 1].fin
            /\ fs[r + 1].op \in {"ping", "pong", "101"}
         \/ /\ fs[r + 1].op \in {"text", "continuation"}
            /\ fs[r + 1].op = "text" <=> fragments = <<>>
  PROVE  \A i \in 1..(r + 1) : Socket!Proper(fs, i)
<1>1. Unended(fs, r) = {} <=> fragments = <<>>
  <2>1. {fragments[i] : i \in DOMAIN fragments} = Unended(fs, r)
    BY DEF Listening
  <2>2. fragments = <<>> <=> DOMAIN fragments = {}
    OBVIOUS
  <2> QED
    BY <2>1, <2>2
<1>2. Socket!Proper(fs, r + 1)
  <2>1. r + 1 \in DOMAIN fs
    OBVIOUS
  <2>2. r + 1 \in Socket!Data(fs) <=> fs[r + 1].op \in {"text", "continuation"}
    BY <2>1 DEF Socket!Data
  <2>3. CASE r + 1 \notin Socket!Data(fs)
    BY <2>2, <2>3 DEF Socket!Proper
  <2>4. CASE r + 1 \in Socket!Data(fs)
    <3> DEFINE begins == \A k \in Socket!Data(fs) : k < r + 1 =>
                           \E j \in Socket!Finals(fs) : k <= j /\ j < r + 1
    <3>1. begins <=> fs[r + 1].op = "text"
      BY <1>1, <2>2, <2>4, NextBegins
    <3> QED
      BY <2>4, <3>1 DEF Socket!Proper
  <2> QED
    BY <2>3, <2>4
<1>3. \A i \in 1..(r + 1) : i \in 1..r \/ i = r + 1
  OBVIOUS
<1> QED
  BY <1>2, <1>3 DEF Listening

\* ... when the frame is not of it, ...
LEMMA NextControl ==
  ASSUME NEW fs \in Seq(Written), NEW r \in Nat, r < Len(fs), NEW fragments \in Seq(Nat), NEW h,
         Listening(fs, r, fragments, h), fs[r + 1].kind = "good", fs[r + 1].fin,
         fs[r + 1].op \in {"ping", "pong", "101"}
  PROVE  Listening(fs, r + 1, fragments, h)
<1>1. \A i \in 1..(r + 1) : Socket!Proper(fs, i)
  BY NextProper
<1>2. r + 1 \notin Socket!Data(fs) /\ r + 1 \notin Socket!Finals(fs)
  BY DEF Socket!Data, Socket!Finals
<1>3. Socket!Data(fs) \subseteq Nat /\ Socket!Finals(fs) \subseteq Nat
  BY DEF Socket!Data, Socket!Finals
<1>4. \A k \in Nat : k # r + 1 => (k <= r + 1 <=> k <= r) /\ (r + 1 < k <=> r < k)
  OBVIOUS
<1>5. Unended(fs, r + 1) = Unended(fs, r)
  BY <1>2, <1>3, <1>4 DEF Unended
<1>6. \A j \in Socket!Finals(fs) : j <= r + 1 => j <= r
  BY <1>2, <1>3, <1>4
<1> QED
  BY <1>1, <1>5, <1>6 DEF Listening

\* ... when it goes on with it, ...
LEMMA NextPart ==
  ASSUME NEW fs \in Seq(Written), NEW r \in Nat, r < Len(fs), NEW fragments \in Seq(Nat), NEW h,
         Listening(fs, r, fragments, h), fs[r + 1].kind = "good", ~fs[r + 1].fin,
         fs[r + 1].op \in {"text", "continuation"}, fs[r + 1].op = "text" <=> fragments = <<>>
  PROVE  Listening(fs, r + 1, Append(fragments, r + 1), h)
<1>1. \A i \in 1..(r + 1) : Socket!Proper(fs, i)
  BY NextProper
<1>2. r + 1 \in Socket!Data(fs) /\ r + 1 \notin Socket!Finals(fs)
  BY DEF Socket!Data, Socket!Finals
<1>3. Socket!Data(fs) \subseteq Nat /\ Socket!Finals(fs) \subseteq Nat
  BY DEF Socket!Data, Socket!Finals
<1>4. \A k \in Nat : k # r + 1 => (k <= r + 1 <=> k <= r) /\ (r + 1 < k <=> r < k)
  OBVIOUS
<1>5. Unended(fs, r + 1) = Unended(fs, r) \cup {r + 1}
  BY <1>2, <1>3, <1>4 DEF Unended
<1>6. \A j \in Socket!Finals(fs) : j <= r + 1 => j <= r
  BY <1>2, <1>3, <1>4
<1> DEFINE more == Append(fragments, r + 1)
           n == Len(fragments) + 1
<1>7. /\ DOMAIN more = DOMAIN fragments \cup {n} /\ more[n] = r + 1
      /\ DOMAIN fragments = 1..(n - 1) /\ n \in Nat /\ \A i \in DOMAIN fragments : more[i] = fragments[i]
  OBVIOUS
<1>8. \A i \in DOMAIN fragments : fragments[i] \in Nat /\ fragments[i] <= r
  BY DEF Listening, Unended
<1> HIDE DEF more, n
<1>9. {more[i] : i \in DOMAIN more} = Unended(fs, r + 1)
  BY <1>5, <1>7 DEF Listening
<1>10. \A i, j \in DOMAIN more : i < j => more[i] < more[j]
  <2> SUFFICES ASSUME NEW i \in DOMAIN more, NEW j \in DOMAIN more, i < j PROVE more[i] < more[j]
    OBVIOUS
  <2>1. i \in DOMAIN fragments
    BY <1>7
  <2>2. CASE j \in DOMAIN fragments
    BY <1>7, <2>1, <2>2 DEF Listening
  <2>3. CASE j = n
    BY <1>7, <1>8, <2>1, <2>3
  <2> QED
    BY <1>7, <2>2, <2>3
<1>11. Listening(fs, r + 1, more, h)
  BY <1>1, <1>6, <1>9, <1>10 DEF Listening
<1> QED
  BY <1>11 DEF more

\* A message that is told is told.
LEMMA AppendTold ==
  ASSUME NEW h \in Seq(Seq(Nat)), NEW m
  PROVE  /\ DOMAIN Append(h, m) = DOMAIN h \cup {Len(h) + 1} /\ Append(h, m)[Len(h) + 1] = m
         /\ \A n \in DOMAIN h : Append(h, m)[n] = h[n] /\ n < Len(h) + 1 /\ n \in Nat
         /\ Len(h) + 1 \in Nat /\ Len(h) + 1 \notin DOMAIN h
OBVIOUS

\* ... and when it ends it: the message is whole.
LEMMA NextEnds ==
  ASSUME NEW fs \in Seq(Written), NEW r \in Nat, r < Len(fs), NEW fragments \in Seq(Nat), NEW h,
         Listening(fs, r, fragments, h), fs[r + 1].kind = "good", fs[r + 1].fin,
         fs[r + 1].op \in {"text", "continuation"}, fs[r + 1].op = "text" <=> fragments = <<>>
  PROVE  /\ Socket!Whole(fs, Append(fragments, r + 1))
         /\ Socket!Ended(Append(fragments, r + 1)) = r + 1
         /\ Unended(fs, r + 1) = {}
<1>1. \A i \in 1..(r + 1) : Socket!Proper(fs, i)
  BY NextProper
<1>2. r + 1 \in Socket!Data(fs) /\ r + 1 \in Socket!Finals(fs)
  BY DEF Socket!Data, Socket!Finals
<1>3. Socket!Data(fs) \subseteq Nat /\ Socket!Finals(fs) \subseteq Nat
  BY DEF Socket!Data, Socket!Finals
<1>4. \A k \in Nat : /\ k # r + 1 => (k <= r + 1 <=> k <= r)
                     /\ r + 1 <= k <=> r < k
  OBVIOUS
<1>5. Unended(fs, r + 1) = {}
  <2>1. \A k \in Nat : k <= r + 1 => ~(r + 1 < r + 1)
    OBVIOUS
  <2> QED
    BY <1>2, <1>3, <2>1 DEF Unended
<1>6. Socket!Parts(fs, r + 1) = Unended(fs, r) \cup {r + 1}
  <2>1. \A k \in Socket!Finals(fs) : r + 1 <= k <=> r < k
    BY <1>3, <1>4
  <2>2. r + 1 \in Socket!Parts(fs, r + 1)
    BY <1>2 DEF Socket!Parts
  <2> QED
    BY <1>2, <1>3, <1>4, <2>1, <2>2 DEF Unended, Socket!Parts
<1> DEFINE m == Append(fragments, r + 1)
           n == Len(fragments) + 1
<1>7. /\ DOMAIN m = DOMAIN fragments \cup {n} /\ m[n] = r + 1 /\ Len(m) = n /\ m # <<>>
      /\ DOMAIN fragments = 1..(n - 1) /\ n \in Nat /\ \A i \in DOMAIN fragments : m[i] = fragments[i]
  <2>1. /\ DOMAIN m = DOMAIN fragments \cup {n} /\ m[n] = r + 1 /\ Len(m) = n
        /\ DOMAIN fragments = 1..(n - 1) /\ n \in Nat /\ \A i \in DOMAIN fragments : m[i] = fragments[i]
    OBVIOUS
  <2>2. n # 0
    OBVIOUS
  <2> HIDE DEF m, n
  <2> QED
    BY <2>1, <2>2
<1>8. \A i \in DOMAIN fragments : fragments[i] \in Nat /\ fragments[i] <= r
  BY DEF Listening, Unended
<1> HIDE DEF n
<1>9. \A i, j \in DOMAIN m : i < j => m[i] < m[j]
  <2> HIDE DEF m
  <2> SUFFICES ASSUME NEW i \in DOMAIN m, NEW j \in DOMAIN m, i < j PROVE m[i] < m[j]
    OBVIOUS
  <2>1. i \in DOMAIN fragments
    BY <1>7
  <2>2. CASE j \in DOMAIN fragments
    BY <1>7, <2>1, <2>2 DEF Listening
  <2>3. CASE j = n
    BY <1>7, <1>8, <2>1, <2>3
  <2> QED
    BY <1>7, <2>2, <2>3
<1>10. Socket!Ended(m) = r + 1
  <2> HIDE DEF m
  <2> QED
    BY <1>7 DEF Socket!Ended
<1>11. Socket!Range(m) = Socket!Parts(fs, r + 1)
  <2> HIDE DEF m
  <2>1. Socket!Range(m) = {fragments[i] : i \in DOMAIN fragments} \cup {r + 1}
    BY <1>7 DEF Socket!Range
  <2> QED
    BY <1>6, <2>1 DEF Listening
<1>12. r + 1 \in Socket!Messages(fs)
  BY <1>1, <1>2 DEF Socket!Messages
<1> HIDE DEF m
<1>13. Socket!Whole(fs, m)
  BY <1>7, <1>9, <1>10, <1>11, <1>12 DEF Socket!Whole
<1> QED
  BY <1>5, <1>10, <1>13 DEF m

\* Nothing is told of frames that are yet to come, and None is no message.
LEMMA TellsMore ==
  ASSUME NEW fs \in Seq(Written), NEW r \in Nat, NEW h \in Seq(Seq(Nat)), Tells(fs, h, r)
  PROVE  /\ Tells(fs, h, r + 1)
         /\ Tells(fs, Append(h, <<>>), r)
<1>1. ASSUME NEW m, Socket!Whole(fs, m), Socket!Ended(m) <= r PROVE Socket!Ended(m) <= r + 1
  <2>1. Socket!Ended(m) \in Nat
    BY <1>1 DEF Socket!Whole, Socket!Messages, Socket!Finals, Socket!Data
  <2> QED
    BY <1>1, <2>1
<1>2. Tells(fs, h, r + 1)
  BY <1>1 DEF Tells
<1> DEFINE g == Append(h, <<>>)
<1>3. \A n \in DOMAIN g : g[n] # <<>> => n \in DOMAIN h /\ h[n] # <<>> /\ g[n] = h[n]
  BY AppendTold
<1>4. \A n \in DOMAIN h : n \in DOMAIN g /\ g[n] = h[n]
  BY AppendTold
<1> HIDE DEF g
<1>5. Tells(fs, g, r)
  BY <1>3, <1>4 DEF Tells
<1> QED
  BY <1>2, <1>5 DEF g

\* The end of a message, told to the user.
LEMMA TellsNext ==
  ASSUME NEW fs \in Seq(Written), NEW r \in Nat, r < Len(fs), NEW fragments \in Seq(Nat),
         NEW h \in Seq(Seq(Nat)), Listening(fs, r, fragments, h), Tells(fs, h, r),
         fs[r + 1].kind = "good", fs[r + 1].fin, fs[r + 1].op \in {"text", "continuation"},
         fs[r + 1].op = "text" <=> fragments = <<>>
  PROVE  /\ Tells(fs, Append(h, Append(fragments, r + 1)), r + 1)
         /\ Listening(fs, r + 1, <<>>, Append(h, Append(fragments, r + 1)))
<1> DEFINE m == Append(fragments, r + 1)
           g == Append(h, m)
           last == Len(h) + 1
<1>1. Socket!Whole(fs, m) /\ Socket!Ended(m) = r + 1 /\ Unended(fs, r + 1) = {}
  BY NextEnds
<1>2. m # <<>>
  BY <1>1 DEF Socket!Whole
<1>3. /\ DOMAIN g = DOMAIN h \cup {last} /\ g[last] = m
      /\ \A n \in DOMAIN h : g[n] = h[n] /\ n < last /\ n \in Nat
      /\ last \in Nat /\ last \notin DOMAIN h
  BY AppendTold
<1>4. \A i \in 1..(r + 1) : Socket!Proper(fs, i)
  BY NextProper
<1>5. Socket!Finals(fs) \subseteq Nat /\ Socket!Messages(fs) \subseteq Socket!Finals(fs)
  BY DEF Socket!Data, Socket!Finals, Socket!Messages
<1> HIDE DEF m, g, last
<1>6. \A n \in DOMAIN h : h[n] # <<>> =>
        Socket!Whole(fs, h[n]) /\ Socket!Ended(h[n]) <= r /\ Socket!Ended(h[n]) \in Nat
  <2>1. \A x : Socket!Whole(fs, x) => Socket!Ended(x) \in Nat
    BY <1>5 DEF Socket!Whole
  <2> QED
    BY <2>1 DEF Tells
<1>7. \A j \in Socket!Finals(fs) :
        j <= r + 1 => \E n \in DOMAIN g : g[n] # <<>> /\ Socket!Ended(g[n]) = j
  <2> SUFFICES ASSUME NEW j \in Socket!Finals(fs), j <= r + 1
               PROVE  \E n \in DOMAIN g : g[n] # <<>> /\ Socket!Ended(g[n]) = j
    OBVIOUS
  <2>1. CASE j = r + 1
    BY <1>1, <1>2, <1>3, <2>1
  <2>2. CASE j # r + 1
    <3>1. j <= r
      BY <1>5, <2>2
    <3>2. PICK n \in DOMAIN h : h[n] # <<>> /\ Socket!Ended(h[n]) = j
      BY <3>1 DEF Listening
    <3> QED
      BY <1>3, <3>2
  <2> QED
    BY <2>1, <2>2
<1>8. Listening(fs, r + 1, <<>>, g)
  <2>1. DOMAIN <<>> = {}
    OBVIOUS
  <2> QED
    BY <1>1, <1>4, <1>7, <2>1 DEF Listening
<1>9. \A n \in DOMAIN g : g[n] # <<>> => Socket!Whole(fs, g[n]) /\ Socket!Ended(g[n]) <= r + 1
  BY <1>1, <1>3, <1>6
<1>10. \A n, k \in DOMAIN g :
         n < k /\ g[n] # <<>> /\ g[k] # <<>> => Socket!Ended(g[n]) < Socket!Ended(g[k])
  <2> SUFFICES ASSUME NEW n \in DOMAIN g, NEW k \in DOMAIN g, n < k, g[n] # <<>>, g[k] # <<>>
               PROVE  Socket!Ended(g[n]) < Socket!Ended(g[k])
    OBVIOUS
  <2>1. n \in DOMAIN h
    BY <1>3
  <2>2. CASE k \in DOMAIN h
    BY <1>3, <2>1, <2>2 DEF Tells
  <2>3. CASE k = last
    BY <1>1, <1>3, <1>6, <2>1, <2>3
  <2> QED
    BY <1>3, <2>2, <2>3
<1>11. \A n \in DOMAIN g : g[n] # <<>> => \A j \in Socket!Messages(fs) :
         j <= Socket!Ended(g[n]) => \E k \in DOMAIN g : g[k] # <<>> /\ Socket!Ended(g[k]) = j
  <2> SUFFICES ASSUME NEW n \in DOMAIN g, g[n] # <<>>, NEW j \in Socket!Messages(fs),
                      j <= Socket!Ended(g[n])
               PROVE  \E k \in DOMAIN g : g[k] # <<>> /\ Socket!Ended(g[k]) = j
    OBVIOUS
  <2>1. Socket!Ended(g[n]) \in Nat /\ Socket!Ended(g[n]) <= r + 1
    <3>1. \A x : Socket!Whole(fs, x) => Socket!Ended(x) \in Nat
      BY <1>5 DEF Socket!Whole
    <3> QED
      BY <1>9, <3>1
  <2>2. j <= r + 1 /\ j \in Socket!Finals(fs)
    BY <1>5, <2>1
  <2> QED
    BY <1>7, <2>2
<1>12. Tells(fs, g, r + 1)
  BY <1>9, <1>10, <1>11 DEF Tells
<1> QED
  BY <1>8, <1>12 DEF m, g

-----------------------------------------------------------------------------
(* A protocol object goes on.                                              *)

\* It reads no further: closed, aborted, or told of the end.
Calmer(p, q) ==
  /\ q \in Protocols /\ q.read = p.read /\ q.fragments = p.fragments
  /\ p.client_terminated => q.client_terminated
  /\ q.reading = p.reading \/ (q.reading = "none" /\ ~q.due)
  /\ (q.due => p.due) /\ (q.open => p.open)

\* An end that is calmer keeps what holds of it.
LEMMA CalmerInv ==
  ASSUME NEW l, NEW e, NEW fs, NEW p, NEW q, NEW h, EndInv(l, e, fs, p, h), Calmer(p, q)
  PROVE  EndInv(l, e, fs, q, h)
<1>1. /\ Between(l, e, fs, p, h)
      /\ p.due /\ p.reading # "request" => p.read < Len(fs)
      /\ p.reading \in Phases => Hears(e, fs, p, h)
      /\ p.reading \in Phases \ {"start"} /\ (p.open \/ p.due) => Ready(l, fs, p)
      /\ p.reading \in {"request", "headers", "challenge"} => p.read = 0 /\ p.fragments = <<>>
  BY DEF EndInv
<1>2. /\ q \in Protocols /\ q.read = p.read /\ q.fragments = p.fragments
      /\ p.client_terminated => q.client_terminated
      /\ q.reading = p.reading \/ (q.reading = "none" /\ ~q.due)
      /\ (q.due => p.due) /\ (q.open => p.open)
  BY DEF Calmer
<1>3. Between(l, e, fs, q, h)
  BY <1>1, <1>2 DEF Between
<1>4. CASE q.reading = "none" /\ ~q.due
  BY <1>3, <1>4 DEF EndInv, Phases
<1>5. CASE q.reading = p.reading
  <2>1. Hears(e, fs, p, h) => Hears(e, fs, q, h)
    BY <1>2 DEF Hears
  <2>2. Ready(l, fs, p) => Ready(l, fs, q)
    BY <1>2 DEF Ready
  <2> QED
    BY <1>1, <1>2, <1>3, <1>5, <2>1, <2>2 DEF EndInv
<1> QED
  BY <1>2, <1>4, <1>5

\* It reads the next piece, when some of the data have come or still may.
Turns(fs, p, q, phase) ==
  /\ q \in Protocols /\ q.read = p.read /\ q.fragments = p.fragments
  /\ p.client_terminated => q.client_terminated
  /\ q.reading \in {phase, "none"} /\ (q.due => q.read < Len(fs))

\* read_bytes is such a turn, also when the stream is closed and it raises.
LEMMA ReadsTurn ==
  ASSUME NEW e, NEW p \in Protocols, NEW phase \in Phases \cup {"challenge"},
         sent[e] \in Seq(Written), NEW q \in Socket!Reads(e, p, phase)
  PROVE  Turns(sent[e], p, q, phase)
<1> DEFINE next == [p EXCEPT !.reading = phase, !.due = FALSE]
           now == [next EXCEPT !.due = TRUE]
           off == Socket!Idle(p)
           gone == Socket!Aborted(off)
<1>1. q \in {next, off, gone} \/ (q = now /\ 1 <= Len(sent[e]) - p.read)
  BY DEF Socket!Reads
<1>2. next \in Protocols /\ now \in Protocols
  BY DEF Protocols
<1>3. off \in Protocols /\ gone \in Protocols
  BY DEF Protocols, Socket!Idle, Socket!Aborted
<1>4. /\ \A x \in {next, now, off, gone} : x.read = p.read /\ x.fragments = p.fragments
      /\ next.reading = phase /\ now.reading = phase /\ off.reading = "none" /\ gone.reading = "none"
      /\ ~next.due /\ ~off.due /\ ~gone.due
      /\ next.client_terminated = p.client_terminated
      /\ now.client_terminated = p.client_terminated
      /\ off.client_terminated = p.client_terminated /\ gone.client_terminated
  BY DEF Protocols, Socket!Idle, Socket!Aborted
<1>5. p.read \in Nat /\ Len(sent[e]) \in Nat
  BY DEF Protocols
<1> HIDE DEF next, now, off, gone
<1> QED
  BY <1>1, <1>2, <1>3, <1>4, <1>5 DEF Turns

\* It goes on to the next frame, ...
LEMMA StartsInv ==
  ASSUME NEW l, NEW e, NEW fs, NEW p, NEW q, NEW h,
         Between(l, e, fs, p, h), Hears(e, fs, p, h), Turns(fs, p, q, "start")
  PROVE  EndInv(l, e, fs, q, h)
<1>1. /\ q \in Protocols /\ q.read = p.read /\ q.fragments = p.fragments
      /\ p.client_terminated => q.client_terminated
      /\ q.reading \in {"start", "none"} /\ (q.due => q.read < Len(fs))
  BY DEF Turns
<1>2. Between(l, e, fs, q, h)
  BY <1>1 DEF Between
<1>3. Hears(e, fs, q, h)
  BY <1>1 DEF Hears
<1> QED
  BY <1>1, <1>2, <1>3 DEF EndInv, Phases

\* ... or to the next piece of this one.
LEMMA PieceInv ==
  ASSUME NEW l, NEW e, NEW fs, NEW p, NEW q, NEW h, NEW phase \in Phases \ {"start"},
         Between(l, e, fs, p, h), Hears(e, fs, p, h), Ready(l, fs, p), Turns(fs, p, q, phase)
  PROVE  EndInv(l, e, fs, q, h)
<1>1. /\ q \in Protocols /\ q.read = p.read /\ q.fragments = p.fragments
      /\ p.client_terminated => q.client_terminated
      /\ q.reading \in {phase, "none"} /\ (q.due => q.read < Len(fs))
  BY DEF Turns
<1>2. Between(l, e, fs, q, h)
  BY <1>1 DEF Between
<1>3. Hears(e, fs, q, h)
  BY <1>1 DEF Hears
<1>4. Ready(l, fs, q)
  BY <1>1 DEF Ready
<1> QED
  BY <1>1, <1>2, <1>3, <1>4 DEF EndInv, Phases

\* More is written to it.
LEMMA WrittenInv ==
  ASSUME NEW l, NEW e, NEW fs, NEW p, NEW h, EndInv(l, e, fs, p, h),
         NEW us \in Seq(Written), \A i \in DOMAIN us : Sendable(l, e, Len(fs) + i, us[i])
  PROVE  EndInv(l, e, fs \o us, p, h)
<1> DEFINE gs == fs \o us
<1>1. /\ p \in Protocols /\ fs \in Seq(Written) /\ h \in Seq(Seq(Nat)) /\ p.read <= Len(fs)
      /\ \A i \in DOMAIN fs : Sendable(l, e, i, fs[i])
      /\ Tells(fs, h, p.read)
  BY DEF EndInv, Between
<1>2. p.read \in Nat
  BY <1>1 DEF Protocols
<1>3. /\ gs \in Seq(Written) /\ Len(gs) = Len(fs) + Len(us)
      /\ Len(fs) \in Nat /\ Len(us) \in Nat
      /\ \A i \in 1..Len(fs) : gs[i] = fs[i]
      /\ \A i \in 1..Len(us) : gs[Len(fs) + i] = us[i]
      /\ DOMAIN gs = 1..(Len(fs) + Len(us)) /\ DOMAIN fs = 1..Len(fs) /\ DOMAIN us = 1..Len(us)
  BY <1>1
<1> HIDE DEF gs
<1>4. Same(fs, gs, p.read)
  BY <1>1, <1>2, <1>3 DEF Same
<1>5. ASSUME NEW i \in DOMAIN gs PROVE Sendable(l, e, i, gs[i])
  <2>1. CASE i \in DOMAIN fs
    BY <1>1, <1>3, <2>1
  <2>2. CASE i \notin DOMAIN fs
    <3>1. i - Len(fs) \in DOMAIN us /\ Len(fs) + (i - Len(fs)) = i
      BY <1>3, <2>2
    <3> QED
      BY <1>3, <3>1
  <2> QED
    BY <2>1, <2>2
<1>6. Tells(gs, h, p.read)
  BY <1>1, <1>4, SameTells
<1>7. Between(l, e, gs, p, h)
  BY <1>1, <1>2, <1>3, <1>5, <1>6 DEF EndInv, Between
<1>8. Hears(e, fs, p, h) => Hears(e, gs, p, h)
  BY <1>4, SameListening DEF Hears
<1>9. Ready(l, fs, p) => Ready(l, gs, p)
  <2> SUFFICES ASSUME Ready(l, fs, p) PROVE Ready(l, gs, p)
    OBVIOUS
  <2>1. p.read < Len(fs)
    BY DEF Ready
  <2>2. p.read < Len(gs) /\ p.read + 1 \in 1..Len(fs)
    BY <1>2, <1>3, <2>1
  <2> QED
    BY <1>3, <2>2 DEF Ready
<1>10. p.read < Len(fs) => p.read < Len(gs)
  BY <1>2, <1>3
<1>11. EndInv(l, e, gs, p, h)
  BY <1>7, <1>8, <1>9, <1>10 DEF EndInv
<1> QED
  BY <1>11 DEF gs

\* The other end is gone, with some of what it wrote.
LEMMA LostInv ==
  ASSUME NEW l, NEW e, NEW fs, NEW p, NEW h, EndInv(l, e, fs, p, h), NEW n \in p.read..Len(fs),
         p.due /\ p.reading # "request" => p.read < n
  PROVE  EndInv(l, e, SubSeq(fs, 1, n), [p EXCEPT !.open = FALSE], h)
<1> DEFINE gs == SubSeq(fs, 1, n)
           q == [p EXCEPT !.open = FALSE]
<1>1. /\ p \in Protocols /\ fs \in Seq(Written) /\ h \in Seq(Seq(Nat)) /\ p.read <= Len(fs)
      /\ \A i \in DOMAIN fs : Sendable(l, e, i, fs[i])
      /\ Tells(fs, h, p.read)
  BY DEF EndInv, Between
<1>2. p.read \in Nat
  BY <1>1 DEF Protocols
<1>3. n \in Nat /\ p.read <= n /\ n <= Len(fs) /\ Len(fs) \in Nat /\ DOMAIN fs = 1..Len(fs)
  BY <1>1, <1>2
<1>4. gs \in Seq(Written) /\ Len(gs) = n /\ DOMAIN gs = 1..n /\ \A i \in 1..n : gs[i] = fs[i]
  BY <1>1, <1>3
<1>5. /\ q \in Protocols /\ q.read = p.read /\ q.fragments = p.fragments /\ ~q.open
      /\ q.client_terminated = p.client_terminated /\ q.reading = p.reading /\ q.due = p.due
  BY <1>1 DEF Protocols
<1> HIDE DEF gs, q
<1>6. Same(fs, gs, p.read)
  BY <1>1, <1>2, <1>3, <1>4 DEF Same
<1>7. \A i \in DOMAIN gs : Sendable(l, e, i, gs[i])
  BY <1>1, <1>3, <1>4
<1>8. Tells(gs, h, p.read)
  BY <1>1, <1>6, SameTells
<1>9. Between(l, e, gs, q, h)
  BY <1>1, <1>3, <1>4, <1>5, <1>7, <1>8 DEF EndInv, Between
<1>10. Hears(e, fs, p, h) => Hears(e, gs, q, h)
  BY <1>5, <1>6, SameListening DEF Hears
<1>11. p.due /\ p.reading # "request" /\ Ready(l, fs, p) => Ready(l, gs, q)
  <2> SUFFICES ASSUME p.read < n, Ready(l, fs, p) PROVE Ready(l, gs, q)
    OBVIOUS
  <2>1. p.read + 1 \in 1..n
    BY <1>2, <1>3
  <2> QED
    BY <1>4, <1>5, <2>1 DEF Ready
<1>12. EndInv(l, e, gs, q, h)
  BY <1>4, <1>5, <1>9, <1>10, <1>11 DEF EndInv, Phases
<1> QED
  BY <1>12 DEF gs, q

\* The client's user is told None.
LEMMA SilentInv ==
  ASSUME NEW l, NEW fs, NEW p, NEW h, EndInv(l, "client", fs, p, h)
  PROVE  EndInv(l, "client", fs, p, Append(h, <<>>))
<1> DEFINE g == Append(h, <<>>)
<1>1. /\ p \in Protocols /\ fs \in Seq(Written) /\ h \in Seq(Seq(Nat)) /\ Tells(fs, h, p.read)
  BY DEF EndInv, Between
<1>2. p.read \in Nat
  BY <1>1 DEF Protocols
<1>3. Tells(fs, g, p.read)
  BY <1>1, <1>2, TellsMore
<1>4. g \in Seq(Seq(Nat)) /\ \A n \in DOMAIN h : n \in DOMAIN g /\ g[n] = h[n]
  BY <1>1, AppendTold
<1> HIDE DEF g
<1>5. Between(l, "client", fs, p, g)
  BY <1>3, <1>4 DEF EndInv, Between
<1>6. Hears("client", fs, p, h) => Hears("client", fs, p, g)
  BY <1>4 DEF Hears, Listening
<1>7. EndInv(l, "client", fs, p, g)
  BY <1>5, <1>6 DEF EndInv
<1> QED
  BY <1>7 DEF g

\* A frame was read.
Next1(p) == [Socket!Idle(p) EXCEPT !.read = @ + 1]

\* Reading it changes the number of frames read, and the piece that is waited for.
LEMMA NextIs ==
  ASSUME NEW p \in Protocols
  PROVE  LET q == Next1(p)
         IN  /\ q \in Protocols /\ q.read = p.read + 1 /\ q.fragments = p.fragments
             /\ q.reading = "none" /\ ~q.due /\ q.open = p.open
             /\ q.client_terminated = p.client_terminated /\ p.read \in Nat
<1> DEFINE off == Socket!Idle(p)
<1>1. /\ off \in Protocols /\ off.read = p.read /\ off.fragments = p.fragments
      /\ off.reading = "none" /\ ~off.due /\ off.open = p.open
      /\ off.client_terminated = p.client_terminated /\ p.read \in Nat
  BY DEF Protocols, Socket!Idle
<1> DEFINE n == p.read + 1
           q == [off EXCEPT !.read = n]
<1>2. Next1(p) = q
  BY <1>1 DEF Next1
<1>3. n \in Nat
  BY <1>1
<1> HIDE DEF off, n
<1>4. q \in Protocols
  BY <1>1, <1>3 DEF Protocols
<1>5. /\ q.read = n /\ q.fragments = off.fragments /\ q.reading = off.reading
      /\ q.due = off.due /\ q.open = off.open /\ q.client_terminated = off.client_terminated
  BY <1>1 DEF Protocols
<1> HIDE DEF q
<1> QED
  BY <1>1, <1>2, <1>4, <1>5 DEF n

\* Nothing is told of a frame that was only read.
LEMMA BetweenRead ==
  ASSUME NEW l, NEW e, NEW fs, NEW p, NEW h, Between(l, e, fs, p, h), p.read < Len(fs),
         NEW q \in Protocols, q.read = p.read + 1,
         q.fragments \in {p.fragments, <<>>} \/ l # "draft76"
  PROVE  Between(l, e, fs, q, h)
<1>1. /\ p \in Protocols /\ fs \in Seq(Written) /\ h \in Seq(Seq(Nat)) /\ Tells(fs, h, p.read)
  BY DEF Between
<1>2. p.read \in Nat /\ Len(fs) \in Nat
  BY <1>1 DEF Protocols
<1>3. Tells(fs, h, q.read)
  BY <1>1, <1>2, TellsMore
<1>4. q.read <= Len(fs)
  BY <1>2
<1> QED
  BY <1>3, <1>4 DEF Between

\* An end that has read a frame and waits for nothing keeps what holds of it.
LEMMA ReadInv ==
  ASSUME NEW l, NEW e, NEW fs, NEW p, NEW h, Between(l, e, fs, p, h), p.read < Len(fs),
         NEW q \in Protocols, q.read = p.read + 1, q.fragments \in {p.fragments, <<>>} \/ l # "draft76",
         q.reading = "none", ~q.due
  PROVE  EndInv(l, e, fs, q, h)
BY BetweenRead DEF EndInv, Phases

\* A control frame was, which is no part of a message, ...
LEMMA ControlRead ==
  ASSUME NEW l, NEW e, NEW fs, NEW p, NEW h, Between(l, e, fs, p, h), Hears(e, fs, p, h),
         p.read < Len(fs), ~p.client_terminated, fs[p.read + 1].kind = "good", fs[p.read + 1].fin,
         fs[p.read + 1].op \in {"ping", "pong", "101"},
         NEW q \in Protocols, q.read = p.read + 1, q.fragments = p.fragments
  PROVE  Between(l, e, fs, q, h) /\ Hears(e, fs, q, h)
<1>1. /\ p \in Protocols /\ fs \in Seq(Written) /\ h \in Seq(Seq(Nat)) /\ Tells(fs, h, p.read)
  BY DEF Between
<1>2. p.read \in Nat /\ Len(fs) \in Nat /\ p.fragments \in Seq(Nat)
  BY <1>1 DEF Protocols
<1>3. Tells(fs, h, q.read)
  BY <1>1, <1>2, TellsMore
<1>4. Between(l, e, fs, q, h)
  BY <1>2, <1>3 DEF Between
<1>5. Listening(fs, q.read, q.fragments, h)
  BY <1>1, <1>2, NextControl DEF Hears
<1> QED
  BY <1>2, <1>4, <1>5 DEF Hears

\* ... a part of a message was, ...
LEMMA PartRead ==
  ASSUME NEW l, NEW e, NEW fs, NEW p, NEW h, Between(l, e, fs, p, h), Hears(e, fs, p, h),
         l # "draft76", p.read < Len(fs), fs[p.read + 1].kind = "good", ~fs[p.read + 1].fin,
         fs[p.read + 1].op \in {"text", "continuation"},
         fs[p.read + 1].op = "text" <=> p.fragments = <<>>,
         NEW q \in Protocols, q.read = p.read + 1, q.fragments = Append(p.fragments, p.read + 1),
         q.client_terminated = p.client_terminated
  PROVE  Between(l, e, fs, q, h) /\ Hears(e, fs, q, h)
<1>1. /\ p \in Protocols /\ fs \in Seq(Written) /\ h \in Seq(Seq(Nat)) /\ Tells(fs, h, p.read)
  BY DEF Between
<1>2. p.read \in Nat /\ Len(fs) \in Nat /\ p.fragments \in Seq(Nat)
  BY <1>1 DEF Protocols
<1>3. Tells(fs, h, q.read)
  BY <1>1, <1>2, TellsMore
<1>4. Between(l, e, fs, q, h)
  BY <1>2, <1>3 DEF Between
<1>5. ~q.client_terminated => Listening(fs, q.read, q.fragments, h)
  BY <1>1, <1>2, NextPart DEF Hears
<1> QED
  BY <1>2, <1>4, <1>5 DEF Hears

\* ... or its end, and the user is told.
LEMMA EndRead ==
  ASSUME NEW l, NEW e, NEW fs, NEW p, NEW h, Between(l, e, fs, p, h), Hears(e, fs, p, h),
         p.read < Len(fs), ~p.client_terminated, fs[p.read + 1].kind = "good", fs[p.read + 1].fin,
         fs[p.read + 1].op \in {"text", "continuation"},
         fs[p.read + 1].op = "text" <=> p.fragments = <<>>,
         NEW q \in Protocols, q.read = p.read + 1, q.fragments = <<>>,
         NEW m, m = Append(p.fragments, p.read + 1)
  PROVE  Between(l, e, fs, q, Append(h, m)) /\ Hears(e, fs, q, Append(h, m)) /\ m \in Seq(Nat)
<1>1. /\ p \in Protocols /\ fs \in Seq(Written) /\ h \in Seq(Seq(Nat)) /\ Tells(fs, h, p.read)
  BY DEF Between
<1>2. p.read \in Nat /\ Len(fs) \in Nat /\ p.fragments \in Seq(Nat)
  BY <1>1 DEF Protocols
<1>3. m \in Seq(Nat) /\ m # <<>>
  BY <1>2
<1>4. Tells(fs, Append(h, m), q.read) /\ Listening(fs, q.read, <<>>, Append(h, m))
  BY <1>1, <1>2, TellsNext DEF Hears
<1>5. /\ Append(h, m) \in Seq(Seq(Nat))
      /\ (\A n \in DOMAIN h : h[n] # <<>>) => \A n \in DOMAIN Append(h, m) : Append(h, m)[n] # <<>>
  BY <1>1, <1>3, AppendTold
<1>6. q.read <= Len(fs)
  BY <1>2
<1> DEFINE g == Append(h, m)
<1>7. /\ g \in Seq(Seq(Nat)) /\ Tells(fs, g, q.read)
      /\ e = "server" => \A n \in DOMAIN g : g[n] # <<>>
  BY <1>4, <1>5 DEF Between
<1>8. Listening(fs, q.read, q.fragments, g)
  BY <1>4
<1> HIDE DEF g
<1>9. Between(l, e, fs, q, g)
  BY <1>1, <1>6, <1>7 DEF Between
<1>10. Hears(e, fs, q, g)
  BY <1>2, <1>8 DEF Hears
<1> QED
  BY <1>3, <1>9, <1>10 DEF g

-----------------------------------------------------------------------------
(* Steps of the two ends.                                                  *)

\* There are two ends, and each is the other's peer.
LEMMA TheEnds ==
  /\ Socket!Ends = {"server", "client"}
  /\ Socket!Peer("server") = "client" /\ Socket!Peer("client") = "server"
  /\ \A e \in Socket!Ends : Socket!Peer(e) \in Socket!Ends /\ Socket!Peer(e) # e
BY DEF Socket!Ends, Socket!Peer

\* What an end was given, sequence by sequence.
LEMMA SequencesJoin ==
  ASSUME NEW a \in Seq(Seq(Nat)), NEW b \in Seq(Seq(Nat)), NEW m \in Seq(Nat)
  PROVE  /\ a \o <<>> = a /\ a \o b \in Seq(Seq(Nat))
         /\ Append(a, m) \in Seq(Seq(Nat)) /\ Append(b, m) \in Seq(Seq(Nat))
         /\ a \o Append(b, m) = Append(a \o b, m)
<1>1. a \o <<>> = a /\ a \o b \in Seq(Seq(Nat)) /\ Append(a, m) \in Seq(Seq(Nat))
      /\ Append(b, m) \in Seq(Seq(Nat)) /\ <<m>> \in Seq(Seq(Nat))
  OBVIOUS
<1> DEFINE f == a \o b
           l == <<m>>
<1>2. Append(b, m) = b \o l /\ Append(f, m) = f \o l
  BY <1>1, AppendIsConcat
<1>3. a \o (b \o l) = (a \o b) \o l
  <2> HIDE DEF l
  <2> QED
    BY <1>1, ConcatAssociative DEF l
<1> QED
  BY <1>1, <1>2, <1>3

\* The server's user was given what it heard, the client's also has the queue.
LEMMA GivenIs ==
  ASSUME HeardInv
  PROVE  /\ Socket!Given("server") = heard["server"]
         /\ Socket!Given("client") = heard["client"] \o reader.queue
         /\ \A e \in Socket!Ends : Socket!Given(e) \in Seq(Seq(Nat))
<1>1. /\ heard["server"] \in Seq(Seq(Nat)) /\ heard["client"] \in Seq(Seq(Nat))
      /\ reader.queue \in Seq(Seq(Nat))
  BY DEF HeardInv
<1>2. /\ Socket!Given("server") = heard["server"] \o <<>>
      /\ Socket!Given("client") = heard["client"] \o reader.queue
  BY DEF Socket!Given
<1>3. <<>> \in Seq(Nat)
  OBVIOUS
<1> QED
  BY <1>1, <1>2, <1>3, SequencesJoin, TheEnds

\* on_message gives the message, now or when it is read.
LEMMA DeliverGives ==
  ASSUME HeardInv, NEW e \in Socket!Ends, NEW m \in Seq(Nat), Socket!Deliver(e, m)
  PROVE  /\ HeardInv'
         /\ Socket!Given(e)' = Append(Socket!Given(e), m)
         /\ Socket!Given(Socket!Peer(e))' = Socket!Given(Socket!Peer(e))
<1>1. /\ heard = [x \in Socket!Ends |-> heard[x]]
      /\ heard["server"] \in Seq(Seq(Nat)) /\ heard["client"] \in Seq(Seq(Nat))
      /\ reader \in [future : {"none", "pending"}, queue : Seq(Seq(Nat))]
      /\ reader.queue \in Seq(Seq(Nat))
      /\ reader.future = "pending" => reader.queue = <<>>
  BY DEF HeardInv
<1>2. /\ Socket!Given("server") = heard["server"]
      /\ Socket!Given("client") = heard["client"] \o reader.queue
  BY GivenIs
<1>3. /\ Socket!Given("server")' = heard'["server"] \o <<>>
      /\ Socket!Given("client")' = heard'["client"] \o reader'.queue
  BY DEF Socket!Given
<1>4. CASE e = "client" /\ reader.future = "none"
  <2>1. reader' = [reader EXCEPT !.queue = Append(reader.queue, m)] /\ heard' = heard
    BY <1>4 DEF Socket!Deliver
  <2> DEFINE g == Append(reader.queue, m)
  <2>2. g \in Seq(Seq(Nat)) /\ reader' = [reader EXCEPT !.queue = g]
    BY <1>1, <2>1
  <2>3. heard["client"] \o g = Append(heard["client"] \o reader.queue, m)
        /\ heard["server"] \o <<>> = heard["server"]
    <3> DEFINE x == heard["client"]
               y == heard["server"]
               z == reader.queue
    <3>1. x \in Seq(Seq(Nat)) /\ y \in Seq(Seq(Nat)) /\ z \in Seq(Seq(Nat))
      BY <1>1
    <3> HIDE DEF x, y, z
    <3>2. x \o Append(z, m) = Append(x \o z, m) /\ y \o <<>> = y
      BY <3>1, SequencesJoin
    <3> QED
      BY <3>2 DEF x, y, z
  <2> HIDE DEF g
  <2>4. /\ reader' \in [future : {"none", "pending"}, queue : Seq(Seq(Nat))]
        /\ reader'.future = "none" /\ reader'.queue = g
    BY <1>1, <1>4, <2>2
  <2>5. HeardInv'
    BY <1>1, <2>1, <2>4 DEF HeardInv
  <2>6. /\ Socket!Given("client")' = Append(Socket!Given("client"), m)
        /\ Socket!Given("server")' = Socket!Given("server")
    BY <1>2, <1>3, <2>1, <2>3, <2>4
  <2> QED
    BY <1>4, <2>5, <2>6, TheEnds
<1>5. CASE ~(e = "client" /\ reader.future = "none")
  <2> DEFINE future == IF e = "client" THEN "none" ELSE reader.future
             g == Append(heard[e], m)
  <2>1. /\ heard' = [heard EXCEPT ![e] = g]
        /\ reader' = [reader EXCEPT !.future = future]
    BY <1>5 DEF Socket!Deliver
  <2>2. future \in {"none", "pending"} /\ future \in {"none", reader.future}
    BY <1>1
  <2>3. g \in Seq(Seq(Nat))
    BY <1>1, SequencesJoin, TheEnds
  <2> HIDE DEF future
  <2>4. /\ reader' \in [future : {"none", "pending"}, queue : Seq(Seq(Nat))]
        /\ reader'.queue = reader.queue /\ reader'.future = future
    BY <1>1, <2>1, <2>2
  <2> HIDE DEF g
  <2>5. /\ heard' = [x \in Socket!Ends |-> heard'[x]]
        /\ heard'[e] = g /\ \A x \in Socket!Ends : x # e => heard'[x] = heard[x]
    BY <1>1, <2>1
  <2>6. heard'["server"] \in Seq(Seq(Nat)) /\ heard'["client"] \in Seq(Seq(Nat))
    BY <1>1, <2>3, <2>5, TheEnds
  <2>7. HeardInv'
    <3>1. reader'.future = "pending" => reader'.queue = <<>>
      BY <1>1, <2>2, <2>4
    <3> QED
      BY <2>4, <2>5, <2>6, <3>1 DEF HeardInv
  <2>8. /\ heard'["server"] \o <<>> = heard'["server"] /\ heard["client"] \o <<>> = heard["client"]
        /\ heard'["client"] \o <<>> = heard'["client"] 
    <3>1. <<>> \in Seq(Nat)
      OBVIOUS
    <3> QED
      BY <1>1, <2>6, <3>1, SequencesJoin
  <2>9. CASE e = "client"
    <3>1. reader.queue = <<>> /\ reader'.queue = <<>>
      BY <1>1, <1>5, <2>4, <2>9
    <3>2. Socket!Given("client")' = g /\ Socket!Given("client") = heard["client"]
      BY <1>2, <1>3, <2>5, <2>8, <2>9, <3>1
    <3>3. Socket!Given("server")' = Socket!Given("server")
      BY <1>2, <1>3, <2>5, <2>8, <2>9, TheEnds
    <3> QED
      BY <2>7, <2>9, <3>2, <3>3, TheEnds DEF g
  <2>10. CASE e = "server"
    <3>1. Socket!Given("server")' = g
      BY <1>2, <1>3, <2>5, <2>8, <2>10
    <3>2. Socket!Given("client")' = Socket!Given("client")
      BY <1>2, <1>3, <2>4, <2>5, <2>10, TheEnds
    <3> QED
      BY <1>2, <2>7, <2>10, <3>1, <3>2, TheEnds DEF g
  <2> QED
    BY <2>9, <2>10, TheEnds
<1> QED
  BY <1>4, <1>5

\* One end goes from p to q, and writes us to the other.
LEMMA MessageStep ==
  ASSUME MessageInv, NEW e \in Socket!Ends, NEW q, NEW us \in Seq(Written),
         \A i \in DOMAIN us :
           Sendable(link, Socket!Peer(e), Len(sent[Socket!Peer(e)]) + i, us[i]),
         link' = link, ws' = [ws EXCEPT ![e] = q],
         \/ sent' = sent
         \/ Socket!Write(e, us) /\ (e = "server" => q.reading # "request"),
         wsHandler' \in Handlers,
         wsHandler'.attached => wsHandler.attached \/ (e = "server" /\ q.reading # "request"),
         e = "server" => q.reading # "request" \/ ws["server"].reading = "request",
         HeardInv', Socket!Given(Socket!Peer(e))' = Socket!Given(Socket!Peer(e)),
         EndInv(link, e, sent[e], q, Socket!Given(e)')
  PROVE  MessageInv'
<1> DEFINE d == Socket!Peer(e)
<1>1. /\ sent = [x \in Socket!Ends |-> sent[x]] /\ ws = [x \in Socket!Ends |-> ws[x]]
      /\ OpeningInv
      /\ \A x \in Socket!Ends : EndInv(link, x, sent[x], ws[x], Socket!Given(x))
  BY DEF MessageInv
<1>2. d \in Socket!Ends /\ d # e /\ \A x \in Socket!Ends : x = e \/ x = d
  BY TheEnds
<1>3. /\ ws' = [x \in Socket!Ends |-> ws'[x]] /\ ws'[e] = q /\ ws'[d] = ws[d]
  BY <1>1, <1>2
<1>4. /\ sent' = [x \in Socket!Ends |-> sent'[x]] /\ sent'[e] = sent[e]
      /\ sent'[d] = sent[d] \/ sent'[d] = sent[d] \o us
  <2>1. sent' = sent \/ sent' = [sent EXCEPT ![d] = sent[d] \o us] \/ sent' = [sent EXCEPT ![d] = sent[d]]
    BY DEF Socket!Write
  <2> QED
    BY <1>1, <1>2, <2>1
<1>5. EndInv(link, d, sent[d] \o us, ws[d], Socket!Given(d))
  BY <1>1, <1>2, WrittenInv
<1>6. EndInv(link, d, sent[d], ws[d], Socket!Given(d))
  BY <1>1, <1>2
<1>7. EndInv(link', d, sent'[d], ws'[d], Socket!Given(d)')
  BY <1>3, <1>4, <1>5, <1>6
<1>8. EndInv(link', e, sent'[e], ws'[e], Socket!Given(e)')
  BY <1>3, <1>4
<1>9. \A x \in Socket!Ends : EndInv(link', x, sent'[x], ws'[x], Socket!Given(x)')
  BY <1>2, <1>7, <1>8
<1>10. ws'["server"].reading = "request" => sent'["client"] = <<>> /\ ~wsHandler'.attached
  <2>1. CASE e = "server"
    <3>1. ws'["server"] = q
      BY <1>3, <2>1
    <3>2. q.reading = "request" => sent' = sent /\ ~wsHandler'.attached /\ sent["client"] = <<>>
      BY <1>1, <2>1 DEF OpeningInv
    <3> QED
      BY <3>1, <3>2
  <2>2. CASE e = "client"
    <3>1. ws'["server"] = ws["server"] /\ sent'["client"] = sent["client"]
      BY <1>3, <1>4, <2>2, TheEnds
    <3> QED
      BY <1>1, <2>2, <3>1 DEF OpeningInv
  <2> QED
    BY <2>1, <2>2, TheEnds
<1>11. OpeningInv'
  BY <1>10 DEF OpeningInv
<1> HIDE DEF d
<1> QED
  BY <1>3, <1>4, <1>9, <1>11 DEF MessageInv

\* ... while nobody is told anything.
LEMMA QuietStep ==
  ASSUME MessageInv, NEW e \in Socket!Ends, NEW q, NEW us \in Seq(Written),
         \A i \in DOMAIN us :
           Sendable(link, Socket!Peer(e), Len(sent[Socket!Peer(e)]) + i, us[i]),
         link' = link, ws' = [ws EXCEPT ![e] = q],
         \/ sent' = sent
         \/ Socket!Write(e, us) /\ (e = "server" => q.reading # "request"),
         wsHandler' \in Handlers,
         wsHandler'.attached => wsHandler.attached \/ (e = "server" /\ q.reading # "request"),
         e = "server" => q.reading # "request" \/ ws["server"].reading = "request",
         heard' = heard, reader' = reader,
         EndInv(link, e, sent[e], q, Socket!Given(e))
  PROVE  MessageInv'
<1>1. HeardInv'
  BY DEF MessageInv, HeardInv
<1>2. /\ Socket!Given(e)' = Socket!Given(e)
      /\ Socket!Given(Socket!Peer(e))' = Socket!Given(Socket!Peer(e))
  BY DEF Socket!Given
<1>3. EndInv(link, e, sent[e], q, Socket!Given(e)')
  BY <1>2
<1> QED
  BY <1>1, <1>2, <1>3, MessageStep

\* What a tornado end writes.
LEMMA OneSent ==
  ASSUME NEW l, NEW e, NEW n \in Nat, NEW f, Sendable(l, e, n + 1, f)
  PROVE  <<f>> \in Seq(Written) /\ \A i \in DOMAIN <<f>> : Sendable(l, e, n + i, <<f>>[i])
BY DEF Sendable

\* What the library writes by itself, or for its user, is a frame in order.
LEMMA FrameSent ==
  ASSUME NEW l, NEW e, e = "server" => l # "draft76", NEW n \in Nat,
         NEW op \in {"text", "ping", "pong", "close"}
  PROVE  Sendable(l, e, n, Socket!Frame(op, TRUE))
<1> DEFINE f == Socket!Frame(op, TRUE)
<1>1. f.op = op /\ f.fin /\ f.kind = "good"
  BY DEF Socket!Frame
<1>2. f \in Written
  BY DEF Socket!Frame, Written
<1> HIDE DEF f
<1>3. Sendable(l, e, n, f)
  BY <1>1, <1>2 DEF Sendable
<1> QED
  BY <1>3 DEF f

\* Closing, aborting and being told are steps to a calmer end, one after the other.
LEMMA CalmerIs ==
  ASSUME NEW p \in Protocols
  PROVE  /\ Calmer(p, Socket!Idle(p)) /\ Calmer(p, Socket!Aborted(p)) /\ Calmer(p, Socket!Closing(p))
         /\ Calmer(p, [p EXCEPT !.open = FALSE]) /\ Calmer(p, [p EXCEPT !.told = TRUE])
         /\ Calmer(p, [p EXCEPT !.writes = @ + 1]) /\ Calmer(p, [p EXCEPT !.client_terminated = TRUE])
         /\ Calmer(p, p)
<1>1. Calmer(p, p)
  BY DEF Calmer
<1>2. Calmer(p, Socket!Idle(p))
  BY DEF Calmer, Protocols, Socket!Idle
<1>3. Calmer(p, Socket!Aborted(p))
  BY DEF Calmer, Protocols, Socket!Aborted
<1>4. Calmer(p, Socket!Closing(p))
  <2> DEFINE waiting == ~p.client_terminated
             open == p.open /\ ~p.client_terminated
             q == [p EXCEPT !.server_terminated = TRUE, !.waiting = waiting, !.open = open]
  <2>1. Socket!Closing(p) = q
    BY DEF Socket!Closing
  <2>2. waiting \in BOOLEAN /\ open \in BOOLEAN /\ (open => p.open)
    OBVIOUS
  <2> HIDE DEF waiting, open
  <2>3. Calmer(p, q)
    BY <2>2 DEF Calmer, Protocols
  <2> QED
    BY <2>1, <2>3
<1>5. Calmer(p, [p EXCEPT !.open = FALSE]) /\ Calmer(p, [p EXCEPT !.told = TRUE])
  BY DEF Calmer, Protocols
<1>6. Calmer(p, [p EXCEPT !.writes = @ + 1])
  BY DEF Calmer, Protocols
<1>7. Calmer(p, [p EXCEPT !.client_terminated = TRUE])
  BY DEF Calmer, Protocols
<1> QED
  BY <1>1, <1>2, <1>3, <1>4, <1>5, <1>6, <1>7

\* Two calmer steps are one.
LEMMA CalmerThen ==
  ASSUME NEW p, NEW q, NEW r, Calmer(p, q), Calmer(q, r)
  PROVE  Calmer(p, r)
BY DEF Calmer

\* What the invariant says of an end.
LEMMA EndIs ==
  ASSUME MessageInv, NEW e \in Socket!Ends
  PROVE  /\ EndInv(link, e, sent[e], ws[e], Socket!Given(e))
         /\ Between(link, e, sent[e], ws[e], Socket!Given(e))
         /\ ws[e] \in Protocols /\ sent[e] \in Seq(Written)
         /\ Socket!Given(e) \in Seq(Seq(Nat)) /\ ws[e].read \in Nat /\ Len(sent[e]) \in Nat
BY DEF MessageInv, EndInv, Between, Protocols

\* A step of one end that only makes it calmer: no end is told or sent anything.
LEMMA CalmStep ==
  ASSUME MessageInv, NEW e \in Socket!Ends, NEW q, Calmer(ws[e], q),
         link' = link, ws' = [ws EXCEPT ![e] = q], sent' = sent,
         wsHandler' \in Handlers,
         wsHandler'.attached => wsHandler.attached \/ (e = "server" /\ q.reading # "request"),
         heard' = heard, reader' = reader
  PROVE  MessageInv'
<1>1. EndInv(link, e, sent[e], q, Socket!Given(e))
  BY EndIs, CalmerInv
<1>2. q.reading # "request" \/ ws[e].reading = "request"
  BY DEF Calmer
<1> DEFINE us == <<>>
<1>3. us \in Seq(Written) /\ DOMAIN us = {}
  OBVIOUS
<1> HIDE DEF us
<1> QED
  BY <1>1, <1>2, <1>3, QuietStep

\* A tornado end writes at most one frame.
LEMMA WriteStep ==
  ASSUME MessageInv, NEW e \in Socket!Ends, NEW q,
         NEW us \in {<<>>} \cup {<<Socket!Frame(op, TRUE)>> : op \in {"text", "ping", "pong", "close"}},
         e = "client" => link = "tornado", e = "server" => q.reading # "request",
         link' = link, ws' = [ws EXCEPT ![e] = q], Socket!Write(e, us),
         wsHandler' \in Handlers,
         wsHandler'.attached => wsHandler.attached \/ e = "server",
         heard' = heard, reader' = reader,
         EndInv(link, e, sent[e], q, Socket!Given(e))
  PROVE  MessageInv'
<1> DEFINE d == Socket!Peer(e)
           n == Len(sent[d])
<1>1. d \in Socket!Ends /\ n \in Nat /\ (d = "server" => link # "draft76")
  BY EndIs, TheEnds
<1> HIDE DEF n
<1>2. us \in Seq(Written) /\ \A i \in DOMAIN us : Sendable(link, d, n + i, us[i])
  <2>1. CASE us = <<>>
    BY <2>1
  <2>2. CASE us # <<>>
    <3> n + 1 \in Nat
      BY <1>1
    <3> HIDE DEF d
    <3>1. PICK op \in {"text", "ping", "pong", "close"} : us = <<Socket!Frame(op, TRUE)>>
      BY <2>2
    <3>2. Sendable(link, d, n + 1, Socket!Frame(op, TRUE))
      BY <1>1, FrameSent
    <3> QED
      BY <1>1, <3>1, <3>2, OneSent
  <2> QED
    BY <2>1, <2>2
<1>3. \A i \in DOMAIN us : Sendable(link, Socket!Peer(e), Len(sent[Socket!Peer(e)]) + i, us[i])
  BY <1>2 DEF n
<1> QED
  BY <1>2, <1>3, QuietStep

-----------------------------------------------------------------------------
(* The steps of a WebSocket.                                               *)

\* The request is read: nothing was sent, and nothing is told.
LEMMA RequestIs ==
  ASSUME MessageInv, ws["server"].reading = "request"
  PROVE  /\ sent["client"] = <<>> /\ ~wsHandler.attached
         /\ ws["server"].read = 0 /\ ws["server"].fragments = <<>>
<1>1. "server" \in Socket!Ends
  BY TheEnds
<1> QED
  BY <1>1, EndIs DEF MessageInv, OpeningInv, EndInv

\* The handler, before and after it has, or forgets, its protocol object.
LEMMA HandlerIs ==
  ASSUME MessageInv
  PROVE  /\ wsHandler \in Handlers
         /\ [wsHandler EXCEPT !.attached = TRUE] \in Handlers
         /\ [wsHandler EXCEPT !.attached = FALSE, !.closed = TRUE] \in Handlers
         /\ ~[wsHandler EXCEPT !.attached = FALSE, !.closed = TRUE].attached
         /\ [wsHandler EXCEPT !.attached = FALSE, !.on_close = @ + 1] \in Handlers
         /\ ~[wsHandler EXCEPT !.attached = FALSE, !.on_close = @ + 1].attached
<1>1. wsHandler \in Handlers
  BY DEF MessageInv, OpeningInv
<1>2. [wsHandler EXCEPT !.attached = TRUE] \in Handlers
  BY <1>1 DEF Handlers
<1> DEFINE no == FALSE
           yes == TRUE
           more == wsHandler.on_close + 1
           x == [wsHandler EXCEPT !.attached = no, !.closed = yes]
           y == [wsHandler EXCEPT !.attached = no, !.on_close = more]
<1>3. no \in BOOLEAN /\ ~no /\ yes \in BOOLEAN /\ more \in Nat
  BY <1>1 DEF Handlers
<1> HIDE DEF no, yes, more
<1>4. x \in Handlers /\ x.attached = no
  BY <1>1, <1>3 DEF Handlers
<1>5. y \in Handlers /\ y.attached = no
  BY <1>1, <1>3 DEF Handlers
<1> QED
  BY <1>1, <1>2, <1>3, <1>4, <1>5 DEF no, yes, more

\* A response is the first thing that is sent to the client.
LEMMA AnswerSent ==
  ASSUME MessageInv, ws["server"].reading = "request", NEW op \in {"101", "refusal"}
  PROVE  /\ <<Socket!Frame(op, TRUE)>> \in Seq(Written)
         /\ \A i \in DOMAIN <<Socket!Frame(op, TRUE)>> :
              Sendable(link, "client", Len(sent["client"]) + i, <<Socket!Frame(op, TRUE)>>[i])
<1> DEFINE f == Socket!Frame(op, TRUE)
<1>1. f.op = op /\ f.fin /\ f.kind = "good" /\ f \in Written
  BY DEF Socket!Frame, Written
<1> HIDE DEF f
<1>2. Sendable(link, "client", 0 + 1, f)
  BY <1>1 DEF Sendable
<1>3. Len(sent["client"]) = 0
  BY RequestIs
<1>4. <<f>> \in Seq(Written) /\ \A i \in DOMAIN <<f>> : Sendable(link, "client", 0 + i, <<f>>[i])
  BY <1>2, OneSent
<1> QED
  BY <1>3, <1>4 DEF f

\* A request that is refused is answered, and the connection ends.
LEMMA RefuseStep ==
  ASSUME MessageInv, Socket!Refuse
  PROVE  MessageInv'
<1> DEFINE p == ws["server"]
           q == [Socket!Idle(p) EXCEPT !.open = FALSE]
           us == <<Socket!Frame("refusal", TRUE)>>
<1>1. /\ p.reading = "request" /\ Socket!Write("server", us) /\ ws' = [ws EXCEPT !["server"] = q]
      /\ link' = link /\ wsHandler' = wsHandler /\ heard' = heard /\ reader' = reader
  BY DEF Socket!Refuse, Socket!Runs, Socket!Set
<1>2. Calmer(p, q) /\ q.reading = "none"
  <2>1. p \in Protocols /\ Calmer(p, Socket!Idle(p))
    BY EndIs, CalmerIs, TheEnds
  <2>2. Socket!Idle(p) \in Protocols /\ Socket!Idle(p).reading = "none"
    BY <2>1 DEF Calmer, Socket!Idle, Protocols
  <2>3. Calmer(Socket!Idle(p), q)
    BY <2>2, CalmerIs
  <2>4. q.reading = "none"
    BY <2>2 DEF Protocols
  <2> QED
    BY <2>1, <2>3, <2>4, CalmerThen
<1>3. EndInv(link, "server", sent["server"], q, Socket!Given("server"))
  BY <1>2, EndIs, CalmerInv, TheEnds
<1>4. us \in Seq(Written) /\ \A i \in DOMAIN us :
        Sendable(link, Socket!Peer("server"), Len(sent[Socket!Peer("server")]) + i, us[i])
  BY <1>1, AnswerSent, TheEnds
<1> HIDE DEF us, q
<1> QED
  BY <1>1, <1>2, <1>3, <1>4, QuietStep, HandlerIs, TheEnds

\* An end that is idle and aborted, or closed, is calmer.
LEMMA IdleCalmer ==
  ASSUME NEW p \in Protocols
  PROVE  /\ Calmer(p, Socket!Aborted(Socket!Idle(p)))
         /\ Calmer(p, [Socket!Idle(p) EXCEPT !.open = FALSE])
         /\ Socket!Idle(p).reading = "none" /\ Socket!Aborted(Socket!Idle(p)).reading = "none"
         /\ [Socket!Idle(p) EXCEPT !.open = FALSE].reading = "none"
<1> DEFINE x == Socket!Idle(p)
<1>1. Calmer(p, x)
  BY CalmerIs
<1>2. x \in Protocols /\ x.reading = "none"
  BY <1>1 DEF Calmer, Socket!Idle, Protocols
<1> HIDE DEF x
<1>3. Calmer(x, Socket!Aborted(x)) /\ Calmer(x, [x EXCEPT !.open = FALSE])
  BY <1>2, CalmerIs
<1>4. Socket!Aborted(x).reading = "none" /\ [x EXCEPT !.open = FALSE].reading = "none"
  BY <1>2 DEF Protocols, Socket!Aborted
<1>5. Calmer(p, Socket!Aborted(x)) /\ Calmer(p, [x EXCEPT !.open = FALSE])
  BY <1>1, <1>3, CalmerThen
<1> QED
  BY <1>2, <1>4, <1>5 DEF x

\* One without its headers ends it without an answer.
LEMMA MalformedStep ==
  ASSUME MessageInv, Socket!Malformed
  PROVE  MessageInv'
<1> DEFINE p == ws["server"]
           q == Socket!Aborted(Socket!Idle(p))
<1>1. /\ ws' = [ws EXCEPT !["server"] = q] /\ wsHandler' = [wsHandler EXCEPT !.attached = TRUE]
      /\ link' = link /\ sent' = sent /\ heard' = heard /\ reader' = reader
  BY DEF Socket!Malformed, Socket!Set
<1>2. Calmer(p, q) /\ q.reading = "none"
  BY EndIs, IdleCalmer, TheEnds
<1>3. wsHandler' \in Handlers
  BY <1>1, HandlerIs
<1> HIDE DEF q
<1> QED
  BY <1>1, <1>2, <1>3, CalmStep, TheEnds

\* Nothing is wrong, and nothing was told, before the first frame.
LEMMA ListensFirst ==
  ASSUME NEW fs \in Seq(Written), NEW h
  PROVE  Listening(fs, 0, <<>>, h)
<1>1. \A i \in Socket!Data(fs) \cup Socket!Finals(fs) : i \in Nat /\ ~(i <= 0)
  BY DEF Socket!Data, Socket!Finals
<1>2. Unended(fs, 0) = {}
  BY <1>1 DEF Unended
<1>3. DOMAIN <<>> = {} /\ 1..0 = {}
  OBVIOUS
<1> QED
  BY <1>1, <1>2, <1>3 DEF Listening

\* The server, from the handshake to its first frame.
LEMMA OpensInv ==
  ASSUME NEW l, NEW fs, NEW p, NEW q, NEW h, Between(l, "server", fs, p, h),
         p.read = 0, p.fragments = <<>>, NEW phase \in {"start", "challenge"},
         Turns(fs, p, q, phase)
  PROVE  EndInv(l, "server", fs, q, h)
<1>1. fs \in Seq(Written)
  BY DEF Between
<1>2. Hears("server", fs, p, h)
  BY <1>1, ListensFirst DEF Hears
<1>3. CASE phase = "start"
  BY <1>2, <1>3, StartsInv
<1>4. CASE phase = "challenge"
  <2>1. /\ q \in Protocols /\ q.read = p.read /\ q.fragments = p.fragments
        /\ q.reading \in {"challenge", "none"} /\ (q.due => q.read < Len(fs))
    BY <1>4 DEF Turns
  <2>2. Between(l, "server", fs, q, h)
    BY <2>1 DEF Between
  <2> QED
    BY <2>1, <2>2 DEF EndInv, Phases
<1> QED
  BY <1>3, <1>4

\* Accepting it answers it, and reads the first frame or the challenge.
LEMMA AcceptStep ==
  ASSUME MessageInv, Socket!Accept
  PROVE  MessageInv'
<1> DEFINE p == ws["server"]
           us == <<Socket!Frame("101", TRUE)>>
<1>1. /\ p.reading = "request" /\ wsHandler' = [wsHandler EXCEPT !.attached = TRUE]
      /\ link' = link /\ heard' = heard /\ reader' = reader
  BY DEF Socket!Accept, Socket!Runs
<1>2. wsHandler' \in Handlers
  BY <1>1, HandlerIs
<1>3. "server" \in Socket!Ends /\ p \in Protocols /\ sent["server"] \in Seq(Written)
      /\ Between(link, "server", sent["server"], p, Socket!Given("server"))
  BY EndIs, TheEnds
<1>4. CASE ~p.open
  <2> DEFINE q == Socket!Idle(p)
  <2>1. ws' = [ws EXCEPT !["server"] = q] /\ sent' = sent
    BY <1>4 DEF Socket!Accept, Socket!Set
  <2>2. Calmer(p, q) /\ q.reading = "none"
    BY <1>3, CalmerIs, IdleCalmer
  <2> HIDE DEF q
  <2> QED
    BY <1>1, <1>2, <1>3, <2>1, <2>2, CalmStep
<1>5. CASE p.open
  <2> DEFINE x == Socket!Aborted(p)
             reads(r, phase) == Socket!Reads("server", r, phase)
             new(q) == [ws EXCEPT !["server"] = q]
  <2>1. Socket!Write("server", us)
    BY <1>5 DEF Socket!Accept
  <2>2. PICK q : ws' = new(q) /\ \E r \in {p, x}, phase \in {"start", "challenge"} : q \in reads(r, phase)
    <3>1. \/ \E q \in reads(p, "challenge") : ws' = new(q)
          \/ \E q \in reads(p, "start") \cup reads(x, "start") : ws' = new(q)
      BY <1>5 DEF Socket!Accept, Socket!Set, Socket!Raised
    <3> HIDE DEF p, x, new, reads
    <3> QED
      BY <3>1
  <2>3. PICK r \in {p, x}, phase \in {"start", "challenge"} : q \in Socket!Reads("server", r, phase)
    BY <2>2
  <2>4. r \in Protocols /\ r.read = p.read /\ r.fragments = p.fragments
    <3>1. Calmer(p, Socket!Aborted(p))
      BY <1>3, CalmerIs
    <3> QED
      BY <1>3, <3>1 DEF Calmer
  <2>5. Between(link, "server", sent["server"], r, Socket!Given("server"))
    BY <1>3, <2>4 DEF Between
  <2>6. p.read = 0 /\ p.fragments = <<>>
    BY <1>1, RequestIs
  <2>7. Turns(sent["server"], r, q, phase)
    BY <1>3, <2>3, <2>4, ReadsTurn DEF Phases
  <2>8. EndInv(link, "server", sent["server"], q, Socket!Given("server"))
    BY <2>4, <2>5, <2>6, <2>7, OpensInv
  <2>9. us \in Seq(Written) /\ \A i \in DOMAIN us :
          Sendable(link, Socket!Peer("server"), Len(sent[Socket!Peer("server")]) + i, us[i])
    BY <1>1, AnswerSent, TheEnds
  <2>10. q.reading # "request"
    BY <2>7 DEF Turns
  <2> HIDE DEF us
  <2> QED
    BY <1>1, <1>2, <1>3, <2>1, <2>2, <2>8, <2>9, <2>10, QuietStep
<1> QED
  BY <1>4, <1>5

\* The challenge was good, or the connection ends.
LEMMA OnChallengeStep ==
  ASSUME MessageInv, Socket!OnChallenge
  PROVE  MessageInv'
<1> DEFINE p == ws["server"]
           x == Socket!Raised(p)
<1>1. /\ p.reading = "challenge" /\ wsHandler' = wsHandler
      /\ link' = link /\ sent' = sent /\ heard' = heard /\ reader' = reader
  BY DEF Socket!OnChallenge, Socket!Runs
<1>2. "server" \in Socket!Ends /\ p \in Protocols /\ sent["server"] \in Seq(Written)
      /\ Between(link, "server", sent["server"], p, Socket!Given("server"))
      /\ p.read = 0 /\ p.fragments = <<>>
  BY <1>1, EndIs, TheEnds DEF EndInv
<1>3. PICK q : ws' = [ws EXCEPT !["server"] = q] /\
               \/ q = Socket!Aborted(Socket!Idle(p))
               \/ q = [Socket!Idle(p) EXCEPT !.open = FALSE]
               \/ q \in Socket!Reads("server", p, "start")
               \/ q \in Socket!Reads("server", x, "start")
  BY DEF Socket!OnChallenge, Socket!Set
<1>4. CASE q = Socket!Aborted(Socket!Idle(p)) \/ q = [Socket!Idle(p) EXCEPT !.open = FALSE]
  <2>1. Calmer(p, q)
    BY <1>2, <1>4, IdleCalmer
  <2> QED
    BY <1>1, <1>2, <1>3, <2>1, CalmStep, HandlerIs
<1>5. ASSUME NEW r \in {p, x}, q \in Socket!Reads("server", r, "start")
      PROVE  MessageInv'
  <2>0. r \in Protocols /\ r.read = p.read /\ r.fragments = p.fragments
    <3>1. Calmer(p, x)
      BY <1>2, CalmerIs DEF Socket!Raised
    <3> QED
      BY <1>2, <1>5, <3>1 DEF Calmer
  <2>1. Turns(sent["server"], r, q, "start")
    BY <1>2, <1>5, <2>0, ReadsTurn DEF Phases
  <2>2. EndInv(link, "server", sent["server"], q, Socket!Given("server"))
    <3>1. Between(link, "server", sent["server"], r, Socket!Given("server"))
      BY <1>2, <2>0 DEF Between
    <3> QED
      BY <1>2, <2>0, <2>1, <3>1, OpensInv
  <2>3. q.reading # "request"
    BY <2>1 DEF Turns
  <2> DEFINE us == <<>>
  <2>4. us \in Seq(Written) /\ DOMAIN us = {}
    OBVIOUS
  <2> HIDE DEF us
  <2> QED
    BY <1>1, <1>2, <1>3, <2>2, <2>3, <2>4, QuietStep, HandlerIs
<1> QED
  BY <1>3, <1>4, <1>5

\* A step of one end that writes nothing and tells nobody.
LEMMA ReadStep ==
  ASSUME MessageInv, NEW e \in Socket!Ends, NEW q, q.reading # "request",
         EndInv(link, e, sent[e], q, Socket!Given(e)),
         link' = link, ws' = [ws EXCEPT ![e] = q], sent' = sent, wsHandler' = wsHandler,
         heard' = heard, reader' = reader
  PROVE  MessageInv'
<1> DEFINE us == <<>>
<1>1. us \in Seq(Written) /\ DOMAIN us = {}
  OBVIOUS
<1> HIDE DEF us
<1> QED
  BY <1>1, QuietStep, HandlerIs

\* The client has read the answer: it counts as its first frame.
LEMMA OnHeadersStep ==
  ASSUME MessageInv, Socket!OnHeaders
  PROVE  MessageInv'
<1> DEFINE old == ws["client"]
           p == [old EXCEPT !.read = old.read + 1]
           fs == sent["client"]
           h == Socket!Given("client")
<1>1. /\ old.reading = "headers" /\ old.due /\ wsHandler' = wsHandler
      /\ link' = link /\ sent' = sent /\ heard' = heard /\ reader' = reader
  BY DEF Socket!OnHeaders, Socket!Runs
<1>2. /\ "client" \in Socket!Ends /\ old \in Protocols /\ fs \in Seq(Written)
      /\ Between(link, "client", fs, old, h)
      /\ old.read = 0 /\ old.fragments = <<>> /\ old.read < Len(fs)
  BY <1>1, EndIs, TheEnds DEF EndInv
<1>3. \/ fs[1].op = "101" /\ \E q \in Socket!Reads("client", p, "start") : ws' = [ws EXCEPT !["client"] = q]
      \/ ws' = [ws EXCEPT !["client"] = [Socket!Idle(p) EXCEPT !.open = FALSE]]
  BY <1>2 DEF Socket!OnHeaders, Socket!Current, Socket!Set
<1>4. /\ p \in Protocols /\ p.read = old.read + 1 /\ p.read = 1 /\ p.fragments = old.fragments
      /\ p.client_terminated = old.client_terminated
  BY <1>2 DEF Protocols
<1> HIDE DEF p
<1>5. Between(link, "client", fs, p, h)
  BY <1>2, <1>4, BetweenRead
<1>6. ASSUME NEW q, ws' = [ws EXCEPT !["client"] = q], fs[1].op = "101",
             q \in Socket!Reads("client", p, "start")
      PROVE  MessageInv'
  <2>1. Sendable(link, "client", 1, fs[1])
    <3>1. 1 \in DOMAIN fs
      BY <1>2
    <3> QED
      BY <1>2, <3>1 DEF Between
  <2>2. fs[old.read + 1].kind = "good" /\ fs[old.read + 1].fin /\ fs[old.read + 1].op = "101"
    BY <1>2, <1>6, <2>1 DEF Sendable
  <2>3. Hears("client", fs, p, h)
    <3>1. Listening(fs, 0, <<>>, h)
      BY <1>2, ListensFirst
    <3>2. Listening(fs, 0 + 1, <<>>, h)
      <4>1. 0 \in Nat /\ 0 < Len(fs) /\ <<>> \in Seq(Nat)
        BY <1>2
      <4>2. fs[0 + 1].kind = "good" /\ fs[0 + 1].fin /\ fs[0 + 1].op \in {"ping", "pong", "101"}
        BY <1>2, <2>2
      <4> QED
        BY <1>2, <3>1, <4>1, <4>2, NextControl
    <3> QED
      BY <1>2, <1>4, <3>2 DEF Hears
  <2>4. Turns(fs, p, q, "start")
    BY <1>2, <1>4, <1>6, ReadsTurn DEF Phases
  <2>5. EndInv(link, "client", fs, q, h)
    BY <1>5, <2>3, <2>4, StartsInv
  <2>6. q.reading # "request"
    BY <2>4 DEF Turns
  <2> QED
    BY <1>1, <1>2, <1>6, <2>5, <2>6, ReadStep
<1>7. ASSUME NEW q, ws' = [ws EXCEPT !["client"] = q], q = [Socket!Idle(p) EXCEPT !.open = FALSE]
      PROVE  MessageInv'
  <2>1. Calmer(p, q) /\ q.reading = "none"
    BY <1>4, <1>7, IdleCalmer
  <2>2. EndInv(link, "client", fs, q, h)
    <3>1. q \in Protocols /\ q.read = p.read /\ q.fragments = p.fragments /\ ~q.due
      BY <1>4, <1>7, <2>1 DEF Calmer, Socket!Idle, Protocols
    <3> QED
      BY <1>2, <1>4, <2>1, <3>1, ReadInv
  <2> QED
    BY <1>1, <1>2, <1>7, <2>1, <2>2, ReadStep
<1> QED
  BY <1>3, <1>6, <1>7

\* A client that gives up connecting is closed.
LEMMA ConnectTimesOutStep ==
  ASSUME MessageInv, Socket!ConnectTimesOut
  PROVE  MessageInv'
<1> DEFINE q == [ws["client"] EXCEPT !.open = FALSE]
<1>1. /\ ws' = [ws EXCEPT !["client"] = q] /\ wsHandler' = wsHandler
      /\ link' = link /\ sent' = sent /\ heard' = heard /\ reader' = reader
  BY DEF Socket!ConnectTimesOut
<1>2. Calmer(ws["client"], q)
  BY EndIs, CalmerIs, TheEnds
<1> HIDE DEF q
<1> QED
  BY <1>1, <1>2, CalmStep, HandlerIs, TheEnds

\* Data arrive, and the callback of the read is due.
LEMMA ArrivesStep ==
  ASSUME MessageInv, NEW e \in Socket!Ends, Socket!Arrives(e)
  PROVE  MessageInv'
<1> DEFINE p == ws[e]
           q == [p EXCEPT !.due = TRUE]
<1>1. /\ p.open /\ p.reading # "none" /\ p.read < Len(sent[e])
      /\ ws' = [ws EXCEPT ![e] = q] /\ wsHandler' = wsHandler
      /\ link' = link /\ sent' = sent /\ heard' = heard /\ reader' = reader
  BY DEF Socket!Arrives
<1>2. EndInv(link, e, sent[e], p, Socket!Given(e)) /\ p \in Protocols
  BY EndIs
<1>3. /\ q \in Protocols /\ q.read = p.read /\ q.fragments = p.fragments
      /\ q.client_terminated = p.client_terminated /\ q.reading = p.reading /\ q.open = p.open
  BY <1>2 DEF Protocols
<1> HIDE DEF q
<1>4. Between(link, e, sent[e], q, Socket!Given(e))
  BY <1>2, <1>3 DEF EndInv, Between
<1>5. Hears(e, sent[e], p, Socket!Given(e)) => Hears(e, sent[e], q, Socket!Given(e))
  BY <1>3 DEF Hears
<1>6. Ready(link, sent[e], p) => Ready(link, sent[e], q)
  BY <1>3 DEF Ready
<1>7. EndInv(link, e, sent[e], q, Socket!Given(e))
  BY <1>1, <1>2, <1>3, <1>4, <1>5, <1>6 DEF EndInv
<1> DEFINE us == <<>>
<1>8. us \in Seq(Written) /\ DOMAIN us = {}
  OBVIOUS
<1> HIDE DEF us
<1>9. e = "server" => q.reading # "request" \/ ws["server"].reading = "request"
  BY <1>3
<1> QED
  BY <1>1, <1>7, <1>8, <1>9, QuietStep, HandlerIs

\* The pieces of a frame.
LEMMA PieceStep ==
  ASSUME MessageInv, NEW e \in Socket!Ends, ws[e].reading \in Phases, Ready(link, sent[e], ws[e]),
         NEW phase \in Phases \ {"start"}, NEW q \in Socket!Reads(e, ws[e], phase),
         link' = link, ws' = [ws EXCEPT ![e] = q], sent' = sent, wsHandler' = wsHandler,
         heard' = heard, reader' = reader
  PROVE  MessageInv'
<1>1. Between(link, e, sent[e], ws[e], Socket!Given(e)) /\ ws[e] \in Protocols
      /\ Hears(e, sent[e], ws[e], Socket!Given(e)) /\ sent[e] \in Seq(Written)
  BY EndIs DEF EndInv
<1>2. Turns(sent[e], ws[e], q, phase)
  BY <1>1, ReadsTurn
<1>3. EndInv(link, e, sent[e], q, Socket!Given(e))
  BY <1>1, <1>2, PieceInv
<1>4. q.reading # "request"
  BY <1>2 DEF Turns, Phases
<1> QED
  BY <1>3, <1>4, ReadStep

\* A frame of which a later piece is read has a header in order.
LEMMA PieceReady ==
  ASSUME MessageInv, NEW e \in Socket!Ends, NEW phase \in Phases \ {"start"}, Socket!Runs(e, phase)
  PROVE  ws[e].reading \in Phases /\ Ready(link, sent[e], ws[e])
<1>1. EndInv(link, e, sent[e], ws[e], Socket!Given(e))
  BY EndIs
<1> QED
  BY <1>1 DEF EndInv, Socket!Runs

\* The header of a frame was read.
LEMMA OnFrameStartStep ==
  ASSUME MessageInv, NEW e \in Socket!Ends, Socket!OnFrameStart(e)
  PROVE  MessageInv'
<1>1. /\ ws[e].reading = "start" /\ ws[e].due /\ wsHandler' = wsHandler /\ link # "draft76"
      /\ link' = link /\ sent' = sent /\ heard' = heard /\ reader' = reader
  BY DEF Socket!OnFrameStart, Socket!Runs
<1>2. ws[e].read < Len(sent[e])
  BY <1>1, EndIs DEF EndInv
<1>3. CASE Socket!Current(e).kind = "reserved"
  <2> DEFINE q == Socket!Aborted(Socket!Idle(ws[e]))
  <2>1. ws' = [ws EXCEPT ![e] = q]
    BY <1>3 DEF Socket!OnFrameStart, Socket!Set
  <2>2. Calmer(ws[e], q)
    BY EndIs, IdleCalmer
  <2> HIDE DEF q
  <2> QED
    BY <1>1, <2>1, <2>2, CalmStep, HandlerIs
<1>4. CASE Socket!Current(e).kind # "reserved"
  <2>1. PICK phase \in {"mask", "data", "length"} :
          \E q \in Socket!Reads(e, ws[e], phase) : ws' = [ws EXCEPT ![e] = q]
    BY <1>4 DEF Socket!OnFrameStart, Socket!Set
  <2>2. PICK q \in Socket!Reads(e, ws[e], phase) : ws' = [ws EXCEPT ![e] = q]
    BY <2>1
  <2>3. Ready(link, sent[e], ws[e])
    BY <1>1, <1>2, <1>4 DEF Ready, Socket!Current
  <2>4. ws[e].reading \in Phases /\ phase \in Phases \ {"start"}
    BY <1>1 DEF Phases
  <2> QED
    BY <1>1, <2>2, <2>3, <2>4, PieceStep
<1> QED
  BY <1>3, <1>4

\* Its length was, or its masking key.
LEMMA OnFrameLengthStep ==
  ASSUME MessageInv, NEW e \in Socket!Ends, Socket!OnFrameLength(e) \/ Socket!OnMaskingKey(e)
  PROVE  MessageInv'
<1>1. PICK was \in {"length", "mask"}, phase \in {"mask", "data"} :
        /\ Socket!Runs(e, was)
        /\ \E q \in Socket!Reads(e, ws[e], phase) : ws' = [ws EXCEPT ![e] = q]
  BY DEF Socket!OnFrameLength, Socket!OnMaskingKey, Socket!Set
<1>2. PICK q \in Socket!Reads(e, ws[e], phase) : ws' = [ws EXCEPT ![e] = q]
  BY <1>1
<1>3. link' = link /\ sent' = sent /\ wsHandler' = wsHandler /\ heard' = heard /\ reader' = reader
  BY DEF Socket!OnFrameLength, Socket!OnMaskingKey
<1>4. was \in Phases \ {"start"} /\ phase \in Phases \ {"start"}
  BY DEF Phases
<1>5. ws[e].reading \in Phases /\ Ready(link, sent[e], ws[e])
  BY <1>1, <1>4, PieceReady
<1> QED
  BY <1>2, <1>3, <1>4, <1>5, PieceStep

\* The first byte of a frame of draft 76 was read.
LEMMA OnFrameTypeStep ==
  ASSUME MessageInv, Socket!OnFrameType
  PROVE  MessageInv'
<1> DEFINE p == ws["server"]
           f == sent["server"][p.read + 1]
<1>1. /\ p.reading = "start" /\ p.due /\ wsHandler' = wsHandler /\ link = "draft76"
      /\ link' = link /\ sent' = sent /\ heard' = heard /\ reader' = reader
  BY DEF Socket!OnFrameType, Socket!Runs
<1>2. /\ p.read < Len(sent["server"]) /\ p \in Protocols /\ "server" \in Socket!Ends
      /\ Between(link, "server", sent["server"], p, Socket!Given("server"))
      /\ sent["server"] \in Seq(Written) /\ p.read \in Nat
  BY <1>1, EndIs, TheEnds DEF EndInv
<1>3. CASE f.op = "unknown"
  <2> DEFINE q == Socket!Aborted(Socket!Idle(p))
  <2>1. ws' = [ws EXCEPT !["server"] = q]
    BY <1>3 DEF Socket!OnFrameType, Socket!Set, Socket!Current
  <2>2. Calmer(p, q)
    BY <1>2, IdleCalmer
  <2> HIDE DEF q
  <2> QED
    BY <1>1, <1>2, <2>1, <2>2, CalmStep, HandlerIs
<1>4. CASE f.op # "unknown"
  <2>1. PICK q \in Socket!Reads("server", p, "data") : ws' = [ws EXCEPT !["server"] = q]
    BY <1>4 DEF Socket!OnFrameType, Socket!Set, Socket!Current
  <2>2. f \in Socket!Frames76
    <3>1. p.read + 1 \in DOMAIN sent["server"]
      BY <1>2
    <3> QED
      BY <1>1, <1>2, <3>1 DEF Between, Sendable
  <2>3. f.kind = "good"
    BY <2>2 DEF Socket!Frames76, Socket!Frame
  <2>4. Ready(link, sent["server"], p)
    BY <1>2, <1>4, <2>3 DEF Ready
  <2>5. p.reading \in Phases /\ "data" \in Phases \ {"start"}
    BY <1>1 DEF Phases
  <2> QED
    BY <1>1, <1>2, <2>1, <2>4, <2>5, PieceStep
<1> QED
  BY <1>3, <1>4

\* A step of one end whose user is told m.
LEMMA ToldStep ==
  ASSUME MessageInv, NEW e \in Socket!Ends, NEW q, NEW m \in Seq(Nat), Socket!Deliver(e, m),
         e = "server" => q.reading # "request",
         EndInv(link, e, sent[e], q, Append(Socket!Given(e), m)),
         link' = link, ws' = [ws EXCEPT ![e] = q], sent' = sent, wsHandler' = wsHandler
  PROVE  MessageInv'
<1>1. HeardInv
  BY DEF MessageInv
<1>2. /\ HeardInv' /\ Socket!Given(e)' = Append(Socket!Given(e), m)
      /\ Socket!Given(Socket!Peer(e))' = Socket!Given(Socket!Peer(e))
  BY <1>1, DeliverGives
<1>3. EndInv(link, e, sent[e], q, Socket!Given(e)')
  BY <1>2
<1> DEFINE us == <<>>
<1>4. us \in Seq(Written) /\ DOMAIN us = {}
  OBVIOUS
<1> HIDE DEF us
<1> QED
  BY <1>2, <1>3, <1>4, MessageStep, HandlerIs

\* The end has a frame of its own to answer, or no more to do with this one.
LEMMA ControlStep ==
  ASSUME MessageInv, NEW e \in Socket!Ends, e = "client" => link = "tornado",
         NEW p \in Protocols, EndInv(link, e, sent[e], p, Socket!Given(e)), p.reading = "none",
         NEW op \in {"ping", "pong", "close", "unknown"},
         op \in {"ping", "pong"} /\ ~p.client_terminated => Hears(e, sent[e], p, Socket!Given(e)),
         link' = link, wsHandler' = wsHandler, Socket!HandleMessage(e, p, op, <<>>)
  PROVE  MessageInv'
<1> DEFINE fs == sent[e]
           h == Socket!Given(e)
<1>1. heard' = heard /\ reader' = reader
  BY DEF Socket!HandleMessage
<1>2. Socket!Range(<<>>) = {}
  BY DEF Socket!Range
<1>3. Between(link, e, fs, p, h) /\ fs \in Seq(Written)
  BY EndIs DEF EndInv
<1>4. ASSUME NEW q, Calmer(p, q) PROVE EndInv(link, e, fs, q, h) /\ q.reading = "none"
  BY <1>4, CalmerInv DEF Calmer
<1>5. ASSUME NEW q \in Socket!Reads(e, p, "start"), op \in {"ping", "pong"}, ~p.client_terminated
      PROVE  EndInv(link, e, fs, q, h) /\ q.reading # "request"
  <2>1. Turns(fs, p, q, "start")
    BY <1>3, <1>5, ReadsTurn DEF Phases
  <2> QED
    BY <1>3, <1>5, <2>1, StartsInv DEF Turns
<1>6. CASE p.client_terminated
  <2>1. ws' = [ws EXCEPT ![e] = p] /\ sent' = sent
    BY <1>6 DEF Socket!HandleMessage, Socket!Set
  <2> QED
    BY <1>1, <2>1, ReadStep
<1>7. CASE ~p.client_terminated /\ op = "unknown"
  <2> DEFINE q == Socket!Aborted(p)
  <2>1. ws' = [ws EXCEPT ![e] = q] /\ sent' = sent
    BY <1>7 DEF Socket!HandleMessage, Socket!Set
  <2>2. EndInv(link, e, fs, q, h) /\ q.reading = "none"
    BY <1>4, CalmerIs
  <2> HIDE DEF q
  <2> QED
    BY <1>1, <2>1, <2>2, ReadStep
<1>8. CASE ~p.client_terminated /\ op = "close"
  <2> DEFINE x == [p EXCEPT !.client_terminated = TRUE]
             q == Socket!Closing(x)
             us == Socket!ClosingFrame(p)
  <2>1. ws' = [ws EXCEPT ![e] = q] /\ Socket!Write(e, us)
    BY <1>2, <1>8 DEF Socket!HandleMessage, Socket!Set
  <2>2. Calmer(p, x)
    BY CalmerIs
  <2>3. x \in Protocols
    BY <2>2 DEF Calmer
  <2> HIDE DEF x
  <2>4. Calmer(p, q)
    BY <2>2, <2>3, CalmerIs, CalmerThen
  <2>5. EndInv(link, e, fs, q, h) /\ q.reading = "none"
    BY <1>4, <2>4
  <2>6. us \in {<<>>, <<Socket!Frame("close", TRUE)>>}
    BY DEF Socket!ClosingFrame
  <2> HIDE DEF q, us
  <2> QED
    BY <1>1, <2>1, <2>5, <2>6, WriteStep, HandlerIs
<1>9. CASE ~p.client_terminated /\ op = "ping"
  <2>1. CASE p.open
    <3> DEFINE us == <<Socket!Frame("pong", TRUE)>>
    <3>1. PICK q \in Socket!Reads(e, p, "start") : ws' = [ws EXCEPT ![e] = q]
      BY <1>2, <1>9, <2>1 DEF Socket!HandleMessage, Socket!Set
    <3>2. Socket!Write(e, us)
      BY <1>2, <1>9, <2>1 DEF Socket!HandleMessage
    <3>3. EndInv(link, e, fs, q, h) /\ q.reading # "request"
      BY <1>5, <1>9
    <3>4. us \in {<<Socket!Frame(x, TRUE)>> : x \in {"text", "ping", "pong", "close"}}
      OBVIOUS
    <3> HIDE DEF us
    <3> QED
      BY <1>1, <3>1, <3>2, <3>3, <3>4, WriteStep, HandlerIs
  <2>2. CASE ~p.open
    <3>1. ws' = [ws EXCEPT ![e] = p] /\ sent' = sent
      BY <1>2, <1>9, <2>2 DEF Socket!HandleMessage, Socket!Set
    <3> QED
      BY <1>1, <3>1, ReadStep
  <2> QED
    BY <2>1, <2>2
<1>10. CASE ~p.client_terminated /\ op = "pong"
  <2>1. \/ \E q \in Socket!Reads(e, p, "start") : ws' = [ws EXCEPT ![e] = q]
        \/ ws' = [ws EXCEPT ![e] = Socket!Aborted(p)]
    BY <1>2, <1>10 DEF Socket!HandleMessage, Socket!Set, Socket!Raised
  <2>2. sent' = sent
    BY <1>2, <1>10 DEF Socket!HandleMessage
  <2>3. ASSUME NEW q \in Socket!Reads(e, p, "start"), ws' = [ws EXCEPT ![e] = q]
        PROVE  MessageInv'
    <3>1. EndInv(link, e, fs, q, h) /\ q.reading # "request"
      BY <1>5, <1>10
    <3> QED
      BY <1>1, <2>2, <2>3, <3>1, ReadStep
  <2>4. CASE ws' = [ws EXCEPT ![e] = Socket!Aborted(p)]
    <3> DEFINE q == Socket!Aborted(p)
    <3>1. EndInv(link, e, fs, q, h) /\ q.reading = "none"
      BY <1>4, CalmerIs
    <3> HIDE DEF q
    <3> QED
      BY <1>1, <2>2, <2>4, <3>1, ReadStep DEF q
  <2> QED
    BY <2>1, <2>3, <2>4
<1> QED
  BY <1>6, <1>7, <1>8, <1>9, <1>10

\* The end has a whole message for its user.
LEMMA TextStep ==
  ASSUME MessageInv, NEW e \in Socket!Ends,
         NEW p \in Protocols, EndInv(link, e, sent[e], p, Socket!Given(e)), p.reading = "none", ~p.due,
         NEW m \in Seq(Nat),
         ~p.client_terminated /\ (\A i \in DOMAIN m : sent[e][m[i]].kind # "garbled") =>
           /\ Between(link, e, sent[e], p, Append(Socket!Given(e), m))
           /\ Hears(e, sent[e], p, Append(Socket!Given(e), m)),
         link' = link, wsHandler' = wsHandler, Socket!HandleMessage(e, p, "text", m)
  PROVE  MessageInv'
<1> DEFINE fs == sent[e]
           h == Append(Socket!Given(e), m)
           garbled == \E i \in Socket!Range(m) : fs[i].kind = "garbled"
<1>1. CASE p.client_terminated
  <2>1. ws' = [ws EXCEPT ![e] = p] /\ sent' = sent /\ heard' = heard /\ reader' = reader
    BY <1>1 DEF Socket!HandleMessage, Socket!Set
  <2> QED
    BY <2>1, ReadStep
<1>2. CASE ~p.client_terminated /\ garbled
  <2> DEFINE q == Socket!Aborted(p)
  <2>1. ws' = [ws EXCEPT ![e] = q] /\ sent' = sent /\ heard' = heard /\ reader' = reader
    BY <1>2 DEF Socket!HandleMessage, Socket!Set
  <2>2. Calmer(p, q)
    BY CalmerIs
  <2>3. EndInv(link, e, fs, q, Socket!Given(e)) /\ q.reading = "none"
    BY <2>2, CalmerInv DEF Calmer
  <2> HIDE DEF q
  <2> QED
    BY <2>1, <2>3, ReadStep
<1>3. CASE ~p.client_terminated /\ ~garbled
  <2>1. Between(link, e, fs, p, h) /\ Hears(e, fs, p, h)
    BY <1>3 DEF Socket!Range
  <2>2. /\ Socket!Deliver(e, m) /\ sent' = sent
        /\ \/ \E q \in Socket!Reads(e, p, "start") : ws' = [ws EXCEPT ![e] = q]
           \/ ws' = [ws EXCEPT ![e] = Socket!Aborted(p)]
    BY <1>3 DEF Socket!HandleMessage, Socket!Set, Socket!Raised
  <2> HIDE DEF h
  <2>3. ASSUME NEW q \in Socket!Reads(e, p, "start") PROVE EndInv(link, e, fs, q, h) /\ q.reading # "request"
    <3>1. Turns(fs, p, q, "start")
      BY EndIs, ReadsTurn DEF Phases
    <3> QED
      BY <2>1, <3>1, StartsInv DEF Turns
  <2>4. EndInv(link, e, fs, Socket!Aborted(p), h) /\ Socket!Aborted(p).reading # "request"
    <3>1. EndInv(link, e, fs, p, h)
      BY <2>1 DEF EndInv, Phases
    <3>2. Calmer(p, Socket!Aborted(p))
      BY CalmerIs
    <3> QED
      BY <3>1, <3>2, CalmerInv DEF Calmer
  <2>5. PICK q : ws' = [ws EXCEPT ![e] = q] /\ EndInv(link, e, fs, q, h) /\ q.reading # "request"
    BY <2>2, <2>3, <2>4
  <2> QED
    BY <2>2, <2>5, ToldStep DEF h
<1> QED
  BY <1>1, <1>2, <1>3

\* What is known of a frame whose text is there.
LEMMA DataIs ==
  ASSUME MessageInv, NEW e \in Socket!Ends, ws[e].reading = "data", ws[e].due
  PROVE  LET f == Socket!Current(e) IN
         /\ ws[e].read < Len(sent[e]) /\ Hears(e, sent[e], ws[e], Socket!Given(e))
         /\ f \in Written /\ f.kind # "reserved" /\ f.op \notin {"101", "refusal"}
         /\ f.kind = "garbled" => f.op = "text" /\ f.fin
         /\ link = "draft76" => /\ f.op # "unknown" /\ ws[e].fragments = <<>>
                                /\ e = "server" => f \in Socket!Frames76
<1> DEFINE p == ws[e]
           fs == sent[e]
           n == p.read + 1
<1>1. /\ EndInv(link, e, fs, p, Socket!Given(e)) /\ Between(link, e, fs, p, Socket!Given(e))
      /\ p \in Protocols /\ fs \in Seq(Written) /\ p.read \in Nat /\ Len(fs) \in Nat
  BY EndIs
<1>2. p.read < Len(fs) /\ Hears(e, fs, p, Socket!Given(e)) /\ Ready(link, fs, p)
  BY <1>1 DEF EndInv, Phases
<1>3. n \in DOMAIN fs
  BY <1>1, <1>2
<1>4. fs[n] \in Written /\ Sendable(link, e, n, fs[n])
  BY <1>1, <1>3 DEF Between
<1>5. e = "server" \/ n > 1
  BY <1>1, <1>2, TheEnds DEF Hears
<1>6. /\ fs[n].kind # "reserved" /\ (link = "draft76" => fs[n].op # "unknown" /\ p.fragments = <<>>)
  BY <1>1, <1>2 DEF Ready, Between
<1>7. Socket!Current(e) = fs[n]
  BY DEF Socket!Current
<1> HIDE DEF n
<1> QED
  BY <1>2, <1>4, <1>5, <1>6, <1>7 DEF Sendable

\* The data of a frame were read: it is wrong, a control frame, the end of a
\* message, or a part of one.
LEMMA OnFrameDataStep ==
  ASSUME MessageInv, NEW e \in Socket!Ends, Socket!OnFrameData(e)
  PROVE  MessageInv'
<1> DEFINE old == ws[e]
           fs == sent[e]
           h == Socket!Given(e)
           f == Socket!Current(e)
           p == Next1(old)
           parts == Append(p.fragments, p.read)
           wrong == \/ f.op \in Socket!Control /\ ~f.fin
                    \/ f.op = "continuation" /\ p.fragments = <<>>
                    \/ f.op = "text" /\ p.fragments # <<>>
           whole == [p EXCEPT !.fragments = <<>>]
           part == [p EXCEPT !.fragments = parts]
<1>1. /\ old.reading = "data" /\ old.due /\ link # "draft76" /\ Socket!Tornado(e)
      /\ link' = link /\ wsHandler' = wsHandler
  BY DEF Socket!OnFrameData, Socket!Runs
<1>2. /\ old.read < Len(fs) /\ Hears(e, fs, old, h) /\ f \in Written /\ f = fs[old.read + 1]
      /\ f.kind \in {"good", "garbled"} /\ (f.kind = "garbled" => f.op = "text" /\ f.fin)
      /\ f.op \in {"text", "continuation", "ping", "pong", "close", "unknown"}
  BY <1>1, DataIs DEF Written, Socket!Current
<1>3. /\ Between(link, e, fs, old, h) /\ old \in Protocols /\ old.read \in Nat
      /\ old.fragments \in Seq(Nat)
  BY EndIs DEF Protocols
<1>4. e = "client" => link = "tornado"
  BY <1>1, TheEnds DEF Socket!Tornado
<1>5. /\ p \in Protocols /\ p.read = old.read + 1 /\ p.fragments = old.fragments
      /\ p.reading = "none" /\ ~p.due /\ p.client_terminated = old.client_terminated
  BY <1>3, NextIs
<1>6. parts = Append(old.fragments, old.read + 1) /\ parts \in Seq(Nat) /\ <<>> \in Seq(Nat)
  BY <1>3, <1>5
<1>7. \/ wrong /\ ws' = [ws EXCEPT ![e] = Socket!Aborted(p)]
         /\ heard' = heard /\ reader' = reader /\ sent' = sent
      \/ ~wrong /\ f.op \in Socket!Control /\ Socket!HandleMessage(e, p, f.op, <<>>)
      \/ ~wrong /\ f.op \notin Socket!Control /\ f.fin /\ Socket!HandleMessage(e, whole, "text", parts)
      \/ /\ ~wrong /\ f.op \notin Socket!Control /\ ~f.fin
         /\ heard' = heard /\ reader' = reader /\ sent' = sent
         /\ \/ part.client_terminated /\ ws' = [ws EXCEPT ![e] = part]
            \/ \E r \in Socket!Reads(e, part, "start") : ws' = [ws EXCEPT ![e] = r]
  BY DEF Socket!OnFrameData, Socket!Set, Next1
<1> HIDE DEF p, parts
<1>8. EndInv(link, e, fs, p, h)
  BY <1>2, <1>3, <1>5, ReadInv
<1>9. CASE wrong
  <2> DEFINE q == Socket!Aborted(p)
  <2>1. ws' = [ws EXCEPT ![e] = q] /\ heard' = heard /\ reader' = reader /\ sent' = sent
    BY <1>7, <1>9
  <2>2. Calmer(p, q)
    BY <1>5, CalmerIs
  <2>3. EndInv(link, e, fs, q, h) /\ q.reading = "none"
    BY <1>5, <1>8, <2>2, CalmerInv DEF Calmer
  <2> HIDE DEF q
  <2> QED
    BY <1>1, <2>1, <2>3, ReadStep
<1>10. CASE ~wrong /\ f.op \in Socket!Control
  <2>1. f.op \in {"ping", "pong", "close", "unknown"} /\ f.fin /\ f.kind = "good"
    BY <1>2, <1>10 DEF Socket!Control
  <2>2. Socket!HandleMessage(e, p, f.op, <<>>)
    BY <1>7, <1>10
  <2>3. f.op \in {"ping", "pong"} /\ ~p.client_terminated => Hears(e, fs, p, h)
    BY <1>2, <1>3, <1>5, <2>1, ControlRead
  <2> QED
    BY <1>1, <1>4, <1>5, <1>8, <2>1, <2>2, <2>3, ControlStep
<1>11. CASE ~wrong /\ f.op \notin Socket!Control /\ f.fin
  <2>1. f.op \in {"text", "continuation"} /\ (f.op = "text" <=> old.fragments = <<>>)
    BY <1>2, <1>5, <1>11 DEF Socket!Control
  <2>2. Socket!HandleMessage(e, whole, "text", parts)
    BY <1>7, <1>11
  <2>3. /\ whole \in Protocols /\ whole.read = old.read + 1 /\ whole.fragments = <<>>
        /\ whole.reading = "none" /\ ~whole.due /\ whole.client_terminated = old.client_terminated
    BY <1>5, <1>6 DEF Protocols
  <2> HIDE DEF whole
  <2>4. EndInv(link, e, fs, whole, h)
    BY <1>2, <1>3, <2>3, ReadInv
  <2>5. ASSUME ~whole.client_terminated, \A i \in DOMAIN parts : fs[parts[i]].kind # "garbled"
        PROVE  Between(link, e, fs, whole, Append(h, parts)) /\ Hears(e, fs, whole, Append(h, parts))
    <3>1. \E i \in DOMAIN parts : parts[i] = old.read + 1
      <4> DEFINE n == old.read + 1
      <4>1. parts = Append(old.fragments, n) /\ n \in Nat
        BY <1>3, <1>6
      <4> HIDE DEF n
      <4>2. Len(old.fragments) + 1 \in DOMAIN parts /\ parts[Len(old.fragments) + 1] = n
        BY <1>3, <4>1
      <4> QED
        BY <4>2 DEF n
    <3>2. f.kind = "good"
      BY <1>2, <2>5, <3>1
    <3> QED
      BY <1>2, <1>3, <1>6, <1>11, <2>1, <2>3, <2>5, <3>2, EndRead
  <2> QED
    BY <1>1, <1>6, <2>2, <2>3, <2>4, <2>5, TextStep
<1>12. CASE ~wrong /\ f.op \notin Socket!Control /\ ~f.fin
  <2>1. /\ f.op \in {"text", "continuation"} /\ (f.op = "text" <=> old.fragments = <<>>)
        /\ f.kind = "good"
    BY <1>2, <1>5, <1>12 DEF Socket!Control
  <2>2. /\ heard' = heard /\ reader' = reader /\ sent' = sent
        /\ \/ ws' = [ws EXCEPT ![e] = part]
           \/ \E r \in Socket!Reads(e, part, "start") : ws' = [ws EXCEPT ![e] = r]
    BY <1>7, <1>12
  <2>3. /\ part \in Protocols /\ part.read = old.read + 1 /\ part.fragments = Append(old.fragments, old.read + 1)
        /\ part.reading = "none" /\ ~part.due /\ part.client_terminated = old.client_terminated
    <3>1. /\ part \in Protocols /\ part.read = old.read + 1 /\ part.fragments = parts
          /\ part.reading = "none" /\ ~part.due /\ part.client_terminated = old.client_terminated
      BY <1>5, <1>6 DEF Protocols
    <3> QED
      BY <1>6, <3>1
  <2> HIDE DEF part
  <2>4. Between(link, e, fs, part, h) /\ Hears(e, fs, part, h)
    BY <1>1, <1>2, <1>3, <1>12, <2>1, <2>3, PartRead
  <2>5. EndInv(link, e, fs, part, h)
    BY <2>3, <2>4 DEF EndInv, Phases
  <2>6. ASSUME NEW r \in Socket!Reads(e, part, "start") PROVE EndInv(link, e, fs, r, h) /\ r.reading # "request"
    <3>1. Turns(fs, part, r, "start")
      BY <2>3, EndIs, ReadsTurn DEF Phases
    <3> QED
      BY <2>4, <3>1, StartsInv DEF Turns
  <2>7. PICK q : ws' = [ws EXCEPT ![e] = q] /\ EndInv(link, e, fs, q, h) /\ q.reading # "request"
    BY <2>2, <2>3, <2>5, <2>6
  <2> QED
    BY <1>1, <2>2, <2>7, ReadStep
<1> QED
  BY <1>9, <1>10, <1>11, <1>12

\* A frame of draft 76 was read: the closing one, or a message.
LEMMA OnEndDelimiterStep ==
  ASSUME MessageInv, Socket!OnEndDelimiter
  PROVE  MessageInv'
<1> DEFINE e == "server"
           old == ws[e]
           fs == sent[e]
           h == Socket!Given(e)
           f == Socket!Current(e)
           p == Next1(old)
<1>1. /\ old.reading = "data" /\ old.due /\ link = "draft76" /\ e \in Socket!Ends
      /\ link' = link /\ wsHandler' = wsHandler
  BY TheEnds DEF Socket!OnEndDelimiter, Socket!Runs
<1>2. /\ old.read < Len(fs) /\ Hears(e, fs, old, h) /\ f = fs[old.read + 1]
      /\ old.fragments = <<>> /\ f \in Socket!Frames76 /\ f.op # "unknown"
  BY <1>1, DataIs DEF Socket!Current
<1>3. f.op \in {"text", "close"} /\ f.fin /\ f.kind = "good"
  BY <1>2 DEF Socket!Frames76, Socket!Frame
<1>4. Between(link, e, fs, old, h) /\ old \in Protocols /\ old.read \in Nat
  BY <1>1, EndIs
<1>5. /\ p \in Protocols /\ p.read = old.read + 1 /\ p.fragments = old.fragments
      /\ p.reading = "none" /\ ~p.due /\ p.client_terminated = old.client_terminated
  BY <1>4, NextIs
<1>6. EndInv(link, e, fs, p, h)
  BY <1>2, <1>4, <1>5, ReadInv
<1>7. CASE f.op = "close"
  <2> DEFINE x == [p EXCEPT !.client_terminated = TRUE]
             q == Socket!Closing(x)
             us == Socket!ClosingFrame(x)
  <2>1. ws' = [ws EXCEPT ![e] = q] /\ Socket!Write(e, us) /\ heard' = heard /\ reader' = reader
    BY <1>7 DEF Socket!OnEndDelimiter, Socket!Set, Next1
  <2> HIDE DEF p
  <2>2. Calmer(p, x)
    BY <1>5, CalmerIs
  <2>3. x \in Protocols
    BY <2>2 DEF Calmer
  <2> HIDE DEF x
  <2>4. Calmer(p, q)
    BY <2>2, <2>3, CalmerIs, CalmerThen
  <2>5. EndInv(link, e, fs, q, h) /\ q.reading = "none"
    BY <1>5, <1>6, <2>4, CalmerInv DEF Calmer
  <2>6. us \in {<<>>, <<Socket!Frame("close", TRUE)>>}
    BY DEF Socket!ClosingFrame
  <2> HIDE DEF q, us
  <2> QED
    BY <1>1, <2>1, <2>5, <2>6, WriteStep, HandlerIs
<1>8. CASE f.op # "close" /\ p.client_terminated
  <2>1. ws' = [ws EXCEPT ![e] = p] /\ heard' = heard /\ reader' = reader /\ sent' = sent
    BY <1>8 DEF Socket!OnEndDelimiter, Socket!Set, Next1
  <2> HIDE DEF p
  <2> QED
    BY <1>1, <1>5, <1>6, <2>1, ReadStep
<1>9. CASE f.op # "close" /\ ~p.client_terminated
  <2> DEFINE m == <<p.read>>
  <2>1. /\ Socket!Deliver(e, m) /\ sent' = sent
        /\ \/ \E q \in Socket!Reads(e, p, "start") : ws' = [ws EXCEPT ![e] = q]
           \/ ws' = [ws EXCEPT ![e] = Socket!Aborted(p)]
    BY <1>9 DEF Socket!OnEndDelimiter, Socket!Set, Socket!Raised, Next1
  <2> HIDE DEF p
  <2>2. m = Append(old.fragments, old.read + 1) /\ m \in Seq(Nat)
    BY <1>2, <1>4, <1>5
  <2> HIDE DEF m
  <2>3. f.op \in {"text", "continuation"} /\ (f.op = "text" <=> old.fragments = <<>>)
    BY <1>2, <1>3, <1>9
  <2> DEFINE g == Append(h, m)
  <2>4. Between(link, e, fs, p, g) /\ Hears(e, fs, p, g)
    BY <1>2, <1>3, <1>4, <1>5, <1>9, <2>2, <2>3, EndRead
  <2> HIDE DEF g
  <2>5. ASSUME NEW q \in Socket!Reads(e, p, "start") PROVE EndInv(link, e, fs, q, g) /\ q.reading # "request"
    <3>1. Turns(fs, p, q, "start")
      BY <1>1, <1>5, EndIs, ReadsTurn DEF Phases
    <3> QED
      BY <2>4, <3>1, StartsInv DEF Turns
  <2>6. EndInv(link, e, fs, Socket!Aborted(p), g) /\ Socket!Aborted(p).reading # "request"
    <3>1. EndInv(link, e, fs, p, g)
      BY <1>5, <2>4 DEF EndInv, Phases
    <3>2. Calmer(p, Socket!Aborted(p))
      BY <1>5, CalmerIs
    <3> QED
      BY <1>5, <3>1, <3>2, CalmerInv DEF Calmer
  <2>7. PICK q : ws' = [ws EXCEPT ![e] = q] /\ EndInv(link, e, fs, q, g) /\ q.reading # "request"
    BY <2>1, <2>5, <2>6
  <2> QED
    BY <1>1, <2>1, <2>2, <2>7, ToldStep DEF g
<1> QED
  BY <1>7, <1>8, <1>9

\* An end learns that the other is gone, and loses what did not reach it.
LEMMA NoticeEndStep ==
  ASSUME MessageInv, NEW e \in Socket!Ends, Socket!NoticeEnd(e)
  PROVE  MessageInv'
<1> DEFINE d == Socket!Peer(e)
           p == ws[e]
           q == [p EXCEPT !.open = FALSE]
           h == Socket!Given(e)
<1>1. /\ link' = link /\ wsHandler' = wsHandler /\ heard' = heard /\ reader' = reader
      /\ ws' = [ws EXCEPT ![e] = q]
  BY DEF Socket!NoticeEnd
<1>2. PICK n \in (IF p.due /\ p.reading # "request" THEN p.read + 1 ELSE p.read)..Len(sent[e]) :
        sent' = [sent EXCEPT ![e] = SubSeq(sent[e], 1, n)]
  BY DEF Socket!NoticeEnd
<1> DEFINE gs == SubSeq(sent[e], 1, n)
<1>3. /\ EndInv(link, e, sent[e], p, h) /\ p \in Protocols /\ p.read \in Nat
      /\ sent[e] \in Seq(Written) /\ Len(sent[e]) \in Nat
  BY EndIs
<1>4. n \in p.read..Len(sent[e]) /\ (p.due /\ p.reading # "request" => p.read < n)
  BY <1>2, <1>3
<1>5. EndInv(link, e, gs, q, h)
  BY <1>3, <1>4, LostInv
<1>6. q.reading = p.reading
  BY <1>3 DEF Protocols
<1>7. sent[e] = <<>> => gs = <<>>
  BY <1>3, <1>4
<1>8. /\ sent = [x \in Socket!Ends |-> sent[x]] /\ ws = [x \in Socket!Ends |-> ws[x]]
      /\ HeardInv /\ OpeningInv
      /\ \A x \in Socket!Ends : EndInv(link, x, sent[x], ws[x], Socket!Given(x))
  BY DEF MessageInv
<1> HIDE DEF gs, q
<1>9. d \in Socket!Ends /\ d # e /\ \A x \in Socket!Ends : x = e \/ x = d
  BY TheEnds
<1>10. /\ ws' = [x \in Socket!Ends |-> ws'[x]] /\ ws'[e] = q /\ ws'[d] = ws[d]
       /\ sent' = [x \in Socket!Ends |-> sent'[x]] /\ sent'[e] = gs /\ sent'[d] = sent[d]
  BY <1>1, <1>2, <1>8, <1>9 DEF gs
<1>11. HeardInv' /\ \A x \in Socket!Ends : Socket!Given(x)' = Socket!Given(x)
  BY <1>1, <1>8 DEF HeardInv, Socket!Given
<1>12. \A x \in Socket!Ends : EndInv(link', x, sent'[x], ws'[x], Socket!Given(x)')
  <2> SUFFICES ASSUME NEW x \in Socket!Ends PROVE EndInv(link', x, sent'[x], ws'[x], Socket!Given(x)')
    OBVIOUS
  <2>1. Socket!Given(x)' = Socket!Given(x)
    BY <1>11
  <2>2. CASE x = e
    BY <1>1, <1>5, <1>10, <2>1, <2>2
  <2>3. CASE x = d
    BY <1>1, <1>8, <1>10, <2>1, <2>3
  <2> QED
    BY <1>9, <2>2, <2>3
<1>13. OpeningInv'
  <2>1. /\ ws'["server"].reading = ws["server"].reading
        /\ sent["client"] = <<>> => sent'["client"] = <<>>
    BY <1>6, <1>7, <1>9, <1>10, TheEnds
  <2> QED
    BY <1>1, <1>8, <2>1 DEF OpeningInv
<1> HIDE DEF d
<1> QED
  BY <1>10, <1>11, <1>12, <1>13 DEF MessageInv

\* The closing handshake has timed out.
LEMMA ClosingTimesOutStep ==
  ASSUME MessageInv, NEW e \in Socket!Ends, Socket!ClosingTimesOut(e)
  PROVE  MessageInv'
<1> DEFINE q == Socket!Aborted(ws[e])
<1>1. /\ link' = link /\ wsHandler' = wsHandler /\ heard' = heard /\ reader' = reader
      /\ sent' = sent /\ ws' = [ws EXCEPT ![e] = q]
  BY DEF Socket!ClosingTimesOut, Socket!Set
<1>2. Calmer(ws[e], q)
  BY EndIs, CalmerIs
<1> HIDE DEF q
<1> QED
  BY <1>1, <1>2, CalmStep, HandlerIs

\* The server's handler is told of the end.
LEMMA OnConnectionCloseStep ==
  ASSUME MessageInv, Socket!OnConnectionClose
  PROVE  MessageInv'
<1> DEFINE p == [ws["server"] EXCEPT !.told = TRUE]
           left == [wsHandler EXCEPT !.attached = FALSE, !.on_close = @ + 1]
<1>1. /\ link' = link /\ heard' = heard /\ reader' = reader /\ sent' = sent
      /\ wsHandler' \in {wsHandler, left}
      /\ ws' = [ws EXCEPT !["server"] = p] \/ ws' = [ws EXCEPT !["server"] = Socket!Aborted(p)]
  BY DEF Socket!OnConnectionClose, Socket!Set
<1>2. Calmer(ws["server"], p)
  BY EndIs, CalmerIs, TheEnds
<1>3. p \in Protocols
  BY <1>2 DEF Calmer
<1> HIDE DEF p
<1>4. Calmer(ws["server"], Socket!Aborted(p))
  BY <1>2, <1>3, CalmerIs, CalmerThen
<1>5. PICK q : ws' = [ws EXCEPT !["server"] = q] /\ Calmer(ws["server"], q)
  BY <1>1, <1>2, <1>4
<1>6. wsHandler' \in Handlers /\ (wsHandler'.attached => wsHandler.attached)
  <2>1. left \in Handlers /\ ~left.attached
    BY HandlerIs
  <2> HIDE DEF left
  <2> QED
    BY <1>1, <2>1, HandlerIs
<1> QED
  BY <1>1, <1>5, <1>6, CalmStep, TheEnds

\* The client's user is told of it, with None.
LEMMA OnCloseStep ==
  ASSUME MessageInv, Socket!OnClose
  PROVE  MessageInv'
<1> DEFINE q == [ws["client"] EXCEPT !.told = TRUE]
           m == <<>>
<1>1. /\ link' = link /\ sent' = sent /\ wsHandler' = wsHandler
      /\ ws' = [ws EXCEPT !["client"] = q] /\ Socket!Deliver("client", m)
  BY DEF Socket!OnClose
<1>2. Calmer(ws["client"], q)
  BY EndIs, CalmerIs, TheEnds
<1> HIDE DEF q
<1>3. EndInv(link, "client", sent["client"], q, Socket!Given("client"))
  BY <1>2, EndIs, CalmerInv, TheEnds
<1>4. EndInv(link, "client", sent["client"], q, Append(Socket!Given("client"), m))
  BY <1>3, SilentInv
<1>5. m \in Seq(Nat)
  OBVIOUS
<1> HIDE DEF m
<1> QED
  BY <1>1, <1>4, <1>5, ToldStep, TheEnds

\* The users of an end have a protocol object that is past the request.
LEMMA UsersEnd ==
  ASSUME MessageInv, NEW e \in Socket!Ends,
         IF e = "server" THEN wsHandler.attached ELSE link = "tornado" /\ connect = "done"
  PROVE  /\ e = "client" => link = "tornado"
         /\ e = "server" => ws["server"].reading # "request"
BY TheEnds DEF MessageInv, OpeningInv

\* A user closes an end.
LEMMA CloseStep ==
  ASSUME MessageInv, NEW e \in Socket!Ends, Socket!Close(e)
  PROVE  MessageInv'
<1> DEFINE q == Socket!Closing(ws[e])
           us == Socket!ClosingFrame(ws[e])
           left == [wsHandler EXCEPT !.attached = FALSE, !.closed = TRUE]
<1>1. /\ link' = link /\ heard' = heard /\ reader' = reader
      /\ ws' = [ws EXCEPT ![e] = q] /\ Socket!Write(e, us)
      /\ wsHandler' \in {wsHandler, left}
  BY DEF Socket!Close, Socket!Set
<1>2. /\ e = "client" => link = "tornado"
      /\ e = "server" => ws["server"].reading # "request"
  BY UsersEnd DEF Socket!Close
<1>3. Calmer(ws[e], q)
  BY EndIs, CalmerIs
<1>4. EndInv(link, e, sent[e], q, Socket!Given(e)) /\ (e = "server" => q.reading # "request")
  BY <1>2, <1>3, EndIs, CalmerInv DEF Calmer
<1>5. us \in {<<>>, <<Socket!Frame("close", TRUE)>>}
  BY DEF Socket!ClosingFrame
<1>6. left \in Handlers /\ ~left.attached
  BY HandlerIs
<1> HIDE DEF left, q, us
<1>7. /\ wsHandler' \in Handlers
      /\ wsHandler'.attached => wsHandler.attached
  BY <1>1, <1>6, HandlerIs
<1> QED
  BY <1>1, <1>2, <1>4, <1>5, <1>7, WriteStep

\* A user writes a message or a ping.
LEMMA WriteMessageStep ==
  ASSUME MessageInv, NEW e \in Socket!Ends, Socket!WriteMessage(e)
  PROVE  MessageInv'
<1> DEFINE p == [ws[e] EXCEPT !.writes = ws[e].writes + 1]
<1>1. /\ link' = link /\ heard' = heard /\ reader' = reader /\ wsHandler' = wsHandler
      /\ \/ /\ ws' = [ws EXCEPT ![e] = p]
            /\ \E op \in {"text", "ping"} : Socket!Write(e, <<Socket!Frame(op, TRUE)>>)
         \/ /\ sent' = sent
            /\ ws' = [ws EXCEPT ![e] = p] \/ ws' = [ws EXCEPT ![e] = Socket!Aborted(p)]
  BY DEF Socket!WriteMessage, Socket!Set
<1>2. /\ e = "client" => link = "tornado"
      /\ e = "server" => ws["server"].reading # "request"
  BY UsersEnd DEF Socket!WriteMessage
<1>3. Calmer(ws[e], p)
  BY EndIs, CalmerIs
<1>4. p \in Protocols
  BY <1>3 DEF Calmer
<1> HIDE DEF p
<1>5. Calmer(ws[e], Socket!Aborted(p))
  BY <1>3, <1>4, CalmerIs, CalmerThen
<1>6. CASE /\ ws' = [ws EXCEPT ![e] = p]
           /\ \E op \in {"text", "ping"} : Socket!Write(e, <<Socket!Frame(op, TRUE)>>)
  <2>1. EndInv(link, e, sent[e], p, Socket!Given(e)) /\ (e = "server" => p.reading # "request")
    BY <1>2, <1>3, EndIs, CalmerInv DEF Calmer
  <2>2. PICK us \in {<<Socket!Frame(op, TRUE)>> : op \in {"text", "ping", "pong", "close"}} :
          Socket!Write(e, us)
    BY <1>6
  <2> QED
    BY <1>1, <1>2, <1>6, <2>1, <2>2, WriteStep, HandlerIs
<1>7. CASE /\ sent' = sent
           /\ ws' = [ws EXCEPT ![e] = p] \/ ws' = [ws EXCEPT ![e] = Socket!Aborted(p)]
  BY <1>1, <1>3, <1>5, <1>7, CalmStep, HandlerIs
<1> QED
  BY <1>1, <1>6, <1>7

\* The client's user takes a message from the queue, or waits for one.
LEMMA ReadMessageStep ==
  ASSUME MessageInv, Socket!ReadMessage
  PROVE  MessageInv'
<1> DEFINE a == heard["client"]
           b == reader.queue
<1>1. /\ link' = link /\ sent' = sent /\ ws' = ws /\ wsHandler' = wsHandler
      /\ reader.future = "none"
      /\ \/ b = <<>> /\ reader' = [reader EXCEPT !.future = "pending"] /\ heard' = heard
         \/ /\ b # <<>> /\ reader' = [reader EXCEPT !.queue = Tail(b)]
            /\ heard' = [heard EXCEPT !["client"] = Append(a, Head(b))]
  BY DEF Socket!ReadMessage
<1>2. /\ HeardInv /\ OpeningInv /\ ws = [x \in Socket!Ends |-> ws[x]] /\ sent = [x \in Socket!Ends |-> sent[x]]
      /\ heard = [x \in Socket!Ends |-> heard[x]]
      /\ heard["server"] \in Seq(Seq(Nat)) /\ a \in Seq(Seq(Nat)) /\ b \in Seq(Seq(Nat))
      /\ reader \in [future : {"none", "pending"}, queue : Seq(Seq(Nat))]
  BY DEF MessageInv, HeardInv
<1>3. HeardInv' /\ heard'["server"] = heard["server"] /\ heard'["client"] \o reader'.queue = a \o b
  <2>1. CASE b = <<>>
    <3>1. reader' \in [future : {"none", "pending"}, queue : Seq(Seq(Nat))] /\ reader'.queue = b
      BY <1>1, <1>2, <2>1
    <3> QED
      BY <1>1, <1>2, <2>1, <3>1 DEF HeardInv
  <2>2. CASE b # <<>>
    <3> DEFINE m == Head(b)
               t == Tail(b)
    <3>1. m \in Seq(Nat) /\ t \in Seq(Seq(Nat)) /\ b = <<m>> \o t /\ <<m>> \in Seq(Seq(Nat))
      BY <1>2, <2>2
    <3>2. reader' = [reader EXCEPT !.queue = t] /\ heard' = [heard EXCEPT !["client"] = Append(a, m)]
      BY <1>1, <2>2
    <3> HIDE DEF m, t
    <3>3. Append(a, m) = a \o <<m>> /\ Append(a, m) \in Seq(Seq(Nat))
      BY <1>2, <3>1, AppendIsConcat
    <3>4. (a \o <<m>>) \o t = a \o (<<m>> \o t)
      <4> DEFINE l == <<m>>
      <4>1. l \in Seq(Seq(Nat))
        BY <3>1
      <4> HIDE DEF l, a, b
      <4>2. (a \o l) \o t = a \o (l \o t)
        BY SMTT(30), <1>2, <3>1, <4>1, ConcatAssociative
      <4> QED
        BY <4>2 DEF l
    <3>5. /\ reader' \in [future : {"none", "pending"}, queue : Seq(Seq(Nat))]
          /\ reader'.queue = t /\ reader'.future = "none"
      BY <1>1, <1>2, <3>1, <3>2
    <3> DEFINE g == Append(a, m)
    <3> HIDE DEF g
    <3>6. /\ heard' = [x \in Socket!Ends |-> heard'[x]] /\ heard'["client"] = g
          /\ heard'["server"] = heard["server"]
      BY <1>2, <3>2, TheEnds DEF g
    <3>7. HeardInv'
      BY <1>2, <3>3, <3>5, <3>6 DEF HeardInv, g
    <3> QED
      BY <3>1, <3>3, <3>4, <3>5, <3>6, <3>7 DEF g
  <2> QED
    BY <2>1, <2>2
<1>4. \A x \in Socket!Ends : Socket!Given(x)' = Socket!Given(x)
  <2>1. /\ Socket!Given("server")' = heard'["server"] \o <<>>
        /\ Socket!Given("client")' = heard'["client"] \o reader'.queue
        /\ Socket!Given("server") = heard["server"] \o <<>>
        /\ Socket!Given("client") = a \o b
    BY DEF Socket!Given
  <2> QED
    BY <1>3, <2>1, TheEnds
<1>5. \A x \in Socket!Ends : EndInv(link', x, sent'[x], ws'[x], Socket!Given(x)')
  BY <1>1, <1>4 DEF MessageInv
<1>6. OpeningInv'
  BY <1>1, <1>2 DEF OpeningInv
<1> QED
  BY <1>1, <1>2, <1>3, <1>5, <1>6 DEF MessageInv

\* Another program writes whatever frame it likes,
LEMMA OtherWritesStep ==
  ASSUME MessageInv, Socket!OtherWrites
  PROVE  MessageInv'
<1> DEFINE q == ws["client"]
           n == Len(sent["server"])
<1>1. /\ link' = link /\ ws' = ws /\ heard' = heard /\ reader' = reader /\ wsHandler' = wsHandler
  BY DEF Socket!OtherWrites
<1>2. PICK f \in (IF link = "other" THEN Socket!Frames ELSE Socket!Frames76) : Socket!Write("client", <<f>>)
  BY DEF Socket!OtherWrites
<1> DEFINE us == <<f>>
<1>3. Sendable(link, "server", n + 1, f)
  <2> DEFINE good(op) == Socket!Frame(op, TRUE)
             fine == f \in Written /\ (f.kind = "garbled" => f.op = "text" /\ f.fin)
                       /\ f.op \notin {"101", "refusal"}
  <2>1. ASSUME NEW op \in {"text", "close", "unknown"}, f = good(op) PROVE fine
    <3>1. good(op) \in Written
      BY DEF Written, Socket!Frame
    <3>2. good(op).op = op /\ good(op).kind = "good"
      BY DEF Socket!Frame
    <3> HIDE DEF good
    <3> QED
      BY <2>1, <3>1, <3>2
  <2>2. ASSUME f \in Socket!Frames PROVE fine
    <3>1. ASSUME f \in [op : {"text", "continuation", "ping", "close"}, fin : BOOLEAN, kind : {"good"}]
          PROVE  fine
      BY <3>1 DEF Written
    <3>2. ASSUME NEW k \in {"reserved", "garbled"}, f = [op |-> "text", fin |-> TRUE, kind |-> k]
          PROVE  fine
      <4>1. f.op = "text" /\ f.fin
        BY <3>2
      <4>2. f \in Written
        BY <3>2 DEF Written
      <4> QED
        BY <4>1, <4>2
    <3> HIDE DEF fine
    <3>3. \/ f \in [op : {"text", "continuation", "ping", "close"}, fin : BOOLEAN, kind : {"good"}]
          \/ \E k \in {"reserved", "garbled"} : f = [op |-> "text", fin |-> TRUE, kind |-> k]
          \/ f = good("unknown")
      BY <2>2 DEF Socket!Frames, good
    <3> QED
      BY <2>1, <3>1, <3>2, <3>3
  <2>3. ASSUME f \in Socket!Frames76 PROVE fine
    <3> HIDE DEF fine
    <3> QED
      BY <2>1, <2>3 DEF Socket!Frames76
  <2>4. fine /\ (link = "draft76" => f \in Socket!Frames76)
    BY <1>2, <2>2, <2>3
  <2> HIDE DEF n
  <2> QED
    BY <2>4 DEF Sendable
<1>4. n \in Nat
  BY EndIs, TheEnds
<1> HIDE DEF n
<1>5. us \in Seq(Written) /\ \A i \in DOMAIN us : Sendable(link, "server", n + i, us[i])
  BY <1>3, <1>4, OneSent
<1> HIDE DEF us
<1>6. \A i \in DOMAIN us : Sendable(link, Socket!Peer("client"), Len(sent[Socket!Peer("client")]) + i, us[i])
  BY <1>5, TheEnds DEF n
<1>7. EndInv(link, "client", sent["client"], q, Socket!Given("client"))
  BY EndIs, TheEnds
<1>8. ws' = [ws EXCEPT !["client"] = q]
  BY <1>1 DEF MessageInv
<1>9. Socket!Write("client", us)
  BY <1>2 DEF us
<1> HIDE DEF q
<1> QED
  BY <1>1, <1>5, <1>6, <1>7, <1>8, <1>9, QuietStep, HandlerIs, TheEnds

\* or closes its end.
LEMMA OtherClosesStep ==
  ASSUME MessageInv, Socket!OtherCloses
  PROVE  MessageInv'
<1> DEFINE q == [ws["client"] EXCEPT !.open = FALSE]
<1>1. /\ ws' = [ws EXCEPT !["client"] = q] /\ wsHandler' = wsHandler
      /\ link' = link /\ sent' = sent /\ heard' = heard /\ reader' = reader
  BY DEF Socket!OtherCloses
<1>2. Calmer(ws["client"], q)
  BY EndIs, CalmerIs, TheEnds
<1> HIDE DEF q
<1> QED
  BY <1>1, <1>2, CalmStep, HandlerIs, TheEnds

-----------------------------------------------------------------------------
(* The invariant, and what it is for.                                      *)

\* No frame is sent at first, and nothing told.
LEMMA MessageInit ==
  ASSUME Init
  PROVE  MessageInv
<1>1. /\ sent = [e \in Socket!Ends |-> <<>>] /\ heard = [e \in Socket!Ends |-> <<>>]
      /\ ws = [server |-> [Socket!NewProtocol EXCEPT !.reading = "request", !.due = TRUE],
               client |-> Socket!NewProtocol]
      /\ wsHandler = [attached |-> FALSE, closed |-> FALSE, on_close |-> 0]
      /\ reader = [future |-> "none", queue |-> <<>>]
  BY DEF Init, Socket!Init, Socket!NewReader
<1> DEFINE empty == <<>>
           n == Socket!NewProtocol
           r == [n EXCEPT !.reading = "request", !.due = TRUE]
<1>2. empty \in Seq(Written) /\ empty \in Seq(Seq(Nat)) /\ DOMAIN empty = {} /\ Len(empty) = 0
      /\ empty \o empty = empty /\ empty \in Seq(Nat)
  OBVIOUS
<1>3. n \in Protocols /\ n.read = 0 /\ n.fragments = empty /\ n.reading = "headers" /\ ~n.due
  BY DEF Socket!NewProtocol, Protocols
<1>4. r \in Protocols /\ r.read = 0 /\ r.fragments = empty /\ r.reading = "request"
  <2> HIDE DEF n
  <2> QED
    BY <1>3 DEF Protocols
<1>5. /\ sent = [e \in Socket!Ends |-> sent[e]] /\ heard = [e \in Socket!Ends |-> heard[e]]
      /\ sent["server"] = empty /\ sent["client"] = empty
      /\ heard["server"] = empty /\ heard["client"] = empty
  BY <1>1, TheEnds
<1>6. ws = [e \in Socket!Ends |-> ws[e]] /\ ws["server"] = r /\ ws["client"] = n
  BY <1>1, TheEnds
<1>7. HeardInv
  <2>1. reader \in [future : {"none", "pending"}, queue : Seq(Seq(Nat))] /\ reader.queue = empty
    BY <1>1, <1>2
  <2> HIDE DEF empty
  <2> QED
    BY <1>2, <1>5, <2>1 DEF HeardInv, empty
<1>8. OpeningInv
  <2> DEFINE no == FALSE
  <2>1. wsHandler = [attached |-> no, closed |-> no, on_close |-> 0] /\ no \in BOOLEAN /\ ~no
    BY <1>1
  <2> HIDE DEF no
  <2>2. wsHandler \in Handlers /\ ~wsHandler.attached
    BY <2>1 DEF Handlers
  <2> QED
    BY <1>5, <2>2 DEF OpeningInv
<1>9. \A e \in Socket!Ends : Socket!Given(e) = empty
  BY <1>1, <1>2, <1>5, TheEnds DEF Socket!Given
<1> HIDE DEF empty, n, r
<1>10. ASSUME NEW e, NEW p \in {n, r} PROVE EndInv(link, e, empty, p, empty)
  <2>1. Tells(empty, empty, p.read)
    BY <1>2 DEF Tells
  <2>2. p \in Protocols /\ p.read = 0 /\ p.fragments = empty /\ p.reading \in {"headers", "request"}
        /\ (p.due => p.reading = "request")
    BY <1>3, <1>4
  <2>3. Between(link, e, empty, p, empty)
    BY <1>2, <2>1, <2>2 DEF Between, empty
  <2> QED
    BY <2>2, <2>3 DEF EndInv, Phases, empty
<1>11. \A e \in Socket!Ends : EndInv(link, e, sent[e], ws[e], Socket!Given(e))
  <2>1. \A e \in Socket!Ends : sent[e] = empty /\ ws[e] \in {n, r}
    BY <1>5, <1>6, TheEnds
  <2> QED
    BY <1>9, <1>10, <2>1
<1> QED
  BY <1>5, <1>6, <1>7, <1>8, <1>11 DEF MessageInv

\* Every step of a WebSocket keeps the invariant.
LEMMA MessageNext ==
  ASSUME MessageInv, Socket!Next
  PROVE  MessageInv'
<1>1. ASSUME NEW e \in Socket!Ends, Socket!Arrives(e) \/ Socket!Reading(e) PROVE MessageInv'
  BY <1>1, ArrivesStep, OnFrameStartStep, OnFrameLengthStep, OnFrameDataStep DEF Socket!Reading
<1>2. ASSUME Socket!LoopStep PROVE MessageInv'
  BY <1>1, <1>2, AcceptStep, OnChallengeStep, OnHeadersStep, OnFrameTypeStep, OnEndDelimiterStep,
     OnConnectionCloseStep, OnCloseStep DEF Socket!LoopStep
<1>3. ASSUME NEW e \in Socket!Ends,
             Socket!NoticeEnd(e) \/ Socket!ClosingTimesOut(e) \/ Socket!Close(e) \/ Socket!WriteMessage(e)
      PROVE  MessageInv'
  BY <1>3, NoticeEndStep, ClosingTimesOutStep, CloseStep, WriteMessageStep
<1> QED
  BY <1>2, <1>3, RefuseStep, MalformedStep, ConnectTimesOutStep, ReadMessageStep, OtherWritesStep,
     OtherClosesStep DEF Socket!Next

\* So does a step of another kind of connection.
LEMMA MessageStays ==
  ASSUME MessageInv, UNCHANGED socketVars
  PROVE  MessageInv'
BY DEF MessageInv, HeardInv, OpeningInv, socketVars, Socket!Given

\* It says of every end what MessagesAreWhole does.
LEMMA MessageInvWhole ==
  ASSUME MessageInv
  PROVE  MessagesAreWhole
<1> SUFFICES ASSUME NEW e \in Socket!Ends
             PROVE  /\ \A n \in Socket!Told(e) : Socket!Whole(sent[e], Socket!Given(e)[n])
                    /\ \A n, k \in Socket!Told(e) :
                         n < k => Socket!Ended(Socket!Given(e)[n]) < Socket!Ended(Socket!Given(e)[k])
                    /\ \A n \in Socket!Told(e) : \A j \in Socket!Messages(sent[e]) :
                         j <= Socket!Ended(Socket!Given(e)[n])
                           => \E k \in Socket!Told(e) : Socket!Ended(Socket!Given(e)[k]) = j
  BY DEF MessagesAreWhole, Socket!MessagesAreWhole
<1> DEFINE h == Socket!Given(e)
<1>1. Tells(sent[e], h, ws[e].read) /\ (e = "server" => \A n \in DOMAIN h : h[n] # <<>>)
  BY EndIs DEF Between
<1>2. \A n : n \in Socket!Told(e) <=> n \in DOMAIN h /\ h[n] # <<>>
  BY <1>1 DEF Socket!Told
<1> HIDE DEF h
<1>3. /\ \A n \in Socket!Told(e) : Socket!Whole(sent[e], h[n])
      /\ \A n, k \in Socket!Told(e) : n < k => Socket!Ended(h[n]) < Socket!Ended(h[k])
      /\ \A n \in Socket!Told(e) : \A j \in Socket!Messages(sent[e]) :
           j <= Socket!Ended(h[n]) => \E k \in Socket!Told(e) : Socket!Ended(h[k]) = j
  BY <1>1, <1>2 DEF Tells
<1> QED
  BY <1>3 DEF h

\* What comes between the fragments of a message, and when it comes, does not matter:
\* what the handler's on_message and the client's read_message are given are the
\* messages that the other end sent, whole, in their order and without a gap, for
\* frames and writes without bound.
THEOREM MessagesAreWholeHolds == Spec => []MessagesAreWhole
<1>1. Init => MessageInv
  BY MessageInit
<1>2. MessageInv /\ [Next]_vars => MessageInv'
  <2> SUFFICES ASSUME MessageInv, [Next]_vars PROVE MessageInv'
    OBVIOUS
  <2>1. UNCHANGED socketVars \/ Socket!Next
    BY DEF Next, vars
  <2> QED
    BY <2>1, MessageNext, MessageStays
<1>3. MessageInv => MessagesAreWhole
  BY MessageInvWhole
<1> QED
  BY <1>1, <1>2, <1>3, PTL DEF Spec

-----------------------------------------------------------------------------
(* What a WebSocket's server writes behind its closing frame.              *)

HasClosing(fs) == \E i \in DOMAIN fs : fs[i].op = "close"

\* A server that has sent its closing frame has sent it, and either its handler has no
\* connection any more or the stream is closed.
ClosedInv ==
  /\ ClosingFrameIsLast
  /\ HasClosing(sent["client"]) =>
       ws["server"].server_terminated /\ (~wsHandler.attached \/ ~ws["server"].open)

\* A closing frame is sent once, and a stream stays closed.
Farther(p, q) == (p.server_terminated => q.server_terminated) /\ (q.open => p.open)

\* Two steps on are a step on.
LEMMA FartherThen ==
  ASSUME NEW p, NEW q, NEW r, Farther(p, q), Farther(q, r)
  PROVE  Farther(p, r)
BY DEF Farther

\* What a protocol object does is a step on, ...
LEMMA FartherIs ==
  ASSUME NEW p \in Protocols
  PROVE  /\ Farther(p, p) /\ Farther(p, Socket!Idle(p)) /\ Farther(p, Socket!Aborted(p))
         /\ Farther(p, Socket!Closing(p)) /\ Farther(p, [p EXCEPT !.open = FALSE])
         /\ Farther(p, [p EXCEPT !.told = TRUE]) /\ Farther(p, [p EXCEPT !.writes = @ + 1])
         /\ Farther(p, [p EXCEPT !.client_terminated = TRUE]) /\ Farther(p, [p EXCEPT !.due = TRUE])
         /\ \A n : Farther(p, [p EXCEPT !.read = n])
         /\ \A x : Farther(p, [p EXCEPT !.fragments = x])
<1>1. Farther(p, p) /\ Farther(p, Socket!Idle(p)) /\ Farther(p, Socket!Aborted(p))
  BY DEF Farther, Protocols, Socket!Idle, Socket!Aborted
<1>2. Farther(p, Socket!Closing(p))
  <2> DEFINE waiting == ~p.client_terminated
             open == p.open /\ ~p.client_terminated
             q == [p EXCEPT !.server_terminated = TRUE, !.waiting = waiting, !.open = open]
  <2>1. Socket!Closing(p) = q
    BY DEF Socket!Closing
  <2>2. open => p.open
    OBVIOUS
  <2> HIDE DEF waiting, open
  <2>3. q.open = open /\ q.server_terminated
    BY DEF Protocols
  <2> HIDE DEF q
  <2> QED
    BY <2>1, <2>2, <2>3 DEF Farther
<1>3. /\ Farther(p, [p EXCEPT !.open = FALSE]) /\ Farther(p, [p EXCEPT !.told = TRUE])
      /\ Farther(p, [p EXCEPT !.writes = @ + 1])
      /\ Farther(p, [p EXCEPT !.client_terminated = TRUE]) /\ Farther(p, [p EXCEPT !.due = TRUE])
  BY DEF Farther, Protocols
<1>4. /\ \A n : Farther(p, [p EXCEPT !.read = n])
      /\ \A x : Farther(p, [p EXCEPT !.fragments = x])
  BY DEF Farther, Protocols
<1> QED
  BY <1>1, <1>2, <1>3, <1>4

\* ... also to go on reading.
LEMMA ReadsFarther ==
  ASSUME NEW e, NEW p \in Protocols, NEW phase, NEW q \in Socket!Reads(e, p, phase)
  PROVE  Farther(p, q)
<1> DEFINE next == [p EXCEPT !.reading = phase, !.due = FALSE]
           now == [next EXCEPT !.due = TRUE]
           off == Socket!Idle(p)
           gone == Socket!Aborted(off)
<1>1. q \in {next, now, off, gone}
  BY DEF Socket!Reads
<1>2. Farther(p, next) /\ Farther(p, now)
  BY DEF Protocols, Farther
<1>3. Farther(p, off) /\ Farther(p, gone)
  BY DEF Protocols, Farther, Socket!Idle, Socket!Aborted
<1> HIDE DEF next, now, off, gone
<1> QED
  BY <1>1, <1>2, <1>3

\* A handler gets its connection while the client was sent nothing.
Attached == wsHandler'.attached => wsHandler.attached \/ sent["client"] = <<>>

\* A step that sends the client nothing.
LEMMA NothingSent ==
  ASSUME ClosedInv, sent'["client"] = sent["client"],
         Farther(ws["server"], ws'["server"]), Attached
  PROVE  ClosedInv'
<1>1. sent["client"] = <<>> => ~HasClosing(sent["client"])
  BY DEF HasClosing
<1> QED
  BY <1>1 DEF ClosedInv, ClosingFrameIsLast, Socket!ClosingFrameIsLast, Farther, Attached

\* A step that sends it one frame more.
LEMMA FrameIsSent ==
  ASSUME ClosedInv, sent["client"] \in Seq(Written), NEW f, sent'["client"] = Append(sent["client"], f),
         Farther(ws["server"], ws'["server"]), Attached,
         f.op = "pong" \/ ~HasClosing(sent["client"]),
         f.op = "close" => ws'["server"].server_terminated /\ (~wsHandler'.attached \/ ~ws'["server"].open)
  PROVE  ClosedInv'
<1> DEFINE fs == sent["client"]
           gs == sent'["client"]
           n == Len(fs) + 1
<1>1. /\ DOMAIN gs = DOMAIN fs \cup {n} /\ gs[n] = f /\ n \in Nat
      /\ \A i \in DOMAIN fs : gs[i] = fs[i] /\ i \in Nat /\ i < n
  OBVIOUS
<1>2. fs = <<>> => ~HasClosing(fs)
  BY DEF HasClosing
<1>3. HasClosing(gs) => HasClosing(fs) \/ f.op = "close"
  <2> HIDE DEF fs, gs, n
  <2> QED
    BY <1>1 DEF HasClosing
<1>4. ASSUME NEW i \in DOMAIN gs, NEW j \in DOMAIN gs, i < j, gs[i].op = "close"
      PROVE  gs[j].op = "pong"
  <2>1. i \in DOMAIN fs /\ fs[i].op = "close"
    <3> HIDE DEF fs, gs, n
    <3> QED
      BY <1>1, <1>4
  <2>2. CASE j \in DOMAIN fs
    BY <1>1, <1>4, <2>1, <2>2 DEF ClosedInv, ClosingFrameIsLast, Socket!ClosingFrameIsLast
  <2>3. CASE j = n
    BY <1>1, <2>1, <2>3 DEF HasClosing
  <2> QED
    BY <1>1, <2>2, <2>3
<1>5. ClosingFrameIsLast'
  BY <1>4 DEF ClosingFrameIsLast, Socket!ClosingFrameIsLast
<1>6. HasClosing(gs) =>
        ws'["server"].server_terminated /\ (~wsHandler'.attached \/ ~ws'["server"].open)
  BY <1>2, <1>3 DEF ClosedInv, Farther, Attached
<1> QED
  BY <1>5, <1>6 DEF ClosedInv

\* A step of one end, which writes us.
LEMMA FramesAreSent ==
  ASSUME MessageInv, ClosedInv, NEW e \in Socket!Ends, NEW q, ws' = [ws EXCEPT ![e] = q],
         Farther(ws[e], q), Attached,
         \/ sent' = sent
         \/ \E us : /\ Socket!Write(e, us)
                    /\ e = "server" =>
                         \/ us = <<>>
                         \/ \E f : /\ us = <<f>>
                                   /\ f.op = "pong" \/ ~HasClosing(sent["client"])
                                   /\ f.op = "close" =>
                                        q.server_terminated /\ (~wsHandler'.attached \/ ~q.open)
  PROVE  ClosedInv'
<1>1. /\ ws = [x \in Socket!Ends |-> ws[x]] /\ sent = [x \in Socket!Ends |-> sent[x]]
      /\ sent["client"] \in Seq(Written) /\ ws["server"] \in Protocols
  BY EndIs, TheEnds DEF MessageInv
<1>2. ws'[e] = q /\ \A x \in Socket!Ends : x # e => ws'[x] = ws[x]
  BY <1>1
<1>3. Farther(ws["server"], ws'["server"])
  <2>1. Farther(ws["server"], ws["server"])
    BY DEF Farther
  <2> QED
    BY <1>2, <2>1, TheEnds
<1>4. CASE sent'["client"] = sent["client"]
  BY <1>3, <1>4, NothingSent
<1>5. CASE sent'["client"] # sent["client"]
  <2>1. PICK us : /\ Socket!Write(e, us)
                  /\ e = "server" =>
                       \/ us = <<>>
                       \/ \E f : /\ us = <<f>>
                                 /\ f.op = "pong" \/ ~HasClosing(sent["client"])
                                 /\ f.op = "close" =>
                                      q.server_terminated /\ (~wsHandler'.attached \/ ~q.open)
    BY <1>5
  <2>2. e = "server" /\ sent'["client"] = sent["client"] \o us
    <3>1. \/ sent' = [sent EXCEPT ![Socket!Peer(e)] = sent[Socket!Peer(e)] \o us]
          \/ sent' = [sent EXCEPT ![Socket!Peer(e)] = sent[Socket!Peer(e)]]
      BY <2>1 DEF Socket!Write
    <3> QED
      BY <1>1, <1>5, <3>1, TheEnds
  <2>3. sent["client"] \o <<>> = sent["client"]
    BY <1>1
  <2>4. PICK f : /\ us = <<f>>
                 /\ f.op = "pong" \/ ~HasClosing(sent["client"])
                 /\ f.op = "close" => q.server_terminated /\ (~wsHandler'.attached \/ ~q.open)
    BY <1>5, <2>1, <2>2, <2>3
  <2>5. sent'["client"] = Append(sent["client"], f)
    BY <1>1, <2>2, <2>4
  <2> QED
    BY <1>1, <1>2, <1>3, <2>2, <2>4, <2>5, FrameIsSent
<1> QED
  BY <1>4, <1>5

\* A closing frame, when one is sent.
LEMMA ClosingIs ==
  ASSUME NEW p \in Protocols
  PROVE  /\ Socket!ClosingFrame(p) = <<>>
            \/ (p.open /\ ~p.server_terminated /\ Socket!ClosingFrame(p) = <<Socket!Frame("close", TRUE)>>)
         /\ Socket!Closing(p).server_terminated /\ (p.client_terminated => ~Socket!Closing(p).open)
<1>1. Socket!ClosingFrame(p) = <<>>
        \/ (p.open /\ ~p.server_terminated /\ Socket!ClosingFrame(p) = <<Socket!Frame("close", TRUE)>>)
  BY DEF Socket!ClosingFrame
<1> DEFINE waiting == ~p.client_terminated
           open == p.open /\ ~p.client_terminated
           q == [p EXCEPT !.server_terminated = TRUE, !.waiting = waiting, !.open = open]
<1>2. Socket!Closing(p) = q
  BY DEF Socket!Closing
<1>3. p.client_terminated => ~open
  OBVIOUS
<1> HIDE DEF waiting, open
<1>4. q.open = open /\ q.server_terminated
  BY DEF Protocols
<1> HIDE DEF q
<1> QED
  BY <1>1, <1>2, <1>3, <1>4

\* What _handle_message does, for p that has read the message.
LEMMA HandleSends ==
  ASSUME MessageInv, ClosedInv, NEW e \in Socket!Ends, NEW p \in Protocols, Farther(ws[e], p),
         NEW op, NEW m, wsHandler' = wsHandler, Socket!HandleMessage(e, p, op, m)
  PROVE  ClosedInv'
<1> DEFINE pong == Socket!Frame("pong", TRUE)
           closed == [p EXCEPT !.client_terminated = TRUE]
           q1 == Socket!Closing(closed)
           us == Socket!ClosingFrame(p)
<1>1. \/ sent' = sent /\ ws' = [ws EXCEPT ![e] = p]
      \/ sent' = sent /\ ws' = [ws EXCEPT ![e] = Socket!Aborted(p)]
      \/ sent' = sent /\ \E q \in Socket!Reads(e, p, "start") : ws' = [ws EXCEPT ![e] = q]
      \/ Socket!Write(e, <<pong>>) /\ \E q \in Socket!Reads(e, p, "start") : ws' = [ws EXCEPT ![e] = q]
      \/ Socket!Write(e, us) /\ ws' = [ws EXCEPT ![e] = q1]
  BY DEF Socket!HandleMessage, Socket!Set, Socket!Raised
<1>2. Attached
  BY DEF Attached
<1>3. pong.op = "pong"
  BY DEF Socket!Frame
<1> HIDE DEF pong
<1>4. ASSUME NEW q, Farther(p, q), ws' = [ws EXCEPT ![e] = q], sent' = sent \/ Socket!Write(e, <<pong>>)
      PROVE  ClosedInv'
  <2>1. Farther(ws[e], q)
    BY <1>4, FartherThen
  <2>2. pong.op = "pong" /\ pong.op # "close"
    BY <1>3
  <2> QED
    BY <1>2, <1>4, <2>1, <2>2, FramesAreSent
<1>5. CASE Socket!Write(e, us) /\ ws' = [ws EXCEPT ![e] = q1]
  <2>1. closed \in Protocols /\ closed.client_terminated /\ Farther(p, closed)
    BY FartherIs DEF Protocols
  <2> HIDE DEF closed
  <2>2. q1.server_terminated /\ ~q1.open /\ Farther(closed, q1)
    BY <2>1, ClosingIs, FartherIs
  <2>3. Farther(ws[e], q1)
    BY <2>1, <2>2, FartherThen
  <2>4. us = <<>> \/ (~p.server_terminated /\ us = <<Socket!Frame("close", TRUE)>>)
    BY ClosingIs
  <2>5. e = "server" /\ ~p.server_terminated => ~HasClosing(sent["client"])
    BY DEF ClosedInv, Farther
  <2> DEFINE f == Socket!Frame("close", TRUE)
  <2> HIDE DEF us, q1, f
  <2>6. e = "server" =>
          \/ us = <<>>
          \/ \E x : /\ us = <<x>>
                    /\ x.op = "pong" \/ ~HasClosing(sent["client"])
                    /\ x.op = "close" => q1.server_terminated /\ (~wsHandler'.attached \/ ~q1.open)
    BY <2>2, <2>4, <2>5 DEF f
  <2> QED
    BY <1>2, <1>5, <2>3, <2>6, FramesAreSent
<1>6. Farther(p, p) /\ Farther(p, Socket!Aborted(p))
  BY FartherIs
<1>7. ASSUME NEW q \in Socket!Reads(e, p, "start") PROVE Farther(p, q)
  BY ReadsFarther
<1> HIDE DEF us, q1
<1> QED
  BY <1>1, <1>4, <1>5, <1>6, <1>7

\* The handshake: nothing was sent before it.
LEMMA OpeningSends ==
  ASSUME MessageInv, ClosedInv, Socket!Refuse \/ Socket!Malformed \/ Socket!Accept
  PROVE  ClosedInv'
<1> DEFINE p == ws["server"]
           refusal == Socket!Frame("refusal", TRUE)
           answer == Socket!Frame("101", TRUE)
           idle == Socket!Idle(p)
           gone == Socket!Aborted(p)
           frames == {<<refusal>>, <<answer>>}
           reads == Socket!Reads("server", p, "start") \cup Socket!Reads("server", gone, "start")
                      \cup Socket!Reads("server", p, "challenge")
           next == {idle, [idle EXCEPT !.open = FALSE], Socket!Aborted(idle)} \cup reads
<1>1. p.reading = "request"
  BY DEF Socket!Refuse, Socket!Malformed, Socket!Accept, Socket!Runs
<1>2. sent["client"] = <<>> /\ ~HasClosing(sent["client"]) /\ Attached
  BY <1>1, RequestIs DEF HasClosing, Attached
<1>3. "server" \in Socket!Ends /\ p \in Protocols
  BY EndIs, TheEnds
<1>4. refusal.op = "refusal" /\ answer.op = "101"
  BY DEF Socket!Frame
<1>5. /\ \E q \in next : ws' = [ws EXCEPT !["server"] = q]
      /\ sent' = sent \/ \E us \in frames : Socket!Write("server", us)
  <2>1. CASE Socket!Refuse
    BY <2>1 DEF Socket!Refuse, Socket!Set
  <2>2. CASE Socket!Malformed
    BY <2>2 DEF Socket!Malformed, Socket!Set
  <2>3. CASE Socket!Accept
    <3>1. CASE ~p.open
      BY <2>3, <3>1 DEF Socket!Accept, Socket!Set
    <3>2. CASE p.open
      <4>1. Socket!Write("server", <<answer>>)
        BY <2>3, <3>2 DEF Socket!Accept
      <4>2. \E q \in reads : ws' = [ws EXCEPT !["server"] = q]
        BY <2>3, <3>2 DEF Socket!Accept, Socket!Set, Socket!Raised
      <4> HIDE DEF reads, refusal, answer
      <4> QED
        BY <4>1, <4>2
    <3> QED
      BY <3>1, <3>2
  <2> QED
    BY <2>1, <2>2, <2>3
<1>6. ASSUME NEW q \in next PROVE Farther(p, q)
  <2>1. Farther(p, idle) /\ idle \in Protocols /\ Farther(p, gone) /\ gone \in Protocols
    BY <1>3, FartherIs, CalmerIs DEF Calmer
  <2>2. CASE q \in reads
    <3>1. PICK r \in {p, gone} : \E phase : q \in Socket!Reads("server", r, phase)
      BY <2>2
    <3>2. Farther(r, q) /\ Farther(p, r)
      BY <1>3, <2>1, <3>1, FartherIs, ReadsFarther
    <3> QED
      BY <3>2, FartherThen
  <2> HIDE DEF idle, reads
  <2>3. CASE q \in {idle, [idle EXCEPT !.open = FALSE], Socket!Aborted(idle)}
    <3>1. Farther(idle, q)
      BY <2>1, <2>3, FartherIs
    <3> QED
      BY <2>1, <3>1, FartherThen
  <2> QED
    BY <2>2, <2>3
<1> HIDE DEF next, refusal, answer
<1>7. ASSUME NEW us \in frames
      PROVE  \E f : /\ us = <<f>>
                    /\ f.op = "pong" \/ ~HasClosing(sent["client"])
                    /\ f.op # "close"
  BY <1>2, <1>4
<1> HIDE DEF frames
<1>8. PICK q \in next : ws' = [ws EXCEPT !["server"] = q]
  BY <1>5
<1>9. Farther(ws["server"], q)
  BY <1>6
<1> HIDE DEF p
<1> QED
  BY <1>2, <1>3, <1>5, <1>7, <1>8, <1>9, FramesAreSent

\* The pieces that an end reads, and what ends its connection: nothing is sent.
LEMMA QuietSends ==
  ASSUME MessageInv, ClosedInv, NEW e \in Socket!Ends, NEW p \in Protocols, Farther(ws[e], p),
         \/ \E q : ws' = [ws EXCEPT ![e] = q] /\
              \/ \E phase : q \in Socket!Reads(e, p, phase)
              \/ q \in {p, Socket!Aborted(p), [p EXCEPT !.open = FALSE]},
         sent' = sent, Attached
  PROVE  ClosedInv'
<1>1. PICK q : /\ ws' = [ws EXCEPT ![e] = q]
               /\ \/ \E phase : q \in Socket!Reads(e, p, phase)
                  \/ q \in {p, Socket!Aborted(p), [p EXCEPT !.open = FALSE]}
  OBVIOUS
<1>2. Farther(p, q)
  BY <1>1, FartherIs, ReadsFarther
<1>3. Farther(ws[e], q)
  BY <1>2, FartherThen
<1> QED
  BY <1>1, <1>3, FramesAreSent

\* So is to stop reading, to have read a frame, and to keep it.
LEMMA IdleFarther ==
  ASSUME NEW p \in Protocols
  PROVE  /\ Socket!Idle(p) \in Protocols /\ Farther(p, Socket!Idle(p))
         /\ Next1(p) \in Protocols /\ Farther(p, Next1(p))
         /\ \A x \in Seq(Nat) : [Next1(p) EXCEPT !.fragments = x] \in Protocols
                                /\ Farther(p, [Next1(p) EXCEPT !.fragments = x])
<1> DEFINE q == Next1(p)
           idle == Socket!Idle(p)
<1>1. idle \in Protocols /\ Farther(p, idle)
  BY CalmerIs, FartherIs DEF Calmer
<1>2. q = [idle EXCEPT !.read = idle.read + 1]
  BY DEF Next1
<1>3. q \in Protocols
  BY NextIs
<1> HIDE DEF idle
<1>4. Farther(idle, q)
  BY ZenonT(40), <1>1, <1>2, FartherIs
<1>5. Farther(p, q)
  BY <1>1, <1>4, FartherThen
<1> HIDE DEF q
<1>6. ASSUME NEW x \in Seq(Nat)
      PROVE  [q EXCEPT !.fragments = x] \in Protocols /\ Farther(p, [q EXCEPT !.fragments = x])
  <2>1. [q EXCEPT !.fragments = x] \in Protocols
    BY <1>3 DEF Protocols
  <2>2. Farther(q, [q EXCEPT !.fragments = x])
    BY <1>3, FartherIs
  <2> QED
    BY <1>5, <2>1, <2>2, FartherThen
<1> QED
  BY <1>1, <1>3, <1>5, <1>6 DEF q, idle

\* What reads of the next piece, or the end of the reads, come to.
NextRead(e, p, phase) == Socket!Reads(e, p, phase) \cup Socket!Reads(e, Socket!Aborted(p), phase)
NoRead(p) == {Socket!Aborted(Socket!Idle(p)), [Socket!Idle(p) EXCEPT !.open = FALSE]}

\* The reads of a frame's pieces.
LEMMA PiecesSend ==
  ASSUME MessageInv, ClosedInv,
         \/ Socket!OnChallenge \/ Socket!OnFrameType
         \/ \E e \in Socket!Ends : \/ Socket!OnFrameStart(e) \/ Socket!OnFrameLength(e)
                                   \/ Socket!OnMaskingKey(e)
  PROVE  ClosedInv'
<1>1. sent' = sent /\ wsHandler' = wsHandler
  BY DEF Socket!OnChallenge, Socket!OnFrameType, Socket!OnFrameStart, Socket!OnFrameLength,
         Socket!OnMaskingKey
<1>2. Attached
  BY <1>1 DEF Attached
<1>3. PICK e \in Socket!Ends :
        \E q : ws' = [ws EXCEPT ![e] = q] /\
          \/ \E phase : q \in NextRead(e, ws[e], phase)
          \/ q \in NoRead(ws[e])
  <2>1. CASE Socket!OnChallenge \/ Socket!OnFrameType
    <3> HIDE DEF Socket!Reads
    <3>1. \E q : ws' = [ws EXCEPT !["server"] = q] /\
            \/ \E phase : q \in NextRead("server", ws["server"], phase)
            \/ q \in NoRead(ws["server"])
      BY <2>1 DEF Socket!OnChallenge, Socket!OnFrameType, Socket!Set, Socket!Raised,
                  NextRead, NoRead
    <3> QED
      BY <3>1, TheEnds
  <2>2. ASSUME NEW e \in Socket!Ends,
               Socket!OnFrameStart(e) \/ Socket!OnFrameLength(e) \/ Socket!OnMaskingKey(e)
        PROVE  \E q : ws' = [ws EXCEPT ![e] = q] /\
                 \/ \E phase : q \in NextRead(e, ws[e], phase)
                 \/ q \in NoRead(ws[e])
    BY <2>2 DEF Socket!OnFrameStart, Socket!OnFrameLength, Socket!OnMaskingKey, Socket!Set,
                NextRead, NoRead
  <2> QED
    BY <2>1, <2>2
<1>4. PICK q : ws' = [ws EXCEPT ![e] = q] /\
        \/ \E phase : q \in NextRead(e, ws[e], phase)
        \/ q \in NoRead(ws[e])
  BY <1>3
<1>5. ws[e] \in Protocols
  BY EndIs
<1>6. ASSUME NEW phase, q \in NextRead(e, ws[e], phase)
      PROVE  ClosedInv'
  <2>1. CASE q \in Socket!Reads(e, ws[e], phase)
    BY <1>1, <1>2, <1>4, <1>5, <2>1, FartherIs, QuietSends
  <2>2. CASE q \in Socket!Reads(e, Socket!Aborted(ws[e]), phase)
    <3>1. Socket!Aborted(ws[e]) \in Protocols /\ Farther(ws[e], Socket!Aborted(ws[e]))
      BY <1>5, CalmerIs, FartherIs DEF Calmer
    <3> QED
      BY <1>1, <1>2, <1>4, <2>2, <3>1, QuietSends
  <2> QED
    BY <1>6, <2>1, <2>2 DEF NextRead
<1>7. CASE q \in NoRead(ws[e])
  <2>1. Socket!Idle(ws[e]) \in Protocols /\ Farther(ws[e], Socket!Idle(ws[e]))
    BY <1>5, IdleFarther
  <2> QED
    BY <1>1, <1>2, <1>4, <1>7, <2>1, QuietSends DEF NoRead
<1> QED
  BY <1>4, <1>6, <1>7

\* The client's own steps send it nothing.
LEMMA ClientSends ==
  ASSUME MessageInv, ClosedInv,
         \/ Socket!OnHeaders \/ Socket!ConnectTimesOut \/ Socket!OnClose \/ Socket!ReadMessage
         \/ Socket!OtherWrites \/ Socket!OtherCloses
  PROVE  ClosedInv'
<1>1. wsHandler' = wsHandler
  BY DEF Socket!OnHeaders, Socket!ConnectTimesOut, Socket!OnClose, Socket!ReadMessage,
         Socket!OtherWrites, Socket!OtherCloses
<1>2. Attached
  BY <1>1 DEF Attached
<1>3. /\ ws = [x \in Socket!Ends |-> ws[x]] /\ sent = [x \in Socket!Ends |-> sent[x]]
      /\ ws["server"] \in Protocols
  BY EndIs, TheEnds DEF MessageInv
<1>4. sent'["client"] = sent["client"]
  <2>1. CASE sent' = sent
    BY <2>1
  <2>2. CASE Socket!OtherWrites
    BY <1>3, <2>2, TheEnds DEF Socket!OtherWrites, Socket!Write
  <2> QED
    BY <2>1, <2>2 DEF Socket!OnHeaders, Socket!ConnectTimesOut, Socket!OnClose, Socket!ReadMessage,
         Socket!OtherCloses
<1>5. ws'["server"] = ws["server"]
  <2>1. ws' = ws \/ \E q : ws' = [ws EXCEPT !["client"] = q]
    BY DEF Socket!OnHeaders, Socket!ConnectTimesOut, Socket!OnClose, Socket!ReadMessage,
         Socket!OtherWrites, Socket!OtherCloses, Socket!Set
  <2> QED
    BY <1>3, <2>1, TheEnds
<1> QED
  BY <1>2, <1>3, <1>4, <1>5, FartherIs, NothingSent

\* What is on its way arrives, and the streams' ends.
LEMMA EndsSend ==
  ASSUME MessageInv, ClosedInv,
         \/ Socket!OnConnectionClose
         \/ \E e \in Socket!Ends : Socket!Arrives(e) \/ Socket!ClosingTimesOut(e)
  PROVE  ClosedInv'
<1>1. CASE Socket!OnConnectionClose
  <2> DEFINE p == [ws["server"] EXCEPT !.told = TRUE]
  <2>1. sent' = sent /\ \E q \in {p, Socket!Aborted(p)} : ws' = [ws EXCEPT !["server"] = q]
    BY <1>1 DEF Socket!OnConnectionClose, Socket!Set
  <2>2. wsHandler' = wsHandler \/ ~wsHandler'.attached
    <3> DEFINE left == [wsHandler EXCEPT !.attached = FALSE, !.on_close = @ + 1]
    <3>1. wsHandler' \in {wsHandler, left}
      BY <1>1 DEF Socket!OnConnectionClose
    <3>2. ~left.attached
      BY HandlerIs
    <3> HIDE DEF left
    <3> QED
      BY <3>1, <3>2
  <2>3. Attached
    BY <2>2 DEF Attached
  <2>4. ws["server"] \in Protocols /\ "server" \in Socket!Ends
    BY EndIs, TheEnds
  <2>5. p \in Protocols /\ Farther(ws["server"], p)
    BY <2>4, FartherIs DEF Protocols
  <2> HIDE DEF p
  <2> QED
    BY <2>1, <2>3, <2>4, <2>5, QuietSends
<1>2. ASSUME NEW e \in Socket!Ends, Socket!Arrives(e) \/ Socket!ClosingTimesOut(e) PROVE ClosedInv'
  <2> DEFINE due == [ws[e] EXCEPT !.due = TRUE]
  <2>1. /\ sent' = sent /\ wsHandler' = wsHandler
        /\ ws' = [ws EXCEPT ![e] = due] \/ ws' = [ws EXCEPT ![e] = Socket!Aborted(ws[e])]
    BY <1>2 DEF Socket!Arrives, Socket!ClosingTimesOut, Socket!Set
  <2>2. Attached
    BY <2>1 DEF Attached
  <2>3. Farther(ws[e], due) /\ Farther(ws[e], Socket!Aborted(ws[e]))
    BY EndIs, FartherIs
  <2> HIDE DEF due
  <2> QED
    BY <2>1, <2>2, <2>3, FramesAreSent
<1> QED
  BY <1>1, <1>2

\* The whole frame was read: it is kept, or handled.
LEMMA FrameDataSends ==
  ASSUME MessageInv, ClosedInv, NEW e \in Socket!Ends, Socket!OnFrameData(e)
  PROVE  ClosedInv'
<1> DEFINE f == Socket!Current(e)
           p == Next1(ws[e])
           parts == Append(p.fragments, p.read)
           whole == [p EXCEPT !.fragments = <<>>]
           part == [p EXCEPT !.fragments = parts]
<1>1. wsHandler' = wsHandler /\ ws[e] \in Protocols
  BY EndIs DEF Socket!OnFrameData
<1>2. Attached
  BY <1>1 DEF Attached
<1>3. \/ sent' = sent /\ ws' = [ws EXCEPT ![e] = Socket!Aborted(p)]
      \/ Socket!HandleMessage(e, p, f.op, <<>>)
      \/ Socket!HandleMessage(e, whole, "text", parts)
      \/ sent' = sent /\ ws' = [ws EXCEPT ![e] = part]
      \/ sent' = sent /\ \E r \in Socket!Reads(e, part, "start") : ws' = [ws EXCEPT ![e] = r]
  BY DEF Socket!OnFrameData, Socket!Set, Next1
<1>4. p \in Protocols /\ Farther(ws[e], p)
  BY <1>1, IdleFarther
<1>5. <<>> \in Seq(Nat) /\ parts \in Seq(Nat)
  <2> HIDE DEF p
  <2> QED
    BY <1>4 DEF Protocols
<1>6. \A x \in Seq(Nat) : [p EXCEPT !.fragments = x] \in Protocols
                          /\ Farther(ws[e], [p EXCEPT !.fragments = x])
  BY <1>1, IdleFarther
<1> HIDE DEF p, parts
<1>7. whole \in Protocols /\ Farther(ws[e], whole) /\ part \in Protocols /\ Farther(ws[e], part)
  BY <1>5, <1>6
<1> HIDE DEF whole, part
<1>8. CASE \/ Socket!HandleMessage(e, p, f.op, <<>>)
           \/ Socket!HandleMessage(e, whole, "text", parts)
  BY <1>1, <1>4, <1>7, <1>8, HandleSends
<1>9. CASE sent' = sent /\ ws' = [ws EXCEPT ![e] = Socket!Aborted(p)]
  BY <1>2, <1>4, <1>9, QuietSends
<1>10. CASE \/ sent' = sent /\ ws' = [ws EXCEPT ![e] = part]
            \/ sent' = sent /\ \E r \in Socket!Reads(e, part, "start") : ws' = [ws EXCEPT ![e] = r]
  BY <1>2, <1>7, <1>10, QuietSends
<1> QED
  BY <1>3, <1>8, <1>9, <1>10

\* The same, of draft 76, where the answer to the closing frame is one.
LEMMA EndDelimiterSends ==
  ASSUME MessageInv, ClosedInv, Socket!OnEndDelimiter
  PROVE  ClosedInv'
<1> DEFINE p == Next1(ws["server"])
           x == [p EXCEPT !.client_terminated = TRUE]
           q1 == Socket!Closing(x)
           us == Socket!ClosingFrame(x)
           f == Socket!Frame("close", TRUE)
<1>1. wsHandler' = wsHandler /\ ws["server"] \in Protocols /\ "server" \in Socket!Ends
  BY EndIs, TheEnds DEF Socket!OnEndDelimiter
<1>2. Attached
  BY <1>1 DEF Attached
<1>3. \/ Socket!Write("server", us) /\ ws' = [ws EXCEPT !["server"] = q1]
      \/ sent' = sent /\ ws' = [ws EXCEPT !["server"] = p]
      \/ sent' = sent /\ ws' = [ws EXCEPT !["server"] = Socket!Aborted(p)]
      \/ sent' = sent /\ \E r \in Socket!Reads("server", p, "start") : ws' = [ws EXCEPT !["server"] = r]
  BY DEF Socket!OnEndDelimiter, Socket!Set, Socket!Raised, Next1
<1>4. p \in Protocols /\ Farther(ws["server"], p)
  BY <1>1, IdleFarther
<1> HIDE DEF p
<1>5. CASE Socket!Write("server", us) /\ ws' = [ws EXCEPT !["server"] = q1]
  <2>1. x \in Protocols /\ x.client_terminated /\ Farther(p, x)
    BY <1>4, FartherIs DEF Protocols
  <2> HIDE DEF x
  <2>2. q1.server_terminated /\ ~q1.open /\ Farther(x, q1)
    BY <2>1, ClosingIs, FartherIs
  <2>3. Farther(ws["server"], x) /\ Farther(ws["server"], q1)
    BY <1>4, <2>1, <2>2, FartherThen
  <2>4. us = <<>> \/ (~x.server_terminated /\ us = <<f>>)
    BY <2>1, ClosingIs
  <2>5. ~x.server_terminated => ~HasClosing(sent["client"])
    BY <2>3 DEF ClosedInv, Farther
  <2> HIDE DEF us, q1, f
  <2>6. \/ us = <<>>
        \/ \E y : /\ us = <<y>>
                  /\ y.op = "pong" \/ ~HasClosing(sent["client"])
                  /\ y.op = "close" => q1.server_terminated /\ (~wsHandler'.attached \/ ~q1.open)
    BY <2>2, <2>4, <2>5
  <2> QED
    BY <1>1, <1>2, <1>5, <2>3, <2>6, FramesAreSent
<1> HIDE DEF us, q1
<1>6. CASE \/ sent' = sent /\ ws' = [ws EXCEPT !["server"] = p]
           \/ sent' = sent /\ ws' = [ws EXCEPT !["server"] = Socket!Aborted(p)]
           \/ sent' = sent /\ \E r \in Socket!Reads("server", p, "start") : ws' = [ws EXCEPT !["server"] = r]
  BY <1>1, <1>2, <1>4, <1>6, QuietSends
<1> QED
  BY <1>3, <1>5, <1>6

\* What is lost on the way was not answered either.
LEMMA LostSends ==
  ASSUME MessageInv, ClosedInv, NEW e \in Socket!Ends, Socket!NoticeEnd(e)
  PROVE  ClosedInv'
<1> DEFINE q == [ws[e] EXCEPT !.open = FALSE]
           fs == sent["client"]
<1>1. wsHandler' = wsHandler /\ ws' = [ws EXCEPT ![e] = q]
  BY DEF Socket!NoticeEnd
<1>2. PICK n \in ws[e].read..Len(sent[e]) : sent' = [sent EXCEPT ![e] = SubSeq(sent[e], 1, n)]
  <2>1. PICK n \in (IF ws[e].due /\ ws[e].reading # "request" THEN ws[e].read + 1
                                                              ELSE ws[e].read)..Len(sent[e]) :
          sent' = [sent EXCEPT ![e] = SubSeq(sent[e], 1, n)]
    BY DEF Socket!NoticeEnd
  <2>2. ws[e].read \in Nat /\ Len(sent[e]) \in Nat
    BY EndIs
  <2>3. n \in ws[e].read..Len(sent[e])
    BY <2>1, <2>2
  <2> QED
    BY <2>1, <2>3
<1> DEFINE gs == SubSeq(fs, 1, n)
<1>3. /\ ws = [x \in Socket!Ends |-> ws[x]] /\ sent = [x \in Socket!Ends |-> sent[x]]
      /\ ws["server"] \in Protocols /\ ws[e] \in Protocols /\ fs \in Seq(Written)
      /\ ws[e].read \in Nat
  BY EndIs, TheEnds DEF MessageInv
<1>4. Farther(ws["server"], ws'["server"])
  <2>1. Farther(ws[e], q) /\ Farther(ws["server"], ws["server"])
    BY <1>3, FartherIs
  <2> HIDE DEF q
  <2> QED
    BY <1>1, <1>3, <2>1, TheEnds
<1>5. Attached
  BY <1>1 DEF Attached
<1>6. CASE e = "server"
  <2>1. sent'["client"] = sent["client"]
    BY <1>2, <1>3, <1>6, TheEnds
  <2> QED
    BY <1>4, <1>5, <2>1, NothingSent
<1>7. CASE e = "client"
  <2>1. sent'["client"] = gs
    BY <1>2, <1>3, <1>7, TheEnds
  <2>2. n \in Nat /\ n <= Len(fs)
    BY <1>3, <1>7
  <2>3. DOMAIN gs \subseteq DOMAIN fs /\ \A i \in DOMAIN gs : gs[i] = fs[i]
    BY <1>3, <2>2
  <2> HIDE DEF fs, gs
  <2>4. \A i, j \in DOMAIN gs : i < j /\ gs[i].op = "close" => gs[j].op = "pong"
    BY <2>3 DEF ClosedInv, ClosingFrameIsLast, Socket!ClosingFrameIsLast, fs
  <2>5. HasClosing(gs) => HasClosing(fs)
    BY <2>3 DEF HasClosing
  <2>6. ClosingFrameIsLast'
    BY <2>1, <2>4 DEF ClosingFrameIsLast, Socket!ClosingFrameIsLast
  <2> QED
    BY <1>1, <1>4, <2>1, <2>5, <2>6 DEF ClosedInv, Farther, fs
<1> QED
  BY <1>6, <1>7, TheEnds

\* A user closes: the server's is left without its connection.
LEMMA CloseSends ==
  ASSUME MessageInv, ClosedInv, NEW e \in Socket!Ends, Socket!Close(e)
  PROVE  ClosedInv'
<1> DEFINE p == ws[e]
           q == Socket!Closing(p)
           us == Socket!ClosingFrame(p)
           f == Socket!Frame("close", TRUE)
           left == [wsHandler EXCEPT !.attached = FALSE, !.closed = TRUE]
<1>1. /\ ws' = [ws EXCEPT ![e] = q] /\ Socket!Write(e, us)
      /\ wsHandler' = IF e = "server" THEN left ELSE wsHandler
  BY DEF Socket!Close, Socket!Set
<1>2. p \in Protocols /\ wsHandler \in Handlers
  BY EndIs, HandlerIs
<1>3. ~left.attached
  BY HandlerIs
<1> HIDE DEF left
<1>5. Attached /\ (e = "server" => ~wsHandler'.attached)
  BY <1>1, <1>3 DEF Attached
<1>6. us = <<>> \/ (~p.server_terminated /\ us = <<f>>)
  BY <1>2, ClosingIs
<1>7. q.server_terminated /\ Farther(p, q)
  BY <1>2, ClosingIs, FartherIs
<1>8. e = "server" /\ ~p.server_terminated => ~HasClosing(sent["client"])
  BY DEF ClosedInv
<1> HIDE DEF q, us, f
<1>9. e = "server" =>
        \/ us = <<>>
        \/ \E x : /\ us = <<x>>
                  /\ x.op = "pong" \/ ~HasClosing(sent["client"])
                  /\ x.op = "close" => q.server_terminated /\ (~wsHandler'.attached \/ ~q.open)
  BY <1>5, <1>6, <1>7, <1>8
<1> QED
  BY <1>1, <1>5, <1>7, <1>9, FramesAreSent

\* A user writes: the server's has a connection, and it is open.
LEMMA WriteMessageSends ==
  ASSUME MessageInv, ClosedInv, NEW e \in Socket!Ends, Socket!WriteMessage(e)
  PROVE  ClosedInv'
<1> DEFINE p == [ws[e] EXCEPT !.writes = ws[e].writes + 1]
           frames == {<<Socket!Frame(op, TRUE)>> : op \in {"text", "ping"}}
<1>1. /\ wsHandler' = wsHandler /\ (e = "server" => wsHandler.attached)
      /\ \/ /\ p.open /\ ws' = [ws EXCEPT ![e] = p]
            /\ \E us \in frames : Socket!Write(e, us)
         \/ /\ sent' = sent
            /\ ws' = [ws EXCEPT ![e] = p] \/ ws' = [ws EXCEPT ![e] = Socket!Aborted(p)]
  BY DEF Socket!WriteMessage, Socket!Set
<1>2. Attached
  BY <1>1 DEF Attached
<1>3. ws[e] \in Protocols /\ p \in Protocols /\ p.open = ws[e].open /\ Farther(ws[e], p)
  <2>1. ws[e] \in Protocols /\ ws[e].writes + 1 \in Nat
    BY EndIs DEF Protocols
  <2>2. p \in Protocols /\ p.open = ws[e].open
    BY <2>1 DEF Protocols
  <2> QED
    BY <2>1, <2>2, FartherIs
<1> HIDE DEF p
<1>4. Farther(ws[e], Socket!Aborted(p))
  BY <1>3, FartherIs, FartherThen
<1>5. CASE /\ sent' = sent
           /\ ws' = [ws EXCEPT ![e] = p] \/ ws' = [ws EXCEPT ![e] = Socket!Aborted(p)]
  BY <1>2, <1>3, <1>4, <1>5, FramesAreSent
<1>6. CASE /\ p.open /\ ws' = [ws EXCEPT ![e] = p]
           /\ \E us \in frames : Socket!Write(e, us)
  <2>1. e = "server" => ~HasClosing(sent["client"])
    BY <1>1, <1>3, <1>6 DEF ClosedInv
  <2>2. \A us \in frames : \E f : us = <<f>> /\ f.op # "close"
    BY DEF Socket!Frame
  <2>3. PICK us \in frames : Socket!Write(e, us)
    BY <1>6
  <2>4. PICK f : us = <<f>> /\ f.op # "close"
    BY <2>2, <2>3
  <2> HIDE DEF frames
  <2> QED
    BY <1>2, <1>3, <1>6, <2>1, <2>3, <2>4, FramesAreSent
<1> QED
  BY <1>1, <1>5, <1>6

\* Every step of a WebSocket keeps it.
LEMMA ClosedNext ==
  ASSUME MessageInv, ClosedInv, Socket!Next
  PROVE  ClosedInv'
<1>1. ASSUME NEW e \in Socket!Ends, Socket!Arrives(e) \/ Socket!Reading(e) PROVE ClosedInv'
  BY <1>1, EndsSend, PiecesSend, FrameDataSends DEF Socket!Reading
<1>2. ASSUME Socket!LoopStep PROVE ClosedInv'
  BY <1>1, <1>2, OpeningSends, PiecesSend, ClientSends, EndDelimiterSends, EndsSend
  DEF Socket!LoopStep
<1>3. ASSUME NEW e \in Socket!Ends,
             Socket!NoticeEnd(e) \/ Socket!ClosingTimesOut(e) \/ Socket!Close(e) \/ Socket!WriteMessage(e)
      PROVE  ClosedInv'
  BY <1>3, LostSends, EndsSend, CloseSends, WriteMessageSends
<1> QED
  BY <1>2, <1>3, OpeningSends, ClientSends DEF Socket!Next

\* Whoever closes first, and however long frames are on their way: the server of a
\* WebSocket writes nothing behind its closing frame but the answers to pings.
THEOREM ClosingFrameIsLastHolds == Spec => []ClosingFrameIsLast
<1>1. Init => MessageInv /\ ClosedInv
  <2> SUFFICES ASSUME Init PROVE MessageInv /\ ClosedInv
    OBVIOUS
  <2>1. sent["client"] = <<>>
    BY TheEnds DEF Init, Socket!Init
  <2>2. ClosedInv
    BY <2>1 DEF ClosedInv, ClosingFrameIsLast, Socket!ClosingFrameIsLast, HasClosing
  <2> QED
    BY <2>2, MessageInit
<1>2. MessageInv /\ ClosedInv /\ [Next]_vars => MessageInv' /\ ClosedInv'
  <2> SUFFICES ASSUME MessageInv, ClosedInv, [Next]_vars PROVE MessageInv' /\ ClosedInv'
    OBVIOUS
  <2>1. UNCHANGED socketVars \/ Socket!Next
    BY DEF Next, vars
  <2>2. CASE UNCHANGED socketVars
    <3>1. sent' = sent /\ ws' = ws /\ wsHandler' = wsHandler
      BY <2>2 DEF socketVars
    <3>2. ClosedInv'
      BY <3>1 DEF ClosedInv, ClosingFrameIsLast, Socket!ClosingFrameIsLast
    <3> QED
      BY <2>2, <3>2, MessageStays
  <2>3. CASE Socket!Next
    BY <2>3, MessageNext, ClosedNext
  <2> QED
    BY <2>1, <2>2, <2>3
<1>3. ClosedInv => ClosingFrameIsLast
  BY DEF ClosedInv
<1> QED
  BY <1>1, <1>2, <1>3, PTL DEF Spec
=============================================================================
