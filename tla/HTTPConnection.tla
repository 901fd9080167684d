--------------------------- MODULE HTTPConnection ---------------------------
(***************************************************************************)
(* The server's side of an HTTP connection: HTTPConnection of              *)
(* tornado/httpserver.py, on a stream of module IOStream, with the         *)
(* RequestHandler of tornado/web.py that answers each of its requests.     *)
(*                                                                         *)
(* The stream's callbacks are the connection's methods: "read" is          *)
(* _on_headers or _on_request_body, "write" _on_write_complete and "close" *)
(* _on_connection_close.  A method is an operator on k = [s, c], the       *)
(* stream and the connection; where it calls the application, user is      *)
(* TRUE until the application returns.  The application may also act from  *)
(* any other callback of the loop.                                         *)
(*                                                                         *)
(* A request is one byte of headers and n \in 0..1 bytes of body.          *)
(***************************************************************************)
EXTENDS Integers, Sequences

CONSTANTS MaxSent,     \* bytes the client sends at most
          MaxBuffer,   \* max_buffer_size
          MaxRoom,     \* bytes the kernel's send buffer takes at a time
          MaxWrite,    \* largest write
          MaxFlushes   \* calls of flush()

VARIABLES s, inCb, batch,   \* the stream and its callbacks, as in IOStream
          c,                \* the connection
          user,             \* inCb is in the application's code
          handler,          \* the RequestHandler of the current request
          flushes           \* how many there were

vars == <<s, inCb, batch, c, user, handler, flushes>>

Stream == INSTANCE IOStream WITH Delims <- 1..MaxSent, MaxOps <- 0, ops <- 0

Connection == [
  request  : BOOLEAN,   \* _request is not None
  finished : BOOLEAN,   \* _request_finished
  writeCb  : BOOLEAN,   \* _write_callback, _close_callback and
  closeCb  : BOOLEAN,   \* _header_callback are not None
  headerCb : BOOLEAN,
  keep     : BOOLEAN,   \* the request lets the connection be kept
  reader   : {"headers", "body", "none"}]   \* the stream's _read_callback

Handler == [
  state   : {"none", "handling", "told"},   \* told: on_connection_close ran
  flushed : BOOLEAN]                        \* _headers_written

NoHandler == [state |-> "none", flushed |-> FALSE]

TypeOK == /\ s \in Stream!Stream /\ inCb \in {"none", "read", "write", "close"}
          /\ batch \in Nat /\ c \in Connection /\ user \in BOOLEAN
          /\ handler \in Handler /\ flushes \in 0..MaxFlushes

-----------------------------------------------------------------------------
(* The methods of HTTPConnection.                                          *)

\* A bug: the next request is thought to be finished already.
ClearedButFinished(d) == [d EXCEPT !.request = FALSE, !.writeCb = FALSE,
                                   !.closeCb = FALSE]

\* _clear_request_state
Cleared(d) == [d EXCEPT !.request = FALSE, !.finished = FALSE,
                        !.writeCb = FALSE, !.closeCb = FALSE]

CloseConnection(k) ==
  [s |-> Stream!Close(k.s), c |-> [Cleared(k.c) EXCEPT !.headerCb = FALSE]]

\* A read of the stream that raises StreamClosedError.
Raises(x) == x.closed /\ ~Stream!Completes(x)

\* stream.read_until with the header callback; when the stream turns out to be
\* closed, so is the connection.
ReadHeaders(k) ==
  LET x == [Stream!Reading(k.s, "until") EXCEPT !.reading = k.c.headerCb]
      l == [s |-> Stream!TryInlineRead(x),
            c |-> [k.c EXCEPT !.reader = IF k.c.headerCb THEN "headers"
                                                         ELSE "none"]]
  IN  IF Raises(x) THEN CloseConnection(l) ELSE l

\* _finish_request
FinishRequest(k) ==
  LET l == [k EXCEPT !.c = Cleared(@)]
  IN  IF ~k.c.request \/ ~k.c.keep THEN CloseConnection(l) ELSE ReadHeaders(l)

\* A bug: what was written need not be out.
FinishAtOnce(k) == FinishRequest([k EXCEPT !.c.finished = TRUE])

Finish(k) ==
  LET l == [k EXCEPT !.c.finished = TRUE]
  IN  IF k.s.unsent > 0 THEN l ELSE FinishRequest(l)

\* HTTPConnection.write is silent on a closed stream.
Write(k, n, cb) ==
  IF k.s.closed THEN k
  ELSE [s |-> Stream!Written(k.s, n, TRUE), c |-> [k.c EXCEPT !.writeCb = cb]]

\* A bug: the connection waits for a write that was the last.
WriteCompletedNeverFinishes(k) == k

\* The end of _on_write_complete, when its callback has returned.
WriteCompleted(k) ==
  IF k.c.finished /\ k.s.unsent = 0 THEN FinishRequest(k) ELSE k

\* The end of _on_connection_close.
ConnectionClosed(k) ==
  [k EXCEPT !.c = [Cleared(@) EXCEPT !.headerCb = FALSE]]

\* The body of n bytes is read, after "100 Continue" if the client asked for it.
ReadBody(k, n, expect) ==
  LET x == IF expect /\ ~k.s.closed THEN Stream!Written(k.s, 1, FALSE) ELSE k.s
      y == [Stream!Reading(x, "bytes") EXCEPT !.want = n]
  IN  IF (expect /\ k.s.closed) \/ Raises(y)
      THEN [k EXCEPT !.s = Stream!Close(IF expect /\ k.s.closed THEN @ ELSE y)]
      ELSE [s |-> Stream!TryInlineRead(y), c |-> [k.c EXCEPT !.reader = "body"]]

-----------------------------------------------------------------------------
(* The loop runs the stream's callbacks.                                   *)

Becomes(k) == s' = k.s /\ c' = k.c

\* A bug: closing connections are not told of.
HandlerCreatedSilently(k) == Becomes(k)

\* Application.__call__ makes a RequestHandler, whose constructor asks to be
\* told when the connection closes.
HandlerCreated(k) == Becomes([k EXCEPT !.c.closeCb = TRUE])

StartHandler(k) ==
  /\ HandlerCreated(k) /\ user' = TRUE
  /\ handler' = [NoHandler EXCEPT !.state = "handling"]

NoUser == user' = FALSE /\ UNCHANGED handler

\* A callback that raises closes the stream.
CallbackFails(k) == Becomes([k EXCEPT !.s = Stream!Close(@)]) /\ NoUser

\* Malformed headers; a request without a Content-Length; one whose
\* Content-Length is not a number; or one with a body.  When reading the body
\* raises, so does the callback.
OnHeaders(k) ==
  \/ Becomes(CloseConnection(k)) /\ NoUser
  \/ \E keep \in BOOLEAN :
       LET l == [k EXCEPT !.c.request = TRUE, !.c.keep = keep]
       IN  \/ StartHandler(l)
           \/ CallbackFails(l)
           \/ \E n \in 0..1, expect \in BOOLEAN :
                Becomes(ReadBody(l, n, expect)) /\ NoUser

OnWriteComplete(k) ==
  /\ Becomes([k EXCEPT !.c.writeCb = FALSE])
  /\ user' = k.c.writeCb /\ UNCHANGED handler

OnConnectionClose(k) ==
  /\ Becomes([k EXCEPT !.c.closeCb = FALSE]) /\ user' = k.c.closeCb
  /\ handler' = IF k.c.closeCb THEN [handler EXCEPT !.state = "told"]
                               ELSE handler

\* (With no callback left, the stream calls None.)
OnRead(k) == CASE c.reader = "headers" -> OnHeaders(k)
               [] c.reader = "body"    -> StartHandler(k)
               [] c.reader = "none"    -> CallbackFails(k)

RunNext ==
  /\ Stream!Turn
  /\ LET k == [s |-> Stream!Popped(s), c |-> c]
         cb == Head(s.queue)
     IN  /\ inCb' = IF cb = "doClose" THEN inCb ELSE cb
         /\ \/ cb = "doClose" /\ Becomes(k) /\ NoUser
            \/ cb = "read"    /\ OnRead(k)
            \/ cb = "write"   /\ OnWriteComplete(k)
            \/ cb = "close"   /\ OnConnectionClose(k)
  /\ UNCHANGED flushes

CallbackReturns ==
  /\ inCb # "none" /\ inCb' = "none" /\ user' = FALSE
  /\ LET k == [s |-> s, c |-> c]
         l == CASE inCb = "write" -> WriteCompleted(k)
                [] inCb = "close" -> ConnectionClosed(k)
                [] OTHER          -> k
     IN  Becomes([l EXCEPT !.s = Stream!MaybeAddErrorListener(@)])
  /\ UNCHANGED <<batch, handler, flushes>>

\* An exception of the application that no handler turned into a response.
CallbackRaises ==
  /\ user /\ inCb' = "none" /\ user' = FALSE
  /\ s' = Stream!Close(s)
  /\ UNCHANGED <<batch, c, handler, flushes>>

Dispatch == Stream!Dispatch /\ UNCHANGED <<c, user, handler, flushes>>

-----------------------------------------------------------------------------
(* RequestHandler, called by the application.                              *)

Acts == handler.state # "none" /\ (user \/ inCb = "none")
        /\ UNCHANGED <<inCb, batch, user>>

Flush(n, cb) ==
  /\ Acts /\ flushes < MaxFlushes /\ flushes' = flushes + 1
  /\ n > 0 \/ handler.flushed
  /\ handler' = [handler EXCEPT !.flushed = TRUE]
  /\ Becomes(Write([s |-> s, c |-> c], n, cb))

\* finish(), also of send_error and of a method that returned: no one has to be
\* told any more, what is left is flushed (to a HEAD request, only the headers
\* are), and the request is finished.
FinishHandler(n) ==
  /\ Acts /\ (n > 0 \/ handler.flushed)
  /\ LET k == [s |-> s, c |-> [c EXCEPT !.closeCb = FALSE]]
     IN  \/ Becomes(Finish(Write(k, n, FALSE)))
         \/ handler.flushed /\ Becomes(Finish(k))
  /\ handler' = NoHandler /\ UNCHANGED flushes

-----------------------------------------------------------------------------
\* HTTPServer.handle_stream: the stream was just accepted.
Init ==
  /\ LET k == ReadHeaders([
                s |-> [Stream!Fresh(TRUE) EXCEPT !.closeCb = TRUE],
                c |-> [request |-> FALSE, finished |-> FALSE, writeCb |-> FALSE,
                       closeCb |-> FALSE, headerCb |-> TRUE, keep |-> FALSE,
                       reader |-> "none"]])
     IN  s = k.s /\ c = k.c
  /\ inCb = "none" /\ batch = 0 /\ user = FALSE /\ handler = NoHandler
  /\ flushes = 0

Client == /\ Stream!Arrive \/ Stream!Fin \/ Stream!Break \/ Stream!Drain
          /\ UNCHANGED <<c, user, handler, flushes>>

LoopStep == Dispatch \/ RunNext \/ CallbackReturns \/ CallbackRaises

Next == \/ LoopStep \/ Client
        \/ \E n \in 0..MaxWrite, cb \in BOOLEAN : Flush(n, cb)
        \/ \E n \in 0..MaxWrite : FinishHandler(n)

Spec == Init /\ [][Next]_vars

\* The loop goes on, and so does a client that reads.  The application need not
\* finish.
Fairness == /\ []<>~Stream!LoopReady \/ []<><<LoopStep>>_vars
            /\ WF_vars(Stream!Drain /\ UNCHANGED <<c, user, handler, flushes>>)

FairSpec == Spec /\ Fairness

-----------------------------------------------------------------------------
(* Properties.                                                             *)

\* While a request is being handled the connection does not read the next one:
\* HTTP/1.1 pipelining is answered in order, by one handler at a time.
NotReadingWhileHandling == handler.state = "handling" => ~s.reading

\* The headers of a request are taken up only when every byte of the response
\* before it has left, or the stream is closed.
ResponsesAreOut == [][~c.request /\ c'.request => s.unsent = 0 \/ s.closed]_vars

\* An idle connection has not been forgotten: once the response is out, the
\* next request is being read, or the stream was closed.
NeverForgotten ==
  /\ handler.state = "none" /\ inCb = "none" /\ s.queue = <<>> /\ s.unsent = 0
  => s.closed \/ s.reading

\* A request that has arrived is given to a handler, once the one before it has
\* been answered, or the stream closes.
RequestsAreServed ==
  handler.state = "none" /\ s.taken < s.sent ~>
    handler.state # "none" \/ s.closed \/ s.taken = s.sent

\* "Called in async handlers if the client closed the connection": a handler
\* that is at work when the connection's close is reported hears of it.
CloseIsReported ==
  /\ handler.state = "handling" /\ s.closed
  /\ s.closeCb \/ "close" \in {s.queue[i] : i \in DOMAIN s.queue}
  ~> handler.state # "handling"

\* flush()'s callback "will be run when all flushed data has been written to
\* the socket".
FlushCallbackMeansWritten ==
  [][inCb = "none" /\ inCb' = "write" /\ user' => s'.unsent = 0]_vars
=============================================================================
