--------------------------- MODULE RequestHandler ---------------------------
(***************************************************************************)
(* One request in the hands of a tornado.web.RequestHandler: _execute,     *)
(* prepare(), the method, the futures either may return, callbacks that    *)
(* come back later under @asynchronous, the response (write, flush,        *)
(* finish, redirect, send_error) with its two output transforms, and the   *)
(* connection that may be lost at any moment.                              *)
(*                                                                         *)
(* Only GET requests come from every client and with every If-None-Match.  *)
(* The application's code is any sequence of at most MaxOps calls on the   *)
(* handler, which may fail between any two of them.  A chunk is one unit   *)
(* long; compressing n units makes n + 1 of them.                          *)
(***************************************************************************)
EXTENDS Naturals, Sequences, FiniteSets, SequencesExt

CONSTANTS Errors,     \* the status codes of the errors the application raises
          MaxOps      \* bound: calls the application makes on the handler

VARIABLES
  request,    \* what was asked: method, client, etags (If-None-Match), xsrf
  app,        \* the handler's class: @asynchronous, a write_error that fails
  response,   \* the handler's side of the response, and what it sent
  where,      \* the code that runs: "new", "idle" (the loop) or a phase
  inExecute,  \* _execute is still on the stack
  autoFinish, \* _auto_finish
  awaiting,   \* whose future _when_complete waits for: "prepare", "method"
  outcome,    \* that future: "pending", "none", "value" or an error's code
  callbacks,  \* callbacks the application has on the loop (at most one)
  closed,     \* the connection is gone
  told,       \* on_connection_close has been called
  failed,     \* an error escaped the application's code
  ops         \* calls made (bound)

vars == <<request, app, response, where, inExecute, autoFinish, awaiting,
          outcome, callbacks, closed, told, failed, ops>>

Methods == {"GET", "HEAD", "POST", "TRACE"}
Clients == {"http10", "http11", "gzip"}
Phases == {"prepare", "method", "coroutine", "callback", "closing"}

-----------------------------------------------------------------------------
(* The response *)

\* Raising: the call fails with an exception of its own (status 500).
Raise(r) == [r EXCEPT !.raised = TRUE]

\* RequestHandler.clear
Clear(r) == [r EXCEPT !.buffer = 0, !.status = "200", !.length = {}, !.typed = TRUE]

\* RequestHandler.write
Write(r, n) == IF r.finished THEN Raise(r) ELSE [r EXCEPT !.buffer = @ + n]

\* GZipContentEncoding.transform_first_chunk: whether to compress at all.
Compressing(r, finishing) ==
  /\ r.gzipping
  /\ ~r.headersWritten => /\ r.typed
                          /\ IF finishing THEN r.buffer > 0 ELSE r.length = {}

\* A bug: a response that declares its length is sent in chunks all the same.
ChunkingAnyway(r) == r.chunking /\ (~r.headersWritten => r.status # "304")

\* ChunkedTransferEncoding.transform_first_chunk: whether to send in chunks.
\* A 304 leaves the transform as it was.
Chunking(r) ==
  /\ r.chunking
  /\ ~r.headersWritten => r.status # "304" /\ r.length = {}

Item(kind, n) == [kind |-> kind, n |-> n]

\* ChunkedTransferEncoding.transform_chunk
Framed(chunked, n, finishing) ==
  (IF n > 0 THEN <<Item(IF chunked THEN "chunk" ELSE "raw", n)>> ELSE <<>>)
    \o (IF chunked /\ finishing THEN <<Item("last", 0)>> ELSE <<>>)

\* RequestHandler.flush, GZipContentEncoding and ChunkedTransferEncoding.
\* Compressing after the end finds its file closed.
Flush(r, finishing) ==
  LET gzip    == Compressing(r, finishing)
      size    == IF gzip THEN r.buffer + 1 ELSE r.buffer
      length  == IF gzip /\ r.length # {} THEN {size} ELSE r.length
      chunked == Chunking([r EXCEPT !.length = length])
      head    == [kind |-> "head", n |-> 0, status |-> r.status, length |-> length,
                  chunked |-> chunked, complete |-> finishing]
  IN IF r.finished /\ r.gzipping THEN Raise(r)
     ELSE [r EXCEPT !.buffer = 0, !.length = length, !.gzipping = gzip,
                    !.headersWritten = TRUE,
                    !.chunking = IF ~r.headersWritten /\ r.status = "304" THEN @ ELSE chunked,
                    !.wire = @ \o (IF r.headersWritten THEN <<>> ELSE <<head>>)
                               \o (IF request.method = "HEAD" THEN <<>>
                                   ELSE Framed(chunked, size, finishing))]

\* The part of finish that completes the headers: the Etag and its check, the
\* headers a 304 must not have, the length of everything written.
Conclude(r) ==
  LET hit == /\ r.status = "200" /\ request.method \in {"GET", "HEAD"}
             /\ r.buffer \in request.etags
      s   == IF hit THEN [r EXCEPT !.buffer = 0, !.status = "304"] ELSE r
  IN CASE s.status = "304" /\ s.buffer > 0 -> Raise(s)
       [] s.status = "304" /\ s.buffer = 0 -> [s EXCEPT !.length = {}, !.typed = FALSE]
       [] OTHER -> [s EXCEPT !.length = {s.buffer}]

\* A bug: the connection still tells a finished handler that it was lost.
FinishStillListening(r, n) ==
  LET w == Write(r, n)
      c == IF w.headersWritten THEN w ELSE Conclude(w)
  IN IF r.finished \/ c.raised THEN Raise(c)
     ELSE [Flush(c, TRUE) EXCEPT !.finished = TRUE]

\* RequestHandler.finish
Finish(r, n) ==
  LET w == Write(r, n)
      c == IF w.headersWritten THEN w ELSE Conclude(w)
  IN IF r.finished \/ c.raised THEN Raise(c)
     ELSE [Flush([c EXCEPT !.listening = FALSE], TRUE) EXCEPT !.finished = TRUE]

\* RequestHandler.redirect
Redirect(r) == IF r.headersWritten THEN Raise(r)
               ELSE Finish([r EXCEPT !.status = "302"], 0)

\* A bug: the response that cannot become an error page is left as it is.
SendErrorGivesUp(r, code) ==
  LET c    == [Clear(r) EXCEPT !.status = code]
      page == IF app.pageFails THEN Write(c, 1) ELSE [Finish(c, 1) EXCEPT !.raised = FALSE]
  IN IF r.headersWritten THEN r
     ELSE IF page.finished THEN page ELSE Finish(page, 0)

\* RequestHandler.send_error and write_error: after the headers the response
\* is only ended; before them an error page replaces what was written.
SendError(r, code) ==
  LET c    == [Clear(r) EXCEPT !.status = code]
      page == IF app.pageFails THEN Write(c, 1) ELSE [Finish(c, 1) EXCEPT !.raised = FALSE]
  IN IF r.headersWritten THEN IF r.finished THEN r ELSE Finish(r, 0)
     ELSE IF page.finished THEN page ELSE Finish(page, 0)

\* RequestHandler._handle_request_exception
HandleException(r, code) == IF r.finished THEN r ELSE SendError(r, code)

Quiet(r) == [r EXCEPT !.raised = FALSE]

-----------------------------------------------------------------------------
Init ==
  /\ request \in { q \in [method : Methods, client : Clients,
                          etags : {{}, {0}, {1}}, xsrf : BOOLEAN] :
                     /\ q.etags # {} => q.method = "GET"
                     /\ ~q.xsrf => q.method = "POST"
                     /\ q.client # "http11" => q.method \in {"GET", "HEAD"} }
  /\ app \in [asynchronous : BOOLEAN, pageFails : BOOLEAN]
  /\ response = [headersWritten |-> FALSE, finished |-> FALSE, buffer |-> 0,
                 status |-> "200", length |-> {}, typed |-> TRUE,
                 gzipping |-> request.client = "gzip",
                 chunking |-> request.client # "http10",
                 wire |-> <<>>, listening |-> TRUE, raised |-> FALSE]
  /\ where = "new" /\ inExecute = TRUE /\ autoFinish = TRUE
  /\ awaiting = "nothing" /\ outcome = "pending" /\ callbacks = 0
  /\ closed = FALSE /\ told = FALSE /\ failed = FALSE /\ ops = 0

\* The error e leaves the code that runs; r is the response it left behind.
\* Who catches it: _execute, _when_complete or the context of @asynchronous;
\* a callback without that context is logged by the loop.  An error in the
\* handling of an error is caught again only on _execute's stack: for the
\* method by _execute itself, and from prepare() it closes the connection.
Escapes(r, e) ==
  LET h == HandleException(Quiet(r), e)
      caught == where # "closing" /\ (where = "callback" => app.asynchronous)
  IN /\ where' = "idle" /\ inExecute' = FALSE
     /\ failed' = (failed \/ caught)
     /\ IF where = "coroutine"
          THEN outcome' = e /\ response' = Quiet(r) /\ UNCHANGED closed
          ELSE /\ response' = IF ~caught THEN Quiet(r)
                              ELSE IF h.raised /\ where = "method" /\ (inExecute \/ app.asynchronous)
                                THEN Quiet(HandleException(Quiet(h), "500"))
                              ELSE Quiet(h)
               /\ closed' = (closed \/ (caught /\ h.raised /\ inExecute /\ where = "prepare"))
               /\ UNCHANGED outcome
     /\ UNCHANGED <<request, app, autoFinish, awaiting, callbacks, told, ops>>

\* The framework's own call leaves r: an exception of it is handled like the
\* application's.
Handled(r) == Quiet(IF r.raised THEN HandleException(Quiet(r), "500") ELSE r)

OnLoop(r) ==
  /\ response' = Handled(r)
  /\ failed' = (failed \/ r.raised)

\* check_xsrf_cookie
TokenIsWrong == request.method = "POST" /\ ~request.xsrf

\* _execute: methods nobody supports and forms without their token fail here.
Execute ==
  /\ where = "new"
  /\ IF request.method = "TRACE" \/ TokenIsWrong
       THEN /\ response' = HandleException(response,
                             IF request.method = "TRACE" THEN "405" ELSE "403")
            /\ where' = "idle" /\ inExecute' = FALSE
       ELSE where' = "prepare" /\ UNCHANGED <<response, inExecute>>
  /\ UNCHANGED <<request, app, autoFinish, awaiting, outcome, callbacks,
                 closed, told, failed, ops>>

-----------------------------------------------------------------------------
(* The application's code *)

Running == where \in Phases

\* One call on the handler: it returns, or the code fails with it.
Call(r) ==
  /\ Running /\ ops < MaxOps
  /\ IF r.raised THEN Escapes(r, "500")
     ELSE /\ response' = r /\ ops' = ops + 1
          /\ UNCHANGED <<request, app, where, inExecute, autoFinish, awaiting,
                         outcome, callbacks, closed, told, failed>>

AppWrite == Call(Write(response, 1))
AppFlush == Call(Flush(response, FALSE))
AppFinish == \E n \in {0, 1} : Call(Finish(response, n))
AppRedirect == Call(Redirect(response))
AppSendError == \E e \in Errors : Call(SendError(response, e))
AppNotModified == Call([response EXCEPT !.status = "304"])

\* The application starts something that will call back.
AppSchedule ==
  /\ Running /\ callbacks = 0 /\ ops < MaxOps
  /\ callbacks' = 1 /\ ops' = ops + 1
  /\ UNCHANGED <<request, app, response, where, inExecute, autoFinish, awaiting,
                 outcome, closed, told, failed>>

AppFails == Running /\ \E e \in Errors : Escapes(response, e)

Reading == request.method \in {"GET", "HEAD"}

\* authenticated, without a user: to the login page, or 403.
Authenticated(r) == IF Reading THEN Redirect(r) ELSE HandleException(r, "403")

\* removeslash and addslash, with a path that has the other form.
Slash(r) == IF Reading THEN Redirect(r) ELSE HandleException(r, "404")

\* prepare() is over: _execute_method, unless the response is finished.  The
\* decorators of methods may turn the request away before the method's code.
EnterMethod ==
  IF response.finished
    THEN /\ where' = "idle" /\ inExecute' = FALSE
         /\ UNCHANGED <<response, autoFinish, failed>>
    ELSE \/ /\ where' = "method"
            /\ autoFinish' = ~app.asynchronous
            /\ UNCHANGED <<response, inExecute, failed>>
         \/ /\ where' = "idle" /\ inExecute' = FALSE
            /\ autoFinish' = ~app.asynchronous
            /\ \E r \in {Authenticated(response), Slash(response)} : OnLoop(r)

PrepareReturns ==
  /\ where = "prepare"
  /\ EnterMethod
  /\ UNCHANGED <<request, app, awaiting, outcome, callbacks, closed, told, ops>>

\* _execute_finish
ExecuteFinish == autoFinish /\ ~response.finished

MethodReturns ==
  /\ where = "method"
  /\ where' = "idle" /\ inExecute' = FALSE
  /\ IF ExecuteFinish THEN OnLoop(Finish(response, 0)) ELSE UNCHANGED <<response, failed>>
  /\ UNCHANGED <<request, app, autoFinish, awaiting, outcome, callbacks, closed, told, ops>>

\* prepare() or the method returns a future that is not done yet.
ReturnsFuture ==
  /\ where \in {"prepare", "method"}
  /\ awaiting' = where /\ outcome' = "pending"
  /\ where' = "idle" /\ inExecute' = FALSE
  /\ UNCHANGED <<request, app, response, autoFinish, callbacks, closed, told, failed, ops>>

\* ... or something that is neither None nor a future.
ReturnsValue == where \in {"prepare", "method"} /\ Escapes(response, "500")

\* The coroutine behind the future runs on, and goes back to waiting or ends.
CoroutineRuns ==
  /\ where = "idle" /\ awaiting # "nothing" /\ outcome = "pending"
  /\ where' = "coroutine"
  /\ UNCHANGED <<request, app, response, inExecute, autoFinish, awaiting, outcome,
                 callbacks, closed, told, failed, ops>>

CoroutineReturns ==
  /\ where = "coroutine"
  /\ where' = "idle" /\ outcome' \in {"none", "value"}
  /\ UNCHANGED <<request, app, response, inExecute, autoFinish, awaiting, callbacks,
                 closed, told, failed, ops>>

\* asynchronous' future_complete, with the result o of the method's future: an
\* error, and an exception of finish(), goes to the context of @asynchronous.
FutureComplete(r, o) ==
  CASE o \in Errors \union {"500"} -> Quiet(HandleException(r, o))
    [] r.finished -> r
    [] OTHER -> Finish(r, 0)

\* The future is done: _when_complete again, on the loop.  Under @asynchronous
\* future_complete comes first, in the callback just before.
FutureDone ==
  LET c == IF app.asynchronous /\ awaiting = "method"
             THEN FutureComplete(response, outcome) ELSE response
      s == HandleException(Handled(c), IF outcome = "value" THEN "500" ELSE outcome)
  IN /\ where = "idle" /\ awaiting # "nothing" /\ outcome # "pending"
     /\ awaiting' = "nothing"
     /\ CASE outcome = "none" /\ awaiting = "prepare" ->
               EnterMethod
          [] outcome = "none" /\ awaiting = "method" ->
               /\ OnLoop(IF ExecuteFinish THEN Finish(response, 0) ELSE c)
               /\ UNCHANGED <<where, inExecute, autoFinish>>
          [] OTHER ->
               /\ response' = Quiet(s) /\ failed' = (failed \/ c.raised)
               /\ UNCHANGED <<where, inExecute, autoFinish>>
     /\ outcome' = "pending"
     /\ UNCHANGED <<request, app, callbacks, closed, told, ops>>

\* A callback of the application runs, and returns.
CallbackRuns ==
  /\ where = "idle" /\ callbacks = 1
  /\ callbacks' = 0 /\ where' = "callback"
  /\ UNCHANGED <<request, app, response, inExecute, autoFinish, awaiting, outcome,
                 closed, told, failed, ops>>

CallbackReturns ==
  /\ where \in {"callback", "closing"} /\ where' = "idle"
  /\ UNCHANGED <<request, app, response, inExecute, autoFinish, awaiting, outcome,
                 callbacks, closed, told, failed, ops>>

\* The connection is lost: the handler that is still set as its close
\* callback hears of it in on_connection_close.
ConnectionCloses ==
  /\ where = "idle" /\ ~closed
  /\ closed' = TRUE
  /\ IF response.listening
       THEN where' = "closing" /\ told' = TRUE
       ELSE UNCHANGED <<where, told>>
  /\ UNCHANGED <<request, app, response, inExecute, autoFinish, awaiting, outcome,
                 callbacks, failed, ops>>

Returns == \/ PrepareReturns \/ MethodReturns \/ ReturnsFuture \/ ReturnsValue
           \/ CoroutineReturns \/ CallbackReturns

Next ==
  \/ Execute
  \/ AppWrite \/ AppFlush \/ AppFinish \/ AppRedirect \/ AppSendError
  \/ AppNotModified \/ AppSchedule \/ AppFails
  \/ Returns
  \/ CoroutineRuns \/ FutureDone \/ CallbackRuns
  \/ ConnectionCloses

\* The loop runs what is ready, the application's code comes to an end each
\* time it runs and its futures resolve: again and again nothing is left to do.
\* (A request takes finitely many steps, so this is the weak fairness of them.)
Idle == where = "idle" /\ awaiting = "nothing" /\ callbacks = 0
Fairness == []<>Idle

Spec == Init /\ [][Next]_vars /\ Fairness

-----------------------------------------------------------------------------
(* Properties *)

Sum(items) == FoldLeft(LAMBDA n, i : n + i.n, 0, items)

\* What a client can make of the bytes sent (web.py:725-818 and the transforms,
\* web.py:2404-2480): one head; a declared length is the length of the body;
\* a body in chunks has its last chunk exactly once, at the end, when the
\* response is finished; HEAD and a 304 that finish() sends have no body.
ResponsesAreFramed ==
  LET wire == response.wire
      body == IF wire = <<>> THEN <<>> ELSE Tail(wire)
      head == Head(wire)
  IN /\ response.finished => wire # <<>>
     /\ wire # <<>> =>
          /\ head.kind = "head" /\ \A i \in DOMAIN body : body[i].kind # "head"
          /\ (request.method = "HEAD" \/ (head.status = "304" /\ head.complete)) => body = <<>>
          /\ request.method # "HEAD" /\ head.status # "304" =>
               IF head.chunked
                 THEN /\ head.length = {} /\ (response.finished => body # <<>>)
                      /\ \A i \in DOMAIN body :
                           body[i].kind = IF response.finished /\ i = Len(body)
                                            THEN "last" ELSE "chunk"
                 ELSE /\ \A i \in DOMAIN body : body[i].kind = "raw"
                      /\ \A n \in head.length : response.finished => Sum(body) = n
                      /\ head.length = {} => request.client = "http10"

\* After finish() (web.py:765-818) the handler is out of the connection: it
\* sends no more bytes and is not told of the connection's end, whatever
\* callbacks and futures of its own still come back.
EndedStaysEnded ==
  [][response.finished => response'.wire = response.wire /\ told' = told]_vars

\* Every request is answered (web.py:1171-1235): without @asynchronous by the
\* framework when the method and its future are done; with it, too, once
\* an error escapes the handler's code (web.py:1160-1169, 1262-1276).
RequestsEnd ==
  (where = "new" /\ ~app.asynchronous) \/ failed ~> response.finished \/ closed

\* "An exception that will turn into an HTTP error response" (HTTPError,
\* web.py:1846): an error that escapes the handler's code ends the request.
ErrorsTurnIntoResponses == failed ~> response.finished \/ closed
=============================================================================
