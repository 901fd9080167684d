# Verification of the tornado 3.1.1 core

TLA+ models of the asynchronous core of tornado (`src/tornado/`), model-checked
with TLC and, where noted, proved with TLAPS for every value of the constants.
All definitions are translated from the source; `PROJECT.json` maps each one to
the lines it stands for, lists the hazards of the code line by line with the
properties that cover them, and names a mutation of the code that each checked
property detects.

    tlc -workers 2 -config IOLoopThreads.cfg IOLoop      # model-check one run
    tlc -workers 2 -config WebSocket.cfg WebSocket       # one part of a larger run
    tlapm IOLoopProofs.tla                               # check one module's proofs

## The system and its parts

Tornado is a single-threaded event loop with everything else written as
callbacks on it. What makes it hard is not parallelism but *re-entrance and
order*: a method called from a callback may close, finish, restart or release
the object whose method is further up the stack, and what was asked for before
arrives later, next to a timeout, a close or another request. Threads and
signals come in at one place only, `IOLoop.add_callback`.

| part (source) | state | operations | interacts with | hard behaviour | what makes it correct |
|---|---|---|---|---|---|
| **IOLoop**, `ioloop.py`, `platform/{posix,epoll,select,kqueue}.py` | `_callbacks`, `_timeouts` (heap with cancelled entries), `_events`, `_handlers`, waker pipe, `_callback_lock`, `_running`, `_stopped`, `_closing` | start, stop, close, add_callback(_from_signal), add/remove_timeout, add/update/remove_handler | everything runs on it; other threads and signal handlers call add_callback | callers outside the loop's thread against the choice of the poll timeout; handlers that remove each other; cancelled timeouts left in the heap | no lost wakeup; callbacks FIFO, exactly once; removed timeouts and handlers never run; no starvation |
| **PeriodicCallback, run_sync**, `ioloop.py` | `_running`, `_timeout` | start, stop | timeouts of the loop | stop and start inside its own callback | one chain of timeouts |
| **IOStream**, `iostream.py` | read and write buffers, one pending read, write/close/connect callbacks, `_pending_callbacks`, `_state` (registered events) | connect, read_*, write, set_close_callback, close; handle events | add_callback, update_handler; its user is called back and calls it again | the end of the connection against data already buffered, callbacks already queued and reads in progress | the close callback is last and runs; reads are answered when their bytes arrived; an open stream is watched |
| **Simple HTTP client**, `simple_httpclient.py` | `queue`, `active`; per connection final/release callback, `_timeout`, stream | fetch_impl, _process_queue, every `_on_*` of a connection | Resolver, IOStream, timeouts; a redirect re-enters fetch | timeout, close and response together; redirects hand callback and slot on | slots neither leak nor are freed twice; each fetch answered exactly once |
| **HTTP client interface**, `httpclient.py` | one client per loop, `_closed` | fetch, close | the two client implementations | | as above |
| **curl HTTP client**, `curl_httpclient.py` | free list of handles, queue | as above | libcurl's socket and timer callbacks | libcurl calls back from inside its own calls | as above |
| **Coroutines**, `gen.py` | Runner: pending callbacks, results, yield point, running, finished | yield of YieldPoint/Future, Callback/Wait, Multi | futures, stack contexts, add_callback | results that arrive while the generator runs or starts a yield point | each result resumes its yield once; leaked callbacks noticed |
| **Futures**, `concurrent.py` | done, result, callbacks | set_result, add_done_callback, chain_future, return_future | coroutines, executors | done callbacks run inside set_result | callbacks exactly once |
| **Stack contexts**, `stack_context.py` | thread-local chain of contexts | wrap, enter, exit, deactivate | every callback that is registered | a captured chain with contexts deactivated since | what ran is restored, also on exceptions |
| **HTTP server**, `httpserver.py` | per connection: current request, `_request_finished`, write/close callbacks | header, body, write, finish, write complete, close | IOStream, the application | finish against the last write; close during a request; keep-alive | one `_finish_request` per request, after its bytes |
| **TCP server, sockets**, `tcpserver.py`, `netutil.py` | listening sockets, resolver | listen, bind, add_sockets, accept handler, resolve | IOLoop handlers, processes | | |
| **Processes**, `process.py` | children by task id, restart count; Subprocess waiting table | fork_processes, set_exit_callback, SIGCHLD handler | signals, IOLoop | exits before registration, one signal for several children | task ids unique; each exit reported once |
| **WebSocket**, `websocket.py` | fragment assembly, `client_terminated`, `server_terminated`, close timeout | frames, write, close | IOStream, timeouts | control frames between fragments; both sides closing | messages intact; the stream is closed in the end |
| **Web framework**, `web.py` | handler: headers written, finished, auto_finish, transforms; groups of handlers | execute, prepare, flush, finish, send_error, asynchronous; add_handlers, routing | HTTP server, futures | errors at any point, before or after a flush or finish, and the connection lost meanwhile | one response per request, whose end the client can tell; the most precise handler |
| **Data handling**: rest of `httputil.py`, `escape.py`, `options.py`, `log.py`, `locale.py`, `wsgi.py`, `util.py` | values | parsing and formatting | | sequential | |
| **Login mix-ins**, `auth.py` | the browser's request-token cookie, a future per login | authorize_redirect, get_authenticated_user, the chains of fetches | HTTP client, RequestHandler's async_callback | logins of two tabs at once; fetches that fail in callbacks nobody guards | the user who logged in, or an error; no login hangs |
| **Templates**, `template.py` | the parser's place; named blocks; the loader's cache | parse, generate, load, reset | | place passed through recursion; blocks of several files in one output | misplaced tags are errors; blocks and autoescape as their files say |
| **Files**, `web.py` StaticFileHandler, `httputil.py` ranges | hash cache, stat result | get, with ranges and conditions | the file system | the file changes between any two looks at it | the range that was asked for; "not modified" is true |
| **Autoreload, testing**, `autoreload.py`, `testing.py` | modification times; wait/stop flags | check, reload; wait, stop | PeriodicCallback, timeouts | changes during loading or a check | no change is missed; wait() returns |
| **Twisted bridge**, `platform/twisted.py` | | | a Twisted reactor, outside the repository | | |

Tests, demos, the website and vendored code are not part of the inventory.

## How the modules correspond to the code

### `IOLoop` (and `CallbackQueue`)

The loop's thread, any number of other `Threads` in `add_callback`, and a Python
signal handler `Sig` on the thread `Main` (`Nobody`: no signals).

* `pc` is the place of the loop's thread in `PollIOLoop.start`: taking the lock
  (`"lock"`), swapping `_callbacks` (`"swap"`), iterating over the local list
  (`"batch"`), popping timeouts (`"expire"`), the second look at `_callbacks`
  and at `_running` (`"check"`), `poll()`, and popping `_events`
  (`"dispatch"`). Wherever the code calls user code, `pc` is `"user"` and
  `current` names the callback, timeout or fd; user code then calls any of the
  loop's methods any number of times (`UserStep`) and returns (`Return`, which
  also stands for an exception: `_run_callback` and the dispatch loop log it
  and go on). Timeouts' and callbacks' effects are therefore not restricted.
* `add_callback` on another thread is three steps (`Acquire`,
  `AppendAndRelease`, `Wake`), the grain at which another thread, the loop or a
  signal can come between; on the loop's own thread it is one.
  `add_callback_from_signal` is `SignalOnLoop` (appends without the lock, at any
  point of the loop) or `SignalElsewhere` (add_callback on top of what the
  interrupted thread was doing: `Awake` stops that thread meanwhile).
* The heap is the set of its timeouts and `Roots` what may be at its root (equal
  deadlines are ordered by object address). `live` says whose callback
  `remove_timeout` has not cleared; `cancellations` is `_cancellations`;
  `Cleanup` is the clean-up at the end of the timeouts.
* `handlers`/`interest` are `_handlers` and the events asked for beyond ERROR,
  `condition` what the kernel would report, `events` is `_events`. The waker is
  a pipe that is empty, full or closed.

`CallbackQueue` is what add_callback promises: a first-in-first-out queue whose
entries start one at a time, each exactly once. `IOLoop` implements it under
`queue <- batch \o callbacks`, `runner <- current` where it is a callback.

Assumed: the loop is used as its documentation demands (every method but
add_callback on the loop's thread, `close` on a stopped loop); `start` installs
the wakeup fd, as it does on the main thread where it exists; a poll of 3600 s
(`MaxPoll`) does not elapse.

### `IOStream`

One stream and its socket. All of it runs on the loop's thread, so each method
is atomic; what interleaves is the order in which the loop runs events, the
stream's queued callbacks and other callbacks that call the stream. `s` is a
record of the stream's fields and every method is an operator from stream to
stream, so that a method that calls others is their composition, in the code's
order (`HandleRead`, `TryInlineRead`, `Close`, ...). The peer and the kernel are
actions: bytes arrive, the peer ends its data or breaks the connection, connects
are established, the send buffer drains. Bytes are counted, never stored: the
peer's n-th byte is `n`, the read buffer `taken + 1 .. got`, and a delimiter ends
at a byte of `Delims`. `queue` is what the stream gave to add_callback, first in
first out - which is what `ImplementsCallbackQueue` checks of `IOLoop` - and
`batch` how many of them run before the loop polls again.

Assumed: the user does not read before the kernel has connected the socket
(`iostream.py:919` calls it non-portable; the stream itself may not have noticed), starts no second read (an assertion), and does not set a close callback on a closed stream (it would never
run). A socket error other than ECONNRESET closes the stream as that does and raises
besides, in the caller of a read or in `_handle_read`, which logs it
(`iostream.py:464-468`, `559-568`): the stream it leaves is the same, so the model has one way for
a connection to break.

### `SimpleHTTPClient`

`<<f, h>>` is the `_HTTPConnection` of fetch `f` after `h` redirects, a record of
its `final_callback`, `release_callback`, `_timeout` and `start_time`, and of
what it uses of its stream: the read or connect it waits for (`phase`), and the
callback of it that is in the loop's queue (`due`). Methods with several outcomes are the sets of
them (`OnResolve`, `OnConnect`, `OnHeaders`, `OnBody`); whatever a response says
is one of the outcomes. `Become` makes a connection's new record the state
and, when `_run_callback` released the slot or called the final callback on the
way, does what those do, `_process_queue` included, whose loop is `ProcessQueue`:
it starts connections from the front of the queue while there is room, and a URL
that is refused in the constructor gives its slot back inside that loop. A
redirect is the step `FollowRedirect`.

Assumed: one callback of a stream is outstanding at a time (the client starts a
read only in the callback of the previous one); a timeout runs only when
callbacks queued before the poll have run (the loop's order, as in `IOLoop`); whether a URL is acceptable is a
flag of the request (`bad`).

### `HTTPConnection`

The server's end of a connection, composed with `IOStream`: the module takes
that module's operators for its stream `s` by `INSTANCE` (`Stream!Close`,
`Stream!Written`, `Stream!Dispatch`, the client's `Stream!Arrive`, ...) and puts
its own methods where `IOStream` has an arbitrary user. The stream's `"read"`
callback is `_on_headers` or `_on_request_body` (`c.reader` says which, `"none"`
when `_header_callback` had been cleared), `"write"` is `_on_write_complete`,
`"close"` is `_on_connection_close`. A method maps `k = [s, c]`, stream and
connection, to another, in the code's order; where it calls the application the
callback is split: `user` holds from `RunNext` until the application returns
(`CallbackReturns`, with the rest of the method: `WriteCompleted`,
`ConnectionClosed`) or raises (`CallbackRaises`, the stream closes and the rest
of the method does not run).

`handler` is the `RequestHandler` of `web.py` that answers the current request:
`Flush` writes, `FinishHandler` is `finish()`, also as called by `send_error` and
at the end of a method. It may act inside any callback of the connection that
calls it, and from any other callback of the loop. Whether a request has a body,
whether it expects `100 Continue`, whether it is malformed and whether the
connection may be kept are outcomes of `OnHeaders`.

Assumed: a request is one byte of headers and at most a byte of body, so that
what a client sends ahead fits the read buffer (`MaxBuffer > MaxSent`); the
application is made of `RequestHandler`s, which finish once (a second `finish()`
raises `RuntimeError`) and do not flush afterwards.

### `Coroutine`

One coroutine: the wrapper of `coroutine()`, its `Runner` (`r`), the yield points
`Callback`, `Wait`, `WaitAll`, `Task`, `YieldFuture` and `Multi`, and the futures.
A yield point is the list of its children, of at most `MaxKids`. What Python keeps
on its stack is `pc` and `caller`: the generator, the function of a `Task` that
`start()` calls, an operation under the coroutine's `ExceptionStackContext`, or
the loop. Results come from any of these places, so also while the generator
runs and while a yield point starts. The module is about what `run()` does when it
is re-entered (`running`), and about errors, which come from the generator, from
futures, and from operations through `handle_exception`.

Reproduced, and not contradicted by a doc: an operation that raises after its
callback finished the coroutine sets the future again (`gen.py:198-205`), and one
that raises while the generator runs resolves the future before the generator
ends.

### `LoopClients`

`IOLoop.run_sync`, `PeriodicCallback` and `AsyncTestCase.wait`/`stop`, over a loop
reduced to its passes: the callbacks queued, then the timeouts that are due, then
the end if it was stopped. The stop that one call leaves behind ends the next one
early, `start()` twice leaves two chains of ticks, and `stop()` and `start()`
inside the callback revive an old chain; all three are in the model.

### `WebSocket`

The protocol object and stream of both ends (`ws`), the frames written to each
(`sent`), the `WebSocketHandler`, and the user's side of the client (`connect`,
`reader`). A frame is read in the pieces the code reads it in (`reading`), each
with its callback due later; between two pieces anything may happen. The client
is tornado's own, another program that writes any frame, or one of draft 76.
Messages are identified by the frames they were put together from (`heard`).
`MessagesAreWhole` compares them with what RFC 6455 makes of the frames;
`ClosingFrameIsLast` is about the other direction: the user, the answer to the
client's closing frame and `write_message` all write to a stream that stays open until
the client answers. Calls into the handler that raise (`open()` and `on_message`, and `on_pong`,
which is called with the answer to a ping) abort the connection, as do the keys of draft 76
when they are too large to pack. `handler.closed` says that the handler itself
called `close()`, after which it is not told of the end; every other handler has `on_close`
called (`EndIsTold`).

### `TCPServer`, `Subprocess`, `Autoreload`

`TCPServer` is `bind`, `listen`, `start`, `add_sockets`, the accept handler and
`fork_processes`, over a table of processes with pids that are used again and the
sockets they share; children end at any moment, by a signal or a status. A parent
that raises leaves its children running. `Subprocess` has SIGCHLD as one pending
bit that may stand for several children; the handler may be removed at any time
(`uninitialize` makes no check, `process.py:284-289`), and the exits waited for then are not
reported, so `ExitIsReported` speaks of executions where it stays while a child is waited for. In `Autoreload`
files change, disappear (time 0, which `_check_file` passes over) and come back
while the program is loaded or a check runs from file to file. A change between an import
and the first check is not seen, and a file that could not be imported is seen only if it is
watched; this is why `ChangesAreSeen` speaks of what the checks know. A change that is undone
before the check comes to its file is not one.

### `RequestHandler`, `StaticFile`, `Routing`

`RequestHandler` is one request from `_execute` to the end: prepare, the method,
the futures either returns, callbacks under `@asynchronous`, both output
transforms, and the loss of the connection. The response is a record that
`Write`, `Flush`, `Finish`, `SendError` map to the next, as in the code; `request.client`
decides what framing the client understands. The application's code is any
sequence of at most `MaxOps` calls with an error between any two. Calls of the framework itself
on the loop, as `finish()` in `future_complete`, may raise too and are handled
the same way (`Handled`).

`StaticFile` has the file as size and version, rewritten between any two of the
handler's looks at it, the reads of single chunks included, when it is hashed as when it is
sent. So a hash, like a body, may be made of several versions; it stands
for the set of its bytes, each with its version. Every version has a time, which is the
*second* it was written in: later versions may have the same one, as `Last-Modified` and
`If-Modified-Since` know no fractions (`web.py:2115-2117`, `2258-2260`). The client has a copy
from before, with a date, an Etag and the versions its bytes are of. The cache of hashes
outlives the requests and, in debug mode, is emptied at the start of each
(`web.py:1797-1803`). `Routing` has groups of rules in
the order `add_handlers` puts them. Two groups for any host hide groups added
afterwards; `RoutesArePrecise` says what the comment at `web.py:1639` says, for one
such group.

### `TemplateParser`, `TemplateInheritance`

The parser is the stack of `_parse` calls with the block and loop they are in;
`ParserTakesTheRightTemplates` compares it with a definition that knows no stack.
`TemplateInheritance` enumerates three files (a page that extends a base, and a
part both may include), compiles them in any order through the loader's cache, and
compares the result with what the files say.

### `Auth`, `StackContext`, `CurlHTTPClient`

`Auth` has the logins of two tabs of one browser, each mix-in's chain of fetches,
and the cookie they share. A fetch ends well, with an error, with a body that cannot be decoded
or with one that holds no user, and each callback does with these what it does in the
code: Facebook Graph's makes a user without fields of `{}` (`"nameless"`), FacebookMixin's
raises on a list without entries. The style of the handler (coroutine or callback) and of
the Future decide where an exception goes, to the error page or (`Swallowed`) to the log;
the handler that is told may itself raise, before or after a flush. `StackContext` keeps the contexts of a
moment as the code does, once as those to enter (a set: their order is left out) and
once as a chain through `old_contexts` (the least closed set with its head, which needs
no recursion), and opens, wraps, calls, deactivates and fails in every order.
`CurlHTTPClient` is the queue, the handles and the callbacks of libcurl, which may end
a transfer whenever it is called; a
setup that raises loses its handle (`curl_httpclient.py:234`).

### Compositions

`HTTPConnection` composes with `IOStream` through shared state, and `IOLoop` is shown
to implement the queue that the others rely on. Three modules gather parts that
share no state, so that each layer is one specification with one configuration:

* `Connections`: `HTTPConnection`, `WebSocket`, `CurlHTTPClient`;
* `Programs`: `TCPServer`, `Subprocess`, `Autoreload`, `LoopClients`, `Coroutine`;
* `Applications`: `Routing`, `RequestHandler`, `StaticFile`, `TemplateParser`,
  `TemplateInheritance`, `Auth`, `StackContext`.

As the parts share nothing, every behaviour of the product is an interleaving of one
of each; the initial state picks the part that runs and the others stand still in
one of their initial states. That checks exactly the parts' behaviours without
their product. Most parts also have a `.cfg` of their own, with the same bounds, for
work on one of them; `WebSocket.cfg` checks `ClosingFrameIsLast` (which has a proof) and
`NothingAfterTheEnd` besides what the run does.

## What the runs check

| run | instance | states | what it shows |
|---|---|---|---|
| `ioloop_threads` | 2 callbacks, 2 timeouts, 1 other thread, signals on the loop's thread, 2 callbacks queued at most, deadlines 0..1 | 1,668,426 | `NoLostWakeup`, `TimeoutsRunUnlessRemoved`, `NeverSleepsPastDeadline`; the callback list implements `CallbackQueue` |
| `ioloop_io` | 2 fds, 1 callback, 1 thread, fair scheduling | 77,850 | `CallbacksRun`, `EventsHandled`, `StopReturns` |
| `iostream` | 2 bytes from the peer (the second ends a delimiter), a read buffer of 2, a send buffer of 1, writes of up to 2, 3 operations of the user | 356,848 | `CloseCallbackComesLast`, `StreamIsWatched`; `CloseCallbackRuns`, `ReadsComplete` |
| `http_client` | 2 fetches, 1 slot, 1 redirect each, connect timeout 1, request timeout 2 | 313,826 | `SlotsAreHeld`, `QueueWaitsForSlots`, `AnsweredOnce`; `FetchesAreAnswered` |
| `http_server` | HTTP: 3 bytes of requests, writes of up to 2 bytes into a send buffer of 1, 2 flushes. WebSocket: 3 kinds of client, 4 frames, 1 write. curl: 5 fetches, 2 handles, 2 setups that raise | 414,960 | `ResponsesAreOut`, `RequestsAreServed`; `MessagesAreWhole`, `ClosingEnds`, `EndIsTold`; `CurlFetchesEnd` |
| `programs` | 2 tasks, 3 pids, 1 restart, 3 deaths; 3 subprocesses; 2 files, missing or of 2 times; 2 calls of run_sync, 1 of wait, 2 chains of ticks; a coroutine with a key, a task, a future and pairs of them | 261,453 | `ExitMeansDone`, `TasksComeBack`; `ExitIsReported`; `ChangesAreSeen`; `CallsReturn`, `RunningMeansScheduled`; `NoLostResume`, `WaitsEnd` |
| `web` | 3 groups, 2 hosts, 2 paths; 3 calls on a handler; a file of 3 bytes, 2 requests; 5 tags; every small page, base and part; 2 tabs, 6 mix-ins; 3 contexts, 2 functions | 1,043,897 | `RoutesArePrecise`; `ResponsesAreFramed`, `EndedStaysEnded`, `RequestsEnd`; `RangesAreServed`, `NotModifiedIsTrue`; `ParserTakesTheRightTemplates`; `TemplatesCompose`; `LoginsGiveTheirUser`, `LoginsEnd`; `ContextsAreLeft` |

Five runs state what a comment, docstring or test says of the code, and TLC
finds it violated:

| run | statement | what the run shows |
|---|---|---|
| `ioloop_signal` | add_callback_from_signal is safe from a signal handler (`ioloop.py:518`, `908-909`) | with the loop on another thread, the handler can wait for `_callback_lock` while the code it interrupted holds it |
| `ioloop_close` | add_callback raises a clean exception while another thread closes the loop (`test/ioloop_test.py:102`) | `wake()` comes after the lock was released and can write to the closed waker: ValueError, not RuntimeError |
| `iostream_read` | a read that cannot be completed starts listening for reads (`iostream.py:481-483`) | a read started on a connected stream behind a write that is blocked: the stream goes on listening for WRITE alone, until the next event |
| `http_flush` | the callback of `flush()` runs when all flushed data has been written (`web.py:728-729`) | after two flushes the first queued `_on_write_complete` runs the callback of the second, whose bytes are still in the buffer |
| `http_timeout` | request_timeout is the timeout for the entire request (`httpclient.py:270`) | every redirect starts it anew |

Five more statements fail in configurations to be run by hand:

| configuration | statement | what it shows |
|---|---|---|
| `LoopClientsSync.cfg` | `TimeoutErrorMeansTimeout`: run_sync raises TimeoutError if the function ran longer than its timeout (`ioloop.py:420-422`) | the stop() that an earlier call left ends the next one before its timeout, with a TimeoutError |
| `RequestHandler304.cfg` | `ErrorsTurnIntoResponses`: what escapes the application's code ends the request (`web.py:796`, `844-849`, `1846`) | an `HTTPError(304)` raised in a coroutine or a later callback sends no response and finishes nothing |
| `StaticFileStale.cfg` | `NotModifiedIsCurrent`: a 304 says that the copy is the file as it was during the request (`web.py:1797`, `2112-2119`) | a file rewritten twice in one second, and, with debug off, a file rewritten since its hash was cached |
| `Auth.cfg` with `Mixins = {"friendfeed"}` | `LoginsGiveTheirUser` | FriendFeed's `_oauth_get_user_future` is called without its callback (`auth.py:458`, `843`): every login ends in a TypeError |
| `StackContext.cfg` with `DeactivateOpen = TRUE` | `ContextsAreLeft`: deactivating does not affect instances that are pending (`stack_context.py:104-105`) | a call under an open context that has been deactivated rewrites the chain the open block will leave by |

Two of these properties have two parts. `EventsHandled` says that pending events have handlers
(`PendingEventsHaveHandlers`, proved: no event of a removed descriptor is dispatched to
somebody) and that they are handled. `ReadsComplete` says that a read whose data arrived
is completed or the stream is closed, and (`AnsweredReadsAreDelivered`) that the end of
the connection does not drop a read whose data came before it.

### Bounds, and why they are enough

*IOLoop.* A wakeup is lost, if ever, between one caller and one pass of the loop;
the write to the waker depends on whether the list was empty, so the second
callback and the second caller (the signal) are the ones that rely on the first.
`QueueBound` stops callers, never the loop. Two timeouts give an earlier and a
later one, equal deadlines (both orders at the root) and one that removes the
other in the same pass; `CleanupAt = 0` instead of 512 makes the clean-up
happen with two timeouts, and `CancelBound` lets user code remove twice, also
what ran already. `MaxTime` bounds deadlines; the clock runs beyond it while
poll() waits for a timeout. Timeouts and descriptors are independent in the
code (poll's timeout and its descriptors meet in `PollReturns` only), so they
are in different runs. `IOLoopProofs` proves all its safety properties without
these bounds.

*IOStream.* Three operations are enough to connect, read and write at once, or
to read and close while a read, a write and the close callback are outstanding.
Two bytes give reads that are satisfied in part, in full, or with bytes left; the
buffer limit of 2 is reached by a read that waits for more. Room for one byte
makes every longer write a partial one.

*HTTPConnection.* Three bytes are three requests without bodies, or one with and
one without, so a request is pipelined behind one that is being answered and
another behind that. A send buffer that takes one byte at a time leaves every
response of two bytes behind its `finish()`, and two flushes put two
`_on_write_complete` in the queue with more bytes to go. `MaxFlushes` counts
flushes only; finishing is never bounded.

*SimpleHTTPClient.* With one slot and two fetches the queue fills, and every
release must start the next; with one redirect each there are four connections,
the redirect being queued behind the other fetch or ahead of it. The connect
timeout is shorter than the request timeout, so both are reached; `MaxTime = 0`
means that time passes only towards a timeout that is set. `MaxTime = 1` in
`http_timeout` lets the second connection start later than the first.

*WebSocket.* Four frames are a fragmented message with a control frame between its
parts and a closing frame; one write of a tornado end races the closing, and a ping
that is answered behind it. Of
frames that no end reads, one may wait (`MaxAhead`).

*curl.* Two handles and two setups that raise are the case in which no handle is
left; the three good fetches queue behind them.

*Programs.* With three deaths and one restart a task dies, comes back under a pid
that was used before, and the parent gives up on the next. Three subprocesses
give one signal for two of them and one that ends while `_cleanup` runs. A file with two times
and none changes, is undone, disappears and comes back. Two
futures (of two calls of run_sync) are enough to leave something behind for the
next call. `MaxKids = 2` lets a Multi become ready in either order.

*Applications.* Three groups are needed for the insertion before the group for any
host. Three calls on a handler are a write, a flush and a finish, with an error
in between. Three bytes with chunks of two give ranges that end inside, at and
beyond a chunk and the file; hashing takes two chunks, so a rewrite comes between them, and
the second request finds what the first one cached, in the same second or a later one. Five tags are two nested blocks with something in the
inner one. Two contexts of one kind and one of the other, with three frames, give
a chain with inactive contexts in front, in the middle and at its end.

A closed loop, a closed stream, an answered request and a client with no fetch left really stop, so
deadlock is not checked; that nothing waits that should go on is what the
liveness properties say.

### Fairness

* *IOLoop*: weak fairness of the loop's thread (`LoopStep`: it takes its next
  step, and user code returns), of every caller inside add_callback, and of time.
  The interpreter schedules runnable threads, and a lock is waited for only while
  another holds it. A descriptor need not become ready, nobody needs to call.
* *IOStream*: weak fairness of the loop (written out with `LoopReady`, which says
  when `LoopStep` is enabled) and a peer that goes on reading, so that the send buffer drains.
  Nothing is assumed of arriving bytes, and the peer need not close.
* *HTTPConnection*: as `IOStream`, with the application's return (or exception)
  among the loop's steps. **The application need not finish** a request: the
  liveness properties speak of a connection whose handler is done, or of a
  handler that is to be told.
* *SimpleHTTPClient*: the loop runs what is queued (weak fairness per
  connection, for the queue is first-in-first-out); timeouts are strongly fair,
  as every pass of the loop runs those that are due, though in between callbacks
  make them wait; the resolver answers; time passes. **Servers need not answer**:
  `FetchesAreAnswered` rests on the timeouts.
* *WebSocket*: the loop runs callbacks that are due, notices the end of a stream,
  and its timeouts for connecting and closing come. No end need write or close.
* *CurlHTTPClient*: the loop runs the callbacks, among them the periodic
  `_handle_force_timeout`, again and again; libcurl ends every transfer in the end
  (it has a timeout). `CurlFetchesEnd` allows for the one way in which fetches wait
  forever: every handle was lost to a setup that raised.
* *Coroutine*: operations that were started give their results, futures are
  resolved, the loop runs their done callbacks. *LoopClients*: the loop steps and
  time passes; **the futures of run_sync need not be resolved**, the timeouts are
  what ends the calls. *TCPServer*: the parent forks and reaps, children start; they
  need not end. *Subprocess*: a pending signal is delivered and the loop runs; nobody need
  keep the handler.
  *Autoreload*: checks are made, hooks run.
* *RequestHandler*: the code that runs returns to the loop, and does so again and
  again; a callback the application has on the loop comes. `RequestsEnd` therefore
  excludes handlers that were given no reason to end. *Auth*: weak fairness of every tab's fetch,
  which the client ends by its timeouts (`FetchesAreAnswered`), and of a handler that
  has been told, which ends its request or raises. What happens in between, to whom an
  exception goes and whether anybody is told, is what `LoginsEnd` shows.

Where fairness says that something holds again and again (`[]<>(doing = "force")`),
it stands for the fairness of the steps that lead there: every reachable state has
such a path, and no step can be put off by it.

## What is proved

Every safety property of the passing runs is proved but one, for any sets and bounds
that the named assumptions of the modules allow; TLC evaluates these in every run.

* `IOLoopAssumption`, `SimpleHTTPClientAssumption`: disjoint finite or infinite sets of
  callbacks, descriptors and threads, finitely many timeouts; at least one slot, finitely
  many fetches.
* `IOStreamAssumption`: delimiters are bytes that the peer may send, buffers are not
  empty. `ConnectionsAssumption`: as the HTTP server's, and a read buffer that holds
  all that a client sends ahead (100 MB in the code).
* `ProgramsAssumption`: pids are not 0, tasks are numbered from 0
  (`process.py:149`), keys, tasks and futures are different things.
* `ApplicationsAssumption`, `HostsAssumption`: the sizes are numbers, a chunk is not
  empty, the mix-ins are those of `auth.py`, and no host has the empty name.
  `ContextsAssumption`: no context is Python's None.

| theorem | says |
|---|---|
| `IOLoopProofs!TypeCorrect` | `TypeOK` |
| `IOLoopProofs!NoLostWakeupHolds` | the loop never sleeps on a callback that nobody will wake it for |
| `IOLoopProofs!PendingEventsHold` | no pending event without a handler |
| `IOLoopProofs!CancellationBoundHolds` | `_cancellations` covers the cancelled entries of the heap |
| `IOLoopProofs!TimeoutsHold` | removed timeouts never start, others leave the heap only to run (an action property) |
| `IOLoopProofs!QueueRefinement` | `IOLoop` implements `CallbackQueue` |
| `IOLoopProofs!NeverSleepsHolds` | poll() is not asked to wait past the nearest live timeout (an action property) |
| `IOStreamProofs!TypeCorrect` | `TypeOK` |
| `IOStreamProofs!PendingHolds` | `_pending_callbacks` is the number of callbacks queued |
| `IOStreamProofs!CloseCallbackComesLastHolds` | no other callback of the stream is queued ahead of the close callback |
| `IOStreamProofs!StreamIsWatchedHolds` | an open stream in use listens, or will |
| `SimpleHTTPClientProofs!TypeCorrect` | `TypeOK` |
| `SimpleHTTPClientProofs!SlotsHold` | slots in use = connections yet to release one, at most max_clients |
| `SimpleHTTPClientProofs!QueueWaits` | no fetch waits while a slot is free |
| `SimpleHTTPClientProofs!AnsweredOnceHolds` | each fetch is answered once or awaited by one connection |
| `SimpleHTTPClientProofs!TimersBelong` | no timeout outlives its connection's slot |
| `ConnectionsProofs!ResponsesAreOutHolds` | a request is taken up when the response before it is out (an action property) |
| `ConnectionsProofs!OneAtATimeHolds` | nothing is read while a request has a handler |
| `ConnectionsProofs!MessagesAreWholeHolds` | what the users of a WebSocket are given are the messages that were sent, whole, in order, without a gap |
| `ConnectionsProofs!ClosingFrameIsLastHolds` | behind its closing frame the server writes pongs only |
| `ProgramsProofs!OneProcessEachHolds` | one process for each task, and the parent knows it |
| `ProgramsProofs!ExitMeansDoneHolds` | the parent exits well only when every task did |
| `ProgramsProofs!RunningMeansScheduledHolds` | a running PeriodicCallback has its timeout |
| `ProgramsProofs!NoLostResumeHolds` | a Runner leaves run() only at a yield point that waits |
| `ProgramsProofs!EndIsReportedHolds` | a generator that ended has resolved its future |
| `RoutingProofs!RoutesHold` | `RoutesArePrecise` |
| `ApplicationsProofs!NotModifiedHolds` | `NotModifiedIsTrue`: by the Etag and by the date, a 304 answers no copy older than what it was compared with |
| `ApplicationsProofs!RangesHold` | `RangesAreServed` |
| `ApplicationsProofs!LoginsHold` | `LoginsGiveTheirUser`, with every mix-in but FriendFeed's |
| `ApplicationsProofs!EndedStaysEndedHolds` | `EndedStaysEnded` (an action property) |
| `ApplicationsProofs!ResponsesAreFramedHolds` | `ResponsesAreFramed` |
| `StackProofs!ParserHolds` | `ParserTakesTheRightTemplates` |
| `StackProofs!ContextsHold` | `ContextsAreLeft`, when no open context is deactivated |

**IOLoop.** `IInv` adds to the properties that a caller on its way to the list
holds a callback (`ArgOK`, without which the list could receive `Nobody`), that
`current` and `batch` agree with `pc` (`RunOK`: the refinement needs that a
callback starts only when none runs, and that the batch is empty when the list
is swapped), and that the waker is closed last (`WakerOK`: otherwise the byte
that NoLostWakeup relies on could vanish). `CancellationBound` needs that
cancelled timeouts are finitely many, which follows from the assumption on
`Timeouts`; the clean-up leaves none, a pop takes one with its count. The
refinement maps the swap of the lists and every step of waker, timeouts and I/O
to stuttering; `RunCallback` is `Start`, `Return` is `Finish`, each of the three
ways to append is `Add`.

**SimpleHTTPClient.** The properties are not inductive: that a slot is released
once depends on the agreement of `final_callback` and `release_callback`, on
which of them a connection waiting for the resolver or for connect still has,
and, for redirects, on a connection that has handed on its fetch never acting
again. `RecordOK` says the first for every record, `HandedOn` the last. `Books`
adds that the queue holds queued connections, each once, and ties the active
keys and the answers to the records; it is stated of arbitrary values because
`_process_queue` is called on intermediate ones (a released slot not yet
filled, a fetch not yet queued). One lemma per method shows that it maps a
running record to a running one (`...Follows`); `ProcessQueueBooks` shows that
the loop of `_process_queue`, refused URLs included, keeps the books and ends
with the queue empty or the slots taken; `BecomeIInv`, `FetchIInv` and
`FollowRedirectIInv` combine them, one action each.

**IOLoop's sleep.** `NeverSleepsHolds` rests on `WaitOK`: from the end of the timeouts to
poll(), every live timeout left in the heap is in the future and the wait computed is
no longer than until then; the clean-up before it takes cancelled entries only, and what
comes after it makes the wait 0 or leaves it.

**IOStream.** `StreamInv` is stated of a stream as a value, like the methods. Its
heart is the count: `_pending_callbacks` is the number of wrapped entries in the queue
(`StreamOK(x, k)`, where `k` callbacks are in the hands of `_run_callback` or of
a method that keeps the count up by hand, `iostream.py:453-463`). With it,
`_maybe_run_close_callback` queues the close callback when no other is left (`CloseLast`), and a
stream with nothing pending has asked to be watched, for which the invariant also
says that one that connects or writes is (`ConnectIsWatched`, `UseIsWatched`). One lemma
per method: `Keeps` says what it does to the invariant, so a method that calls
others is the composition of their lemmas, and an action that of its method's.

**HTTPConnection.** The stream's methods are those of `IOStream`, so its lemmas are
used and not proved again: `S == INSTANCE IOStreamProofs WITH ...` gives them for
the stream of a connection, and `SameStream` says that its operators are the ones
`HTTPConnection` uses. What the server adds is that it starts one read at a time. For
that `IOStreamProofs` follows a read (`Heeds`): asked for, its callback queued, or
neither. `HttpInv` then says of an open stream that there is a read only when the
application has nothing to do: no handler, nothing finished and unwritten
(`Open`); and that without a request all bytes are out, which is `ResponsesAreOut`.
The case that needs thought is `_on_write_complete`, which runs with bytes in the buffer
again when another callback wrote in between (`httpserver.py:318-325`).

**WebSocket.** `MessageInv` says of each end, of the frames sent to it, its protocol object
and what its user was given: as long as it listens (`Listening`) nothing is wrong
with the frames up to `read`, every message that ended there was given (`Tells`), and
the fragments kept are the numbers of the frames of the message that has not
ended. Later, only that what was given stays right, because the frames up to
`read` never change (`Same`): others only add frames, or lose those not yet read
(`LostInv`). `Sendable` limits what may come to what the model lets each kind of client write.
The property's definition looks at whole sequences; the lemmas `NextPart`,
`NextControl` and `NextEnds` say what one frame more does to it, and that is all the
step lemmas need. There is one of these per action, by way of four kinds of step: an
end that reads on (`QuietStep`), one that also hands something over (`ToldStep`), one that
writes (`WriteStep`) and one that ends (`CalmStep`). Draft 76 is included.

`ClosedInv` adds to `ClosingFrameIsLast` why it holds: once the closing frame is
written, `server_terminated` is true and stays so, and either the handler has no connection any more
(it called `close()`, which forgets it) or the stream is closed (the frame was the answer
to the client's). A handler only gets its connection while nothing has been sent,
for which `OpeningInv` of the first proof is used.

**Programs.** `TasksOK` has one conjunct for each place of the parent: while it
forks, the tasks forked so far each have their process, while it waits, every task has
ended well or is somebody's (`NoneForgotten`), in both the parent's table is that
of the processes (`EachOK`), which is what makes the pid that `wait()` returns mean the right
task though pids are used again. `CallsInv` needs only that `periodic` is a record:
`RunningMeansScheduled` is inductive, the timers of other calls having other owners.
`CoroutineInv` adds to `NoLostResume` that a finished Runner has resolved its
future. The proofs go by the set of Runners that a turn of the loop may leave
(`RunsOn`), one lemma per way to get there.

**Static files.** `CacheInv` relates contents and seconds. Versions are written in
order, so their seconds never decrease (`VersionsOK`); a hash is made of bytes the file
has had, and in debug mode of versions of this request (`HashesOK`); what is sent is no older
than the content of its Etag and no older than the second of its date, because the file
is opened after both were taken (`SourcesOK`); and so is the copy that the client keeps of it
(`CopyOK`). `RewriteTypes` shows that a rewrite, in the same second or not, disturbs
none of it. `RangeInv`
keeps, from the decision on, the slice that `_parse_request_range` and `get` chose (`SliceOK`)
and where the reading is in it (`ReadOK`), for any size, any range and any
chunk; the arithmetic is that of Python's slices. The model had to be corrected
for it: the number that stood for Python's `None` was one that a suffix range could reach
when `MaxSize` is 1.

**Logins.** `LoginOK(t, l)` says what is known of a login at each place: with whose token
it goes to the service, that no fetch has gone wrong so far (`wrong` is the set of those that
did), and, once it is told, that a user was vouched for (`GivesOK`). A step is one
of one tab, and the cookie only ever selects between going on with its own token
and failing. With FriendFeed every login fails, as the by-hand configuration
shows, so the theorem is about the other mix-ins. The user without fields that Facebook Graph
makes of `{}` is part of the property: no other mix-in gives one, and its token was good.

**Handlers.** `HandlerInv` says that a finished response has sent its headers, has nothing
buffered and has the connection's close callback removed; each of the calls that an application
may make `Leaves` it so and, once finished, leaves the wire alone.

For the framing the invariant is `FramedInv`: no error is left in the response
between two steps, and the response is in one of three phases (`Framable`). Nothing was sent
and no length declared yet (`Unsent`); headers without a length are out, and
behind them only pieces that the client can tell apart in the way they announced, if at all
(`Streaming`, `Partial`); or it is over and framed (`Over`). Each of `Clear`, `Write`,
`Flush`, `Finish` and `SendError` takes a response in a phase to the same or a later one
(the `...Fits` lemmas), also when it raises; `OwnCallFits` and `OwnCallLeaves` do so for the
calls of the framework itself, whose exceptions are handled as errors (`Handled`). The fold that adds up a body is
needed only of bodies sent at once, which have one piece at most (`Sums`).

**Routing.** `ListInv` is what the comment at `web.py:1618-1622` wants: as long as one
group at most is for any host, it is last, and the others come in the order they were
added (`Ordered`). `FirstOK` shows that the first rule in such a list is the least one
of the most precise group.

**Parser.** `Opens(t, n, p, o)` ties the stack `p` to the template: the `a`-th call
parses the block that tag `o[a]` opened; from that tag on there are as many more
blocks than ends as there are calls from it on; and `in_loop` is true just when
a loop is around without an `apply` in between. The property's definition counts
tags; that a count changes by one with a tag (`CountStep`) is the lemma everything
rests on. It holds for templates of any length.

**Contexts.** What a chain is, the model says without recursion: the least set with its head that no
`old_contexts` leads out of. Induction along it becomes a closed set exhibited. `RemoveDeactivated` links
each active context past the inactive ones behind it; the proof is that this keeps the
active part of *every* chain (`RelinkedIsLinked`, `RelinkedKeeps`, `RelinkedEnds`,
`RelinkedHead`), also of those other functions captured. With it `ContextsInv` is inductive: chains end,
the contexts a function captured agree on what is active in both of their forms,
the contexts that a block or call in progress runs under are all active, each frame set aside
what the one outside it runs under, and a context is entered as often as there are
frames that hold it. The theorem excludes deactivating an open context, with which the
property fails (the by-hand configuration above). Functions, blocks and calls may be any
number.

`PendingIsQueued`, `OneProcessEach`, `EndIsReported` and `OneAtATime` are lemmas of these
proofs that say something of their own, `ClosingFrameIsLast` is checked by
`WebSocket.cfg`; the others are what the runs check.

**Model-checked only.** All liveness properties (the prover does not reason about
ENABLED or fairness). Of the safety properties:

* `TemplatesCompose`: what compiling gives is a recursive function of the bodies, and what
  holds of it needs induction over them. `TemplateInheritance` has no constants, so the run
  covers every instance of the module: all files whose bodies are of the sizes it enumerates.

## What is not modelled

The components table of `PROJECT.json` has every part with its reason. Within the
modelled parts:

* *IOLoop*: the blocking-signal timer, select's and
  kqueue's translation of events, `close(all_fds=True)`.
* *IOStream*: SSL and pipe streams; the merging of buffer chunks and the chunk size of a write;
  the streaming callback is set by the read calls but its effect on a user is not tracked.
* *HTTP server*: parsing of request lines and headers, xheaders; the decision whether a
  connection is kept is one outcome (`c.keep`); other applications than
  `RequestHandler` (`wsgi.py`, `FallbackHandler`).
* *Web framework*: cookies and signatures, arguments, UI modules, the path validation of
  static files (`web.py:2138-2177`); the bodies of handler methods are arbitrary calls.
* *Simple HTTP client*: the formatting of requests, the parsing of responses,
  gzip, streaming and header callbacks, the `100 Continue` exchange beyond the
  next read of headers. *curl*: which options a request sets, `close()`.
* *Coroutines and futures*: `engine()`, `return_future`, `run_on_executor`,
  `chain_future`. *Stack contexts*: several threads; a context whose `enter()` fails.
* *WebSocket*: masks, challenges, subprotocols. *TCP server*: SSL, socket options,
  `bind_unix_socket`. *Auth*: signatures, the arguments of OpenID, API calls after a login.
* *Options, logging, locale, WSGI, escape, util*: sequential code over values,
  with nothing to interleave. *Twisted bridge*: a translation of interfaces of a
  reactor that is not part of the repository.

Behaviour that was met on the way and that no property states, for it is
documented, harmless or outside the modelled part: a timeout that answers a
fetch while its response is queued does not stop a redirect in that response
from being followed (`simple_httpclient.py:416-435`; the model has it as an
*orphan* fetch, which takes a slot and answers nobody); a second write replaces
the callback of the first (`iostream.py:230-233`, documented); a close callback
set on a closed stream never runs; a pipelined request that
`_finish_request` reads from the buffer of a stream that has closed, with its
close callback queued or run, gets a handler that is never told of the close
(`httpserver.py:351`; `CloseIsReported` speaks of closes yet to be reported
for that reason); a done callback of a future that raises keeps the later ones
from running (`concurrent.py:93`); a failed connect with a pending write goes on
to a write on the closed stream, which logs an error (`iostream.py:364`); the loop over due
timeouts has no bound (`ioloop.py:767`). Of the newer modules:

* *WebSocket*: `handler.close()` forgets the connection, so that `on_close` is never
  called (the doc at `websocket.py:205` says "when the WebSocket is closed";
  `EndIsTold` speaks of handlers that did not close); a second `read_message` after
  the end never resolves; a `101` that comes after the connect timeout sets the
  future again; a ping on a closed stream raises.
* *RequestHandler*: an explicit `Content-Length` and an error after a flush give a
  short response; a kept HTTP/1.0 connection gets a flushed response without length;
  a `304` set before an early flush gets the bytes of the transforms.
* *StaticFile*: a suffix longer than the file and a backwards range end in a 500; an
  open range of a file that shrinks is cut short; without `debug` hashes are never
  refreshed; a file rewritten in the second of the copy's date answers 304 to it; with both
  `If-None-Match` and `If-Modified-Since` one that matches is enough, where RFC 2616
  wants both.
* *Auth*: two logins of one browser at a time spoil each other, which ends in an
  error and never in the wrong user; an unreadable answer ends in the error page
  with the future never set; Facebook Graph's answer `{}` is a user whose fields are
  all None, and FacebookMixin's `[]` ends in the error page; under concurrent.futures a callback-style handler is
  not told of an exception that is no AuthError, and what it raises itself is logged and
  its request left open; a callback that raises after a flush leaves the request open with
  either Future.
* *Subprocess*: `uninitialize()` while exits are waited for loses them.
  *Autoreload*: a change between an import and the first check is not noticed.
* *curl*: a fetch whose setup raises while another's completion pops it is never
  told.

## Plan

In this order, the most important first; all are done.

1. **`IOLoop`, `CallbackQueue`, `IOLoopProofs`** - the loop, its abstract queue,
   the refinement and its proof.
2. **`IOStream`** - on the queue that `IOLoop` implements.
3. **`SimpleHTTPClient`, `SimpleHTTPClientProofs`** - on the stream.
4. **`HTTPConnection`** - on the stream, with `RequestHandler` as its user.
5. **`Coroutine`, `LoopClients`** - the runner and its futures; who starts the loop.
6. **`WebSocket`, `CurlHTTPClient`** - the other connections; `Connections`.
7. **`TCPServer`, `Subprocess`, `Autoreload`** - processes and signals; `Programs`.
8. **`RequestHandler`, `StaticFile`, `Routing`, `TemplateParser`,
   `TemplateInheritance`, `Auth`, `StackContext`** - the web layer; `Applications`.
9. **`IOStreamProofs`**, and on it **`ConnectionsProofs`** - the stream and the HTTP server.
10. **`ProgramsProofs`**, **`ApplicationsProofs`**, **`RoutingProofs`**,
    **`StackProofs`** - the safety of the parts above, and of the WebSocket in
    `ConnectionsProofs`.

Left, proofs: of `TemplatesCompose`, that an expression is escaped as its file says,
which needs a form of compiling that is no recursive function.
