------------------------------ MODULE IOStream ------------------------------
(***************************************************************************)
(* BaseIOStream and IOStream of tornado/iostream.py: one non-blocking      *)
(* socket, the buffers, the callbacks and the IOLoop registration that go  *)
(* with it.                                                                *)
(*                                                                         *)
(* Everything runs on the loop's thread, so a method call is one step.     *)
(* The stream is a record s, and every method an operator from the stream  *)
(* before the call to the stream after it: a method that calls others is   *)
(* their composition.  Bytes are counted: the peer's n-th byte is n, and   *)
(* the read buffer is s.taken + 1 .. s.got.                                *)
(*                                                                         *)
(* s.queue is what the stream has handed to IOLoop.add_callback (first in, *)
(* first out: ImplementsCallbackQueue of IOLoop): its own callbacks,       *)
(* wrapped by _run_callback, and "doClose", the bare self.close of         *)
(* _handle_events.                                                         *)
(***************************************************************************)
EXTENDS Integers, Sequences, FiniteSets

CONSTANTS MaxSent,     \* bytes the peer sends at most
          Delims,      \* bytes of the peer that end a delimiter
          MaxBuffer,   \* max_buffer_size
          MaxRoom,     \* bytes the kernel's send buffer takes at a time
          MaxWrite,    \* largest write
          MaxOps       \* reads, writes, connects and closes of user code

ASSUME IOStreamAssumption ==
  /\ MaxSent \in Nat /\ Delims \subseteq 1..MaxSent /\ MaxBuffer \in Nat \ {0}
  /\ MaxRoom \in Nat \ {0} /\ MaxWrite \in Nat /\ MaxOps \in Nat

VARIABLES s,      \* the stream
          inCb,   \* the callback that is running, or "none"
          batch,  \* callbacks the loop runs before it polls again
          ops     \* how many of those there were

vars == <<s, inCb, batch, ops>>

ReadKinds == {"bytes", "until", "close"}
Wrapped   == {"read", "stream", "write", "connect", "close"}

Stream == [
  closed     : BOOLEAN,
  listening  : BOOLEAN,                  \* _state is not None
  interest   : SUBSET {"READ", "WRITE"}, \* _state, ERROR left out
  pending    : Nat,                      \* _pending_callbacks
  reading    : BOOLEAN,                  \* _read_callback is set
  kinds      : SUBSET ReadKinds,         \* _read_bytes, _read_delimiter or
                                         \* _read_regex, _read_until_close
  want       : Nat,                      \* the value of _read_bytes
  streaming  : BOOLEAN,                  \* _streaming_callback is set
  writeCb    : BOOLEAN, closeCb : BOOLEAN, connectCb : BOOLEAN,
  connecting : BOOLEAN,
  unsent     : Nat,                      \* bytes in _write_buffer
  taken      : Nat, got : Nat,           \* consumed; received
  queue      : Seq(Wrapped \cup {"doClose"}),
  sent       : 0..MaxSent,               \* the kernel: bytes that arrived,
  fin        : BOOLEAN,                  \* all of them did,
  broken     : BOOLEAN,                  \* reset or refused,
  up         : BOOLEAN,                  \* connected,
  room       : 0..MaxRoom]               \* and what send() can take

TypeOK == /\ s \in Stream /\ inCb \in Wrapped \cup {"none"}
          /\ batch \in Nat /\ ops \in 0..MaxOps

\* A stream as __init__ makes it, on a connected socket or one to connect.
Fresh(connected) ==
  [closed |-> FALSE, listening |-> FALSE, interest |-> {}, pending |-> 0,
   reading |-> FALSE, kinds |-> {}, want |-> 0, streaming |-> FALSE,
   writeCb |-> FALSE, closeCb |-> FALSE, connectCb |-> FALSE,
   connecting |-> FALSE, unsent |-> 0, taken |-> 0, got |-> 0,
   queue |-> <<>>, sent |-> 0, fin |-> FALSE, broken |-> FALSE,
   up |-> connected, room |-> IF connected THEN MaxRoom ELSE 0]

Init == /\ s \in {Fresh(TRUE), Fresh(FALSE)}
        /\ inCb = "none" /\ batch = 0 /\ ops = 0

-----------------------------------------------------------------------------
(* The private methods.                                                    *)

Unread(x) == x.got - x.taken
Least(a, b) == IF a < b THEN a ELSE b

\* A bug: the callback is not counted.
RunCallbackUncounted(x, cb) == [x EXCEPT !.queue = Append(@, cb)]

\* _run_callback: until the wrapper runs, the callback counts as pending.
RunCallback(x, cb) ==
  [x EXCEPT !.pending = @ + 1, !.queue = Append(@, cb)]

\* The callback gets the next n bytes of the read buffer.
Deliver(x, cb, n) == RunCallback([x EXCEPT !.taken = @ + n], cb)

\* A bug: it does not wait.
CloseCallbackDueAtOnce(x) == x.closed /\ x.closeCb

\* The close callback waits for all others, and drops those that never
\* finished (but not what they were waiting for).
CloseCallbackDue(x) == x.closed /\ x.closeCb /\ x.pending = 0

MaybeRunCloseCallback(x) ==
  IF CloseCallbackDue(x)
  THEN [RunCallback(x, "close") EXCEPT !.closeCb = FALSE, !.reading = FALSE,
                                       !.writeCb = FALSE]
  ELSE x

StreamRest(x) == IF x.streaming /\ Unread(x) > 0
                 THEN Deliver(x, "stream", Unread(x)) ELSE x

\* read_until_close ends with whatever is in the buffer.
FinishUntilClose(x) ==
  LET y == StreamRest(x)
  IN  [Deliver(y, "read", Unread(y)) EXCEPT !.reading = FALSE,
                                            !.kinds = @ \ {"close"}]

Close(x) ==
  MaybeRunCloseCallback(
    IF x.closed THEN x
    ELSE [(IF "close" \in x.kinds THEN FinishUntilClose(x) ELSE x)
            EXCEPT !.closed = TRUE, !.listening = FALSE, !.interest = {}])

AddIOState(x, e) ==
  IF x.closed THEN x
  ELSE [x EXCEPT !.listening = TRUE, !.interest = @ \cup {e}]

\* A bug: only a closed stream is looked after.
MaybeAddErrorListenerIfClosed(x) ==
  IF x.closed /\ x.pending = 0 THEN MaybeRunCloseCallback(x) ELSE x

\* A bug: a closed stream is left alone.
MaybeAddErrorListenerIfOpen(x) ==
  IF x.listening \/ x.pending # 0 THEN x ELSE AddIOState(x, "READ")

MaybeAddErrorListener(x) ==
  IF x.listening \/ x.pending # 0 THEN x
  ELSE IF x.closed THEN MaybeRunCloseCallback(x) ELSE AddIOState(x, "READ")

\* The part of _read_from_buffer for the streaming callback.
Streamed(x) ==
  LET n == IF "bytes" \in x.kinds THEN Least(x.want, Unread(x)) ELSE Unread(x)
  IN  IF x.streaming /\ Unread(x) > 0
      THEN [Deliver(x, "stream", n)
              EXCEPT !.want = IF "bytes" \in x.kinds THEN @ - n ELSE @]
      ELSE x

Delimited(x) == {d \in Delims : x.taken < d /\ d <= x.got}

EnoughBytes(x) == "bytes" \in x.kinds /\ Unread(x) >= x.want

Completes(x) == EnoughBytes(x) \/ ("until" \in x.kinds /\ Delimited(x) # {})

Amount(x) ==
  IF EnoughBytes(x) THEN x.want
  ELSE (CHOOSE d \in Delimited(x) : \A e \in Delimited(x) : d <= e) - x.taken

\* _read_from_buffer; it returns Completes(Streamed(x)).
ReadFromBuffer(x) ==
  LET y == Streamed(x)
  IN  IF Completes(y)
      THEN [Deliver(y, "read", Amount(y))
              EXCEPT !.reading = FALSE, !.streaming = FALSE,
                     !.kinds = @ \ {IF EnoughBytes(y) THEN "bytes" ELSE "until"}]
      ELSE y

\* Receiving stops where the buffer is full, which is an error.
Received(x) == Least(x.sent, x.taken + MaxBuffer)
Overflows(x) == Received(x) - x.taken >= MaxBuffer /\ Received(x) > x.got

CloseAfterReading(x, y) ==
  IF x.broken \/ Overflows(x) \/ (x.fin /\ y.got = x.sent) THEN Close(y) ELSE y

Filled(x) == [x EXCEPT !.got = IF x.broken THEN @ ELSE Received(x)]

\* A bug: it counts down without having counted up.
ReadToBufferUnbalanced(x) ==
  [CloseAfterReading(x, Filled(x)) EXCEPT !.pending = @ - 1]

\* Reading until the socket has no more.  A reset loses what the kernel held;
\* the end of the peer's data closes the stream.  Meanwhile the reader counts
\* as a pending callback, so that the close callback does not come first.
ReadToBuffer(x) ==
  LET y == [Filled(x) EXCEPT !.pending = @ + 1]
  IN  [CloseAfterReading(x, y) EXCEPT !.pending = @ - 1]

ReadFails(x) == ~x.broken /\ Overflows(x)

\* A bug: once the stream is closed, what was read is not looked at.
HandleReadIfOpen(x) ==
  LET y == ReadToBuffer(x)
  IN  IF y.closed THEN MaybeRunCloseCallback(y) ELSE ReadFromBuffer(y)

\* (An error of the socket other than a reset ends as a full buffer does.)
HandleRead(x) ==
  LET y == ReadToBuffer(x)
  IN  IF ReadFails(x) THEN Close(y)
      ELSE IF Completes(Streamed(y)) THEN ReadFromBuffer(y)
      ELSE MaybeRunCloseCallback(ReadFromBuffer(y))

\* A read that is not in the buffer raises on a closed stream.
TryInlineRead(x) ==
  LET y == ReadFromBuffer(x)
      z == ReadToBuffer(y)
  IN  IF Completes(Streamed(x)) \/ y.closed THEN y
      ELSE IF ReadFails(y) THEN MaybeRunCloseCallback(z)
      ELSE IF Completes(Streamed(z)) THEN ReadFromBuffer(z)
      ELSE MaybeAddErrorListener(ReadFromBuffer(z))

\* send() takes what there is room for; on a broken connection it fails.  On a
\* closed stream with data left it raises, and nothing changes.
HandleWrite(x) ==
  LET n == Least(x.unsent, x.room)
      y == [x EXCEPT !.unsent = @ - n, !.room = @ - n]
  IN  IF x.unsent > 0 /\ (x.closed \/ x.broken) THEN Close(x)
      ELSE IF y.unsent = 0 /\ y.writeCb
           THEN RunCallback([y EXCEPT !.writeCb = FALSE], "write")
      ELSE y

HandleConnect(x) ==
  IF x.broken THEN Close(x)
  ELSE [(IF x.connectCb THEN RunCallback([x EXCEPT !.connectCb = FALSE], "connect")
                        ELSE x) EXCEPT !.connecting = FALSE]

\* A bug: an idle stream listens for errors only.
WantedWhenBusy(x) == (IF x.reading THEN {"READ"} ELSE {})
                     \cup (IF x.unsent > 0 THEN {"WRITE"} ELSE {})

\* What the stream listens for after it has handled events.
Wanted(x) ==
  LET w == (IF x.reading THEN {"READ"} ELSE {})
           \cup (IF x.unsent > 0 THEN {"WRITE"} ELSE {})
  IN  IF w = {} THEN {"READ"} ELSE w

HandleEvents(x, ev) ==
  LET r == IF "READ" \in ev THEN HandleRead(x) ELSE x
      c == IF r.connecting THEN HandleConnect(r) ELSE r
      w == IF "WRITE" \in ev THEN HandleWrite(c) ELSE r
  IN  IF x.closed THEN x ELSE IF r.closed THEN r ELSE IF w.closed THEN w
      ELSE IF "ERROR" \in ev THEN [w EXCEPT !.queue = Append(@, "doClose")]
      ELSE [w EXCEPT !.interest = Wanted(w)]

-----------------------------------------------------------------------------
(* The loop.                                                               *)

\* What the poller reports of the stream's file descriptor.
Events == ({"READ"} \cap s.interest \cap
             (IF s.sent > s.got \/ s.fin \/ s.broken THEN {"READ"} ELSE {}))
          \cup ({"WRITE"} \cap s.interest \cap
             (IF s.room > 0 \/ s.broken THEN {"WRITE"} ELSE {}))
          \cup (IF s.broken THEN {"ERROR"} ELSE {})

Reported == s.listening /\ Events # {}

\* What was queued when poll() returned runs before the next poll().
Dispatch ==
  /\ inCb = "none" /\ batch = 0 /\ Reported
  /\ s' = HandleEvents(s, Events) /\ batch' = Len(s'.queue)
  /\ UNCHANGED <<inCb, ops>>

\* The loop comes to the oldest callback.
Turn == /\ inCb = "none" /\ s.queue # <<>> /\ (batch > 0 \/ ~Reported)
        /\ batch' = (IF batch > 0 THEN batch ELSE Len(s.queue)) - 1

\* It runs close(), or _run_callback's wrapper up to the user's code.
Popped(x) == LET y == [x EXCEPT !.queue = Tail(@)]
             IN  IF Head(x.queue) = "doClose" THEN Close(y)
                 ELSE [y EXCEPT !.pending = @ - 1]

RunNext ==
  /\ Turn /\ s' = Popped(s)
  /\ inCb' = IF Head(s.queue) = "doClose" THEN inCb ELSE Head(s.queue)
  /\ UNCHANGED ops

CallbackReturns ==
  /\ inCb # "none" /\ inCb' = "none"
  /\ s' = MaybeAddErrorListener(s)
  /\ UNCHANGED <<batch, ops>>

\* An exception in a callback closes the stream.
CallbackRaises ==
  /\ inCb # "none" /\ inCb' = "none"
  /\ s' = Close(s)
  /\ UNCHANGED <<batch, ops>>

-----------------------------------------------------------------------------
(* The public methods, called from the stream's callbacks or others.       *)

Operation == ops < MaxOps /\ ops' = ops + 1 /\ UNCHANGED <<inCb, batch>>

\* "Calling IOStream read methods before the socket is connected works on some
\* platforms but is non-portable"; two reads at a time are an assertion error.
Reading(x, kind) == [x EXCEPT !.reading = TRUE, !.kinds = @ \cup {kind}]

MayRead == ~s.reading /\ (s.up \/ s.closed)

ReadBytes(n, streamed) ==
  /\ Operation /\ MayRead
  /\ s' = TryInlineRead([Reading(s, "bytes") EXCEPT !.want = n,
                                                  !.streaming = streamed])

\* read_until and read_until_regex.
ReadUntil ==
  /\ Operation /\ MayRead
  /\ s' = TryInlineRead(Reading(s, "until"))

\* On a closed stream what is left is handed over at once.
ReadUntilClose(streamed) ==
  /\ Operation /\ MayRead
  /\ s' = IF s.closed
          THEN LET y == IF streamed THEN Deliver(s, "stream", Unread(s)) ELSE s
               IN  [Deliver(y, "read", Unread(y)) EXCEPT !.streaming = FALSE]
          ELSE TryInlineRead([Reading(s, "close") EXCEPT !.streaming = streamed])

\* A write on an open stream.
Written(x, n, cb) ==
  LET y == [x EXCEPT !.unsent = @ + n, !.writeCb = cb]
      z == HandleWrite(y)
  IN  IF y.connecting THEN y
      ELSE MaybeAddErrorListener(
             IF z.unsent > 0 THEN AddIOState(z, "WRITE") ELSE z)

Write(n, cb) == /\ Operation /\ ~s.closed /\ (s.up \/ s.connecting)
                /\ s' = Written(s, n, cb)

\* connect() may fail at once (refused on localhost), before its callback is set.
Connect(cb) ==
  /\ Operation /\ ~s.up /\ ~s.connecting /\ ~s.closed
  /\ \/ s' = AddIOState([s EXCEPT !.connecting = TRUE, !.connectCb = cb], "WRITE")
     \/ s' = Close([s EXCEPT !.connecting = TRUE])

\* (On a closed stream the callback would never run.)
SetCloseCallback(cb) ==
  ~s.closed /\ s' = [s EXCEPT !.closeCb = cb] /\ UNCHANGED <<inCb, batch, ops>>

CloseStream == Operation /\ s' = Close(s)

-----------------------------------------------------------------------------
(* The peer and the kernel.                                                *)

Peer(x) == s' = x /\ UNCHANGED <<inCb, batch, ops>>

Arrive == /\ s.up /\ ~s.fin /\ ~s.broken /\ s.sent < MaxSent
          /\ Peer([s EXCEPT !.sent = @ + 1])
Fin    == s.up /\ ~s.fin /\ ~s.broken /\ Peer([s EXCEPT !.fin = TRUE])
Break  == (s.up \/ s.connecting) /\ ~s.broken /\ Peer([s EXCEPT !.broken = TRUE])
Establish == /\ s.connecting /\ ~s.up /\ ~s.broken
             /\ Peer([s EXCEPT !.up = TRUE, !.room = MaxRoom])
Drain  == s.up /\ s.room < MaxRoom /\ Peer([s EXCEPT !.room = @ + 1])

LoopStep == Dispatch \/ RunNext \/ CallbackReturns \/ CallbackRaises

UserStep ==
  \/ \E n \in 0..MaxSent, b \in BOOLEAN : ReadBytes(n, b)
  \/ ReadUntil
  \/ \E b \in BOOLEAN : ReadUntilClose(b)
  \/ \E n \in 0..MaxWrite, b \in BOOLEAN : Write(n, b)
  \/ \E b \in BOOLEAN : Connect(b) \/ SetCloseCallback(b)
  \/ CloseStream

Next == LoopStep \/ UserStep \/ Arrive \/ Fin \/ Break \/ Establish \/ Drain

Spec == Init /\ [][Next]_vars

\* LoopStep is enabled; TLC evaluates this much faster than ENABLED.
LoopReady == inCb # "none" \/ s.queue # <<>> \/ Reported

\* The loop goes on (weak fairness of LoopStep), and the peer goes on reading.
Fairness == /\ []<>~LoopReady \/ []<><<LoopStep>>_vars
            /\ WF_vars(Drain)

FairSpec == Spec /\ Fairness

-----------------------------------------------------------------------------
(* Properties.                                                             *)

\* _pending_callbacks counts the stream's callbacks in the loop's queue,
\* through every path that schedules, runs or abandons one.
Scheduled(queue) == {i \in DOMAIN queue : queue[i] # "doClose"}
PendingIsQueued == s.pending = Cardinality(Scheduled(s.queue))

\* "if there are pending callbacks, don't run the close callback until
\* they're done": it is never queued behind another of the stream's callbacks.
CloseCallbackComesLast ==
  \A i, j \in DOMAIN s.queue :
    i < j /\ s.queue[j] = "close" => s.queue[i] = "doClose"

\* "To detect closed connections, we must have called _add_io_state at some
\* point": once used, an open stream with nothing scheduled is registered.
StreamIsWatched ==
  ops > 0 /\ ~s.closed /\ inCb = "none" /\ s.pending = 0 => s.listening

\* A read whose data came with the end of the peer's data is answered, not
\* dropped with the other unfinished callbacks of the closed stream.  (Only a
\* full read buffer is an error of its own.)
AnsweredReadsAreDelivered ==
  [][s.reading /\ ~s'.reading /\ s'.got - s.taken < MaxBuffer
       /\ Completes([s EXCEPT !.got = s'.got]) =>
         "read" \in {s'.queue[i] : i \in DOMAIN s'.queue}]_vars

\* The close callback, if there is one, runs once the stream is closed.
CloseCallbackRuns ==
  s.closed /\ (s.closeCb \/ "close" \in {s.queue[i] : i \in DOMAIN s.queue})
    ~> inCb = "close"

\* A read whose data has arrived is completed, or the stream is closed; and if
\* the peer closed it behind the data, the read is answered all the same.
ReadsComplete ==
  /\ Completes([s EXCEPT !.got = s.sent]) ~> ~s.reading \/ s.closed
  /\ AnsweredReadsAreDelivered

\* A stream in use notices that the peer is gone.
EndIsNoticed == ops > 0 /\ (s.fin \/ s.broken) ~> s.closed

\* "otherwise starts listening for reads on the socket" (_try_inline_read): a
\* connected stream that reads and has nothing scheduled listens for reads, also
\* when it has a write to finish.
ReadIsListenedFor ==
  s.reading /\ ~s.closed /\ ~s.connecting /\ inCb = "none" /\ s.pending = 0 =>
    "READ" \in s.interest
=============================================================================
