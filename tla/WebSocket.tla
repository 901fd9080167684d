------------------------------ MODULE WebSocket ------------------------------
(***************************************************************************)
(* tornado/websocket.py: a WebSocketHandler and its protocol object, and   *)
(* the client at the other end of the connection: this library's own       *)
(* WebSocketClientConnection, another program that writes whatever frames  *)
(* it likes, or one that speaks the older draft 76.                        *)
(*                                                                         *)
(* A frame is read in pieces: each read_bytes has a callback, which the    *)
(* loop runs later ("due"), and between the pieces both ends write, close, *)
(* run into the timeout of the closing handshake, or lose the connection.  *)
(* A stream that has closed still hands out what its buffer holds.         *)
(***************************************************************************)
EXTENDS Integers, Sequences, Functions

CONSTANTS Links,      \* the clients there are, of "tornado", "other", "draft76"
          MaxFrames,  \* frames that another program writes,
          MaxAhead,   \* and how many of them wait to be read
          MaxWrites   \* write_message and ping calls of the tornado ends

Ends == {"server", "client"}
Peer(e) == IF e = "server" THEN "client" ELSE "server"

VARIABLES
  link,     \* who the client is
  sent,     \* the frames written to each end
  ws,       \* the protocol object of each end, and its stream
  handler,  \* the WebSocketHandler: has it its ws_connection, has it called close()
            \* itself, was on_close called
  heard,    \* the messages that on_message, or read_message, gave the user
  connect,  \* the client's connect_future
  reader    \* its read_future and read_queue

vars == <<link, sent, ws, handler, heard, connect, reader>>

Frame(op, fin) == [op |-> op, fin |-> fin, kind |-> "good"]

\* What other programs may write.  "reserved": the header is refused;
\* "garbled": not utf-8; "unknown": an opcode without a meaning.
Frames ==
  [op : {"text", "continuation", "ping", "close"}, fin : BOOLEAN, kind : {"good"}]
  \cup {[op |-> "text", fin |-> TRUE, kind |-> k] : k \in {"reserved", "garbled"}}
  \cup {Frame("unknown", TRUE)}

Frames76 == {Frame("text", TRUE), Frame("close", TRUE), Frame("unknown", TRUE)}

Control == {"ping", "pong", "close", "unknown"}

TypeOK ==
  /\ link \in Links
  /\ \A e \in Ends :
       /\ \A i \in DOMAIN sent[e] :
            sent[e][i] \in Frames \cup {Frame("pong", TRUE), Frame("101", TRUE),
                                        Frame("refusal", TRUE)}
       /\ ws[e] \in [open : BOOLEAN, told : BOOLEAN, client_terminated : BOOLEAN,
                     server_terminated : BOOLEAN, waiting : BOOLEAN,
                     reading : {"none", "request", "headers", "challenge", "start",
                                "length", "mask", "data"},
                     due : BOOLEAN, read : 0..Len(sent[e]),
                     fragments : Seq(1..Len(sent[e])), writes : 0..MaxWrites]
  /\ handler \in [attached : BOOLEAN, closed : BOOLEAN, on_close : 0..1]
  /\ connect \in {"pending", "done", "failed"}
  /\ reader.future \in {"none", "pending"}

\* The response of a server is what is read first.
NewProtocol ==
  [open |-> TRUE, told |-> FALSE, client_terminated |-> FALSE,
   server_terminated |-> FALSE, waiting |-> FALSE, reading |-> "headers",
   due |-> FALSE, read |-> 0, fragments |-> <<>>, writes |-> 0]
NewReader == [future |-> "none", queue |-> <<>>]

Init ==
  /\ link \in Links
  /\ sent = [e \in Ends |-> <<>>]
  /\ ws = [server |-> [NewProtocol EXCEPT !.reading = "request", !.due = TRUE],
           client |-> NewProtocol]
  /\ handler = [attached |-> FALSE, closed |-> FALSE, on_close |-> 0]
  /\ heard = [e \in Ends |-> <<>>]
  /\ connect = "pending"
  /\ reader = NewReader

-----------------------------------------------------------------------------
(* What the protocol object does, as functions of its state p.             *)

Tornado(e) == e = "server" \/ link = "tornado"
Runs(e, phase) == Tornado(e) /\ ws[e].due /\ ws[e].reading = phase
Current(e) == sent[e][ws[e].read + 1]


\* What another program makes of its frames is not modelled.
Write(e, frames) ==
  sent' = [sent EXCEPT ![Peer(e)] = IF Peer(e) = "server" \/ link = "tornado"
                                    THEN @ \o frames ELSE @]
Set(e, p) == ws' = [ws EXCEPT ![e] = p]

Idle(p) == [p EXCEPT !.reading = "none", !.due = FALSE]

\* _abort, and the close() in it.
Aborted(p) == [p EXCEPT !.client_terminated = TRUE, !.server_terminated = TRUE,
                        !.waiting = FALSE, !.open = FALSE]

\* What the user's open, on_message or on_pong raises aborts the connection.
Raised(p) == Aborted(p)

\* A bug: the side that closes trusts the other to answer.
ClosingTrusts(p) ==
  [p EXCEPT !.server_terminated = TRUE, !.waiting = @ /\ ~p.client_terminated,
            !.open = @ /\ ~p.client_terminated]

\* close(): and what it writes.
Closing(p) ==
  [p EXCEPT !.server_terminated = TRUE, !.waiting = ~p.client_terminated,
            !.open = @ /\ ~p.client_terminated]
ClosingFrame(p) == IF p.open /\ ~p.server_terminated THEN <<Frame("close", TRUE)>>
                                                     ELSE <<>>

\* read_bytes for the next piece, with the StreamClosedError it may raise: a
\* handler of draft 76 does not catch it.  Some of the data may have come.
Reads(e, p, phase) ==
  LET next == [p EXCEPT !.reading = phase, !.due = FALSE]
      come == {[next EXCEPT !.due = TRUE] : x \in {1} \cap (1..Len(sent[e]) - p.read)}
  IN  IF p.open THEN {next} \cup come
      ELSE IF come # {} THEN come
      ELSE IF link = "draft76" THEN {Idle(p)} ELSE {Aborted(Idle(p))}

Arrives(e) ==
  /\ Tornado(e) /\ ws[e].open /\ ws[e].reading # "none" /\ ~ws[e].due
  /\ ws[e].read < Len(sent[e])
  /\ ws' = [ws EXCEPT ![e].due = TRUE]
  /\ UNCHANGED <<link, sent, handler, heard, connect, reader>>

\* on_message: the server's is the user's; the client keeps what nobody reads.
Deliver(e, m) ==
  IF e = "client" /\ reader.future = "none"
  THEN /\ reader' = [reader EXCEPT !.queue = Append(@, m)] /\ UNCHANGED heard
  ELSE /\ heard' = [heard EXCEPT ![e] = Append(@, m)]
       /\ reader' = [reader EXCEPT !.future = IF e = "client" THEN "none" ELSE @]

-----------------------------------------------------------------------------
(* The opening handshake.                                                  *)

\* Not a GET, no upgrade, a version it does not speak: an answer, and the end.
Refuse ==
  /\ Runs("server", "request")
  /\ Write("server", <<Frame("refusal", TRUE)>>)
  /\ Set("server", [Idle(ws["server"]) EXCEPT !.open = FALSE])
  /\ UNCHANGED <<link, handler, heard, connect, reader>>

\* A header is missing.
Malformed ==
  /\ Runs("server", "request") /\ Set("server", Aborted(Idle(ws["server"])))
  /\ handler' = [handler EXCEPT !.attached = TRUE]
  /\ UNCHANGED <<link, sent, heard, connect, reader>>

\* 101, open() and the first read; open() may raise.  A stream that has closed
\* raises before that.
Accept ==
  /\ Runs("server", "request") /\ handler' = [handler EXCEPT !.attached = TRUE]
  /\ LET p == ws["server"]
     IN  IF ~p.open THEN Set("server", Idle(p)) /\ UNCHANGED sent
         ELSE /\ Write("server", <<Frame("101", TRUE)>>)
              /\ IF link = "draft76"
                 THEN \E q \in Reads("server", p, "challenge") : Set("server", q)
                 ELSE \E q \in Reads("server", p, "start")
                               \cup Reads("server", Raised(p), "start") :
                        Set("server", q)
  /\ UNCHANGED <<link, heard, connect, reader>>

\* Draft 76: the keys are none; or one is too large, or the stream has closed, and
\* what that raises closes it; or the challenge is good, and open() may raise.
OnChallenge ==
  /\ Runs("server", "challenge")
  /\ LET p == ws["server"]
     IN  \/ Set("server", Aborted(Idle(p)))
         \/ Set("server", [Idle(p) EXCEPT !.open = FALSE])
         \/ /\ p.open
            /\ \E q \in Reads("server", p, "start")
                         \cup Reads("server", Raised(p), "start") : Set("server", q)
  /\ UNCHANGED <<link, sent, handler, heard, connect, reader>>

\* The client has the response: 101, or anything else.
OnHeaders ==
  /\ Runs("client", "headers")
  /\ LET p == [ws["client"] EXCEPT !.read = @ + 1]
     IN  IF Current("client").op = "101"
         THEN /\ connect' = "done"
              /\ \E q \in Reads("client", p, "start") : Set("client", q)
         ELSE /\ connect' = "failed" /\ Set("client", [Idle(p) EXCEPT !.open = FALSE])
  /\ UNCHANGED <<link, sent, handler, heard, reader>>

\* connect_timeout.  (A response that came first is still read.)
ConnectTimesOut ==
  /\ link = "tornado" /\ connect = "pending" /\ connect' = "failed"
  /\ ws' = [ws EXCEPT !["client"].open = FALSE]
  /\ UNCHANGED <<link, sent, handler, heard, reader>>

-----------------------------------------------------------------------------
(* Frames of RFC 6455.                                                     *)

\* A control frame has no long form, and only a long one has a length field.
OnFrameStart(e) ==
  /\ link # "draft76" /\ Runs(e, "start")
  /\ IF Current(e).kind = "reserved" THEN Set(e, Aborted(Idle(ws[e])))
     ELSE \E phase \in {"mask", "data"}
                       \cup {x \in {"length"} : Current(e).op \notin Control} :
            \E p \in Reads(e, ws[e], phase) : Set(e, p)
  /\ UNCHANGED <<link, sent, handler, heard, connect, reader>>

OnFrameLength(e) ==
  /\ Runs(e, "length")
  /\ \E phase \in {"mask", "data"} : \E p \in Reads(e, ws[e], phase) : Set(e, p)
  /\ UNCHANGED <<link, sent, handler, heard, connect, reader>>

OnMaskingKey(e) ==
  /\ Runs(e, "mask") /\ \E p \in Reads(e, ws[e], "data") : Set(e, p)
  /\ UNCHANGED <<link, sent, handler, heard, connect, reader>>

\* A bug: a message that was read after all is still a message.
HandleMessageLate(e, p, op, m) ==
  IF op = "text" THEN /\ Deliver(e, m) /\ UNCHANGED sent
                      /\ IF p.client_terminated THEN Set(e, p)
                         ELSE \E q \in Reads(e, p, "start") : Set(e, q)
  ELSE UNCHANGED <<heard, reader, sent>> /\ Set(e, Aborted(p))

\* _handle_message, for p that read the message m, and the next read.
HandleMessage(e, p, op, m) ==
  IF p.client_terminated THEN Set(e, p) /\ UNCHANGED <<heard, reader, sent>>
  ELSE
    \/ /\ op = "text" /\ \A i \in Range(m) : sent[e][i].kind # "garbled"
       /\ Deliver(e, m) /\ UNCHANGED sent
       /\ \/ \E q \in Reads(e, p, "start") : Set(e, q)
          \/ e = "server" /\ Set(e, Raised(p))         \* on_message raised
    \/ /\ op = "unknown" \/ \E i \in Range(m) : sent[e][i].kind = "garbled"
       /\ Set(e, Aborted(p)) /\ UNCHANGED <<heard, reader, sent>>
    \/ /\ op = "close" /\ UNCHANGED <<heard, reader>>
       /\ Write(e, ClosingFrame(p))
       /\ Set(e, Closing([p EXCEPT !.client_terminated = TRUE]))
    \/ /\ op = "ping" /\ UNCHANGED <<heard, reader>>
       /\ IF p.open THEN /\ Write(e, <<Frame("pong", TRUE)>>)
                         /\ \E q \in Reads(e, p, "start") : Set(e, q)
                    ELSE Set(e, p) /\ UNCHANGED sent   \* the write raised
    \/ /\ op = "pong" /\ UNCHANGED <<heard, reader, sent>>
       /\ \/ \E q \in Reads(e, p, "start") : Set(e, q)
          \/ e = "server" /\ Set(e, Raised(p))         \* on_pong raised

\* A bug: whatever comes in between the fragments is one of them.
OnFrameDataMixed(e) ==
  /\ link # "draft76" /\ Runs(e, "data")
  /\ LET p == [Idle(ws[e]) EXCEPT !.read = @ + 1, !.fragments = Append(@, ws[e].read + 1)]
     IN  IF Current(e).fin
         THEN HandleMessage(e, [p EXCEPT !.fragments = <<>>], "text", p.fragments)
         ELSE /\ UNCHANGED <<heard, reader, sent>>
              /\ \E q \in Reads(e, p, "start") : Set(e, q)
  /\ UNCHANGED <<link, handler, connect>>

\* _on_frame_data: the fragments of a message are kept until its last one;
\* control frames may come in between, and must be whole.
OnFrameData(e) ==
  /\ link # "draft76" /\ Runs(e, "data")
  /\ LET f == Current(e)
         p == [Idle(ws[e]) EXCEPT !.read = @ + 1]
         parts == Append(p.fragments, p.read)
         wrong == \/ f.op \in Control /\ ~f.fin
                  \/ f.op = "continuation" /\ p.fragments = <<>>
                  \/ f.op = "text" /\ p.fragments # <<>>
     IN  IF wrong THEN Set(e, Aborted(p)) /\ UNCHANGED <<heard, reader, sent>>
         ELSE IF f.op \in Control THEN HandleMessage(e, p, f.op, <<>>)
         ELSE IF f.fin
         THEN HandleMessage(e, [p EXCEPT !.fragments = <<>>], "text", parts)
         ELSE LET q == [p EXCEPT !.fragments = parts]
              IN  /\ UNCHANGED <<heard, reader, sent>>
                  /\ IF q.client_terminated THEN Set(e, q)
                     ELSE \E r \in Reads(e, q, "start") : Set(e, r)
  /\ UNCHANGED <<link, handler, connect>>

-----------------------------------------------------------------------------
(* Frames of draft 76.                                                     *)

\* The type, then the text up to its delimiter, or the second byte of the end.
OnFrameType ==
  /\ link = "draft76" /\ Runs("server", "start")
  /\ IF Current("server").op = "unknown" THEN Set("server", Aborted(Idle(ws["server"])))
     ELSE \E p \in Reads("server", ws["server"], "data") : Set("server", p)
  /\ UNCHANGED <<link, sent, handler, heard, connect, reader>>

OnEndDelimiter ==
  /\ link = "draft76" /\ Runs("server", "data")
  /\ LET p == [Idle(ws["server"]) EXCEPT !.read = @ + 1]
     IN  IF Current("server").op = "close"
         THEN LET q == [p EXCEPT !.client_terminated = TRUE]
              IN  /\ Write("server", ClosingFrame(q)) /\ Set("server", Closing(q))
                  /\ UNCHANGED <<heard, reader>>
         ELSE /\ UNCHANGED sent
              /\ IF p.client_terminated
                 THEN Set("server", p) /\ UNCHANGED <<heard, reader>>
                 ELSE /\ Deliver("server", <<p.read>>)
                      /\ \/ \E q \in Reads("server", p, "start") : Set("server", q)
                         \/ Set("server", Raised(p))   \* on_message raised
  /\ UNCHANGED <<link, handler, connect>>

-----------------------------------------------------------------------------
(* The end of the connection.                                              *)

\* The other end has closed: what was not read yet may be lost.
NoticeEnd(e) ==
  /\ Tornado(e) /\ ws[e].open /\ ~ws[Peer(e)].open
  /\ ws' = [ws EXCEPT ![e].open = FALSE]
  /\ \E n \in (IF ws[e].due /\ ws[e].reading # "request" THEN ws[e].read + 1
                                                         ELSE ws[e].read)..Len(sent[e]) :
       sent' = [sent EXCEPT ![e] = SubSeq(@, 1, n)]
  /\ UNCHANGED <<link, handler, heard, connect, reader>>

\* The timeout of the closing handshake.
ClosingTimesOut(e) ==
  /\ ws[e].waiting /\ Set(e, Aborted(ws[e]))
  /\ UNCHANGED <<link, sent, handler, heard, connect, reader>>

\* A bug: a connection that was aborted is forgotten, and its user not told.
OnConnectionCloseSilent ==
  /\ ~ws["server"].open /\ ~ws["server"].due /\ ~ws["server"].told
  /\ LET p == [ws["server"] EXCEPT !.told = TRUE]
     IN  IF handler.attached
         THEN /\ Set("server", Aborted(p))
              /\ handler' = [handler EXCEPT !.attached = FALSE,
                               !.on_close = IF p.client_terminated THEN @ ELSE @ + 1]
         ELSE Set("server", p) /\ UNCHANGED handler
  /\ UNCHANGED <<link, sent, heard, connect, reader>>

\* The streams' close callbacks, which wait for the reads that are due.
OnConnectionClose ==
  /\ ~ws["server"].open /\ ~ws["server"].due /\ ~ws["server"].told
  /\ LET p == [ws["server"] EXCEPT !.told = TRUE]
     IN  IF handler.attached
         THEN /\ Set("server", Aborted(p))
              /\ handler' = [handler EXCEPT !.attached = FALSE, !.on_close = @ + 1]
         ELSE Set("server", p) /\ UNCHANGED handler
  /\ UNCHANGED <<link, sent, heard, connect, reader>>

OnClose ==
  /\ link = "tornado"
  /\ ~ws["client"].open /\ ~ws["client"].due /\ ~ws["client"].told
  /\ ws' = [ws EXCEPT !["client"].told = TRUE]
  /\ Deliver("client", <<>>)                           \* None
  /\ UNCHANGED <<link, sent, handler, connect>>

-----------------------------------------------------------------------------
(* The users, and programs that are not this library.                      *)

\* close() of the handler forgets the protocol object.
Close(e) ==
  /\ IF e = "server" THEN handler.attached ELSE link = "tornado" /\ connect = "done"
  /\ Write(e, ClosingFrame(ws[e])) /\ Set(e, Closing(ws[e]))
  /\ handler' = IF e = "server" THEN [handler EXCEPT !.attached = FALSE, !.closed = TRUE]
                                ELSE handler
  /\ UNCHANGED <<link, heard, connect, reader>>

\* write_message and ping: a stream that has closed aborts the former.
WriteMessage(e) ==
  /\ IF e = "server" THEN handler.attached ELSE link = "tornado" /\ connect = "done"
  /\ ws["server"].writes + ws["client"].writes < MaxWrites /\ ws[e].reading # "challenge"
  /\ LET p == [ws[e] EXCEPT !.writes = @ + 1]
     IN  \/ /\ p.open /\ Set(e, p)
            /\ \E op \in {"text"} \cup {x \in {"ping"} : link # "draft76"} :
                 Write(e, <<Frame(op, TRUE)>>)
         \/ /\ ~p.open /\ Set(e, IF link = "draft76" THEN p ELSE Aborted(p))
            /\ UNCHANGED sent
  /\ UNCHANGED <<link, handler, heard, connect, reader>>

ReadMessage ==
  /\ link = "tornado" /\ connect = "done" /\ reader.future = "none"
  /\ IF reader.queue = <<>>
     THEN reader' = [reader EXCEPT !.future = "pending"] /\ UNCHANGED heard
     ELSE /\ reader' = [reader EXCEPT !.queue = Tail(@)]
          /\ heard' = [heard EXCEPT !["client"] = Append(@, Head(reader.queue))]
  /\ UNCHANGED <<link, sent, ws, handler, connect>>

OtherWrites ==
  /\ link # "tornado" /\ ws["client"].open /\ Len(sent["server"]) < MaxFrames
  /\ Len(sent["server"]) - ws["server"].read < MaxAhead
  /\ \E f \in IF link = "other" THEN Frames ELSE Frames76 : Write("client", <<f>>)
  /\ UNCHANGED <<link, ws, handler, heard, connect, reader>>

OtherCloses ==
  /\ link # "tornado" /\ ws["client"].open
  /\ ws' = [ws EXCEPT !["client"].open = FALSE]
  /\ UNCHANGED <<link, sent, handler, heard, connect, reader>>

-----------------------------------------------------------------------------
Reading(e) == \/ OnFrameStart(e) \/ OnFrameLength(e) \/ OnMaskingKey(e)
              \/ OnFrameData(e)

LoopStep == \/ \E e \in Ends : Arrives(e) \/ Reading(e)
            \/ Accept \/ OnChallenge \/ OnHeaders \/ OnFrameType \/ OnEndDelimiter
            \/ OnConnectionClose \/ OnClose

Next == \/ LoopStep \/ Refuse \/ Malformed \/ ConnectTimesOut
        \/ \E e \in Ends : \/ NoticeEnd(e) \/ ClosingTimesOut(e) \/ Close(e)
                           \/ WriteMessage(e)
        \/ ReadMessage \/ OtherWrites \/ OtherCloses

Spec == Init /\ [][Next]_vars

\* The loop goes on, sees the end of a connection, and keeps its timeouts.
FairSpec == /\ Spec /\ WF_vars(LoopStep) /\ WF_vars(ConnectTimesOut)
            /\ \A e \in Ends : WF_vars(NoticeEnd(e)) /\ WF_vars(ClosingTimesOut(e))

-----------------------------------------------------------------------------
(* Properties.                                                             *)

\* The frames s by RFC 6455: the data frames, those that end a message, and the
\* frames of the message that j ends.
Data(s) == {i \in DOMAIN s : s[i].op \in {"text", "continuation"}}
Finals(s) == {i \in Data(s) : s[i].fin}
Parts(s, j) == {i \in Data(s) : i <= j /\ \A k \in Finals(s) : i <= k => j <= k}

\* A text frame begins a message, when those before it have ended; others go on.
Proper(s, i) ==
  /\ s[i].kind = "good"
  /\ IF i \in Data(s)
     THEN (s[i].op = "text") =
            (\A k \in Data(s) : k < i => \E j \in Finals(s) : k <= j /\ j < i)
     ELSE s[i].fin /\ s[i].op \in {"ping", "pong", "101"}

\* The ends of the messages before which nothing is wrong.
Messages(s) == {j \in Finals(s) : \A i \in 1..j : Proper(s, i)}

\* m is the numbers of the frames of one of them, in their order.
Ended(m) == m[Len(m)]
Whole(s, m) ==
  /\ m # <<>> /\ \A i, j \in DOMAIN m : i < j => m[i] < m[j]
  /\ Ended(m) \in Messages(s) /\ Range(m) = Parts(s, Ended(m))

\* What the user of an end was given or can read, where the client's None is no
\* message.
Given(e) == heard[e] \o (IF e = "client" THEN reader.queue ELSE <<>>)
Told(e) == {n \in DOMAIN Given(e) : e = "server" \/ Given(e)[n] # <<>>}

\* Whatever comes between the fragments, at whatever time: what an end hands to
\* its user are the messages that were sent to it, whole, in their order, and up to
\* the last of them without a gap.
MessagesAreWhole ==
  \A e \in Ends :
    /\ \A n \in Told(e) : Whole(sent[e], Given(e)[n])
    /\ \A n, k \in Told(e) : n < k => Ended(Given(e)[n]) < Ended(Given(e)[k])
    /\ \A n \in Told(e) : \A j \in Messages(sent[e]) :
         j <= Ended(Given(e)[n]) => \E k \in Told(e) : Ended(Given(e)[k]) = j

\* Whoever closes first, and whatever is still on its way: behind its closing frame
\* the server writes nothing but the answers to pings.  A handler that has called
\* close() has no connection any more (websocket.py:214), and the answer to the
\* client's closing frame closes the stream (websocket.py:752).
ClosingFrameIsLast ==
  \A i, j \in DOMAIN sent["client"] :
    i < j /\ sent["client"][i].op = "close" => sent["client"][j].op = "pong"

\* Once the other end's closing frame was read, or the connection was aborted,
\* even while a read was on its way to its callback: no message any more.
NothingAfterTheEnd ==
  [][heard'["server"] # heard["server"] => ~ws["server"].client_terminated]_vars

\* The closing handshake ends: a side that closes is closed, answered or not.
ClosingEnds ==
  \A e \in Ends : ws[e].server_terminated ~> ~ws[e].open

\* The user learns of the end (websocket.py:270-274): on_close is called, unless
\* the handler itself has called close() by then; and a message that is waited for
\* becomes None.
EndIsTold ==
  /\ (handler.attached /\ ~ws["server"].open) ~> handler.on_close = 1 \/ handler.closed
  /\ (reader.future = "pending" /\ ~ws["client"].open /\ ~ws["client"].told)
       ~> reader.future = "none"
=============================================================================
