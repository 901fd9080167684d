----------------------------- MODULE Connections ------------------------------
(***************************************************************************)
(* The ends of a connection, over the stream: the server's HTTP connection *)
(* (module HTTPConnection), a WebSocket (WebSocket), and the transfers     *)
(* that libcurl makes for its client (CurlHTTPClient).  They share nothing *)
(* and are checked side by side, as one specification.                     *)
(***************************************************************************)
EXTENDS Integers, Sequences

CONSTANTS MaxSent, MaxBuffer, MaxRoom, MaxWrite, MaxFlushes,
          Links, MaxFrames, MaxAhead, MaxWrites,
          Requests, Bad, MaxClients, Fds

ASSUME ConnectionsAssumption ==
  /\ MaxSent \in Nat /\ MaxBuffer \in Nat /\ MaxBuffer > MaxSent
  /\ MaxRoom \in Nat \ {0} /\ MaxWrite \in Nat \ {0} /\ MaxFlushes \in Nat
  /\ Links \subseteq {"tornado", "other", "draft76"}
  /\ MaxFrames \in Nat /\ MaxAhead \in Nat /\ MaxWrites \in Nat
  /\ Bad \subseteq Requests /\ MaxClients \in Nat \ {0}

VARIABLES
  connection,   \* "http", "websocket" or "curl"
  s, inCb, batch, c, user, handler, flushes,
  link, sent, ws, wsHandler, heard, connect, reader,
  requests, free, running, done, doing, timeout, fds, answered, raised

HTTP == INSTANCE HTTPConnection
Socket == INSTANCE WebSocket WITH handler <- wsHandler
Curl == INSTANCE CurlHTTPClient

httpVars == <<s, inCb, batch, c, user, handler, flushes>>
socketVars == <<link, sent, ws, wsHandler, heard, connect, reader>>
curlVars == <<requests, free, running, done, doing, timeout, fds, answered, raised>>
vars == <<connection, httpVars, socketVars, curlVars>>

Init ==
  /\ connection \in {"http", "websocket", "curl"}
  /\ HTTP!Init /\ Socket!Init /\ Curl!Init
  /\ connection # "websocket" => link = CHOOSE l \in Links : TRUE

Next ==
  /\ UNCHANGED connection
  /\ \/ connection = "http" /\ HTTP!Next /\ UNCHANGED <<socketVars, curlVars>>
     \/ connection = "websocket" /\ Socket!Next /\ UNCHANGED <<httpVars, curlVars>>
     \/ connection = "curl" /\ Curl!Next /\ UNCHANGED <<httpVars, socketVars>>

\* The fairness of the parts' modules, for the part that runs.  (An HTTP connection
\* that nobody uses has nothing to do.)
Spec ==
  /\ Init /\ [][Next]_vars
  /\ HTTP!Fairness
  /\ WF_socketVars(connection = "websocket" /\ Socket!LoopStep)
  /\ WF_socketVars(connection = "websocket" /\ Socket!ConnectTimesOut)
  /\ \A e \in Socket!Ends :
       /\ WF_socketVars(connection = "websocket" /\ Socket!NoticeEnd(e))
       /\ WF_socketVars(connection = "websocket" /\ Socket!ClosingTimesOut(e))
  /\ WF_curlVars(connection = "curl" /\ Curl!FinishPendingRequests)
  /\ \A r \in Requests : WF_curlVars(connection = "curl" /\ Curl!Finish(r))
  /\ []<>(connection = "curl" => doing = "force")
  /\ \A r \in Requests : []<>(r \in running => r \in done)

-----------------------------------------------------------------------------
(* The parts' properties; the modules state them.                          *)

\* A request is taken up when every byte of the response before it is out.
ResponsesAreOut == HTTP!ResponsesAreOut

\* A request that has arrived is handled, or the connection ends.
RequestsAreServed == HTTP!RequestsAreServed

\* What a user hears are the messages that were sent, whole and in order.
MessagesAreWhole == Socket!MessagesAreWhole

\* Nothing but pongs follows the server's closing frame.
ClosingFrameIsLast == Socket!ClosingFrameIsLast

\* A side that closes its WebSocket is closed.
ClosingEnds == Socket!ClosingEnds

\* The users of both ends learn that the connection is gone.
EndIsTold == Socket!EndIsTold

\* Fetches by way of libcurl end, also behind one that cannot be set up.
CurlFetchesEnd == Curl!CurlFetchesEnd
=============================================================================
