----------------------------- MODULE Connection -----------------------------
(***************************************************************************)
(* classes/Connection.ts with classes/Channel0.ts and services/Heartbeat.ts*)
(* : one use of a Connection, from start() over the retries, the handshake *)
(* and the heartbeats to the end of its socket, against an AMQP server.    *)
(*                                                                         *)
(* closeAll() here only succeeds or rejects: Session adds the channels, and*)
(* fairness.  An action is one turn of the event loop.                     *)
(***************************************************************************)
EXTENDS Naturals, Sequences

CONSTANTS
  maxRetries,       \* connects that one start() may make
  MayRefuse,        \* the server may refuse the user or the virtual host
  MayDrop,          \* the connection may break
  MayClose,         \* the server may close the connection
  MayFail,          \* the command reader may fail
  MayTimeOut,       \* the socket may time out (params.timeout is set)
  MayMiss,          \* a connect may fail otherwise than refused
  MayStall,         \* what the channels write may back up the way to the socket
  MayWedge          \* or make the encoder throw, which the command writer does not survive

ASSUME ConnectionAssumption ==
  /\ maxRetries \in Nat \ {0}
  /\ {MayRefuse, MayDrop, MayClose, MayFail, MayTimeOut, MayMiss, MayStall, MayWedge}
       \subseteq BOOLEAN

VARIABLES
  state,        \* connection_state
  attempts,     \* connection_attempts
  retry,        \* the retry_timeout is set
  socket,       \* the current socket
  started,      \* the promise of start()
  expects,      \* once('method:10:x') listeners of Channel0
  heard,        \* once listeners of Connection on Channel0
  beating,      \* the interval of heartbeat_service runs
  reading,      \* the command reader has not failed
  closer,       \* what the coroutine of close() awaits
  pipe,         \* the way of a command to the socket, through Channel0's stream, the
                \* command writer and the pipe: "flowing", "stalled" or "stuck"
  queued,       \* commands of Channel0 that it holds up
  heldUp,       \* (history) among them the answer to the server's close
  c2s, s2c,     \* commands under way, and the end of the stream ("fin")
  srv,          \* the server's side of the connection
  abrupt,       \* (history) the server has seen the client's end of the stream
                \* where its close-ok was due
  upset         \* (history) what went wrong, if anything

way == <<pipe, queued, heldUp>>
client == <<state, attempts, retry, socket, started, expects, heard, beating, reading, closer, way>>
vars == <<client, c2s, s2c, srv, abrupt, upset>>

Init ==
  /\ state = "closed" /\ attempts = 0 /\ retry = FALSE
  /\ socket = "none" /\ started = "none"
  /\ expects = {} /\ heard = {} /\ beating = FALSE /\ reading = TRUE
  /\ closer = "none"
  /\ pipe = "flowing" /\ queued = <<>> /\ heldUp = FALSE
  /\ c2s = <<>> /\ s2c = <<>> /\ srv = "none"
  /\ abrupt = FALSE /\ upset = {}

-----------------------------------------------------------------------------
\* Of the commands that Channel0 writes while the socket is open for writing: what gets
\* there in the same turn, and what is held up.
Passed(ms) == IF socket = "connected" /\ pipe = "flowing" THEN ms ELSE <<>>
Held(ms) == IF socket = "connected" /\ pipe # "flowing" THEN ms ELSE <<>>

Write(ms) ==
  /\ c2s' = c2s \o Passed(ms)
  /\ queued' = queued \o Held(ms)

\* socket.end(), which does not go that way.
End == IF socket = "connected" THEN <<"fin">> ELSE <<>>

\* Mutant: only the number of attempts counts.
OnlyAttempts == IF attempts = maxRetries THEN "closed" ELSE state

\* The state that onSockClose leaves.
AfterSockClose ==
  IF attempts = maxRetries \/ state = "closing" THEN "closed" ELSE state

\* Mutant: the interval goes on.
KeepBeating == UNCHANGED beating

\* heartbeat_service.destroy()
StopBeating == beating' = FALSE

\* 'close' of the socket: onSockClose.
SockClose ==
  /\ socket' = "gone"
  /\ state' = AfterSockClose
  /\ StopBeating

\* tryStart()
TryStart(n) ==
  /\ attempts' = n
  /\ retry' = FALSE
  /\ state' = "connecting"
  /\ socket' = "connecting"

\* start(), once.
Start ==
  /\ started = "none"
  /\ started' = "pending"
  /\ TryStart(1)
  /\ UNCHANGED <<expects, heard, beating, reading, closer, way, c2s, s2c, srv, abrupt,
                 upset>>

\* Mutants: one attempt too many; the promise is forgotten.
OnceMore == attempts <= maxRetries /\ state = "connecting"
Forget == UNCHANGED started

\* The condition of onSockError for another attempt.
CanRetry == attempts < maxRetries /\ state = "connecting"

\* open_promise_reject(), which changes nothing once the promise is settled.
Reject == started' = IF started = "pending" THEN "rejected" ELSE started

\* ECONNREFUSED, and the 'close' that follows it in the same turn.
ConnectionRefused ==
  /\ socket = "connecting"
  /\ \/ CanRetry /\ retry' = TRUE /\ UNCHANGED started
     \/ ~CanRetry /\ Reject /\ UNCHANGED retry
  /\ SockClose
  /\ UNCHANGED <<attempts, expects, heard, reading, closer, way, c2s, s2c, srv, abrupt,
                 upset>>

\* Any other error of the connect (no such host, no route, no answer), and the 'close' that
\* follows it: there is no retry, and the promise is not settled.
ConnectFails ==
  /\ MayMiss
  /\ socket = "connecting"
  /\ SockClose
  /\ upset' = upset \union {"unreachable"}
  /\ UNCHANGED <<attempts, retry, started, expects, heard, reading, closer, way, c2s, s2c, srv,
                 abrupt>>

\* The retry timer: cleanup() and tryStart().
RetryTimer ==
  /\ retry
  /\ TryStart(attempts + 1)
  /\ UNCHANGED <<started, expects, heard, beating, reading, closer, way, c2s, s2c, srv,
                 abrupt, upset>>

\* onSockConnect
SockConnect ==
  /\ socket = "connecting"
  /\ socket' = "connected"
  /\ state' = "handshake"
  /\ expects' = expects \union {"start"}
  /\ heard' = heard \union {"tune", "open"}
  /\ c2s' = <<"header">>
  /\ UNCHANGED <<attempts, retry, started, beating, reading, closer, way, s2c, srv, abrupt,
                 upset>>

-----------------------------------------------------------------------------
(***************************************************************************)
(* Commands of the server, for those Channel0 has a listener.              *)
(***************************************************************************)
\* startOk
OnStart ==
  /\ expects' = (expects \ {"start"}) \union {"tune"}
  /\ Write(<<"startOk">>)
  /\ UNCHANGED <<state, socket, started, heard, beating, closer, heldUp>>

\* Mutant: no listener for the server's close in the handshake.
OnlyOpenOk == {"openOk"}

\* The commands expected after connection.open.
AfterTune == {"openOk", "close"}

\* onTune of Channel0, heard by onTune of Connection: heartbeats begin (at a rate
\* greater than 0).
OnTune ==
  /\ expects' = (expects \ {"tune"}) \union AfterTune
  /\ heard' = heard \ {"tune"}
  /\ beating' = (beating \/ "tune" \in heard)
  /\ Write(<<"tuneOk", "open">>)
  /\ UNCHANGED <<state, socket, started, closer, heldUp>>

\* onOpenOk, heard by onOpen, which resolves start().
OnOpenOk ==
  /\ expects' = expects \ {"openOk"}
  /\ \/ /\ "open" \in heard
        /\ state' = "open"
        /\ started' = IF started = "pending" THEN "resolved" ELSE started
        /\ heard' = (heard \ {"open"}) \union {"closing"}
     \/ /\ "open" \notin heard
        /\ UNCHANGED <<state, started, heard>>
  /\ UNCHANGED <<socket, beating, closer, queued, heldUp, c2s>>

\* Mutant: the events are emitted before the answer is written.
EndFirst ==
  /\ c2s' = c2s \o End \o Passed(<<"closeOk">>)
  /\ queued' = queued \o Held(<<"closeOk">>)

\* Channel0 writes the answer to the close, and then its 'channelClose' ends the socket.
AnswerAndEnd ==
  /\ c2s' = c2s \o Passed(<<"closeOk">>) \o End
  /\ queued' = queued \o Held(<<"closeOk">>)

\* _closeConnection.
EndSocket == socket' = IF socket = "connected" THEN "ended" ELSE socket

\* Channel0.onClose, heard by Connection.onClose if the connection is or was open;
\* before that the close is answered and nothing else.
OnClose ==
  /\ expects' = expects \ {"close"}
  /\ \/ /\ "closing" \in heard
        /\ heard' = heard \ {"closing"}
        /\ state' = "closing"
        /\ AnswerAndEnd
        /\ EndSocket
     \/ /\ "closing" \notin heard
        /\ Write(<<"closeOk">>)
        /\ UNCHANGED <<state, socket, heard>>
  /\ heldUp' = (heldUp \/ pipe # "flowing")
  /\ UNCHANGED <<started, beating, closer>>

\* The promise of Channel0.close() is resolved, and close() ends the socket.
OnCloseOk ==
  /\ expects' = expects \ {"closeOk"}
  /\ closer' = "ending"
  /\ c2s' = c2s \o End
  /\ EndSocket
  /\ UNCHANGED <<state, started, heard, beating, queued, heldUp>>

RecvCommand ==
  /\ socket \in {"connected", "ended"} /\ reading
  /\ s2c # <<>> /\ Head(s2c) # "fin"
  /\ s2c' = Tail(s2c)
  /\ LET m == Head(s2c)
     IN  \/ m \notin expects /\ UNCHANGED <<client, c2s>>
         \/ /\ m \in expects
            /\ \/ m = "start" /\ OnStart
               \/ m = "tune" /\ OnTune
               \/ m = "openOk" /\ OnOpenOk
               \/ m = "close" /\ OnClose
               \/ m = "closeOk" /\ OnCloseOk
            /\ UNCHANGED <<attempts, retry, reading, pipe>>
  /\ UNCHANGED <<srv, abrupt, upset>>

\* The stream of the server ends: so does the socket.
RecvEnd ==
  /\ socket \in {"connected", "ended"} /\ reading
  /\ s2c # <<>> /\ Head(s2c) = "fin"
  /\ s2c' = <<>>
  /\ SockClose
  /\ UNCHANGED <<attempts, retry, started, expects, heard, reading, closer, way, c2s, srv, abrupt,
                 upset>>

\* All is written: the callback of end() destroys the socket.
SocketFinishes ==
  /\ socket = "ended"
  /\ SockClose
  /\ UNCHANGED <<attempts, retry, started, expects, heard, reading, closer, way, c2s, s2c, srv,
                 abrupt, upset>>

\* Once the reader has failed nobody reads the socket: that the server has gone shows when
\* a heartbeat is written to it.
SocketBreaks ==
  /\ socket \in {"connected", "ended"} /\ ~reading
  /\ srv = "gone" /\ beating
  /\ SockClose
  /\ UNCHANGED <<attempts, retry, started, expects, heard, reading, closer, way, c2s, s2c, srv,
                 abrupt, upset>>

-----------------------------------------------------------------------------
(***************************************************************************)
(* The way to the socket (CommandWriter): what the channels publish can    *)
(* hold up the commands of Channel0.                                       *)
(***************************************************************************)
\* The channels have published more than the socket takes: the pipe has paused the writer,
\* the writer is at a long command, or its 'drain' is awaited.
Stall ==
  /\ MayStall
  /\ pipe = "flowing" /\ socket = "connected" /\ started = "resolved"
  /\ pipe' = "stalled"
  /\ UNCHANGED <<state, attempts, retry, socket, started, expects, heard, beating, reading, closer,
                 queued, heldUp, c2s, s2c, srv, abrupt, upset>>

\* The kernel has taken it: so it does what was held up, unless the socket has been ended
\* before (the writer's output is then an error).
Unstall ==
  /\ pipe = "stalled" /\ socket \in {"connected", "ended"}
  /\ pipe' = "flowing"
  /\ c2s' = IF socket = "connected" THEN c2s \o queued ELSE c2s
  /\ queued' = <<>>
  /\ UNCHANGED <<state, attempts, retry, socket, started, expects, heard, beating, reading, closer,
                 heldUp, s2c, srv, abrupt, upset>>

\* The encoder throws at a command of a channel: the writer never gets to the next command.
Wedge ==
  /\ MayWedge
  /\ pipe # "stuck" /\ socket = "connected" /\ started = "resolved"
  /\ pipe' = "stuck"
  /\ upset' = upset \union {"wedged"}
  /\ UNCHANGED <<state, attempts, retry, socket, started, expects, heard, beating, reading, closer,
                 queued, heldUp, c2s, s2c, srv, abrupt>>

\* onSockTimeout: the promise is rejected, and everything else goes on.
SockTimeout ==
  /\ MayTimeOut
  /\ socket \in {"connected", "ended"}
  /\ Reject
  /\ UNCHANGED <<state, attempts, retry, socket, expects, heard, beating, reading, closer,
                 way, c2s, s2c, srv, abrupt, upset>>

-----------------------------------------------------------------------------
(***************************************************************************)
(* close(): in full on an open connection, and else only a change of state *)
(* which the next event of the handshake undoes.                           *)
(***************************************************************************)
\* close() up to its first await.
BeginClose ==
  /\ state' = IF state = "closed" THEN state ELSE "closing"
  /\ retry' = (retry /\ state \in {"closed", "closing"})
  /\ closer' = IF state = "open" THEN "channels" ELSE closer

\* The application closes (again, this does nothing).
Close ==
  /\ state \notin {"closed", "closing"}
  /\ BeginClose
  /\ upset' = IF retry THEN upset \union {"abandoned"} ELSE upset
  /\ UNCHANGED <<attempts, socket, started, expects, heard, beating, reading, way, c2s, s2c,
                 srv, abrupt>>

\* The command reader fails, and its 'error' closes the connection.
ReaderFails ==
  /\ MayFail
  /\ socket \in {"connected", "ended"} /\ reading
  /\ reading' = FALSE
  /\ BeginClose
  /\ upset' = upset \union {"unread"}
  /\ UNCHANGED <<attempts, socket, started, expects, heard, beating, way, c2s, s2c, srv, abrupt>>

\* closeAll() rejects, or there is no connection any more to write to: close() rejects.
CloseFails ==
  /\ closer = "channels"
  /\ closer' = "failed"
  /\ UNCHANGED <<state, attempts, retry, socket, started, expects, heard, beating, reading,
                 way, c2s, s2c, srv, abrupt, upset>>

\* expectCommand(CONNECTION_CLOSE_OK, ...)
ExpectCloseOk == expects' = expects \union {"closeOk"}

\* All channels are closed: Channel0.close(), if sendCommand does not throw.
CloseChannel0 ==
  /\ closer = "channels" /\ state # "closed"
  /\ closer' = "closeOk"
  /\ Write(<<"close">>)
  /\ ExpectCloseOk
  /\ UNCHANGED <<state, attempts, retry, socket, started, heard, beating, reading, pipe,
                 heldUp, s2c, srv, abrupt, upset>>

\* The callback of end() has been called.
CloseEnds ==
  /\ closer = "ending" /\ socket = "gone"
  /\ closer' = "done"
  /\ UNCHANGED <<state, attempts, retry, socket, started, expects, heard, beating, reading,
                 way, c2s, s2c, srv, abrupt, upset>>

-----------------------------------------------------------------------------
(***************************************************************************)
(* The server and the network (external).                                  *)
(***************************************************************************)
Answer(ms, next) == s2c' = s2c \o ms /\ srv' = next

ServerTakes(m) ==
  \/ m = "header" /\ Answer(<<"start">>, "handshake") /\ UNCHANGED <<abrupt, upset>>
  \/ m = "startOk" /\ Answer(<<"tune">>, "handshake") /\ UNCHANGED <<abrupt, upset>>
  \/ /\ m = "startOk" /\ MayRefuse
     /\ Answer(<<"fin">>, "gone") /\ upset' = upset \union {"refused"} /\ UNCHANGED abrupt
  \/ m = "tuneOk" /\ UNCHANGED <<s2c, srv, abrupt, upset>>
  \/ m = "open" /\ Answer(<<"openOk">>, "open") /\ UNCHANGED <<abrupt, upset>>
  \/ /\ m = "open" /\ MayRefuse
     /\ Answer(<<"close">>, "closing") /\ upset' = upset \union {"refused"}
     /\ UNCHANGED abrupt
  \/ m = "close" /\ srv = "open" /\ Answer(<<"closeOk", "fin">>, "gone")
     /\ UNCHANGED <<abrupt, upset>>
  \/ m = "close" /\ srv = "closing" /\ Answer(<<"closeOk">>, "closing")
     /\ UNCHANGED <<abrupt, upset>>
  \/ m = "closeOk" /\ srv = "closing" /\ Answer(<<"fin">>, "gone")
     /\ UNCHANGED <<abrupt, upset>>
  \/ m = "fin" /\ srv' = "gone" /\ abrupt' = (srv = "closing") /\ UNCHANGED <<s2c, upset>>

ServerStep ==
  /\ c2s # <<>>
  /\ c2s' = Tail(c2s)
  /\ \/ srv = "gone" /\ UNCHANGED <<s2c, srv, abrupt, upset>>
     \/ srv # "gone" /\ ServerTakes(Head(c2s))
  /\ UNCHANGED client

ServerCloses ==
  /\ MayClose
  /\ srv = "open"
  /\ Answer(<<"close">>, "closing")
  /\ upset' = upset \union {"serverClose"}
  /\ UNCHANGED <<client, c2s, abrupt>>

Drop ==
  /\ MayDrop
  /\ socket = "connected" /\ srv # "gone"
  /\ Answer(<<"fin">>, "gone")
  /\ upset' = upset \union {"drop"}
  /\ UNCHANGED <<client, c2s, abrupt>>

Next ==
  \/ Start \/ ConnectionRefused \/ ConnectFails \/ RetryTimer \/ SockConnect
  \/ Stall \/ Unstall \/ Wedge
  \/ RecvCommand \/ RecvEnd \/ SocketFinishes \/ SocketBreaks \/ SockTimeout
  \/ Close \/ ReaderFails \/ CloseFails \/ CloseChannel0 \/ CloseEnds
  \/ ServerStep \/ ServerCloses \/ Drop

Spec == Init /\ [][Next]_vars

-----------------------------------------------------------------------------
ServerCommands == {"start", "tune", "openOk", "close", "closeOk"}
ToClient == ServerCommands \union {"fin"}
ClientCommands == {"header", "startOk", "tuneOk", "open", "close", "closeOk"}
ToServer == ClientCommands \union {"fin"}

FlagsTypeOK ==
  /\ retry \in BOOLEAN /\ beating \in BOOLEAN /\ reading \in BOOLEAN
  /\ heldUp \in BOOLEAN /\ abrupt \in BOOLEAN

\* Every variable has its type; in particular one start() connects at most maxRetries
\* times.
TypeOK ==
  /\ state \in {"closed", "connecting", "handshake", "open", "closing"}
  /\ attempts \in 0 .. maxRetries
  /\ FlagsTypeOK
  /\ socket \in {"none", "connecting", "connected", "ended", "gone"}
  /\ started \in {"none", "pending", "resolved", "rejected"}
  /\ expects \subseteq ServerCommands
  /\ heard \subseteq {"tune", "open", "closing"}
  /\ closer \in {"none", "channels", "closeOk", "ending", "done", "failed"}
  /\ pipe \in {"flowing", "stalled", "stuck"}
  /\ queued \in Seq(ClientCommands)
  /\ c2s \in Seq(ToServer)
  /\ s2c \in Seq(ToClient)
  /\ srv \in {"none", "handshake", "open", "closing", "gone"}
  /\ upset \subseteq {"refused", "unreachable", "drop", "serverClose", "unread", "abandoned",
                      "wedged"}

\* The client sends heartbeats as long as an open connection has its socket, and the
\* interval never outlives the socket (it would keep the process alive for ever).
HeartbeatFollowsSocket ==
  /\ state = "open" /\ socket = "connected" => beating
  /\ beating => socket \in {"connected", "ended"}

\* When the socket is gone for good the state is "closed", or the connection was lost
\* before its retries were used up: the code only retries a refused connect.
StateFollowsSocket ==
  /\ socket = "gone" /\ ~retry =>
       state = "closed" \/ (attempts < maxRetries /\ upset # {})
  /\ state = "closed" => socket \in {"none", "gone"}

\* A close of the server is answered before the client's stream ends, also when both
\* sides close at the same time and whatever else goes wrong, with one exception: when
\* Channel0 answers while the way to the socket is held up, _closeConnection ends the
\* socket before the answer gets there.
AnsweredBeforeEnd == abrupt => heldUp

\* start() resolves or rejects, however many connects are refused and although close() is
\* called before the connection is open.  The exceptions: that is while a retry is due, a
\* connect fails otherwise than refused (onSockError then does nothing), the server refuses
\* the login, closes or drops the connection in the handshake, or the reader fails.
StartSettles == started = "pending" ~> started # "pending" \/ upset # {}

\* A connection that the server closes, in the handshake or later, loses its socket, unless
\* nobody reads its close.
ServerCloseEndsSocket == srv = "closing" ~> socket = "gone" \/ ~reading
=============================================================================
