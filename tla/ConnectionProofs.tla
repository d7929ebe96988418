-------------------------- MODULE ConnectionProofs --------------------------
(***************************************************************************)
(* The invariants of Connection for any number of retries, whatever the    *)
(* server and the network do.                                              *)
(*                                                                         *)
(* HeartbeatFollowsSocket and StateFollowsSocket are not inductive.  The   *)
(* first needs the order of the handshake, as the once() listeners keep it *)
(* (Listeners).  The second needs that a socket which is ended, or whose   *)
(* stream has ended, was closed by somebody (Phases, Calm).                *)
(* AnsweredBeforeEnd needs what the close of both sides has under way at   *)
(* each time as long as no answer has been held up (Answering).            *)
(*                                                                         *)
(* At the end: Session, a connection with its channels, implements         *)
(* Connection.                                                             *)
(***************************************************************************)
EXTENDS Session, TLAPS, SequenceTheorems

\* Nothing has happened before start().
Untouched ==
  /\ started = "none" <=> socket = "none"
  /\ started = "none" =>
       /\ state = "closed" /\ ~retry /\ closer = "none"
       /\ expects = {} /\ heard = {}
       /\ c2s = <<>> /\ s2c = <<>> /\ srv = "none" /\ queued = <<>>

\* The state of the connection fits that of its socket while there is one, and a retry
\* is only due after a refused connect that was not the last.
Phases ==
  /\ retry => state = "connecting" /\ socket = "gone" /\ attempts < maxRetries
  /\ retry \/ socket = "connecting" => expects = {} /\ heard = {} /\ closer = "none"
  /\ socket = "connecting" => state \in {"connecting", "closing"}
  /\ state = "connecting" => retry \/ socket \in {"connecting", "gone"}
  /\ socket = "connected" => state \in {"handshake", "open", "closing"}
  /\ socket = "ended" => state = "closing"
  /\ closer # "none" \/ "closeOk" \in expects => state \in {"closing", "closed"}

\* Connection hears tune once, before open-ok; and open-ok once, before the server's
\* close or the application's can end the connection.
Listeners ==
  /\ socket \in {"connected", "ended"} => "tune" \in heard \/ beating
  /\ "openOk" \in expects \/ state = "open" => "tune" \notin heard
  /\ "open" \in heard => state # "open" /\ closer = "none" /\ "closing" \notin heard
  /\ "open" \in heard => socket # "ended"
  /\ "closeOk" \in expects => closer # "none"

OpeningCommands == {"header", "startOk", "tuneOk", "open"}
OpeningAnswers == {"start", "tune", "openOk"}

\* As long as nothing has gone wrong and nobody has closed the connection, only commands
\* of the handshake are under way, and not the end of a stream; and a reader that has failed
\* is remembered.
Calm ==
  /\ ~reading => "unread" \in upset
  /\ upset = {} /\ closer = "none" =>
       /\ c2s \in Seq(OpeningCommands) /\ queued \in Seq(OpeningCommands)
       /\ s2c \in Seq(OpeningAnswers)

IInv ==
  /\ TypeOK /\ HeartbeatFollowsSocket /\ StateFollowsSocket
  /\ Untouched /\ Phases /\ Listeners /\ Calm

\* The Boolean variables stay Boolean.
LEMMA FlagsInvariant == FlagsTypeOK /\ [Next]_vars => FlagsTypeOK'
<1> SUFFICES ASSUME FlagsTypeOK, [Next]_vars PROVE FlagsTypeOK'
  OBVIOUS
<1> USE DEF FlagsTypeOK
<1>1. CASE Start \/ RetryTimer \/ SockConnect
  BY <1>1 DEF Start, RetryTimer, SockConnect, TryStart, way
<1>2. CASE ConnectionRefused \/ ConnectFails \/ RecvEnd \/ SocketFinishes \/ SocketBreaks
  BY <1>2 DEF ConnectionRefused, ConnectFails, RecvEnd, SocketFinishes, SocketBreaks, SockClose,
              StopBeating, way
<1>3. CASE RecvCommand
  <2>1. UNCHANGED <<abrupt, retry, reading>>
    BY <1>3 DEF RecvCommand, client
  <2>3. heldUp' = heldUp \/ heldUp' = (heldUp \/ pipe # "flowing")
    BY <1>3 DEF RecvCommand, client, way, OnStart, OnTune, OnOpenOk, OnClose, OnCloseOk
  <2>2. beating' = beating \/ beating' = (beating \/ "tune" \in heard)
    BY <1>3 DEF RecvCommand, client, OnStart, OnTune, OnOpenOk, OnClose, OnCloseOk
  <2> QED BY <2>1, <2>2, <2>3
<1>4. CASE SockTimeout \/ CloseFails \/ CloseChannel0 \/ CloseEnds
  BY <1>4 DEF SockTimeout, CloseFails, CloseChannel0, CloseEnds, way
<1>7. CASE Close \/ ReaderFails
  BY <1>7 DEF Close, ReaderFails, BeginClose, way
<1>5. CASE ServerStep
  BY <1>5 DEF ServerStep, ServerTakes, client, way
<1>6. CASE ServerCloses \/ Drop \/ UNCHANGED vars
  BY <1>6 DEF ServerCloses, Drop, vars, client, way
<1>8. CASE Stall \/ Unstall \/ Wedge
  BY <1>8 DEF Stall, Unstall, Wedge
<1> QED BY <1>1, <1>2, <1>3, <1>4, <1>5, <1>6, <1>7, <1>8 DEF Next

\* What is written at once consists of commands of the client, in the handshake of the
\* opening ones; and the same of the server.
LEMMA Literals ==
  /\ OpeningCommands \subseteq ToServer /\ OpeningAnswers \subseteq ToClient
  /\ {<<"header">>, <<"startOk">>, <<"tuneOk", "open">>} \subseteq Seq(OpeningCommands)
  /\ {<<"header">>, <<"startOk">>, <<"tuneOk", "open">>, <<"close">>, <<"closeOk">>}
       \subseteq Seq(ClientCommands) \intersect Seq(ToServer)
  /\ <<"fin">> \in Seq(ToServer)
  /\ {<<"start">>, <<"tune">>, <<"openOk">>} \subseteq Seq(OpeningAnswers)
  /\ {<<"start">>, <<"tune">>, <<"openOk">>, <<"close">>, <<"closeOk">>, <<"fin">>,
       <<"closeOk", "fin">>} \subseteq Seq(ToClient)
BY DEF OpeningCommands, OpeningAnswers, ToServer, ToClient, ClientCommands, ServerCommands

\* Taking the first of the commands under way leaves a sequence of such commands.
LEMMA FirstAndRest ==
  ASSUME NEW S, NEW s \in Seq(S), s # <<>>
  PROVE  Head(s) \in S /\ Tail(s) \in Seq(S)
OBVIOUS

\* What Channel0 writes keeps c2s and what is held up sequences of what they consist of.
LEMMA WriteType ==
  ASSUME NEW S, NEW T, c2s \in Seq(S), queued \in Seq(T), NEW ms, ms \in Seq(S), ms \in Seq(T),
         Write(ms)
  PROVE  c2s' \in Seq(S) /\ queued' \in Seq(T)
<1>1. Passed(ms) \in Seq(S) /\ Held(ms) \in Seq(T)
  BY DEF Passed, Held
<1> QED BY <1>1 DEF Write

\* So does the answer to a close with the end of the stream, and the end alone.
LEMMA EndType ==
  ASSUME c2s \in Seq(ToServer), queued \in Seq(ClientCommands)
  PROVE  /\ AnswerAndEnd => c2s' \in Seq(ToServer) /\ queued' \in Seq(ClientCommands)
         /\ c2s \o End \in Seq(ToServer)
<1>1. /\ Passed(<<"closeOk">>) \in Seq(ToServer) /\ Held(<<"closeOk">>) \in Seq(ClientCommands)
      /\ End \in Seq(ToServer)
  BY Literals DEF Passed, Held, End
<1>2. /\ c2s \o Passed(<<"closeOk">>) \in Seq(ToServer)
      /\ queued \o Held(<<"closeOk">>) \in Seq(ClientCommands)
      /\ c2s \o End \in Seq(ToServer)
  BY <1>1
<1>3. (c2s \o Passed(<<"closeOk">>)) \o End \in Seq(ToServer)
  BY <1>1, <1>2
<1>4. AnswerAndEnd => c2s' \in Seq(ToServer) /\ queued' \in Seq(ClientCommands)
  BY <1>2, <1>3, Zenon DEF AnswerAndEnd
<1> QED BY <1>2, <1>4

\* The same of what the server answers.
LEMMA AnswerType ==
  ASSUME NEW S, s2c \in Seq(S), NEW ms \in Seq(S), NEW next, Answer(ms, next)
  PROVE  s2c' \in Seq(S) /\ srv' = next
BY DEF Answer

\* A step of the server or the network keeps the invariant if it sends what it may send
\* and only adds to what has gone wrong.
LEMMA PeerIInv ==
  ASSUME IInv, FlagsTypeOK', UNCHANGED client, started # "none",
         c2s' \in Seq(ToServer),
         s2c' \in Seq(ToClient),
         srv' \in {"none", "handshake", "open", "closing", "gone"},
         upset \subseteq upset',
         upset' \subseteq {"refused", "unreachable", "drop", "serverClose", "unread", "abandoned",
                              "wedged"},
         upset' = {} /\ c2s \in Seq(OpeningCommands) /\ s2c \in Seq(OpeningAnswers) =>
           c2s' \in Seq(OpeningCommands) /\ s2c' \in Seq(OpeningAnswers)
  PROVE  IInv'
<1>1. TypeOK'
  BY DEF IInv, TypeOK, client, way
<1>2. HeartbeatFollowsSocket' /\ Phases' /\ Listeners'
  BY DEF IInv, HeartbeatFollowsSocket, Phases, Listeners, client, way
<1>3. StateFollowsSocket'
  BY DEF IInv, StateFollowsSocket, client, way
<1>4. Untouched'
  BY DEF IInv, Untouched, client, way
<1>5. Calm'
  BY DEF IInv, Calm, client, way
<1> QED BY <1>1, <1>2, <1>3, <1>4, <1>5 DEF IInv

\* The invariant holds of a Connection that has just been constructed.
LEMMA InitIInv == Init => IInv
<1> SUFFICES ASSUME Init PROVE IInv
  OBVIOUS
<1> USE ConnectionAssumption DEF Init
<1>1. TypeOK
  <2>1. FlagsTypeOK
    BY DEF FlagsTypeOK
  <2> QED BY <2>1 DEF TypeOK
<1>2. HeartbeatFollowsSocket
  BY DEF HeartbeatFollowsSocket
<1>3. StateFollowsSocket
  BY DEF StateFollowsSocket
<1>4. Untouched
  BY DEF Untouched
<1>5. Phases
  BY DEF Phases
<1>6. Listeners
  BY DEF Listeners
<1>7. Calm
  BY DEF Calm
<1> QED BY <1>1, <1>2, <1>3, <1>4, <1>5, <1>6, <1>7 DEF IInv

\* Every turn of the event loop, of the server and of the network keeps the invariant.
LEMMA NextIInv == IInv /\ [Next]_vars => IInv'
<1> SUFFICES ASSUME IInv, [Next]_vars PROVE IInv'
  OBVIOUS
<1> USE ConnectionAssumption DEF IInv, TypeOK, HeartbeatFollowsSocket, StateFollowsSocket,
        Untouched, Phases, Listeners, Calm, way
<1>0. FlagsTypeOK'
  BY FlagsInvariant
<1>1. CASE Start
  BY <1>0, <1>1 DEF Start, TryStart
<1>2. CASE ConnectionRefused
  BY <1>0, <1>2 DEF ConnectionRefused, CanRetry, Reject, SockClose, AfterSockClose, StopBeating
<1>19. CASE ConnectFails
  <2>1. /\ socket = "connecting" /\ socket' = "gone" /\ beating' = FALSE
        /\ state' \in {"closed", state} /\ (state' = state => attempts < maxRetries)
        /\ upset' = upset \union {"unreachable"}
        /\ UNCHANGED <<attempts, retry, started, expects, heard, reading, closer, way, c2s, s2c,
                       srv>>
    BY <1>19 DEF ConnectFails, SockClose, AfterSockClose, StopBeating
  <2>2. TypeOK' /\ HeartbeatFollowsSocket' /\ Untouched'
    BY <1>0, <2>1
  <2>3. StateFollowsSocket'
    BY <2>1
  <2>4. Phases' /\ Listeners' /\ Calm'
    BY <2>1
  <2> QED BY <2>2, <2>3, <2>4
<1>20. CASE Stall \/ Unstall \/ Wedge
  <2>1. /\ socket = "connected" \/ socket = "ended"
        /\ pipe' \in {"flowing", "stalled", "stuck"}
        /\ upset \subseteq upset' /\ upset' \subseteq upset \union {"wedged"}
        /\ UNCHANGED <<state, attempts, retry, socket, started, expects, heard, beating, reading,
                       closer, s2c, srv>>
    BY <1>20 DEF Stall, Unstall, Wedge
  <2>2. /\ c2s' \in Seq(ToServer) /\ queued' \in Seq(ClientCommands)
        /\ c2s \in Seq(OpeningCommands) /\ queued \in Seq(OpeningCommands) =>
             c2s' \in Seq(OpeningCommands) /\ queued' \in Seq(OpeningCommands)
    <3>1. queued \in Seq(ToServer)
      BY DEF ToServer
    <3>2. \/ UNCHANGED <<c2s, queued>>
          \/ queued' = <<>> /\ (c2s' = c2s \/ c2s' = c2s \o queued)
      BY <1>20 DEF Stall, Unstall, Wedge
    <3>3. <<>> \in Seq(ClientCommands) /\ <<>> \in Seq(OpeningCommands)
      OBVIOUS
    <3>4. /\ c2s \o queued \in Seq(ToServer)
          /\ c2s \in Seq(OpeningCommands) /\ queued \in Seq(OpeningCommands) =>
               c2s \o queued \in Seq(OpeningCommands)
      BY <3>1
    <3> QED BY <3>2, <3>3, <3>4
  <2>3. TypeOK' /\ HeartbeatFollowsSocket' /\ Untouched'
    BY <1>0, <2>1, <2>2
  <2>4. StateFollowsSocket'
    BY <2>1
  <2>5. Phases' /\ Listeners' /\ Calm'
    BY <2>1, <2>2
  <2> QED BY <2>3, <2>4, <2>5
<1>3. CASE RetryTimer
  BY <1>0, <1>3 DEF RetryTimer, TryStart
<1>4. CASE SockConnect
  <2>1. c2s' \in Seq(ToServer) /\ c2s' \in Seq(OpeningCommands)
    BY <1>4, Literals DEF SockConnect
  <2>2. "start" \in ServerCommands
    BY DEF ServerCommands
  <2>3. /\ expects' = {"start"} /\ heard' = {"tune", "open"} /\ ~retry
        /\ socket = "connecting" /\ socket' = "connected" /\ state' = "handshake"
        /\ UNCHANGED <<attempts, retry, started, beating, reading, closer, way, s2c, srv, upset>>
    BY <1>4 DEF SockConnect
  <2> QED BY <1>0, <2>1, <2>2, <2>3
<1>5. CASE RecvCommand
  <2> DEFINE m == Head(s2c)
  <2>1. /\ socket \in {"connected", "ended"}
        /\ UNCHANGED <<attempts, retry, reading, pipe, srv, upset>>
    BY <1>5 DEF RecvCommand, client
  <2>8. /\ m \in ServerCommands
        /\ s2c' \in Seq(ToClient)
    BY <1>5, FirstAndRest DEF RecvCommand, ToClient
  <2>9. s2c \in Seq(OpeningAnswers) =>
          m \in OpeningAnswers /\ s2c' \in Seq(OpeningAnswers)
    BY <1>5, FirstAndRest DEF RecvCommand
  <2>2. CASE UNCHANGED <<client, c2s>>
    BY <1>0, <2>1, <2>8, <2>9, <2>2 DEF client
  <2>3. CASE m = "start" /\ m \in expects /\ OnStart
    <3>1. /\ c2s' \in Seq(ToServer) /\ queued' \in Seq(ClientCommands)
          /\ c2s \in Seq(OpeningCommands) /\ queued \in Seq(OpeningCommands) =>
               c2s' \in Seq(OpeningCommands) /\ queued' \in Seq(OpeningCommands)
      BY <2>3, WriteType, Literals DEF OnStart
    <3> QED BY <1>0, <2>1, <2>8, <2>9, <2>3, <3>1 DEF OnStart, ServerCommands
  <2>4. CASE m = "tune" /\ m \in expects /\ OnTune
    <3>1. /\ c2s' \in Seq(ToServer) /\ queued' \in Seq(ClientCommands)
          /\ c2s \in Seq(OpeningCommands) /\ queued \in Seq(OpeningCommands) =>
               c2s' \in Seq(OpeningCommands) /\ queued' \in Seq(OpeningCommands)
      BY <2>4, WriteType, Literals DEF OnTune
    <3>2. /\ expects' = (expects \ {"tune"}) \union {"openOk", "close"}
          /\ heard' = heard \ {"tune"} /\ beating' = (beating \/ "tune" \in heard)
          /\ "tune" \in heard \/ beating
          /\ UNCHANGED <<state, socket, started, closer>>
      BY <2>1, <2>4 DEF OnTune, AfterTune
    <3>3. beating' = TRUE
      BY <3>2
    <3>4. TypeOK'
      BY <1>0, <2>1, <2>8, <3>1, <3>2 DEF ServerCommands
    <3>5. HeartbeatFollowsSocket' /\ StateFollowsSocket' /\ Untouched'
      BY <2>1, <3>2, <3>3
    <3>6. Phases'
      BY <2>1, <3>2
    <3>7. Listeners'
      BY <2>1, <3>2, <3>3
    <3>8. Calm'
      BY <2>1, <2>9, <3>1, <3>2
    <3> QED BY <3>4, <3>5, <3>6, <3>7, <3>8
  <2>5. CASE m = "openOk" /\ m \in expects /\ OnOpenOk
    <3>1. CASE "open" \in heard
      <4>1. /\ state' = "open" /\ started' \in {started, "resolved"}
            /\ started' = "none" <=> started = "none"
            /\ heard' = (heard \ {"open"}) \union {"closing"}
            /\ expects' = expects \ {"openOk"}
            /\ UNCHANGED <<socket, beating, closer, queued, c2s>>
        BY <2>5, <3>1 DEF OnOpenOk
      <4> QED BY <1>0, <2>1, <2>8, <2>9, <2>5, <3>1, <4>1
    <3>2. CASE "open" \notin heard
      <4>1. /\ expects' = expects \ {"openOk"}
            /\ UNCHANGED <<state, started, heard, socket, beating, closer, queued, c2s>>
        BY <2>5, <3>2 DEF OnOpenOk
      <4> QED BY <1>0, <2>1, <2>8, <2>9, <4>1
    <3> QED BY <3>1, <3>2
  <2>6. CASE m = "close" /\ m \in expects /\ OnClose
    <3>1. c2s' \in Seq(ToServer) /\ queued' \in Seq(ClientCommands)
      BY <2>6, WriteType, EndType, Literals DEF OnClose
    <3>2. m \notin OpeningAnswers
      BY <2>6 DEF OpeningAnswers
    <3>3. CASE "closing" \in heard
      <4>1. /\ state' = "closing" /\ heard' = heard \ {"closing"}
            /\ expects' = expects \ {"close"}
            /\ socket' = IF socket = "connected" THEN "ended" ELSE socket
            /\ UNCHANGED <<started, beating, closer>>
        BY <2>6, <3>3 DEF OnClose, EndSocket
      <4> QED BY <1>0, <2>1, <2>8, <2>9, <2>6, <3>1, <3>2, <3>3, <4>1
    <3>4. CASE "closing" \notin heard
      <4>1. /\ expects' = expects \ {"close"}
            /\ UNCHANGED <<state, socket, heard, started, beating, closer>>
        BY <2>6, <3>4 DEF OnClose
      <4> QED BY <1>0, <2>1, <2>8, <2>9, <2>6, <3>1, <3>2, <3>4, <4>1
    <3> QED BY <3>3, <3>4
  <2>7. CASE m = "closeOk" /\ m \in expects /\ OnCloseOk
    <3>1. c2s' \in Seq(ToServer) /\ UNCHANGED queued
      BY <2>7, EndType DEF OnCloseOk
    <3>2. m \notin OpeningAnswers
      BY <2>7 DEF OpeningAnswers
    <3> QED BY <1>0, <2>1, <2>8, <2>9, <2>7, <3>1, <3>2 DEF OnCloseOk, EndSocket
  <2> QED
    BY <1>5, <2>2, <2>3, <2>4, <2>5, <2>6, <2>7 DEF RecvCommand
<1>6. CASE RecvEnd
  BY <1>0, <1>6 DEF RecvEnd, OpeningAnswers, SockClose, AfterSockClose, StopBeating
<1>7. CASE SocketFinishes
  BY <1>0, <1>7 DEF SocketFinishes, SockClose, AfterSockClose, StopBeating
<1>8. CASE Close
  <2>1. /\ state' = "closing" /\ ~retry' /\ state \notin {"closed", "closing"}
        /\ closer' = IF state = "open" THEN "channels" ELSE closer
        /\ upset' = IF retry THEN upset \union {"abandoned"} ELSE upset
        /\ UNCHANGED <<attempts, socket, started, expects, heard, beating, reading, way,
                       c2s, s2c, srv>>
    BY <1>8 DEF Close, BeginClose
  <2>2. TypeOK' /\ HeartbeatFollowsSocket' /\ Untouched'
    BY <1>0, <2>1
  <2>3. StateFollowsSocket'
    BY <2>1
  <2>4. Phases' /\ Listeners' /\ Calm'
    BY <2>1
  <2> QED BY <2>2, <2>3, <2>4
<1>16. CASE ReaderFails
  <2>1. /\ state' = (IF state = "closed" THEN state ELSE "closing") /\ reading' = FALSE
        /\ retry' = (retry /\ state \in {"closed", "closing"})
        /\ closer' = IF state = "open" THEN "channels" ELSE closer
        /\ socket \in {"connected", "ended"} /\ upset' = upset \union {"unread"}
        /\ UNCHANGED <<attempts, socket, started, expects, heard, beating, way, c2s, s2c, srv>>
    BY <1>16 DEF ReaderFails, BeginClose
  <2>2. TypeOK' /\ HeartbeatFollowsSocket' /\ Untouched'
    BY <1>0, <2>1
  <2>3. StateFollowsSocket'
    BY <2>1
  <2>4. Phases' /\ Listeners' /\ Calm'
    BY <2>1
  <2> QED BY <2>2, <2>3, <2>4
<1>17. CASE SocketBreaks
  <2>1. /\ socket' = "gone" /\ beating' = FALSE /\ "unread" \in upset
        /\ state' \in {"closed", state} /\ socket \in {"connected", "ended"}
        /\ state' = state => attempts < maxRetries
        /\ UNCHANGED <<attempts, retry, started, expects, heard, reading, closer, way, c2s, s2c,
                       srv, upset>>
    BY <1>17 DEF SocketBreaks, SockClose, AfterSockClose, StopBeating
  <2>2. TypeOK' /\ HeartbeatFollowsSocket' /\ Untouched'
    BY <1>0, <2>1
  <2>3. StateFollowsSocket'
    BY <2>1
  <2>4. Phases'
    BY <2>1
  <2>5. Listeners'
    BY <2>1
  <2>6. Calm'
    BY <2>1
  <2> QED BY <2>2, <2>3, <2>4, <2>5, <2>6
<1>18. CASE SockTimeout
  BY <1>0, <1>18 DEF SockTimeout, Reject
<1>9. CASE CloseFails
  BY <1>0, <1>9 DEF CloseFails
<1>10. CASE CloseChannel0
  <2>1. c2s' \in Seq(ToServer) /\ queued' \in Seq(ClientCommands)
    BY <1>10, WriteType, Literals DEF CloseChannel0
  <2>2. /\ expects' = expects \union {"closeOk"} /\ closer' = "closeOk"
        /\ closer = "channels" /\ state = "closing" /\ ~retry /\ socket # "connecting"
        /\ "open" \notin heard
        /\ UNCHANGED <<state, attempts, retry, socket, started, heard, beating, reading, pipe,
                       s2c, srv, upset>>
    BY <1>10 DEF CloseChannel0, ExpectCloseOk
  <2>3. "closeOk" \in ServerCommands
    BY DEF ServerCommands
  <2> QED BY <1>0, <2>1, <2>2, <2>3
<1>11. CASE CloseEnds
  BY <1>0, <1>11 DEF CloseEnds
<1>12. CASE ServerStep
  <2>1. /\ UNCHANGED client /\ started # "none"
        /\ Head(c2s) \in ToServer /\ c2s' \in Seq(ToServer)
        /\ c2s \in Seq(OpeningCommands) =>
             Head(c2s) \in OpeningCommands /\ c2s' \in Seq(OpeningCommands)
    BY <1>12, FirstAndRest DEF ServerStep
  <2>2. CASE UNCHANGED <<s2c, upset>> /\ srv' \in {srv, "gone"}
    BY <1>0, <2>1, <2>2, PeerIInv
  <2>3. ASSUME NEW ms \in Seq(OpeningAnswers), ms \in Seq(ToClient),
               NEW next \in {"handshake", "open"}, Answer(ms, next), UNCHANGED upset
        PROVE  IInv'
    <3>1. /\ s2c' \in Seq(ToClient) /\ srv' = next
          /\ s2c \in Seq(OpeningAnswers) => s2c' \in Seq(OpeningAnswers)
      BY <2>3, AnswerType
    <3> QED BY <1>0, <2>1, <2>3, <3>1, PeerIInv
  <2>4. ASSUME NEW ms \in Seq(ToClient), NEW next \in {"closing", "gone"}, Answer(ms, next),
               \/ Head(c2s) \notin OpeningCommands /\ UNCHANGED upset
               \/ upset' = upset \union {"refused"}
        PROVE  IInv'
    <3>1. s2c' \in Seq(ToClient) /\ srv' = next
      BY <2>4, AnswerType
    <3> QED BY <1>0, <2>1, <2>4, <3>1, PeerIInv
  <2>5. \/ UNCHANGED <<s2c, upset>> /\ srv' \in {srv, "gone"}
        \/ /\ UNCHANGED upset
           /\ \/ Answer(<<"start">>, "handshake")
              \/ Answer(<<"tune">>, "handshake")
              \/ Answer(<<"openOk">>, "open")
        \/ /\ \/ Answer(<<"fin">>, "gone")
              \/ Answer(<<"close">>, "closing")
           /\ upset' = upset \union {"refused"}
        \/ /\ UNCHANGED upset /\ Head(c2s) \notin OpeningCommands
           /\ \/ Answer(<<"closeOk", "fin">>, "gone")
              \/ Answer(<<"closeOk">>, "closing")
              \/ Answer(<<"fin">>, "gone")
    BY <1>12 DEF ServerStep, ServerTakes, OpeningCommands
  <2> QED BY <2>2, <2>3, <2>4, <2>5, Literals
<1>13. CASE ServerCloses
  <2>1. s2c' \in Seq(ToClient) /\ srv' = "closing"
    BY <1>13, AnswerType, Literals DEF ServerCloses
  <2> QED BY <1>0, <1>13, <2>1, PeerIInv DEF ServerCloses
<1>14. CASE Drop
  <2>1. s2c' \in Seq(ToClient) /\ srv' = "gone"
    BY <1>14, AnswerType, Literals DEF Drop
  <2> QED BY <1>0, <1>14, <2>1, PeerIInv DEF Drop
<1>15. CASE UNCHANGED vars
  BY <1>0, <1>15 DEF vars, client
<1> QED
  BY <1>0, <1>1, <1>2, <1>3, <1>4, <1>5, <1>6, <1>7, <1>8, <1>9, <1>10, <1>11, <1>12, <1>13,
     <1>14, <1>15, <1>16, <1>17, <1>18, <1>19, <1>20 DEF Next

\* Every behaviour of the connection keeps the inductive invariant.
THEOREM ConnectionInvariant == Spec => []IInv
BY InitIInv, NextIInv, PTL DEF Spec

\* Every variable keeps its type; in particular one start() never connects more than
\* maxRetries times, whatever connects are refused (tryStart, onSockError).
THEOREM ConnectionTypeCorrect == Spec => []TypeOK
<1>1. IInv => TypeOK
  BY DEF IInv
<1> QED BY <1>1, ConnectionInvariant, PTL

\* An open connection with its socket sends heartbeats, and the interval is never left
\* running without a socket (onTune, onSockClose).
THEOREM HeartbeatBound == Spec => []HeartbeatFollowsSocket
<1>1. IInv => HeartbeatFollowsSocket
  BY DEF IInv
<1> QED BY <1>1, ConnectionInvariant, PTL

\* Without a socket the connection is closed, or it was lost before its retries were used
\* up; and a closed one has no socket (onSockClose, _closeConnection).
THEOREM StateBound == Spec => []StateFollowsSocket
<1>1. IInv => StateFollowsSocket
  BY DEF IInv
<1> QED BY <1>1, ConnectionInvariant, PTL

-----------------------------------------------------------------------------
(***************************************************************************)
(* A close of the server is answered.                                      *)
(***************************************************************************)
\* m is under way in s.
Under(m, s) == \E i \in 1 .. Len(s) : s[i] = m

\* Each b in s comes after an a.
Precedes(a, b, s) == \A i \in 1 .. Len(s) : s[i] = b => \E j \in 1 .. i - 1 : s[j] = a

\* The socket has not been connected yet ...
Silenced == socket \in {"none", "connecting"} \/ retry
\* ... and nothing is under way.
Silent == Silenced => c2s = <<>> /\ queued = <<>> /\ s2c = <<>> /\ srv = "none"

\* The client's close-ok is under way or has been taken, or can not be written any more.
Answered == srv = "gone" \/ Under("closeOk", c2s) \/ socket # "connected"

\* The client has asked for the virtual host.
OpenUnder == Under("open", c2s) \/ Under("open", queued)

\* The server's side is open, or will be with what is under way.
Opened ==
  \/ srv \in {"open", "closing"}
  \/ OpenUnder
  \/ Under("close", s2c) \/ Under("closeOk", s2c)

\* Then Channel0 listens for a close until it has answered one.
HearsClose == Opened => "close" \in expects \/ Answered

\* A server that has closed waits for the answer, or the client has still to read the close.
CloseUnderWay == srv = "closing" => Under("close", s2c) \/ Answered

\* It answers the client's close after its own.
CloseFirst == Answered \/ Precedes("close", "closeOk", s2c)

\* The client's stream ends after its close-ok.
EndIsLast == srv # "gone" => Precedes("closeOk", "fin", c2s)

\* As long as no answer has been held up this is inductive, and the server has not seen the
\* client's end too early.
Answering ==
  /\ Silent /\ HearsClose /\ CloseUnderWay /\ CloseFirst /\ EndIsLast
  /\ ~abrupt

\* What is under way after an addition.
LEMMA UnderAdded ==
  ASSUME NEW S, NEW s \in Seq(S), NEW t \in Seq(S), NEW m
  PROVE  Under(m, s \o t) <=> Under(m, s) \/ Under(m, t)
<1>1. /\ Len(s) \in Nat /\ Len(t) \in Nat /\ Len(s \o t) = Len(s) + Len(t)
      /\ \A i \in 1 .. Len(s) : (s \o t)[i] = s[i]
      /\ \A i \in 1 .. Len(t) : (s \o t)[Len(s) + i] = t[i]
  BY ConcatProperties
<1>2. ASSUME NEW i \in 1 .. Len(s \o t), (s \o t)[i] = m PROVE Under(m, s) \/ Under(m, t)
  <2>1. CASE i \in 1 .. Len(s)
    BY <1>1, <1>2, <2>1 DEF Under
  <2>2. CASE i - Len(s) \in 1 .. Len(t)
    <3>1. i = Len(s) + (i - Len(s))
      BY <1>1
    <3>2. t[i - Len(s)] = m
      BY <1>1, <1>2, <2>2, <3>1
    <3> QED BY <2>2, <3>2 DEF Under
  <2> QED BY <1>1, <2>1, <2>2
<1>3. \A i \in 1 .. Len(s) : i \in 1 .. Len(s \o t)
  BY <1>1
<1>4. \A i \in 1 .. Len(t) : Len(s) + i \in 1 .. Len(s \o t)
  BY <1>1
<1>5. Under(m, s) \/ Under(m, t) => Under(m, s \o t)
  BY <1>1, <1>3, <1>4 DEF Under
<1> QED BY <1>2, <1>5 DEF Under

\* What is under way when the first has been taken.
LEMMA UnderTaken ==
  ASSUME NEW S, NEW s \in Seq(S), s # <<>>, NEW m
  PROVE  Under(m, s) <=> Head(s) = m \/ Under(m, Tail(s))
<1>1. /\ Len(s) \in Nat \ {0} /\ Head(s) = s[1] /\ Len(Tail(s)) = Len(s) - 1
      /\ \A i \in 1 .. Len(Tail(s)) : Tail(s)[i] = s[i + 1]
  BY EmptySeq, LenProperties, HeadTailProperties
<1>2. \A i \in 1 .. Len(s) : i = 1 \/ (i - 1 \in 1 .. Len(Tail(s)) /\ i = (i - 1) + 1)
  BY <1>1
<1>3. \A i \in 1 .. Len(Tail(s)) : i + 1 \in 1 .. Len(s)
  BY <1>1
<1>4. 1 \in 1 .. Len(s)
  BY <1>1
<1> QED BY <1>1, <1>2, <1>3, <1>4 DEF Under

\* The order stays when the first is taken that is not what comes first.
LEMMA PrecedesTaken ==
  ASSUME NEW S, NEW s \in Seq(S), s # <<>>, NEW a, NEW b, Precedes(a, b, s)
  PROVE  Head(s) # b /\ (Head(s) # a => Precedes(a, b, Tail(s)))
<1>1. /\ Len(s) \in Nat \ {0} /\ Head(s) = s[1] /\ Len(Tail(s)) = Len(s) - 1
      /\ \A i \in 1 .. Len(Tail(s)) : Tail(s)[i] = s[i + 1]
  BY EmptySeq, LenProperties, HeadTailProperties
<1>2. Head(s) # b
  BY <1>1 DEF Precedes
<1>3. ASSUME Head(s) # a, NEW i \in 1 .. Len(Tail(s)), Tail(s)[i] = b
      PROVE  \E j \in 1 .. i - 1 : Tail(s)[j] = a
  <2>1. i + 1 \in 1 .. Len(s) /\ s[i + 1] = b
    BY <1>1, <1>3
  <2>2. PICK j \in 1 .. (i + 1) - 1 : s[j] = a
    BY <2>1 DEF Precedes
  <2>3. j # 1
    BY <1>1, <1>3, <2>2
  <2>4. j - 1 \in 1 .. i - 1 /\ j - 1 \in 1 .. Len(Tail(s)) /\ (j - 1) + 1 = j
    BY <1>1, <2>2, <2>3
  <2>5. Tail(s)[j - 1] = a
    BY <1>1, <2>2, <2>4
  <2> QED BY <2>4, <2>5
<1> QED BY <1>2, <1>3 DEF Precedes

\* The order stays when more is added that is in order, or comes after the first.
LEMMA PrecedesAdded ==
  ASSUME NEW S, NEW s \in Seq(S), NEW t \in Seq(S), NEW a, NEW b, Precedes(a, b, s),
         Under(a, s) \/ Precedes(a, b, t)
  PROVE  Precedes(a, b, s \o t)
<1>1. /\ Len(s) \in Nat /\ Len(t) \in Nat /\ Len(s \o t) = Len(s) + Len(t)
      /\ \A i \in 1 .. Len(s) : (s \o t)[i] = s[i]
      /\ \A i \in 1 .. Len(t) : (s \o t)[Len(s) + i] = t[i]
  BY ConcatProperties
<1>2. ASSUME NEW i \in 1 .. Len(s \o t), (s \o t)[i] = b
      PROVE  \E j \in 1 .. i - 1 : (s \o t)[j] = a
  <2>1. CASE i \in 1 .. Len(s)
    <3>1. PICK j \in 1 .. i - 1 : s[j] = a
      BY <1>1, <1>2, <2>1 DEF Precedes
    <3>2. j \in 1 .. Len(s)
      BY <1>1, <2>1
    <3> QED BY <1>1, <3>1, <3>2
  <2>2. CASE i - Len(s) \in 1 .. Len(t)
    <3>1. t[i - Len(s)] = b
      <4>1. i = Len(s) + (i - Len(s))
        BY <1>1
      <4> QED BY <1>1, <1>2, <2>2, <4>1
    <3>2. CASE Under(a, s)
      <4>1. PICK j \in 1 .. Len(s) : s[j] = a
        BY <3>2 DEF Under
      <4>2. j \in 1 .. i - 1
        BY <1>1, <2>2
      <4> QED BY <1>1, <4>1, <4>2
    <3>3. CASE Precedes(a, b, t)
      <4>1. PICK j \in 1 .. (i - Len(s)) - 1 : t[j] = a
        BY <2>2, <3>1, <3>3 DEF Precedes
      <4>2. Len(s) + j \in 1 .. i - 1 /\ j \in 1 .. Len(t)
        BY <1>1, <2>2, <4>1
      <4>3. (s \o t)[Len(s) + j] = a
        BY <1>1, <4>1, <4>2
      <4> QED BY <4>2, <4>3
    <3> QED BY <3>2, <3>3
  <2> QED BY <1>1, <2>1, <2>2
<1> QED BY <1>2 DEF Precedes

\* What is written at once: close-ok before the end of the stream, and only the open opens.
LEMMA Written ==
  /\ \A m \in {"startOk", "close", "closeOk"} :
       ~Under("open", <<m>>) /\ Precedes("closeOk", "fin", <<m>>)
  /\ Precedes("closeOk", "fin", <<"tuneOk", "open">>)
  /\ Precedes("closeOk", "fin", <<"closeOk", "fin">>)
  /\ Under("closeOk", <<"closeOk", "fin">>) /\ Under("closeOk", <<"closeOk">>)
  /\ ~Under("open", <<"closeOk", "fin">>) /\ ~Under("open", <<"fin">>)
BY DEF Under, Precedes

\* What Channel0 writes gets to the socket or is held up.
LEMMA Sends ==
  ASSUME TypeOK, NEW ms \in Seq(ClientCommands), Write(ms)
  PROVE  /\ UNCHANGED c2s \/ (socket = "connected" /\ c2s' = c2s \o ms)
         /\ socket = "connected" /\ pipe = "flowing" => c2s' = c2s \o ms
         /\ OpenUnder' => OpenUnder \/ Under("open", ms)
         /\ socket # "connected" => UNCHANGED <<c2s, queued>>
<1>1. /\ c2s \in Seq(ToServer) /\ queued \in Seq(ClientCommands) /\ ms \in Seq(ToServer)
      /\ c2s \o <<>> = c2s /\ queued \o <<>> = queued
  BY DEF TypeOK, ToServer
<1>2. \/ c2s' = c2s \o ms /\ queued' = queued /\ socket = "connected"
      \/ c2s' = c2s /\ queued' = queued \o ms /\ socket = "connected" /\ pipe # "flowing"
      \/ c2s' = c2s /\ queued' = queued /\ socket # "connected"
  BY <1>1 DEF Write, Passed, Held
<1>3. /\ Under("open", c2s \o ms) <=> Under("open", c2s) \/ Under("open", ms)
      /\ Under("open", queued \o ms) <=> Under("open", queued) \/ Under("open", ms)
  BY <1>1, UnderAdded
<1>4. OpenUnder' => OpenUnder \/ Under("open", ms)
  BY <1>2, <1>3 DEF OpenUnder, Under
<1> QED BY <1>2, <1>4

\* The end of the stream gets there.
LEMMA SendsEnd ==
  ASSUME TypeOK, c2s' = c2s \o End, UNCHANGED queued
  PROVE  /\ UNCHANGED c2s \/ (socket = "connected" /\ c2s' = c2s \o <<"fin">>)
         /\ OpenUnder' => OpenUnder
<1>1. UNCHANGED c2s \/ (socket = "connected" /\ c2s' = c2s \o <<"fin">>)
  BY DEF End, TypeOK
<1>2. Under("open", c2s \o <<"fin">>) <=> Under("open", c2s) \/ Under("open", <<"fin">>)
  BY Literals, UnderAdded DEF TypeOK
<1> QED BY <1>1, <1>2, Written DEF OpenUnder, Under

\* The answer to a close and the end get there in this order, if nothing is held up.
LEMMA SendsAnswer ==
  ASSUME TypeOK, AnswerAndEnd, pipe = "flowing"
  PROVE  /\ \/ UNCHANGED c2s /\ socket # "connected"
            \/ socket = "connected" /\ c2s' = c2s \o <<"closeOk", "fin">>
         /\ OpenUnder' => OpenUnder
<1>1. /\ c2s \in Seq(ToServer) /\ queued \in Seq(ClientCommands)
      /\ c2s \o <<>> = c2s /\ queued \o <<>> = queued
      /\ <<"closeOk">> \in Seq(ToServer) /\ <<"fin">> \in Seq(ToServer)
      /\ <<"closeOk", "fin">> \in Seq(ToServer)
  BY Literals DEF TypeOK, ToServer, ClientCommands
<1>2. c2s \o <<"closeOk">> \o <<"fin">> = c2s \o <<"closeOk", "fin">>
  BY <1>1
<1>3. /\ \/ UNCHANGED c2s /\ socket # "connected"
         \/ socket = "connected" /\ c2s' = c2s \o <<"closeOk", "fin">>
      /\ queued' = queued
  BY <1>1, <1>2 DEF AnswerAndEnd, Passed, Held, End
<1>4. Under("open", c2s \o <<"closeOk", "fin">>) <=>
        Under("open", c2s) \/ Under("open", <<"closeOk", "fin">>)
  BY <1>1, UnderAdded
<1> QED BY <1>3, <1>4, Written DEF OpenUnder, Under

\* The answer of the client stays where it is while the client acts.
LEMMA AnsweredStays ==
  ASSUME TypeOK, Answered, srv' = srv, NEW ms \in Seq(ToServer),
         UNCHANGED c2s \/ (socket = "connected" /\ c2s' = c2s \o ms),
         socket' = "connected" => socket = "connected"
  PROVE  /\ Answered'
         /\ srv = "gone" \/ UNCHANGED c2s \/ Under("closeOk", c2s)
<1>1. CASE Under("closeOk", c2s)
  <2>1. Under("closeOk", c2s \o ms)
    BY <1>1, UnderAdded DEF TypeOK
  <2> QED BY <1>1, <2>1 DEF Answered
<1>2. CASE socket # "connected"
  BY <1>2 DEF Answered
<1>3. CASE srv = "gone"
  BY <1>3 DEF Answered
<1> QED BY <1>1, <1>2, <1>3 DEF Answered

\* A step of the client keeps the invariant if it takes a close of the server only with
\* the answer to it, and ends its stream after that.
LEMMA ClientAnswers ==
  ASSUME TypeOK, TypeOK', Answering, UNCHANGED <<srv, abrupt>>,
         NEW ms \in Seq(ToServer),
         UNCHANGED c2s \/ (socket = "connected" /\ c2s' = c2s \o ms),
         OpenUnder' => OpenUnder \/ "close" \in expects',
         \/ UNCHANGED s2c
         \/ s2c' = <<>> /\ Answered'
         \/ s2c # <<>> /\ s2c' = Tail(s2c) /\ (Head(s2c) = "close" => Answered'),
         socket' = "connected" => socket = "connected",
         Silenced' => Silenced /\ UNCHANGED <<c2s, queued, s2c>>,
         "close" \in expects => "close" \in expects' \/ Answered',
         Answered \/ Precedes("closeOk", "fin", ms)
  PROVE  Answering'
<1>1. Silent'
  BY DEF Answering, Silent
<1>2. Answered =>
        /\ Answered'
        /\ srv = "gone" \/ UNCHANGED c2s \/ Under("closeOk", c2s)
  BY AnsweredStays
<1>3. /\ s2c' = <<>> => \A m : ~Under(m, s2c)'
      /\ UNCHANGED s2c => \A m : Under(m, s2c)' <=> Under(m, s2c)
      /\ s2c # <<>> /\ s2c' = Tail(s2c) =>
           \A m : Under(m, s2c) <=> Head(s2c) = m \/ Under(m, s2c)'
  <2>1. s2c' = <<>> => \A m : ~Under(m, s2c)'
    BY DEF Under
  <2>2. UNCHANGED s2c => \A m : Under(m, s2c)' <=> Under(m, s2c)
    BY DEF Under
  <2>3. ASSUME s2c # <<>>, s2c' = Tail(s2c), NEW m
        PROVE  Under(m, s2c) <=> Head(s2c) = m \/ Under(m, s2c)'
    <3>1. Under(m, s2c) <=> Head(s2c) = m \/ Under(m, Tail(s2c))
      BY <2>3, UnderTaken DEF TypeOK
    <3> QED BY <2>3, <3>1 DEF Under
  <2> QED BY <2>1, <2>2, <2>3
<1>5. Opened' => Opened \/ "close" \in expects'
  BY <1>3 DEF Opened
<1>10. HearsClose'
  BY <1>2, <1>5 DEF Answering, HearsClose
<1>6. CloseUnderWay'
  <2>1. Under("close", s2c) => Under("close", s2c)' \/ Answered'
    BY <1>3
  <2> QED BY <1>2, <2>1 DEF Answering, CloseUnderWay
<1>7. CloseFirst'
  <2>1. CASE s2c' = <<>>
    BY <2>1 DEF CloseFirst, Precedes
  <2>2. CASE UNCHANGED s2c
    BY <1>2, <2>2 DEF Answering, CloseFirst
  <2>3. CASE s2c # <<>> /\ s2c' = Tail(s2c) /\ Head(s2c) # "close"
    BY <1>2, <2>3, PrecedesTaken DEF Answering, CloseFirst, TypeOK
  <2> QED BY <2>1, <2>2, <2>3 DEF CloseFirst
<1>8. EndIsLast'
  <2>1. CASE UNCHANGED c2s
    BY <2>1 DEF Answering, EndIsLast
  <2>2. CASE c2s' = c2s \o ms /\ srv # "gone"
    <3>1. c2s \in Seq(ToServer) /\ Precedes("closeOk", "fin", c2s)
      BY <2>2 DEF Answering, EndIsLast, TypeOK
    <3>2. CASE Under("closeOk", c2s) \/ Precedes("closeOk", "fin", ms)
      <4>1. Precedes("closeOk", "fin", c2s \o ms)
        BY <3>1, <3>2, PrecedesAdded
      <4> QED BY <2>2, <4>1 DEF EndIsLast
    <3>3. CASE UNCHANGED c2s
      BY <2>1, <3>3
    <3> QED BY <1>2, <2>2, <3>2, <3>3
  <2> QED BY <2>1, <2>2 DEF EndIsLast
<1>9. ~abrupt'
  BY DEF Answering
<1> QED BY <1>1, <1>6, <1>7, <1>8, <1>9, <1>10 DEF Answering

\* A server that is done has nothing to wait for.
LEMMA ServerLeaves ==
  ASSUME TypeOK, Answering, ~Silenced, UNCHANGED client, srv' = "gone", ~abrupt'
  PROVE  Answering'
<1>1. Silent'
  BY DEF Silenced, Silent, client
<1>2. Answered'
  BY DEF Answered
<1>3. HearsClose' /\ CloseUnderWay' /\ CloseFirst' /\ EndIsLast'
  BY <1>2 DEF HearsClose, CloseUnderWay, CloseFirst, EndIsLast
<1> QED BY <1>1, <1>3 DEF Answering

\* What the server takes and sends keeps the invariant if it closes only an open
\* connection, which it says, and answers a close after its own.
LEMMA ServerAnswers ==
  ASSUME TypeOK, TypeOK', Answering, ~Silenced, UNCHANGED <<client, abrupt>>,
         \/ UNCHANGED c2s
         \/ c2s # <<>> /\ c2s' = Tail(c2s) /\ (srv # "gone" => Head(c2s) # "closeOk"),
         srv' = "gone" <=> srv = "gone",
         NEW ms \in Seq(ToClient), s2c' = s2c \o ms,
         Under("closeOk", ms) => srv = "closing",
         Under("close", ms) \/ srv' \in {"open", "closing"} => Opened,
         srv' = "closing" => srv = "closing" \/ Under("close", ms),
         Precedes("close", "closeOk", ms) \/ srv = "closing"
  PROVE  Answering'
<1>0. UNCHANGED <<socket, retry, expects, queued>>
  BY DEF client, way
<1>1. Silent'
  BY <1>0 DEF Silenced, Silent
<1>2. \A m : Under(m, s2c)' <=> Under(m, s2c) \/ Under(m, ms)
  <2>1. ASSUME NEW m PROVE Under(m, s2c)' <=> Under(m, s2c) \/ Under(m, ms)
    <3>1. Under(m, s2c \o ms) <=> Under(m, s2c) \/ Under(m, ms)
      BY UnderAdded DEF TypeOK
    <3> QED BY <3>1 DEF Under
  <2> QED BY <2>1
<1>3. \/ UNCHANGED c2s
      \/ /\ c2s # <<>> /\ c2s' = Tail(c2s)
         /\ \A m : Under(m, c2s) <=> Head(c2s) = m \/ Under(m, c2s)'
  <2>1. ASSUME c2s # <<>>, c2s' = Tail(c2s), NEW m
        PROVE  Under(m, c2s) <=> Head(c2s) = m \/ Under(m, c2s)'
    <3>1. Under(m, c2s) <=> Head(c2s) = m \/ Under(m, Tail(c2s))
      BY <2>1, UnderTaken DEF TypeOK
    <3> QED BY <2>1, <3>1 DEF Under
  <2> QED BY <2>1
<1>4. Answered => Answered'
  <2>1. CASE UNCHANGED c2s
    BY <1>0, <2>1 DEF Answered
  <2> QED BY <1>0, <1>3, <2>1 DEF Answered
<1>5. Opened' => Opened
  <2>1. OpenUnder' => OpenUnder
    BY <1>0, <1>3 DEF OpenUnder, Under
  <2>2. Under("closeOk", ms) => Opened
    BY DEF Opened
  <2>3. Under("close", ms) => Opened
    OBVIOUS
  <2>4. srv' \in {"open", "closing"} => Opened
    OBVIOUS
  <2>5. Under("close", s2c)' \/ Under("closeOk", s2c)' => Opened
    BY <1>2, <2>2, <2>3 DEF Opened
  <2>6. OpenUnder' => Opened
    BY <2>1 DEF Opened
  <2>7. Opened' =>
          \/ srv' \in {"open", "closing"} \/ OpenUnder'
          \/ Under("close", s2c)' \/ Under("closeOk", s2c)'
    BY DEF Opened
  <2> QED BY <2>4, <2>5, <2>6, <2>7
<1>6. HearsClose'
  BY <1>0, <1>4, <1>5 DEF Answering, HearsClose
<1>7. CloseUnderWay'
  BY <1>2, <1>4 DEF Answering, CloseUnderWay
<1>8. CloseFirst'
  <2>1. CASE Answered
    BY <1>4, <2>1 DEF CloseFirst
  <2>2. CASE ~Answered
    <3>1. s2c \in Seq(ToClient) /\ Precedes("close", "closeOk", s2c)
      BY <2>2 DEF Answering, CloseFirst, TypeOK
    <3>2. Under("close", s2c) \/ Precedes("close", "closeOk", ms)
      BY <2>2 DEF Answering, CloseUnderWay
    <3>3. Precedes("close", "closeOk", s2c \o ms)
      BY <3>1, <3>2, PrecedesAdded
    <3> QED BY <3>3 DEF CloseFirst
  <2> QED BY <2>1, <2>2
<1>9. EndIsLast'
  <2>1. CASE UNCHANGED c2s
    BY <2>1 DEF Answering, EndIsLast
  <2>2. CASE srv # "gone" /\ c2s # <<>> /\ c2s' = Tail(c2s)
    <3>1. c2s \in Seq(ToServer) /\ Precedes("closeOk", "fin", c2s)
      BY <2>2 DEF Answering, EndIsLast, TypeOK
    <3>2. Precedes("closeOk", "fin", Tail(c2s))
      <4>1. Head(c2s) # "closeOk" \/ UNCHANGED c2s
        BY <2>2
      <4>2. CASE Head(c2s) # "closeOk"
        BY <2>2, <3>1, <4>2, PrecedesTaken
      <4>3. CASE UNCHANGED c2s
        BY <2>2, <3>1, <4>3
      <4> QED BY <4>1, <4>2, <4>3
    <3> QED BY <2>2, <3>2 DEF EndIsLast
  <2> QED BY <2>1, <2>2 DEF EndIsLast
<1>10. ~abrupt'
  BY DEF Answering
<1> QED BY <1>1, <1>6, <1>7, <1>8, <1>9, <1>10 DEF Answering

\* At first nothing is under way.
LEMMA InitAnswering == Init => Answering
<1> SUFFICES ASSUME Init PROVE Answering
  OBVIOUS
<1> USE DEF Init
<1>1. Silent /\ EndIsLast /\ CloseUnderWay /\ ~abrupt
  BY DEF Silent, EndIsLast, Precedes, CloseUnderWay
<1>2. Answered
  BY DEF Answered
<1> QED BY <1>1, <1>2 DEF Answering, HearsClose, CloseFirst

\* Every step keeps it that the server's close is answered, unless the answer is held up.
LEMMA AnsweringStep ==
  ASSUME IInv, Answering, [Next]_vars, ~heldUp'
  PROVE  Answering'
<1> USE DEF way
<1>0. TypeOK /\ TypeOK'
  BY NextIInv DEF IInv
<1>1. <<>> \in Seq(ToServer) /\ ~Under("open", <<>>) /\ Precedes("closeOk", "fin", <<>>)
  BY DEF Under, Precedes
<1>20. UNCHANGED <<c2s, queued>> => (OpenUnder' => OpenUnder)
  BY DEF OpenUnder, Under
<1>2. ASSUME UNCHANGED <<c2s, queued, s2c, srv, abrupt>>,
             socket' = "connected" => socket = "connected",
             Silenced' => Silenced, expects' = expects
      PROVE  Answering'
  BY <1>0, <1>1, <1>2, <1>20, ClientAnswers
<1>3. CASE Start
  <2>1. Silenced
    BY <1>3 DEF Start, IInv, Untouched, Silenced
  <2> QED BY <1>2, <1>3, <2>1 DEF Start, TryStart
<1>4. CASE ConnectionRefused \/ ConnectFails
  <2>1. Silenced
    BY <1>4 DEF ConnectionRefused, ConnectFails, Silenced
  <2> QED BY <1>2, <1>4, <2>1 DEF ConnectionRefused, ConnectFails, SockClose
<1>5. CASE RetryTimer
  <2>1. Silenced
    BY <1>5 DEF RetryTimer, Silenced
  <2> QED BY <1>2, <1>5, <2>1 DEF RetryTimer, TryStart
<1>6. CASE SocketFinishes \/ SocketBreaks
  BY <1>2, <1>6 DEF SocketFinishes, SocketBreaks, SockClose, Silenced
<1>7. CASE SockTimeout \/ CloseFails \/ CloseEnds \/ Stall \/ Wedge
  BY <1>2, <1>7 DEF SockTimeout, CloseFails, CloseEnds, Stall, Wedge, Silenced
<1>8. CASE Close \/ ReaderFails
  <2>1. retry' => retry
    BY <1>8 DEF Close, ReaderFails, BeginClose
  <2> QED BY <1>2, <1>8, <2>1 DEF Close, ReaderFails, Silenced
<1>9. CASE SockConnect
  <2>1. /\ socket' = "connected" /\ retry' = FALSE /\ c2s' = <<"header">> /\ s2c' = <<>>
        /\ srv' = "none" /\ ~abrupt'
    BY <1>9 DEF SockConnect, Answering, Silent, Silenced, IInv, Phases
  <2>2. Silent' /\ CloseUnderWay'
    BY <2>1 DEF Silent, Silenced, CloseUnderWay
  <2>3. HearsClose'
    <3>1. queued' = <<>>
      BY <1>9 DEF SockConnect, Answering, Silent, Silenced
    <3> QED BY <2>1, <3>1 DEF HearsClose, Opened, OpenUnder, Under
  <2>4. CloseFirst' /\ EndIsLast'
    BY <2>1 DEF CloseFirst, EndIsLast, Precedes
  <2> QED BY <2>1, <2>2, <2>3, <2>4 DEF Answering
<1>10. CASE RecvEnd
  <2>1. /\ UNCHANGED <<c2s, queued, srv, abrupt, expects, retry>> /\ s2c' = <<>>
        /\ socket' = "gone" /\ socket \in {"connected", "ended"} /\ s2c # <<>>
    BY <1>10 DEF RecvEnd, SockClose
  <2>2. Answered' /\ ~Silenced'
    BY <2>1 DEF Answered, Silenced, Answering, Silent
  <2> QED BY <1>0, <1>1, <1>20, <2>1, <2>2, ClientAnswers
<1>21. CASE Unstall
  <2>1. /\ UNCHANGED <<s2c, srv, abrupt, expects, socket, retry>> /\ queued' = <<>>
        /\ UNCHANGED c2s \/ (socket = "connected" /\ c2s' = c2s \o queued)
        /\ socket \in {"connected", "ended"}
    BY <1>21 DEF Unstall
  <2>2. queued \in Seq(ToServer) /\ queued \in Seq(ClientCommands)
    BY <1>0 DEF TypeOK, ToServer
  <2>3. Precedes("closeOk", "fin", queued)
    BY <2>2 DEF Precedes, ClientCommands
  <2>4. OpenUnder' => OpenUnder
    <3>1. Under("open", c2s \o queued) <=> Under("open", c2s) \/ Under("open", queued)
      BY <1>0, <2>2, UnderAdded DEF TypeOK
    <3>2. ~Under("open", <<>>)
      BY <1>1
    <3> QED BY <2>1, <3>1, <3>2 DEF OpenUnder, Under
  <2>5. ~Silenced'
    BY <2>1 DEF Silenced, IInv, Phases
  <2> QED BY <1>0, <2>1, <2>2, <2>3, <2>4, <2>5, ClientAnswers
<1>11. CASE CloseChannel0
  <2>1. /\ UNCHANGED <<s2c, srv, abrupt, socket, retry>> /\ Write(<<"close">>)
        /\ expects' = expects \union {"closeOk"}
    BY <1>11 DEF CloseChannel0, ExpectCloseOk
  <2>2. <<"close">> \in Seq(ToServer) /\ <<"close">> \in Seq(ClientCommands)
    BY Literals
  <2>3. /\ UNCHANGED c2s \/ (socket = "connected" /\ c2s' = c2s \o <<"close">>)
        /\ OpenUnder' => OpenUnder \/ Under("open", <<"close">>)
        /\ socket # "connected" => UNCHANGED <<c2s, queued>>
    BY <1>0, <2>1, <2>2, Sends
  <2>4. Silenced' => Silenced /\ UNCHANGED <<c2s, queued, s2c>>
    BY <2>1, <2>3 DEF Silenced, IInv, Phases
  <2>5. ~Under("open", <<"close">>) /\ Precedes("closeOk", "fin", <<"close">>)
    BY Written
  <2> QED BY <1>0, <2>1, <2>2, <2>3, <2>4, <2>5, ClientAnswers
<1>12. CASE RecvCommand
  <2> DEFINE m == Head(s2c)
  <2>1. /\ socket \in {"connected", "ended"} /\ s2c # <<>> /\ s2c' = Tail(s2c)
        /\ UNCHANGED <<retry, srv, abrupt>>
    BY <1>12 DEF RecvCommand, client
  <2>2. socket' = socket \/ (socket = "connected" /\ socket' = "ended")
    BY <1>12 DEF RecvCommand, client, OnStart, OnTune, OnOpenOk, OnClose, OnCloseOk, EndSocket
  <2>3. ~retry
    BY <2>1 DEF IInv, Phases
  <2>4. ~Silenced'
    BY <2>1, <2>2, <2>3 DEF Silenced
  <2>5. ASSUME NEW ms \in Seq(ToServer),
               UNCHANGED c2s \/ (socket = "connected" /\ c2s' = c2s \o ms),
               OpenUnder' => OpenUnder \/ "close" \in expects',
               m = "close" => Answered',
               "close" \in expects => "close" \in expects' \/ Answered',
               Answered \/ Precedes("closeOk", "fin", ms)
        PROVE  Answering'
    BY <1>0, <2>1, <2>2, <2>4, <2>5, ClientAnswers
  <2>6. CASE UNCHANGED <<client, c2s>>
    <3>1. CASE m = "close" /\ m \notin expects
      <4>1. Opened
        <5>1. Under("close", s2c)
          BY <1>0, <2>1, <3>1, UnderTaken DEF TypeOK
        <5> QED BY <5>1 DEF Opened
      <4>2. Answered'
        BY <2>1, <2>6, <3>1, <4>1 DEF Answering, HearsClose, Answered, client
      <4> QED BY <1>1, <1>20, <2>5, <2>6, <4>2 DEF client
    <3>2. CASE m # "close"
      BY <1>1, <1>20, <2>5, <2>6, <3>2 DEF client
    <3>3. CASE m = "close" /\ m \in expects
      <4>1. OnClose
        BY <1>12, <3>3, <2>6 DEF RecvCommand
      <4> QED BY <2>6, <3>3, <4>1 DEF OnClose, client
    <3> QED BY <3>1, <3>2, <3>3
  <2>7. CASE m = "start" /\ OnStart
    <3>1. Write(<<"startOk">>) /\ ("close" \in expects => "close" \in expects')
      BY <2>7 DEF OnStart
    <3>2. ~Under("open", <<"startOk">>) /\ Precedes("closeOk", "fin", <<"startOk">>)
      BY Written
    <3>3. <<"startOk">> \in Seq(ClientCommands) /\ <<"startOk">> \in Seq(ToServer)
      BY Literals
    <3>4. /\ UNCHANGED c2s \/ (socket = "connected" /\ c2s' = c2s \o <<"startOk">>)
          /\ OpenUnder' => OpenUnder \/ Under("open", <<"startOk">>)
      BY <1>0, <3>1, <3>3, Sends
    <3> QED BY <2>5, <2>7, <3>1, <3>2, <3>3, <3>4
  <2>8. CASE m = "tune" /\ OnTune
    <3>1. Write(<<"tuneOk", "open">>) /\ "close" \in expects'
      BY <2>8 DEF OnTune, AfterTune
    <3>2. Precedes("closeOk", "fin", <<"tuneOk", "open">>)
      BY Written
    <3>3. <<"tuneOk", "open">> \in Seq(ClientCommands) /\ <<"tuneOk", "open">> \in Seq(ToServer)
      BY Literals
    <3>4. UNCHANGED c2s \/ (socket = "connected" /\ c2s' = c2s \o <<"tuneOk", "open">>)
      BY <1>0, <3>1, <3>3, Sends
    <3> QED BY <2>5, <2>8, <3>1, <3>2, <3>3, <3>4
  <2>9. CASE m = "openOk" /\ OnOpenOk
    <3>1. UNCHANGED <<c2s, queued>> /\ ("close" \in expects => "close" \in expects')
      BY <2>9 DEF OnOpenOk
    <3> QED BY <1>1, <1>20, <2>5, <2>9, <3>1
  <2>10. CASE m = "close" /\ OnClose
    <3>1. ASSUME NEW ms \in Seq(ToServer), Under("closeOk", ms),
                 c2s' = c2s \o ms \/ socket # "connected"
          PROVE  Answered'
      <4>1. CASE socket = "connected"
        <5>1. Under("closeOk", c2s \o ms)
          BY <1>0, <3>1, UnderAdded DEF TypeOK
        <5> QED BY <3>1, <4>1, <5>1 DEF Answered, Under
      <4>2. CASE socket # "connected"
        BY <2>2, <4>2 DEF Answered
      <4> QED BY <4>1, <4>2
    <3>2. pipe = "flowing" /\ (AnswerAndEnd \/ Write(<<"closeOk">>))
      BY <2>10 DEF OnClose
    <3>3. CASE AnswerAndEnd
      <4>1. /\ \/ UNCHANGED c2s /\ socket # "connected"
               \/ socket = "connected" /\ c2s' = c2s \o <<"closeOk", "fin">>
            /\ OpenUnder' => OpenUnder
        BY <1>0, <3>2, <3>3, SendsAnswer
      <4>2. /\ <<"closeOk", "fin">> \in Seq(ToServer) /\ Under("closeOk", <<"closeOk", "fin">>)
            /\ Precedes("closeOk", "fin", <<"closeOk", "fin">>)
        BY Written DEF ToServer, ClientCommands
      <4>3. Answered'
        BY <3>1, <4>1, <4>2
      <4> QED BY <2>5, <4>1, <4>2, <4>3
    <3>4. CASE Write(<<"closeOk">>)
      <4>1. <<"closeOk">> \in Seq(ClientCommands) /\ <<"closeOk">> \in Seq(ToServer)
        BY Literals
      <4>2. /\ UNCHANGED c2s \/ (socket = "connected" /\ c2s' = c2s \o <<"closeOk">>)
            /\ socket = "connected" => c2s' = c2s \o <<"closeOk">>
            /\ OpenUnder' => OpenUnder \/ Under("open", <<"closeOk">>)
        BY <1>0, <3>2, <3>4, <4>1, Sends
      <4>3. ~Under("open", <<"closeOk">>) /\ Precedes("closeOk", "fin", <<"closeOk">>)
        BY Written
      <4>4. Answered'
        BY <3>1, <4>1, <4>2, Written
      <4> QED BY <2>5, <4>1, <4>2, <4>3, <4>4
    <3> QED BY <3>2, <3>3, <3>4
  <2>11. CASE m = "closeOk" /\ OnCloseOk
    <3>1. /\ c2s' = c2s \o End /\ UNCHANGED queued
          /\ "close" \in expects => "close" \in expects'
      BY <2>11 DEF OnCloseOk
    <3>2. Answered
      <4>1. CASE Precedes("close", "closeOk", s2c)
        BY <1>0, <2>1, <2>11, <4>1, PrecedesTaken DEF TypeOK
      <4> QED BY <4>1 DEF Answering, CloseFirst
    <3>3. /\ UNCHANGED c2s \/ (socket = "connected" /\ c2s' = c2s \o <<"fin">>)
          /\ OpenUnder' => OpenUnder
      BY <1>0, <3>1, SendsEnd
    <3> QED BY <2>5, <2>11, <3>1, <3>2, <3>3, Literals
  <2> QED
    BY <1>12, <2>6, <2>7, <2>8, <2>9, <2>10, <2>11 DEF RecvCommand
<1>13. CASE UNCHANGED vars
  BY <1>2, <1>13 DEF vars, client, Silenced
<1>14. ASSUME c2s # <<>> \/ srv # "none" \/ s2c # <<>> PROVE ~Silenced
  BY <1>14 DEF Answering, Silent
<1>15. CASE Drop
  <2>1. UNCHANGED client /\ srv' = "gone" /\ ~abrupt' /\ ~Silenced
    <3>1. socket = "connected" => ~Silenced
      BY DEF Silenced, IInv, Phases
    <3> QED BY <1>15, <3>1 DEF Drop, Answer, Answering
  <2> QED BY <1>0, <2>1, ServerLeaves
<1>16. \A m \in {"start", "tune", "openOk", "fin"} :
         ~Under("close", <<m>>) /\ ~Under("closeOk", <<m>>) /\ Precedes("close", "closeOk", <<m>>)
  BY DEF Under, Precedes
<1>17. /\ Under("close", <<"close">>) /\ ~Under("closeOk", <<"close">>)
       /\ Precedes("close", "closeOk", <<"close">>)
       /\ Under("closeOk", <<"closeOk">>) /\ ~Under("close", <<"closeOk">>)
  BY DEF Under, Precedes
<1>18. CASE ServerCloses
  <2>1. /\ UNCHANGED <<client, c2s, abrupt>> /\ s2c' = s2c \o <<"close">> /\ srv = "open"
        /\ srv' = "closing"
    BY <1>18 DEF ServerCloses, Answer
  <2>2. Opened
    BY <2>1 DEF Opened
  <2>3. ~Silenced /\ <<"close">> \in Seq(ToClient)
    BY <1>14, <2>1, Literals
  <2> QED BY <1>0, <1>17, <2>1, <2>2, <2>3, ServerAnswers
<1>19. CASE ServerStep
  <2>1. /\ UNCHANGED client /\ c2s # <<>> /\ c2s' = Tail(c2s) /\ ~Silenced
        /\ srv = "gone" \/ ServerTakes(Head(c2s))
    BY <1>14, <1>19 DEF ServerStep
  <2>2. CASE srv = "gone"
    <3>1. srv' = "gone" /\ ~abrupt'
      BY <1>19, <2>2 DEF ServerStep, ServerTakes, Answer, Answering
    <3> QED BY <1>0, <2>1, <3>1, ServerLeaves
  <2>3. CASE srv # "gone" /\ srv' = "gone"
    <3>1. Head(c2s) # "fin"
      BY <1>0, <2>1, <2>3, PrecedesTaken DEF Answering, EndIsLast, TypeOK
    <3>2. ~abrupt'
      BY <2>1, <2>3, <3>1 DEF ServerTakes, Answering
    <3> QED BY <1>0, <2>1, <2>3, <3>2, ServerLeaves
  <2>4. CASE srv # "gone" /\ srv' # "gone"
    <3>1. Head(c2s) # "closeOk"
      BY <2>1, <2>4 DEF ServerTakes, Answer
    <3>2. Head(c2s) = "open" => Opened
      <4>1. Head(c2s) = "open" => Under("open", c2s)
        BY <1>0, <2>1, UnderTaken DEF TypeOK
      <4> QED BY <4>1 DEF Opened, OpenUnder
    <3>3. \A x, y : Answer(x, y) => s2c' = s2c \o x /\ srv' = y
      BY DEF Answer
    <3>4. \/ /\ s2c' = s2c \o <<"start">> /\ srv' = "handshake" /\ UNCHANGED abrupt
          \/ /\ s2c' = s2c \o <<"tune">> /\ srv' = "handshake" /\ UNCHANGED abrupt
          \/ /\ UNCHANGED <<s2c, srv, abrupt>>
          \/ /\ s2c' = s2c \o <<"openOk">> /\ srv' = "open" /\ Opened /\ UNCHANGED abrupt
          \/ /\ s2c' = s2c \o <<"close">> /\ srv' = "closing" /\ Opened /\ UNCHANGED abrupt
          \/ /\ s2c' = s2c \o <<"closeOk">> /\ srv = "closing" /\ srv' = "closing"
             /\ UNCHANGED abrupt
      BY <2>1, <2>4, <3>1, <3>2, <3>3 DEF ServerTakes
    <3>5. ASSUME NEW ms \in Seq(ToClient), s2c' = s2c \o ms, UNCHANGED abrupt,
                 Under("closeOk", ms) => srv = "closing",
                 Under("close", ms) \/ srv' \in {"open", "closing"} => Opened,
                 srv' = "closing" => srv = "closing" \/ Under("close", ms),
                 Precedes("close", "closeOk", ms) \/ srv = "closing"
          PROVE  Answering'
      BY <1>0, <2>1, <2>4, <3>1, <3>5, ServerAnswers
    <3>6. srv \in {"open", "closing"} => Opened
      BY DEF Opened
    <3>7. <<>> \in Seq(ToClient) /\ s2c \o <<>> = s2c
          /\ \A x : ~Under(x, <<>>) /\ Precedes("close", "closeOk", <<>>)
      BY <1>0 DEF TypeOK, Under, Precedes
    <3>8. CASE UNCHANGED <<s2c, srv, abrupt>>
      BY <3>5, <3>6, <3>7, <3>8
    <3>9. CASE s2c' = s2c \o <<"start">> /\ srv' = "handshake" /\ UNCHANGED abrupt
      BY <1>16, <3>5, <3>9, Literals
    <3>10. CASE s2c' = s2c \o <<"tune">> /\ srv' = "handshake" /\ UNCHANGED abrupt
      BY <1>16, <3>5, <3>10, Literals
    <3>11. CASE s2c' = s2c \o <<"openOk">> /\ srv' = "open" /\ Opened /\ UNCHANGED abrupt
      BY <1>16, <3>5, <3>11, Literals
    <3>12. CASE s2c' = s2c \o <<"close">> /\ srv' = "closing" /\ Opened /\ UNCHANGED abrupt
      BY <1>17, <3>5, <3>12, Literals
    <3>13. CASE s2c' = s2c \o <<"closeOk">> /\ srv = "closing" /\ srv' = "closing"
                /\ UNCHANGED abrupt
      BY <1>17, <3>5, <3>6, <3>13, Literals
    <3> QED BY <3>4, <3>8, <3>9, <3>10, <3>11, <3>12, <3>13
  <2> QED BY <2>2, <2>3, <2>4
<1> QED
  BY <1>3, <1>4, <1>5, <1>6, <1>7, <1>8, <1>9, <1>10, <1>11, <1>12, <1>13, <1>15, <1>18, <1>19,
     <1>21 DEF Next

\* That an answer has been held up is not forgotten.
LEMMA HeldUpStays == heldUp /\ [Next]_vars => heldUp'
<1> SUFFICES ASSUME heldUp, [Next]_vars PROVE heldUp'
  OBVIOUS
<1> USE DEF way
<1>1. CASE \/ Start \/ ConnectionRefused \/ ConnectFails \/ RetryTimer \/ SockConnect
           \/ Stall \/ Unstall \/ Wedge
  BY <1>1 DEF Start, ConnectionRefused, ConnectFails, RetryTimer, SockConnect, Stall, Unstall,
              Wedge
<1>2. CASE RecvCommand
  <2>1. heldUp' = heldUp \/ heldUp' = (heldUp \/ pipe # "flowing")
    BY <1>2 DEF RecvCommand, client, OnStart, OnTune, OnOpenOk, OnClose, OnCloseOk
  <2> QED BY <2>1
<1>3. CASE RecvEnd \/ SocketFinishes \/ SocketBreaks \/ SockTimeout
  BY <1>3 DEF RecvEnd, SocketFinishes, SocketBreaks, SockTimeout
<1>4. CASE Close \/ ReaderFails \/ CloseFails \/ CloseChannel0 \/ CloseEnds
  BY <1>4 DEF Close, ReaderFails, CloseFails, CloseChannel0, CloseEnds
<1>5. CASE ServerStep \/ ServerCloses \/ Drop \/ UNCHANGED vars
  BY <1>5 DEF ServerStep, ServerCloses, Drop, vars, client
<1> QED BY <1>1, <1>2, <1>3, <1>4, <1>5 DEF Next

\* A close of the server is answered before the client ends its stream (Channel0.onClose,
\* Connection.onClose, close), whatever else goes wrong, unless the answer is held up on its
\* way to the socket, which _closeConnection does not wait for.
THEOREM CloseIsAnswered == Spec => []AnsweredBeforeEnd
<1>1. Init => IInv /\ (heldUp \/ Answering)
  BY InitIInv, InitAnswering
<1>2. IInv /\ (heldUp \/ Answering) /\ [Next]_vars => (IInv /\ (heldUp \/ Answering))'
  BY NextIInv, AnsweringStep, HeldUpStays
<1>3. heldUp \/ Answering => AnsweredBeforeEnd
  BY DEF Answering, AnsweredBeforeEnd
<1> QED BY <1>1, <1>2, <1>3, PTL DEF Spec

-----------------------------------------------------------------------------
(***************************************************************************)
(* What is proved of Connection holds of it together with its channels.    *)
(***************************************************************************)
\* A step of the composition is a step of Connection or leaves it alone, whatever the
\* channels do.
LEMMA SessionStep == [SessionNext]_sessionVars => [Next]_vars
<1> SUFFICES ASSUME [SessionNext]_sessionVars PROVE [Next]_vars
  OBVIOUS
<1>1. CASE ConnectionStep
  BY <1>1 DEF ConnectionStep, Alone, Next
<1>2. CASE SessionCloses \/ SessionCloseFails \/ AllClosed
  BY <1>2 DEF SessionCloses, SessionCloseFails, AllClosed, Next
<1>3. ASSUME NEW c \in Channels,
             \/ CreateChannel(c) \/ ChannelOpens(c) \/ ChannelStrands(c)
             \/ CloseChannel(c) \/ ChannelCloses(c) \/ ServerClosesChannel(c)
      PROVE  UNCHANGED vars
  BY <1>3 DEF CreateChannel, ChannelOpens, ChannelStrands, CloseChannel, ChannelCloses,
              ServerClosesChannel
<1>4. CASE UNCHANGED sessionVars
  BY <1>4 DEF sessionVars
<1> QED BY <1>1, <1>2, <1>3, <1>4 DEF SessionNext

\* The connection with its channels implements Connection: closeAll() never does to the
\* connection what Connection does not allow.
THEOREM SessionImplementsConnection == SessionSpec => Spec
<1>1. SessionInit => Init
  BY DEF SessionInit
<1> QED BY <1>1, SessionStep, PTL DEF SessionSpec, Spec

\* So the types of Connection hold in the composition ...
THEOREM SessionTypeCorrect == SessionSpec => []TypeOK
BY SessionImplementsConnection, ConnectionTypeCorrect, PTL

\* ... an open connection sends heartbeats, and they stop with its socket ...
THEOREM SessionHeartbeat == SessionSpec => []HeartbeatFollowsSocket
BY SessionImplementsConnection, HeartbeatBound, PTL

\* ... the state of the connection fits that of its socket ...
THEOREM SessionState == SessionSpec => []StateFollowsSocket
BY SessionImplementsConnection, StateBound, PTL

\* ... and a close of the server is answered before the client ends its stream, unless the
\* answer is held up.
THEOREM SessionAnswers == SessionSpec => []AnsweredBeforeEnd
BY SessionImplementsConnection, CloseIsAnswered, PTL
=============================================================================
