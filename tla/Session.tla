------------------------------ MODULE Session ------------------------------
(***************************************************************************)
(* A Connection with its channels: close() of the connection first closes  *)
(* every channel that the ChannelManager has mapped (closeAll), whatever   *)
(* the application and the server are doing with them at that time.        *)
(*                                                                         *)
(* The phases of a channel are those of ChannelManager.  Every step of the *)
(* composition is one of Connection or leaves it alone.                    *)
(***************************************************************************)
EXTENDS Connection

CONSTANT Channels

VARIABLES
  phase,        \* where each channel is in its life
  awaited,      \* the channels whose close() closeAll() waits for
  thrown        \* one of these was not open, and its close() threw

channels == <<phase, awaited, thrown>>
sessionVars == <<vars, channels>>

SessionInit ==
  /\ Init
  /\ phase = [c \in Channels |-> "unborn"]
  /\ awaited = {} /\ thrown = FALSE

Mapped == {c \in Channels : phase[c] \in {"opening", "stranded", "open", "closing"}}

\* The channels hear the server, and (Served) it answers what they ask.
Heard == socket = "connected" /\ reading /\ srv = "open"
Served == Heard /\ pipe # "stuck"

Moves(c, from, to) ==
  /\ phase[c] \in from
  /\ phase' = [phase EXCEPT ![c] = to]

-----------------------------------------------------------------------------
\* conn.channel() on an open connection; but nothing keeps it from being called while
\* the connection closes.
CreateChannel(c) ==
  /\ state \in {"open", "closing"} /\ started = "resolved"
  /\ Moves(c, {"unborn"}, "opening")
  /\ UNCHANGED <<vars, awaited, thrown>>

\* open-ok
ChannelOpens(c) == Served /\ Moves(c, {"opening"}, "open") /\ UNCHANGED <<vars, awaited, thrown>>

\* open() is given up after 20 s: the channel stays in the map.
ChannelStrands(c) == Moves(c, {"opening"}, "stranded") /\ UNCHANGED <<vars, awaited, thrown>>

\* ch.close() by the application.
CloseChannel(c) == Moves(c, {"open"}, "closing") /\ UNCHANGED <<vars, awaited, thrown>>

\* close-ok
ChannelCloses(c) ==
  /\ Served
  /\ Moves(c, {"closing"}, "closed")
  /\ awaited' = awaited \ {c}
  /\ UNCHANGED <<vars, thrown>>

\* The server refuses or closes a channel.  If the channel is closing too, its close() waits
\* for an answer that it cannot get any more, and rejects.
ServerClosesChannel(c) ==
  /\ MayClose /\ Heard
  /\ Moves(c, {"opening", "open", "closing"}, "closed")
  /\ UNCHANGED <<vars, awaited, thrown>>

-----------------------------------------------------------------------------
\* Mutant: a channel that is not open is not asked to close, but waited for like the others.
CloseOpenOnes ==
  /\ phase' = [c \in Channels |-> IF phase[c] = "open" THEN "closing" ELSE phase[c]]
  /\ awaited' = Mapped
  /\ UNCHANGED thrown

\* closeAll(): close() of every mapped channel, which throws in one that is not open.
CloseAll ==
  /\ phase' = [c \in Channels |-> IF phase[c] = "open" THEN "closing" ELSE phase[c]]
  /\ awaited' = {c \in Channels : phase[c] = "open"}
  /\ thrown' = \E c \in Mapped : phase[c] # "open"

\* close(), from the application or the 'error' of the reader.
SessionCloses ==
  /\ Close \/ ReaderFails
  /\ IF state = "open" THEN CloseAll ELSE UNCHANGED channels

\* The server has closed a channel that closeAll() waits for.
Crossed == \E c \in awaited : phase[c] = "closed"

\* closeAll() rejects, or sendCommand() throws: so does close() of the connection.
SessionCloseFails ==
  /\ CloseFails
  /\ thrown \/ Crossed \/ (awaited # {} /\ ~Served) \/ state = "closed"
  /\ UNCHANGED channels

AllClosed == CloseChannel0 /\ awaited = {} /\ ~thrown /\ UNCHANGED channels

Alone(A) == A /\ UNCHANGED channels

ConnectionStep ==
  Alone(\/ Start \/ ConnectionRefused \/ ConnectFails \/ RetryTimer \/ SockConnect
        \/ Stall \/ Unstall \/ Wedge
        \/ RecvCommand \/ RecvEnd \/ SocketFinishes \/ SocketBreaks \/ SockTimeout
        \/ CloseEnds
        \/ ServerStep \/ ServerCloses \/ Drop)

SessionNext ==
  \/ ConnectionStep \/ SessionCloses \/ SessionCloseFails \/ AllClosed
  \/ \E c \in Channels :
       \/ CreateChannel(c) \/ ChannelOpens(c) \/ ChannelStrands(c)
       \/ CloseChannel(c) \/ ChannelCloses(c) \/ ServerClosesChannel(c)

SessionSpec == SessionInit /\ [][SessionNext]_sessionVars

\* A connect fails or succeeds, timers fire, the kernel takes what is written, the network
\* delivers, the server answers and close() goes on; the application and the server need not
\* close.
FairSession ==
  /\ SessionSpec
  /\ WF_sessionVars(Alone(ConnectionRefused \/ ConnectFails \/ SockConnect))
  /\ WF_sessionVars(Alone(RetryTimer))
  /\ WF_sessionVars(Alone(Unstall))
  /\ WF_sessionVars(Alone(RecvCommand \/ RecvEnd))
  /\ WF_sessionVars(Alone(SocketFinishes \/ SocketBreaks))
  /\ WF_sessionVars(Alone(CloseEnds))
  /\ WF_sessionVars(Alone(ServerStep))
  /\ WF_sessionVars(SessionCloseFails \/ AllClosed)
  /\ \A c \in Channels : WF_sessionVars(ChannelOpens(c)) /\ WF_sessionVars(ChannelCloses(c))

-----------------------------------------------------------------------------
\* close() of an open connection comes to an end, also when what the channels publish holds
\* up its command, and the connection does not stay in between; except that a channel was
\* just opening or closing, or was stranded (closeAll() then rejects, and no other close()
\* does anything), that the server closes one of the channels in the meantime, that the
\* encoder has thrown in the writer, or that the server or the network ends the connection
\* too: its close-ok then may never be read.
CloseCompletes ==
  /\ closer = "channels" ~> closer \in {"done", "failed"} \/ upset # {}
  /\ state = "closing" ~> state # "closing" \/ thrown \/ Crossed \/ upset # {}
=============================================================================
