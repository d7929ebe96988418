--------------------------- MODULE ChannelStream ---------------------------
(***************************************************************************)
(* The writable side of a channel (classes/Channel.ts, ChannelN.ts) under  *)
(* backpressure: what the application publishes through ch.json            *)
(* (classes/JsonPublisher.ts, a transform piped into the channel) and      *)
(* directly, the answers to the server, and what either side's close does  *)
(* to all that.  The streams are those of Node 14.                         *)
(*                                                                         *)
(* A command is <<kind, n>>: publishes are counted by their origin.        *)
(***************************************************************************)
EXTENDS Naturals, Sequences

CONSTANTS
  Messages,         \* how many messages are written to ch.json
  Publishes,        \* how many are published by ch.basicPublish()
  Flows,            \* how many times the server sends channel.flow
  ReadLimit,        \* highWaterMark of the transform's readable side, in messages
  ChannelLimit      \* highWaterMark of the channel's writable side

ASSUME ChannelStreamAssumption ==
  /\ {Messages, Publishes, Flows} \subseteq Nat
  /\ {ReadLimit, ChannelLimit} \subseteq Nat \ {0}

NoMessage == 0

VARIABLES
  written,          \* the messages written to ch.json so far
  jsonBuf,          \* messages the transform has not begun
  immediate,        \* the message whose setImmediate is pending
  out,              \* the transform's readable buffer
  piped,            \* json is piped into the channel
  flowing,          \* and the pipe is not paused
  published,        \* the direct publishes so far
  chanBuf,          \* commands buffered by the channel's stream
  blocked,          \* Channel._write waits for the connection's 'drain'
  draining,         \* that has come, and the stream is writing what it has buffered
  state,            \* the channel's state; its stream is destroyed when it is closed
  sent,             \* what connection.sendCommand() got
  closing,          \* close(): "no", "waits" for the calls before it, "asked"
  flows,            \* how many channel.flow have come
  serverClose       \* channel.close of the server: "none", "immediate", "done"

json == <<jsonBuf, immediate, out>>
stream == <<chanBuf, blocked, sent>>
vars == <<written, json, piped, flowing, published, stream, draining, state, closing, flows,
          serverClose>>

Init ==
  /\ written = 0 /\ published = 0 /\ flows = 0
  /\ jsonBuf = <<>> /\ immediate = NoMessage /\ out = <<>>
  /\ piped = TRUE /\ flowing = TRUE
  /\ chanBuf = <<>> /\ blocked = FALSE /\ draining = FALSE /\ sent = <<>>
  /\ state = "open" /\ closing = "no" /\ serverClose = "none"

-----------------------------------------------------------------------------
IsPublish(x) == x[1] \in {"json", "direct"}

\* allowCommand of the commands that occur here: the others have class channel.
Allowed(x, st) == IF st = "open" THEN x[1] # "close_ok" ELSE ~IsPublish(x)

\* Channel._write: what is not allowed is dropped without an error, and sendCommand() may
\* return false.
WriteOne(x, st) ==
  IF Allowed(x, st) THEN sent' = Append(sent, x) /\ blocked' \in BOOLEAN
  ELSE UNCHANGED <<sent, blocked>>

\* ch.write(x) in state st: at once, or behind what waits, or to a destroyed stream.
WriteTo(x, st) ==
  \/ state = "closed" /\ UNCHANGED stream
  \/ state # "closed" /\ blocked /\ chanBuf' = Append(chanBuf, x) /\ UNCHANGED <<blocked, sent>>
  \/ state # "closed" /\ ~blocked /\ WriteOne(x, st) /\ UNCHANGED chanBuf

\* ch.json.write(message), which goes nowhere once the stream is destroyed.
Write ==
  /\ written < Messages
  /\ written' = written + 1
  /\ jsonBuf' = IF state = "open" THEN Append(jsonBuf, written') ELSE jsonBuf
  /\ UNCHANGED <<immediate, out, piped, flowing, published, stream, state, closing, flows,
                 serverClose>>

\* _transform of the next message.
Transform ==
  /\ state = "open"
  /\ immediate = NoMessage /\ jsonBuf # <<>> /\ Len(out) < ReadLimit
  /\ immediate' = Head(jsonBuf)
  /\ jsonBuf' = Tail(jsonBuf)
  /\ UNCHANGED <<written, out, piped, flowing, published, stream, state, closing, flows,
                 serverClose>>

\* The immediate: the publish is pushed, on a destroyed stream to nobody.
Immediate ==
  /\ immediate # NoMessage
  /\ immediate' = NoMessage
  /\ out' = IF state = "open" THEN Append(out, immediate) ELSE out
  /\ UNCHANGED <<written, jsonBuf, piped, flowing, published, stream, state, closing, flows,
                 serverClose>>

\* The pipe writes to the channel, and pauses when the channel says so.
Flow ==
  /\ piped /\ flowing /\ out # <<>>
  /\ WriteTo(<<"json", Head(out)>>, state)
  /\ out' = Tail(out)
  /\ flowing' = (Len(chanBuf) + (IF blocked THEN 2 ELSE 1) < ChannelLimit)
  /\ UNCHANGED <<written, jsonBuf, immediate, piped, published, state, closing, flows,
                 serverClose>>

\* Mutant: the pipe is not resumed.
StaysPaused == flowing

Resumed == piped

\* The channel's stream is empty again: its 'drain' resumes the pipe.
Resume ==
  /\ chanBuf = <<>> /\ ~blocked /\ piped /\ ~flowing
  /\ flowing' = Resumed
  /\ UNCHANGED <<written, json, piped, published, stream, state, closing, flows, serverClose>>

\* ch.basicPublish(), which throws unless the channel is open.
Publish ==
  /\ published < Publishes /\ state = "open"
  /\ published' = published + 1
  /\ WriteTo(<<"direct", published'>>, state)
  /\ UNCHANGED <<written, json, piped, flowing, state, closing, flows, serverClose>>

\* The connection's 'drain': the stream goes on with what it has buffered, unless it has
\* been destroyed.
Drain ==
  /\ blocked
  /\ blocked' = FALSE
  /\ draining' = (chanBuf # <<>>)
  /\ UNCHANGED <<written, json, piped, flowing, published, chanBuf, sent, state, closing, flows,
                 serverClose>>

\* Mutant: what sendCommand() returned false for is written again.
Refused == IF blocked' THEN chanBuf ELSE Tail(chanBuf)

\* What is written is no longer waiting, also if it is the last for now.
Waiting == Tail(chanBuf)

\* In the same turn, one after the other until sendCommand() returns false.
WriteNext ==
  /\ draining
  /\ WriteOne(Head(chanBuf), state)
  /\ chanBuf' = Waiting
  /\ draining' = (~blocked' /\ chanBuf' # <<>>)
  /\ UNCHANGED <<written, json, piped, flowing, published, state, closing, flows, serverClose>>

-----------------------------------------------------------------------------
\* transitionToClosingState: json.unpipe() and json.destroy(), which forgets what the
\* stream holds; its immediate still runs.
TransitionToClosing ==
  /\ piped' = FALSE
  /\ jsonBuf' = <<>> /\ out' = <<>>
  /\ UNCHANGED immediate

\* close(), up to its await of the calls that are in progress.
Close ==
  /\ state = "open"
  /\ state' = "closing"
  /\ closing' = "waits"
  /\ TransitionToClosing
  /\ UNCHANGED <<written, flowing, published, stream, flows, serverClose>>

\* It goes on and writes channel.close.
WriteClose ==
  /\ closing = "waits"
  /\ closing' = "asked"
  /\ WriteTo(<<"close", 0>>, state)
  /\ UNCHANGED <<written, json, piped, flowing, published, state, flows, serverClose>>

Sent(x) == \E i \in 1 .. Len(sent) : sent[i] = x

\* onCloseOk, on the server's answer: the stream is destroyed with what it has buffered.
OnCloseOk ==
  /\ state = "closing" /\ Sent(<<"close", 0>>)
  /\ state' = "closed"
  /\ chanBuf' = <<>>
  /\ UNCHANGED <<written, json, piped, flowing, published, blocked, sent, closing, flows,
                 serverClose>>

\* The server's channel.close waits for the event loop in an immediate.
RecvClose ==
  /\ serverClose = "none" /\ state # "closed"
  /\ serverClose' = "immediate"
  /\ UNCHANGED <<written, json, piped, flowing, published, stream, state, closing, flows>>

\* Mutant: the stream is destroyed before the answer.
DestroyFirst == chanBuf' = <<>> /\ UNCHANGED <<blocked, sent>>

\* sendCommand(close-ok) and destroy() in one turn: what is not written at once is lost.
AnswerAndDestroy ==
  IF blocked THEN chanBuf' = <<>> /\ UNCHANGED <<blocked, sent>>
  ELSE WriteTo(<<"close_ok", 0>>, "closing")

\* onClose.  It runs although the channel may have closed on its own since.
OnClose ==
  /\ serverClose = "immediate"
  /\ serverClose' = "done"
  /\ TransitionToClosing
  /\ AnswerAndDestroy
  /\ state' = "closed"
  /\ UNCHANGED <<written, flowing, published, closing, flows>>

\* The server's channel.flow: only the first has a listener, onFlow, which answers.
RecvFlow ==
  /\ flows < Flows /\ serverClose = "none" /\ state # "closed"
  /\ flows' = flows + 1
  /\ \/ flows = 0 /\ WriteTo(<<"flow_ok", 0>>, state)
     \/ flows > 0 /\ UNCHANGED stream
  /\ UNCHANGED <<written, json, piped, flowing, published, state, closing, serverClose>>

\* Nothing comes between the writes of one 'drain'.
Next ==
  \/ WriteNext
  \/ /\ ~draining
     /\ UNCHANGED draining
     /\ \/ Write \/ Transform \/ Immediate \/ Flow \/ Resume \/ Publish
        \/ Close \/ WriteClose \/ OnCloseOk \/ RecvClose \/ OnClose \/ RecvFlow
  \/ ~draining /\ Drain

Spec == Init /\ [][Next]_vars

\* A turn of its own.
Turn(A) == ~draining /\ UNCHANGED draining /\ A

\* The event loop runs callbacks and immediates, the connection drains, and the calls
\* before close() come to an end.
Fairness ==
  /\ WF_vars(Turn(Transform)) /\ WF_vars(Turn(Immediate)) /\ WF_vars(Turn(Flow))
  /\ WF_vars(Turn(Resume)) /\ WF_vars(Turn(WriteClose))
  /\ WF_vars(~draining /\ Drain) /\ WF_vars(WriteNext)

FairSpec == Spec /\ Fairness

-----------------------------------------------------------------------------
\* The i-th publish of q is the first one of its number, and the one before it in ch.json or
\* in the direct calls is somewhere before it.
InTurn(q, i) ==
  /\ \A j \in 1 .. i - 1 : q[j] # q[i]
  /\ q[i][2] = 1 \/ \E j \in 1 .. i - 1 : q[j] = <<q[i][1], q[i][2] - 1>>

\* Whatever pauses, blocks or closes in between, what the connection gets from ch.json
\* and from basicPublish() is what was written there, in order, up to some message:
\* closing cuts each sequence off, and never leaves a hole in it, repeats or reorders it.
SentIsPrefix ==
  \A i \in 1 .. Len(sent) : IsPublish(sent[i]) => InTurn(sent, i)

\* The server's close is answered before the stream is destroyed, unless the stream
\* waits for a 'drain' (then the answer is lost with it).
AnsweredUnlessBlocked ==
  [][serverClose' = "done" /\ serverClose # "done" /\ state # "closed" /\ ~blocked
       => sent' = Append(sent, <<"close_ok", 0>>)]_vars

\* What is written goes out in the end, past whatever the stream had buffered: a message
\* unless the channel closes, and the channel.close of close() unless the server closes the
\* channel in between.
GoesOut ==
  /\ \A m \in 1 .. Messages : written = m ~> state # "open" \/ Sent(<<"json", m>>)
  /\ \A m \in 1 .. Publishes :
       published = m ~> state # "open" \/ Sent(<<"direct", m>>)
  /\ state = "closing" ~> Sent(<<"close", 0>>) \/ state = "closed"
=============================================================================
