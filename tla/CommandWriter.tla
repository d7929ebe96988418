--------------------------- MODULE CommandWriter ---------------------------
(***************************************************************************)
(* From channel.write() to the wire: Channel._write of classes/Channel.ts, *)
(* Connection.sendCommand, services/CommandWriter.ts and the encoders, and *)
(* the pipe from the writer to the socket.                                 *)
(*                                                                         *)
(* Every frame is encoded into the one buffer of the writer, and what is   *)
(* pushed is a view of it.  A view holds the frame it was made for; what   *)
(* the wire gets is what the buffer holds when the kernel copies it.       *)
(*                                                                         *)
(* As in ChannelRPC a macro step (the application, an immediate, the       *)
(* kernel) waits until no micro step (a callback of a stream) is left.     *)
(***************************************************************************)
EXTENDS Integers, Sequences

CONSTANTS
  Channels,
  Program,          \* the commands each channel is given to write
  MethodSize,       \* the octets of the method frame of each command
  HeaderSize,       \* of its content header frame, 0 if it has no content
  BodySize,         \* and of its body
  FrameMax,         \* the frame_max of connection.tune
  HighWater,        \* highWaterMark of the writer's readable side and the socket
  WriterLimit,      \* highWaterMark of the writer's writable side, in commands
  KernelBlocks,     \* the kernel may take a write later, not at once
  None

Commands == DOMAIN MethodSize

ASSUME CommandWriterAssumption ==
  /\ Program \in [Channels -> Seq(Commands)]
  \* A command is the object of one write().
  /\ \A ch, d \in Channels : \A i \in DOMAIN Program[ch], j \in DOMAIN Program[d] :
       Program[ch][i] = Program[d][j] => ch = d /\ i = j
  /\ {MethodSize, HeaderSize, BodySize} \subseteq [Commands -> Nat]
  /\ FrameMax \in Nat /\ FrameMax > 8
  /\ {HighWater, WriterLimit} \subseteq Nat \ {0}
  /\ KernelBlocks \in BOOLEAN
  /\ None \notin Commands

VARIABLES
  written,          \* how many commands of its program each channel was given
  chanBuf,          \* commands buffered by each channel's own stream
  blocked,          \* its _write waits for the connection's 'drain'
  pending,          \* commands buffered by the writer
  needDrain,        \* a write() of the writer has returned false
  job,              \* the command in _transform
  left,             \* the frames its generator has still to yield
  loop,             \* "running", "deferred" to an immediate, or "thrown"
  buf,              \* the frame that CommandWriter.buf holds
  out,              \* views in the writer's readable buffer
  flowing,          \* the pipe has not paused the writer
  inFlight,         \* views the kernel has not taken yet
  sockBuf,          \* views buffered by the socket
  sockNeedDrain,    \* a write() of the socket has returned false
  wire,             \* what the kernel took: [of, holds]
  backedUp          \* the kernel has once not taken a write at once

channel == <<written, chanBuf, blocked>>
writer == <<pending, needDrain, job, left, loop, buf>>
pipe == <<out, flowing>>
socket == <<inFlight, sockBuf, sockNeedDrain, wire, backedUp>>
vars == <<channel, writer, pipe, socket>>

-----------------------------------------------------------------------------
FrameOf(c, i, size) == [cmd |-> c, index |-> i, size |-> size]

Least(a, b) == IF a <= b THEN a ELSE b

bodyMax == FrameMax - 8

BodyFrames(c) ==
  [i \in 1 .. (BodySize[c] + bodyMax - 1) \div bodyMax |->
     FrameOf(c, i + 2, 8 + Least(bodyMax, BodySize[c] - (i - 1) * bodyMax))]

\* toFrames(command, frameMax)
FramesOf(c) ==
  <<FrameOf(c, 1, MethodSize[c])>>
    \o IF HeaderSize[c] = 0 THEN <<>>
       ELSE <<FrameOf(c, 2, HeaderSize[c])>> \o BodyFrames(c)


\* encodeFrame throws: "Frame overflow!", or the buffer itself is too short.
Overflows(f) == f.size > FrameMax

\* The octets of a readable or writable buffer (state.length).
Octets(views) ==
  LET upTo[i \in 0 .. Len(views)] == IF i = 0 THEN 0 ELSE upTo[i - 1] + views[i].size
  IN  upTo[Len(views)]

Init ==
  /\ written = [ch \in Channels |-> 0]
  /\ chanBuf = [ch \in Channels |-> <<>>]
  /\ blocked = [ch \in Channels |-> FALSE]
  /\ pending = <<>> /\ needDrain = FALSE
  /\ job = None /\ left = <<>> /\ loop = "idle"
  /\ buf = None
  /\ out = <<>> /\ flowing = TRUE
  /\ inFlight = <<>> /\ sockBuf = <<>> /\ sockNeedDrain = FALSE
  /\ wire = <<>> /\ backedUp = FALSE

-----------------------------------------------------------------------------
(***************************************************************************)
(* Micro steps: the streams.                                               *)
(***************************************************************************)
\* The commands the writer counts: the one in _transform and those behind it.
WriterLength == Len(pending) + IF job = None THEN 0 ELSE 1

CanForward(ch) == chanBuf[ch] # <<>> /\ ~blocked[ch]

\* Channel._write of the next command: sendCommand() has the writer write it, and
\* when that returns false the callback waits for 'drain'.
Forward(ch) ==
  /\ CanForward(ch)
  /\ chanBuf' = [chanBuf EXCEPT ![ch] = Tail(@)]
  /\ pending' = Append(pending, Head(chanBuf[ch]))
  /\ LET full == WriterLength + 1 >= WriterLimit
     IN  /\ needDrain' = (needDrain \/ full)
         /\ blocked' = [blocked EXCEPT ![ch] = full]
  /\ UNCHANGED <<written, job, left, loop, buf, pipe, socket>>

CanFlow == flowing /\ out # <<>>

\* Mutant: a command is taken while the loop of another one is deferred.
CanTakeNext == loop # "running" /\ pending # <<>> /\ Octets(out) < HighWater

\* Transform._write, or _read under read(), which calls it before it takes its chunk.
CanTake ==
  /\ job = None /\ pending # <<>>
  /\ \/ Octets(out) < HighWater
     \/ CanFlow /\ Octets(Tail(out)) < HighWater

Take ==
  /\ CanTake
  /\ job' = Head(pending)
  /\ pending' = Tail(pending)
  /\ left' = FramesOf(Head(pending))
  /\ loop' = "running"
  /\ UNCHANGED <<needDrain, buf, channel, pipe, socket>>

\* socket.write(f) with the buffer holding `holds`: the kernel copies it at once, or
\* the view waits.  It returns false from the high water mark on, and the pipe pauses.
SocketWrite(f, holds) ==
  LET full == Octets(inFlight) + Octets(sockBuf) + f.size >= HighWater
  IN  /\ \/ /\ inFlight = <<>>
            /\ wire' = Append(wire, [of |-> f, holds |-> holds])
            /\ UNCHANGED <<inFlight, sockBuf, backedUp>>
         \/ /\ inFlight = <<>> /\ KernelBlocks
            /\ inFlight' = <<f>>
            /\ backedUp' = TRUE
            /\ UNCHANGED <<sockBuf, wire>>
         \/ /\ inFlight # <<>>
            /\ sockBuf' = Append(sockBuf, f)
            /\ UNCHANGED <<inFlight, wire, backedUp>>
      /\ sockNeedDrain' = (sockNeedDrain \/ full)
      /\ flowing' = ~full

\* Mutant: the next frame is encoded before this one is pushed.
EncodedAhead(f) == IF Len(left) > 1 THEN left[2] ELSE f

\* What the buffer holds when the view of f is pushed.
Encoded(f) == f

\* One turn of the loop of transform(): encode a frame and push its view, which goes
\* on at once if the pipe flows; when push() returns false the loop is deferred.
Push ==
  /\ loop = "running" /\ left # <<>> /\ ~Overflows(Head(left))
  /\ LET f == Head(left) IN
       /\ buf' = Encoded(f)
       /\ \/ /\ flowing /\ out = <<>>
             /\ SocketWrite(f, buf')
             /\ out' = out
          \/ /\ ~(flowing /\ out = <<>>)
             /\ out' = Append(out, f)
             /\ UNCHANGED <<flowing, socket>>
       /\ loop' = IF Octets(out') < HighWater THEN "running" ELSE "deferred"
  /\ left' = Tail(left)
  /\ UNCHANGED <<pending, needDrain, job, channel>>

\* encodeFrame throws out of _transform: its callback is never called.
Throw ==
  /\ loop = "running" /\ left # <<>> /\ Overflows(Head(left))
  /\ loop' = "thrown"
  /\ UNCHANGED <<pending, needDrain, job, left, buf, channel, pipe, socket>>

\* The generator is done: the callback.  The listeners that transform() has left on
\* 'drain' find already_finished.
Finish ==
  /\ loop = "running" /\ left = <<>>
  /\ job' = None
  /\ loop' = "idle"
  /\ UNCHANGED <<pending, needDrain, left, buf, channel, pipe, socket>>

\* Mutant: the connection does not relay the writer's 'drain'.
NobodyReleased == blocked

\* onSocketDrain: every channel that waits is called back.
Released == [ch \in Channels |-> FALSE]

CanDrain == needDrain /\ WriterLength = 0

\* The writer's 'drain'.
Drain ==
  /\ CanDrain
  /\ needDrain' = FALSE
  /\ blocked' = Released
  /\ UNCHANGED <<written, chanBuf, pending, job, left, loop, buf, pipe, socket>>

\* flow(): read() yields the next view to the pipe.
Flow ==
  /\ CanFlow
  /\ SocketWrite(Head(out), buf)
  /\ out' = Tail(out)
  /\ UNCHANGED <<channel, writer>>

CanSocketDrain == sockNeedDrain /\ inFlight = <<>> /\ sockBuf = <<>>

\* The socket's 'drain': the pipe resumes the writer.
SocketDrain ==
  /\ CanSocketDrain
  /\ sockNeedDrain' = FALSE
  /\ flowing' = TRUE
  /\ UNCHANGED <<channel, writer, out, inFlight, sockBuf, wire, backedUp>>

Micro ==
  \/ \E ch \in Channels : Forward(ch)
  \/ Take \/ Push \/ Throw \/ Finish
  \/ Drain \/ Flow \/ SocketDrain

\* Nothing is left of what a write() does before it returns.
Returned ==
  /\ \A ch \in Channels : ~CanForward(ch)
  /\ loop # "running"
  /\ ~CanTake /\ ~CanFlow

MicroIdle == Returned /\ ~CanDrain /\ ~CanSocketDrain

-----------------------------------------------------------------------------
\* The application writes the next command of a channel (Channel.sendCommand); when it
\* writes several in one turn, the streams' 'drain' events wait for the next tick.
Write(ch) ==
  /\ Returned
  /\ written[ch] < Len(Program[ch])
  /\ written' = [written EXCEPT ![ch] = @ + 1]
  /\ chanBuf' = [chanBuf EXCEPT ![ch] = Append(@, Program[ch][written[ch] + 1])]
  /\ UNCHANGED <<blocked, writer, pipe, socket>>

\* setImmediate(transform)
Immediate ==
  /\ MicroIdle
  /\ loop = "deferred"
  /\ loop' = "running"
  /\ UNCHANGED <<pending, needDrain, job, left, buf, channel, pipe, socket>>

\* The kernel copies what the views in flight hold by now; the socket then writes
\* what it has buffered.
KernelTakes ==
  /\ MicroIdle
  /\ inFlight # <<>>
  /\ wire' = wire \o [i \in 1 .. Len(inFlight) |-> [of |-> inFlight[i], holds |-> buf]]
  /\ inFlight' = sockBuf
  /\ sockBuf' = <<>>
  /\ UNCHANGED <<channel, writer, pipe, sockNeedDrain, backedUp>>

Next ==
  \/ Micro
  \/ \E ch \in Channels : Write(ch)
  \/ Immediate
  \/ KernelTakes

Spec == Init /\ [][Next]_vars

\* The streams' callbacks and immediates run, and the peer reads, so that the kernel
\* takes what it was given.  The application need not write.
Fairness ==
  /\ WF_vars(Micro)
  /\ WF_vars(Immediate)
  /\ WF_vars(KernelTakes)

FairSpec == Spec /\ Fairness

-----------------------------------------------------------------------------
\* The frames that have gone out.
Sent == [i \in DOMAIN wire |-> wire[i].of]

\* The i-th frame of a sequence goes on with the command of the one before it, or begins
\* a command after the whole of another one; and each channel's are in its order.
InTurn(frames, i) ==
  LET f == frames[i]
      Begun(c) == \E j \in 1 .. i - 1 : frames[j].cmd = c
  IN  /\ f.index \in DOMAIN FramesOf(f.cmd) /\ f = FramesOf(f.cmd)[f.index]
      /\ f.index > 1 => i > 1 /\ frames[i - 1] = FramesOf(f.cmd)[f.index - 1]
      /\ f.index = 1 =>
           /\ ~Begun(f.cmd)
           /\ i > 1 => frames[i - 1].index = Len(FramesOf(frames[i - 1].cmd))
           /\ \E ch \in Channels : \E n \in 1 .. written[ch] :
                f.cmd = Program[ch][n] /\ \A m \in 1 .. n - 1 : Begun(Program[ch][m])

\* Whatever blocks, and however the loops are deferred, the frames of each channel go
\* out in the order of its writes, each once, and no other frame comes between the frames
\* of one command (the reader of the peer keeps one command per connection too); none is
\* longer than frame_max.
WholeAndInOrder == \A i \in DOMAIN Sent : InTurn(Sent, i) /\ Sent[i].size <= FrameMax

\* The one buffer is only safe while every view is copied before the next frame is
\* encoded: so it is, until the kernel does not take a write at once, provided that no
\* frame is as long as the high water mark.
IntactUntilBackedUp ==
  \/ backedUp
  \/ \E i \in DOMAIN wire : wire[i].of.size >= HighWater
  \/ \A i \in DOMAIN wire : wire[i].holds = wire[i].of

\* test/command_writer.test.ts:54: what comes out of the writer is the encoding of the
\* command that was written.
SentAsEncoded == \A i \in DOMAIN wire : wire[i].holds = wire[i].of

Wedged ==
  loop = "thrown" /\ (MethodSize[job] > FrameMax \/ HeaderSize[job] > FrameMax)

Out(c) == \A k \in DOMAIN FramesOf(c) : \E i \in DOMAIN wire : wire[i].of = FramesOf(c)[k]

\* What is written gets out, through every buffer and its 'drain', unless a method or
\* header frame is too long to be encoded (a body is split so that it never is): then
\* nothing does any more, on any channel.
AllSent ==
  \A ch \in Channels : \A n \in 1 .. Len(Program[ch]) :
    written[ch] >= n ~> Wedged \/ Out(Program[ch][n])
=============================================================================
