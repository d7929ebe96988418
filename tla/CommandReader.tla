---------------------------- MODULE CommandReader ---------------------------
(***************************************************************************)
(* services/CommandReader.ts over utils/FrameDecoder.ts: the commands of   *)
(* all channels, put together from the chunks of one socket.               *)
(***************************************************************************)
EXTENDS Integers, Sequences, FiniteSets

CONSTANTS
  None,
  Channels,
  Script,           \* the commands the server sends on each channel, in order:
                    \* [content, body] with body the sizes of its body frames
  MaxBeats,         \* (bound) heartbeat frames the server sends
  Window            \* (bound) the server sends a frame if not more than so many
                    \* octets are under way

Places == [channel : Channels, cmd : Nat, frame : Nat]
Frames == [type : {"method", "header", "body", "heartbeat"}, place : Places \union {None},
           size : Nat, body_size : Nat, content : BOOLEAN, no : Nat]
Bytes == [frame : Frames, at : Nat]

ASSUME CommandReaderAssumption ==
  /\ None \notin Places \union Seq(Bytes) \union [length : Nat, bytes : Seq(Bytes)]
  /\ {MaxBeats, Window} \subseteq Nat
  /\ Script \in [Channels -> Seq([content : BOOLEAN, body : Seq(Nat \ {0})])]
  /\ \A ch \in Channels : \A i \in DOMAIN Script[ch] :
       ~Script[ch][i].content => Script[ch][i].body = <<>>

VARIABLES
  writer, chunk,    \* of the FrameDecoder
  state,            \* _state, never READY between two frames
  command,          \* _command
  remaining,        \* _remaining_bytes
  pushed,           \* the commands handed to Connection.onCommand
  failed,           \* a frame has made the stream fail; it is destroyed
  next,             \* the place of the frame the server sends next, per channel
  beats,
  s2c,              \* bytes in the socket
  order,            \* (history) the commands in the order the server finished them
  sent              \* (history) the frames sent and, after each, the place reached, how
                    \* many commands are finished, whether any have been mixed

vars == <<writer, chunk, state, command, remaining, pushed, failed, next, beats, s2c,
          order, sent>>

Decoder == INSTANCE FrameDecoder

-----------------------------------------------------------------------------
\* The place of a frame: of which command of which channel it is the i-th.
Place(ch, j, i) == [channel |-> ch, cmd |-> j, frame |-> i]

CommandAt(p) == Script[p.channel][p.cmd]
\* How many frames a command has: a method, and a header and the body if it has content.
Count(c) == IF c.content THEN 2 + Len(c.body) ELSE 1
IsLast(p) == p.frame = Count(CommandAt(p))

UpTo(sizes) ==
  LET upTo[i \in 0 .. Len(sizes)] == IF i = 0 THEN 0 ELSE upTo[i - 1] + sizes[i] IN upTo
Sum(sizes) == UpTo(sizes)[Len(sizes)]

\* The sizes of the payloads of methods and headers do not matter: one octet.
FrameAt(p, no) ==
  [type |-> IF p.frame = 1 THEN "method" ELSE IF p.frame = 2 THEN "header" ELSE "body",
   place |-> p,
   size |-> IF p.frame <= 2 THEN 1 ELSE CommandAt(p).body[p.frame - 2],
   body_size |-> IF p.frame = 2 THEN Sum(CommandAt(p).body) ELSE 0,
   content |-> CommandAt(p).content,
   no |-> no]       \* (history) its index in `sent`

Heartbeat(no) ==
  [type |-> "heartbeat", place |-> None, size |-> 0, body_size |-> 0, content |-> FALSE,
   no |-> no]

\* A command as it should arrive, frame for frame.
Whole(ch, j) == [i \in 1 .. Count(Script[ch][j]) |-> Place(ch, j, i)]

Sent(frame, place, done, mixed) ==
  [frame |-> frame, place |-> place, done |-> done, mixed |-> mixed]
LastSent == sent[Len(sent)]

Init ==
  /\ Decoder!DecoderInit
  /\ state = "EXPECTING_METHOD" /\ command = None /\ remaining = 0
  /\ pushed = <<>> /\ failed = FALSE
  /\ next = [ch \in Channels |-> Place(ch, 1, 1)]
  /\ beats = 0 /\ s2c = <<>>
  /\ order = <<>> /\ sent = <<Sent(None, None, 0, FALSE)>>

reader == <<writer, chunk, state, command, remaining, pushed, failed>>
server == <<next, beats, order, sent>>

-----------------------------------------------------------------------------
\* frame.payload.byteLength
ByteLength(f) == f.size

\* READY: the command is pushed, and a method is expected next.
Ready(c) ==
  /\ pushed' = Append(pushed, c)
  /\ state' = "EXPECTING_METHOD"

\* An exception of processFrame goes to cb(ex): the stream is destroyed, the rest of
\* the chunk is not looked at, and the connection begins to close.
Throws ==
  /\ failed' = TRUE
  /\ UNCHANGED <<state, command, remaining, pushed>>

ConsumeMethodFrame(f) ==
  /\ state = "EXPECTING_METHOD" /\ f.type = "method"
  /\ command' = <<f.place>>
  /\ \/ ~f.content /\ Ready(command')
     \/ f.content /\ state' = "EXPECTING_HEADER" /\ UNCHANGED pushed
  /\ UNCHANGED <<remaining, failed>>

ConsumeHeaderFrame(f) ==
  /\ state = "EXPECTING_HEADER" /\ f.type = "header"
  /\ command' = Append(command, f.place)
  /\ \/ f.body_size = 0 /\ Ready(command') /\ UNCHANGED remaining
     \/ /\ f.body_size > 0
        /\ remaining' = f.body_size
        /\ state' = "EXPECTING_BODY"
        /\ UNCHANGED pushed
  /\ UNCHANGED failed

\* Mutant: the first body frame completes the command.
OneFrame == TRUE

\* this._remaining_bytes > 0 fails
BodyDone == remaining' <= 0

ConsumeBodyFrame(f) ==
  /\ state = "EXPECTING_BODY" /\ f.type = "body"
  /\ remaining' = remaining - ByteLength(f)
  /\ command' = Append(command, f.place)
  /\ \/ BodyDone /\ Ready(command')
     \/ ~BodyDone /\ UNCHANGED <<state, pushed>>
  /\ UNCHANGED failed

Expected(f) ==
  <<state, f.type>> \in {<<"EXPECTING_METHOD", "method">>, <<"EXPECTING_HEADER", "header">>,
                         <<"EXPECTING_BODY", "body">>}

\* processFrame() looks at the type of the frame only, not at its channel.
ProcessFrame(f) ==
  \/ ConsumeMethodFrame(f) \/ ConsumeHeaderFrame(f) \/ ConsumeBodyFrame(f)
  \/ ~Expected(f) /\ Throws

\* Mutant: a heartbeat is a frame like any other.
NeverSkipped(f) == FALSE

\* _transform: heartbeats are reported, and not processed.
Skipped(f) == f.type = "heartbeat"

\* One turn of the loop over decoder.extract(chunk), to the next frame or the end.
Transform ==
  /\ ~failed
  /\ \/ /\ Decoder!Extract
        /\ UNCHANGED <<state, command, remaining, pushed, failed>>
     \/ /\ Decoder!YieldWhole \/ Decoder!YieldFilled
        /\ \/ Skipped(Decoder!Yielded) /\ UNCHANGED <<state, command, remaining, pushed, failed>>
           \/ ~Skipped(Decoder!Yielded) /\ ProcessFrame(Decoder!Yielded)
  /\ UNCHANGED <<server, s2c>>

\* The socket hands over the next k octets.
RecvChunk(k) ==
  /\ ~failed /\ chunk = None
  /\ k \in 1 .. Len(s2c)
  /\ chunk' = SubSeq(s2c, 1, k)
  /\ s2c' = SubSeq(s2c, k + 1, Len(s2c))
  /\ UNCHANGED <<writer, state, command, remaining, pushed, failed, server>>

-----------------------------------------------------------------------------
(***************************************************************************)
(* The server (external).  AMQP keeps the frames of a command in order on  *)
(* its channel, and lets those of other channels come in between.          *)
(***************************************************************************)
InsideCommand(ch) == next[ch].frame > 1

After(p) == IF IsLast(p) THEN Place(p.channel, p.cmd + 1, 1)
            ELSE Place(p.channel, p.cmd, p.frame + 1)

ServerSends(ch) ==
  /\ next[ch].cmd <= Len(Script[ch]) /\ Len(s2c) <= Window
  /\ LET p == next[ch]
         f == FrameAt(p, Len(sent) + 1)
     IN  /\ next' = [next EXCEPT ![ch] = After(p)]
         /\ s2c' = s2c \o Decoder!BytesOf(f)
         /\ order' = IF IsLast(p) THEN Append(order, <<ch, p.cmd>>) ELSE order
         /\ sent' = Append(sent, Sent(f, p, Len(order'),
                      LastSent.mixed \/ \E other \in Channels \ {ch} : InsideCommand(other)))
  /\ UNCHANGED <<reader, beats>>

ServerBeats ==
  /\ beats < MaxBeats /\ Len(s2c) <= Window
  /\ beats' = beats + 1
  /\ LET f == Heartbeat(Len(sent) + 1)
     IN  /\ s2c' = s2c \o Decoder!BytesOf(f)
         /\ sent' = Append(sent, [LastSent EXCEPT !.frame = f])
  /\ UNCHANGED <<reader, next, order>>

Next ==
  \/ Transform
  \/ \E k \in 1 .. Len(s2c) : RecvChunk(k)
  \/ \E ch \in Channels : ServerSends(ch)
  \/ ServerBeats

Spec == Init /\ [][Next]_vars

\* The socket and the event loop go on; the server need not send.
FairSpec ==
  /\ Spec
  /\ WF_vars(Transform)
  /\ WF_vars(\E k \in 1 .. Len(s2c) : RecvChunk(k))

-----------------------------------------------------------------------------
\* However the socket cuts the octets, the decoder keeps its place in them (it takes nothing
\* else for a frame header, nor a frame for one it is not), and the reader fails (and with
\* it the connection) only if the server has mixed the frames of two channels: neither
\* heartbeats nor the cuts of the socket do it.
FailsOnlyIfMixed ==
  /\ ~Decoder!Misread
  /\ failed => LastSent.mixed

\* The commands pushed are those the server has finished, in that order, each with
\* all of its frames and nothing of another channel's: also when frames of several
\* channels are mixed, which the reader's single state cannot tell apart.
WholeAndInOrder ==
  /\ Len(pushed) <= Len(order)
  /\ \A i \in DOMAIN pushed :
       \E ch \in Channels : \E j \in DOMAIN Script[ch] :
         order[i] = <<ch, j>> /\ pushed[i] = Whole(ch, j)

Commands == UNION {{<<ch, j>> : j \in DOMAIN Script[ch]} : ch \in Channels}

\* Every command the server finishes reaches its channel, unless the reader fails.
AllArrive ==
  \A n \in 1 .. Cardinality(Commands) :
    Len(order) >= n ~> Len(pushed) >= n \/ failed
=============================================================================
