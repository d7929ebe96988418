------------------------ MODULE CommandWriterProofs ------------------------
(***************************************************************************)
(* The frames of CommandWriter go out whole and in order, and unharmed as  *)
(* long as the kernel takes every write at once.                           *)
(***************************************************************************)
EXTENDS CommandWriter, TLAPS

FrameSet == [cmd : Commands, index : Nat, size : Int]

\* What the wire got: the frame that was meant, and the one that the buffer held.
Entry == [of : FrameSet, holds : FrameSet \cup {None}]

TypeOK ==
  /\ written \in [Channels -> Nat]
  /\ \A ch \in Channels : written[ch] <= Len(Program[ch])
  /\ chanBuf \in [Channels -> Seq(Commands)]
  /\ blocked \in [Channels -> BOOLEAN]
  /\ pending \in Seq(Commands)
  /\ job \in Commands \cup {None}
  /\ left \in Seq(FrameSet)
  /\ loop \in {"idle", "running", "deferred", "thrown"}
  /\ buf \in FrameSet \cup {None}
  /\ out \in Seq(FrameSet) /\ flowing \in BOOLEAN
  /\ inFlight \in Seq(FrameSet) /\ sockBuf \in Seq(FrameSet)
  /\ wire \in Seq(Entry)

\* The frames that the writer has pushed, on their way out or already out.
Pushed == Sent \o inFlight \o sockBuf
Pipe == Pushed \o out

Begun(c) == \E i \in DOMAIN Pipe : Pipe[i].cmd = c

\* Begun, or about to: it has left `pending`.
Taken(c) == c = job \/ Begun(c)

\* How many commands of its program a channel has handed to the writer.
passed == [ch \in Channels |-> written[ch] - Len(chanBuf[ch])]

PipeInOrder == \A i \in DOMAIN Pipe : InTurn(Pipe, i) /\ Pipe[i].size <= FrameMax

\* The socket buffers only behind a write that the kernel has not taken.
SocketInOrder == inFlight = <<>> => sockBuf = <<>>

\* The last frame pushed is the one before what is left of the command in _transform.
LastIsLast == Pipe # <<>> => Pipe[Len(Pipe)].index = Len(FramesOf(Pipe[Len(Pipe)].cmd))

JobInOrder ==
  /\ job = None => left = <<>> /\ loop = "idle" /\ LastIsLast
  /\ job # None =>
       LET frames == FramesOf(job)
           k == Len(frames) - Len(left)
       IN  /\ k >= 0
           /\ \A i \in DOMAIN left : left[i] = frames[k + i]
           /\ k = 0 => ~Begun(job) /\ LastIsLast
           /\ k > 0 => Pipe # <<>> /\ Pipe[Len(Pipe)] = frames[k]
           /\ \E ch \in Channels : \E n \in 1 .. passed[ch] :
                job = Program[ch][n] /\ \A m \in 1 .. n - 1 : Begun(Program[ch][m])

\* What a channel's stream holds is what was written last on it.
BufferedLast ==
  \A ch \in Channels :
    /\ passed[ch] >= 0
    /\ \A i \in DOMAIN chanBuf[ch] : chanBuf[ch][i] = Program[ch][passed[ch] + i]

\* What the writer holds is not taken yet, and behind what was written before it.
PendingInOrder ==
  \A i \in DOMAIN pending :
    /\ ~Taken(pending[i])
    /\ \A j \in 1 .. i - 1 : pending[j] # pending[i]
    /\ \E ch \in Channels : \E n \in 1 .. passed[ch] :
         /\ pending[i] = Program[ch][n]
         /\ \A m \in 1 .. n - 1 :
              Taken(Program[ch][m]) \/ \E j \in 1 .. i - 1 : pending[j] = Program[ch][m]

Queued(c) == \E i \in DOMAIN pending : pending[i] = c

\* The commands handed to the writer are those it has taken or holds.
NoneLost ==
  /\ \A ch \in Channels : \A n \in 1 .. passed[ch] :
       Taken(Program[ch][n]) \/ Queued(Program[ch][n])
  /\ \A i \in DOMAIN Pipe :
       \E ch \in Channels : \E n \in 1 .. passed[ch] : Pipe[i].cmd = Program[ch][n]

Order ==
  /\ PipeInOrder /\ SocketInOrder
  /\ JobInOrder /\ BufferedLast /\ PendingInOrder /\ NoneLost

Unharmed ==
  \/ backedUp
  \/ \E i \in DOMAIN wire : wire[i].of.size >= HighWater
  \/ /\ inFlight = <<>> /\ sockBuf = <<>> /\ out = <<>> /\ flowing
     /\ \A i \in DOMAIN wire : wire[i].holds = wire[i].of

-----------------------------------------------------------------------------
(***************************************************************************)
(* The frames of a command.                                                *)
(***************************************************************************)
\* What a sequence behind another one looks like.
LEMMA Joined ==
  ASSUME NEW S, NEW s \in Seq(S), NEW t \in Seq(S)
  PROVE  /\ s \o t \in Seq(S) /\ Len(s \o t) = Len(s) + Len(t)
         /\ \A i \in 1 .. Len(s) : (s \o t)[i] = s[i]
         /\ \A i \in 1 .. Len(t) : (s \o t)[Len(s) + i] = t[i]
OBVIOUS

\* A command has a first frame, and its frames are numbered.
LEMMA Frames ==
  ASSUME NEW c \in Commands
  PROVE  /\ FramesOf(c) \in Seq(FrameSet) /\ Len(FramesOf(c)) >= 1
         /\ \A i \in DOMAIN FramesOf(c) : FramesOf(c)[i].cmd = c /\ FramesOf(c)[i].index = i
<1>0. /\ MethodSize[c] \in Nat /\ HeaderSize[c] \in Nat /\ BodySize[c] \in Nat
      /\ bodyMax \in Nat /\ bodyMax > 0
  BY CommandWriterAssumption DEF Commands, bodyMax
<1>1. DEFINE n == (BodySize[c] + bodyMax - 1) \div bodyMax
<1>2. n \in Nat
  BY <1>0
<1>3. BodyFrames(c) \in Seq(FrameSet) /\ Len(BodyFrames(c)) = n
  <2>1. \A i \in 1 .. n : FrameOf(c, i + 2, 8 + Least(bodyMax, BodySize[c] - (i - 1) * bodyMax))
                            \in FrameSet
    BY <1>0, <1>2 DEF FrameOf, FrameSet, Least
  <2> QED  BY <1>2, <2>1 DEF BodyFrames
<1>4. \A i \in 1 .. n : BodyFrames(c)[i].cmd = c /\ BodyFrames(c)[i].index = i + 2
  BY <1>2 DEF BodyFrames, FrameOf
<1> HIDE DEF n
<1>5. DEFINE m == <<FrameOf(c, 1, MethodSize[c])>>
             h == <<FrameOf(c, 2, HeaderSize[c])>>
<1>6. /\ m \in Seq(FrameSet) /\ Len(m) = 1 /\ m[1].cmd = c /\ m[1].index = 1
      /\ h \in Seq(FrameSet) /\ Len(h) = 1 /\ h[1].cmd = c /\ h[1].index = 2
  BY <1>0 DEF FrameOf, FrameSet
<1> HIDE DEF m, h
<1>7. CASE HeaderSize[c] = 0
  <2>1. FramesOf(c) = m \o <<>>
    BY <1>7 DEF FramesOf, m
  <2>2. m \o <<>> = m
    BY <1>6
  <2> QED  BY <1>6, <2>1, <2>2
<1>8. CASE HeaderSize[c] # 0
  <2>1. FramesOf(c) = m \o (h \o BodyFrames(c))
    BY <1>8 DEF FramesOf, m, h
  <2> DEFINE b == BodyFrames(c)
  <2>2. b \in Seq(FrameSet) /\ Len(b) = n
    BY <1>3
  <2>3. \A i \in 1 .. n : b[i].cmd = c /\ b[i].index = i + 2
    BY <1>4
  <2> HIDE DEF b
  <2> DEFINE hb == h \o b
             mhb == m \o hb
  <2>4. /\ hb \in Seq(FrameSet) /\ Len(hb) = n + 1
        /\ hb[1] = h[1] /\ \A i \in 1 .. n : hb[i + 1] = b[i]
    <3>1. /\ hb \in Seq(FrameSet) /\ Len(hb) = Len(h) + Len(b)
          /\ \A i \in 1 .. Len(h) : hb[i] = h[i]
          /\ \A i \in 1 .. Len(b) : hb[Len(h) + i] = b[i]
      BY <1>6, <2>2, Joined
    <3> HIDE DEF hb
    <3>2. \A i \in 1 .. Len(b) : hb[i + 1] = b[i]
      <4>1. \A i \in 1 .. Len(b) : Len(h) + i = i + 1
        BY <1>6, <2>2
      <4> QED  BY <3>1, <4>1
    <3>3. 1 \in 1 .. Len(h) /\ Len(h) + Len(b) = n + 1 /\ 1 .. Len(b) = 1 .. n + 1 - 1
      BY <1>2, <1>6, <2>2
    <3>4. 1 .. n + 1 - 1 = 1 .. n
      BY <1>2
    <3> QED  BY <3>1, <3>2, <3>3, <3>4
  <2> HIDE DEF hb
  <2>5. /\ mhb \in Seq(FrameSet) /\ Len(mhb) = n + 2
        /\ mhb[1] = m[1] /\ \A i \in 1 .. n + 1 : mhb[i + 1] = hb[i]
    <3>1. /\ mhb \in Seq(FrameSet) /\ Len(mhb) = Len(m) + Len(hb)
          /\ \A i \in 1 .. Len(m) : mhb[i] = m[i]
          /\ \A i \in 1 .. Len(hb) : mhb[Len(m) + i] = hb[i]
      BY <1>6, <2>4, Joined
    <3> HIDE DEF mhb
    <3>2. \A i \in 1 .. Len(hb) : mhb[i + 1] = hb[i]
      <4>1. \A i \in 1 .. Len(hb) : Len(m) + i = i + 1
        BY <1>6, <2>4
      <4> QED  BY <3>1, <4>1
    <3>3. 1 \in 1 .. Len(m) /\ Len(m) + Len(hb) = n + 2 /\ 1 .. Len(hb) = 1 .. n + 2 - 1
      BY <1>2, <1>6, <2>4
    <3>4. 1 .. n + 2 - 1 = 1 .. n + 1
      BY <1>2
    <3> QED  BY <3>1, <3>2, <3>3, <3>4
  <2> HIDE DEF mhb
  <2>6. \A i \in 1 .. n + 2 : mhb[i].cmd = c /\ mhb[i].index = i
    <3> TAKE i \in 1 .. n + 2
    <3>1. CASE i = 1
      BY <1>6, <2>5, <3>1
    <3>2. CASE i = 2
      <4>1. mhb[1 + 1] = hb[1]
        BY <1>2, <2>5
      <4> QED  BY <1>6, <2>4, <3>2, <4>1
    <3>3. CASE i > 2
      <4>1. i - 2 \in 1 .. n /\ i - 1 \in 1 .. n + 1 /\ i - 1 = (i - 2) + 1 /\ i = (i - 1) + 1
        BY <3>3, <1>2
      <4>2. mhb[i] = b[i - 2]
        BY <2>4, <2>5, <4>1
      <4> QED  BY <2>3, <4>1, <4>2
    <3> QED  BY <3>1, <3>2, <3>3, <1>2
  <2>7. FramesOf(c) = mhb
    BY <2>1 DEF b, hb, mhb
  <2> QED  BY <1>2, <2>5, <2>6, <2>7
<1> QED  BY <1>7, <1>8

\* A frame is that of its own command with its own number.
LEMMA OwnFrame ==
  ASSUME NEW c \in Commands, NEW i \in DOMAIN FramesOf(c)
  PROVE  /\ FramesOf(c)[i] \in FrameSet
         /\ FramesOf(c)[i].cmd = c /\ FramesOf(c)[i].index = i /\ i \in Nat /\ i >= 1
         /\ i <= Len(FramesOf(c))
BY Frames

\* The octets of an empty buffer.
LEMMA NoOctets == Octets(<<>>) = 0
<1> DEFINE Step(g) == [i \in 0 .. Len(<<>>) |->
                         IF i = 0 THEN 0 ELSE g[i - 1] + <<>>[i].size]
           upTo == CHOOSE g : g = Step(g)
           zero == [i \in 0 .. Len(<<>>) |-> 0]
<1>1. \A i \in 0 .. Len(<<>>) : i = 0
  OBVIOUS
<1>2. zero = Step(zero)
  BY <1>1
<1>3. upTo = Step(upTo)
  BY <1>2
<1>4. upTo[0] = 0
  <2>1. Step(upTo)[0] = 0
    OBVIOUS
  <2> HIDE DEF Step
  <2> QED  BY <1>3, <2>1
<1>5. Octets(<<>>) = upTo[0]
  BY DEF Octets
<1> QED  BY <1>4, <1>5

-----------------------------------------------------------------------------
(***************************************************************************)
(* The pipe: a frame pushed goes to its end, and the way from there to the *)
(* wire changes nothing.                                                   *)
(***************************************************************************)
LEMMA SentType ==
  ASSUME NEW w \in Seq(Entry)
  PROVE  /\ [i \in DOMAIN w |-> w[i].of] \in Seq(FrameSet)
         /\ Len([i \in DOMAIN w |-> w[i].of]) = Len(w)
<1>1. DOMAIN w = 1 .. Len(w) /\ Len(w) \in Nat
  OBVIOUS
<1>2. \A i \in 1 .. Len(w) : w[i] \in Entry
  OBVIOUS
<1>3. \A i \in 1 .. Len(w) : w[i].of \in FrameSet
  BY <1>2 DEF Entry
<1> QED  BY <1>1, <1>3

\* The wire, with one more frame or with more of them.
LEMMA SentAppend ==
  ASSUME NEW w \in Seq(Entry),
         NEW f \in FrameSet, NEW h \in FrameSet \cup {None}
  PROVE  LET v == Append(w, [of |-> f, holds |-> h])
         IN  [i \in DOMAIN v |-> v[i].of] = Append([i \in DOMAIN w |-> w[i].of], f)
<1> DEFINE e == [of |-> f, holds |-> h]
           v == Append(w, e)
           s == [i \in DOMAIN w |-> w[i].of]
           t == [i \in DOMAIN v |-> v[i].of]
<1>1. e \in Entry /\ e.of = f
  BY DEF Entry
<1> HIDE DEF e
<1>2. /\ v \in Seq(Entry) /\ Len(v) = Len(w) + 1
      /\ \A i \in 1 .. Len(w) : v[i] = w[i]
      /\ v[Len(w) + 1] = e /\ DOMAIN v = 1 .. Len(w) + 1
  BY <1>1
<1>3. Len(w) \in Nat /\ DOMAIN w = 1 .. Len(w)
  OBVIOUS
<1>4. s \in Seq(FrameSet) /\ Len(s) = Len(w) /\ t \in Seq(FrameSet) /\ Len(t) = Len(w) + 1
  BY <1>2, SentType
<1>5. \A i \in 1 .. Len(w) : s[i] = w[i].of
  BY <1>3
<1>6. \A i \in 1 .. Len(w) + 1 : t[i] = v[i].of
  BY <1>2
<1> HIDE DEF s, t, v
<1>7. \A i \in 1 .. Len(w) + 1 : t[i] = Append(s, f)[i]
  <2>0. /\ \A i \in 1 .. Len(w) : Append(s, f)[i] = s[i]
        /\ Append(s, f)[Len(w) + 1] = f
    BY <1>4
  <2> TAKE i \in 1 .. Len(w) + 1
  <2>1. CASE i = Len(w) + 1
    <3>1. t[Len(w) + 1] = v[Len(w) + 1].of
      BY <1>3, <1>6
    <3> QED  BY <1>1, <1>2, <2>0, <2>1, <3>1
  <2>2. CASE i \in 1 .. Len(w)
    BY <1>2, <1>5, <1>6, <2>0, <2>2
  <2>3. i \in 1 .. Len(w) \/ i = Len(w) + 1
    BY <1>3
  <2> QED  BY <2>1, <2>2, <2>3
<1>8. t = Append(s, f)
  <2> Append(s, f) \in Seq(FrameSet) /\ Len(Append(s, f)) = Len(w) + 1
    BY <1>4
  <2> HIDE DEF e
  <2> QED  BY <1>4, <1>7, <1>3
<1> QED  BY <1>8 DEF e, s, t, v

LEMMA SentConcat ==
  ASSUME NEW w \in Seq(Entry),
         NEW q \in Seq(FrameSet), NEW h \in FrameSet \cup {None}
  PROVE  LET v == w \o [i \in 1 .. Len(q) |-> [of |-> q[i], holds |-> h]]
         IN  /\ v \in Seq(Entry)
             /\ [i \in DOMAIN v |-> v[i].of] = [i \in DOMAIN w |-> w[i].of] \o q
<1> DEFINE p == [i \in 1 .. Len(q) |-> [of |-> q[i], holds |-> h]]
           v == w \o p
           s == [i \in DOMAIN w |-> w[i].of]
           t == [i \in DOMAIN v |-> v[i].of]
<1>1. /\ p \in Seq(Entry) /\ Len(p) = Len(q) /\ \A i \in 1 .. Len(q) : p[i].of = q[i]
      /\ Len(q) \in Nat
  BY DEF Entry
<1>2. /\ v \in Seq(Entry) /\ Len(v) = Len(w) + Len(q)
      /\ \A i \in 1 .. Len(w) : v[i] = w[i]
      /\ \A i \in 1 .. Len(q) : v[Len(w) + i] = p[i]
  <2>0. p \in Seq(Entry)
    BY <1>1
  <2> HIDE DEF p
  <2>1. /\ v \in Seq(Entry) /\ Len(v) = Len(w) + Len(p)
        /\ \A i \in 1 .. Len(w) : v[i] = w[i]
        /\ \A i \in 1 .. Len(p) : v[Len(w) + i] = p[i]
    BY <2>0, Joined
  <2> QED  BY <1>1, <2>1
<1>3. Len(w) \in Nat /\ DOMAIN w = 1 .. Len(w) /\ DOMAIN v = 1 .. Len(w) + Len(q)
  BY <1>2
<1>4. s \in Seq(FrameSet) /\ Len(s) = Len(w) /\ t \in Seq(FrameSet) /\ Len(t) = Len(w) + Len(q)
  BY <1>2, SentType
<1>5. \A i \in 1 .. Len(w) : s[i] = w[i].of
  BY <1>3
<1>6. \A i \in 1 .. Len(w) + Len(q) : t[i] = v[i].of
  BY <1>3
<1> DEFINE sq == s \o q
<1>7. /\ sq \in Seq(FrameSet) /\ Len(sq) = Len(w) + Len(q)
      /\ \A i \in 1 .. Len(w) : sq[i] = s[i]
      /\ \A i \in 1 .. Len(q) : sq[Len(w) + i] = q[i]
  <2>0. s \in Seq(FrameSet)
    BY <1>4
  <2> HIDE DEF s, t
  <2>1. /\ sq \in Seq(FrameSet) /\ Len(sq) = Len(s) + Len(q)
        /\ \A i \in 1 .. Len(s) : sq[i] = s[i]
        /\ \A i \in 1 .. Len(q) : sq[Len(s) + i] = q[i]
    BY <2>0, Joined
  <2> QED  BY <1>4, <2>1
<1> HIDE DEF s, t, v, p, sq
<1>8. \A i \in 1 .. Len(w) + Len(q) : t[i] = sq[i]
  <2> TAKE i \in 1 .. Len(w) + Len(q)
  <2>1. CASE i \in 1 .. Len(w)
    BY <1>1, <1>2, <1>3, <1>5, <1>6, <1>7, <2>1
  <2>2. CASE i > Len(w)
    <3>1. i - Len(w) \in 1 .. Len(q) /\ Len(w) + (i - Len(w)) = i
      BY <2>2, <1>1, <1>3
    <3> QED  BY <1>1, <1>2, <1>6, <1>7, <3>1
  <2> QED  BY <2>1, <2>2, <1>1, <1>3
<1>9. t = sq
  BY <1>4, <1>7, <1>8, <1>1, <1>3
<1> QED  BY <1>2, <1>9 DEF s, t, v, p, sq

\* The frames pushed so far, as sequences.
LEMMA PipeType ==
  ASSUME TypeOK
  PROVE  /\ Sent \in Seq(FrameSet) /\ Len(Sent) = Len(wire)
         /\ Pushed \in Seq(FrameSet) /\ Pipe \in Seq(FrameSet)
<1>1. Sent \in Seq(FrameSet) /\ Len(Sent) = Len(wire)
  BY SentType DEF TypeOK, Sent
<1>2. Sent \o inFlight \in Seq(FrameSet)
  BY <1>1 DEF TypeOK
<1>3. Pushed \in Seq(FrameSet)
  BY <1>2 DEF TypeOK, Pushed
<1>4. Pipe \in Seq(FrameSet)
  BY <1>3 DEF TypeOK, Pipe
<1> QED  BY <1>1, <1>3, <1>4

\* What the socket is given goes behind what it was given before, and it is flowing only
\* if it has not said that it is full.
LEMMA Socket ==
  ASSUME TypeOK, SocketInOrder, NEW f \in FrameSet, NEW h \in FrameSet \cup {None},
         SocketWrite(f, h)
  PROVE  /\ wire' \in Seq(Entry)
         /\ inFlight' \in Seq(FrameSet) /\ sockBuf' \in Seq(FrameSet)
         /\ flowing' \in BOOLEAN
         /\ SocketInOrder'
         /\ Pushed' = Append(Pushed, f)
<1>1. flowing' \in BOOLEAN
  BY DEF SocketWrite
<1>2. /\ wire \in Seq(Entry) /\ inFlight \in Seq(FrameSet) /\ sockBuf \in Seq(FrameSet)
      /\ Sent \in Seq(FrameSet)
  BY PipeType DEF TypeOK
<1>3. CASE /\ inFlight = <<>>
           /\ wire' = Append(wire, [of |-> f, holds |-> h])
           /\ UNCHANGED <<inFlight, sockBuf, backedUp>>
  <2>1. sockBuf = <<>>
    BY <1>3 DEF SocketInOrder
  <2>2. [of |-> f, holds |-> h] \in Entry
    BY DEF Entry
  <2>3. wire' \in Seq(Entry)
    BY <1>2, <1>3, <2>2
  <2>4. Sent' = Append(Sent, f)
    BY <1>2, <1>3, SentAppend DEF Sent
  <2>5. \A s \in Seq(FrameSet) : s \o <<>> \o <<>> = s /\ Append(s, f) \in Seq(FrameSet)
    OBVIOUS
  <2>6. Pushed = Sent /\ Pushed' = Sent'
    BY <1>2, <1>3, <2>1, <2>4, <2>5 DEF Pushed
  <2> QED  BY <1>1, <1>2, <1>3, <2>1, <2>3, <2>4, <2>6 DEF SocketInOrder
<1>4. CASE /\ inFlight = <<>> /\ KernelBlocks
           /\ inFlight' = <<f>>
           /\ backedUp' = TRUE
           /\ UNCHANGED <<sockBuf, wire>>
  <2>1. sockBuf = <<>> /\ <<f>> \in Seq(FrameSet) /\ <<f>> # <<>>
    BY <1>4 DEF SocketInOrder
  <2>2. \A s \in Seq(FrameSet) : s \o <<>> \o <<>> = s /\ s \o <<f>> \o <<>> = Append(s, f)
    OBVIOUS
  <2>3. Pushed = Sent /\ Pushed' = Append(Sent, f)
    BY <1>2, <1>4, <2>1, <2>2 DEF Pushed, Sent
  <2> QED  BY <1>1, <1>2, <1>4, <2>1, <2>3 DEF SocketInOrder
<1>5. CASE /\ inFlight # <<>>
           /\ sockBuf' = Append(sockBuf, f)
           /\ UNCHANGED <<inFlight, wire, backedUp>>
  <2>1. Sent \o inFlight \in Seq(FrameSet)
    BY <1>2
  <2>2. \A s, t \in Seq(FrameSet) : s \o Append(t, f) = Append(s \o t, f)
    OBVIOUS
  <2>3. Pushed' = Sent \o inFlight \o Append(sockBuf, f)
    BY <1>5 DEF Pushed, Sent
  <2>4. Pushed' = Append(Pushed, f)
    BY <1>2, <2>1, <2>2, <2>3 DEF Pushed
  <2> QED  BY <1>1, <1>2, <1>5, <2>4 DEF SocketInOrder
<1> QED  BY <1>3, <1>4, <1>5 DEF SocketWrite

\* A step of the pipe to the socket moves the boundary between them.
LEMMA FlowKeepsPipe ==
  ASSUME TypeOK, SocketInOrder, Flow
  PROVE  /\ Pipe' = Pipe /\ SocketInOrder'
         /\ wire' \in Seq(Entry) /\ out' \in Seq(FrameSet)
         /\ inFlight' \in Seq(FrameSet) /\ sockBuf' \in Seq(FrameSet)
         /\ flowing' \in BOOLEAN
<1>1. /\ out \in Seq(FrameSet) /\ out # <<>> /\ buf \in FrameSet \cup {None}
      /\ SocketWrite(Head(out), buf) /\ out' = Tail(out)
  BY DEF TypeOK, Flow, CanFlow
<1>2. Head(out) \in FrameSet /\ Tail(out) \in Seq(FrameSet)
  BY <1>1
<1>3. /\ wire' \in Seq(Entry)
      /\ inFlight' \in Seq(FrameSet) /\ sockBuf' \in Seq(FrameSet)
      /\ flowing' \in BOOLEAN /\ SocketInOrder'
      /\ Pushed' = Append(Pushed, Head(out))
  BY <1>1, <1>2, Socket
<1>4. Pushed \in Seq(FrameSet)
  BY PipeType
<1>5. \A s \in Seq(FrameSet) : Append(s, Head(out)) \o Tail(out) = s \o out
  BY <1>1
<1>6. Pipe' = Pipe
  BY <1>1, <1>3, <1>4, <1>5 DEF Pipe
<1> QED  BY <1>1, <1>2, <1>3, <1>6

LEMMA KernelKeepsPipe ==
  ASSUME TypeOK, KernelTakes
  PROVE  /\ Pipe' = Pipe /\ SocketInOrder'
         /\ wire' \in Seq(Entry)
         /\ inFlight' \in Seq(FrameSet) /\ sockBuf' \in Seq(FrameSet)
<1>1. /\ wire \in Seq(Entry) /\ inFlight \in Seq(FrameSet) /\ sockBuf \in Seq(FrameSet)
      /\ Sent \in Seq(FrameSet) /\ buf \in FrameSet \cup {None}
  BY PipeType DEF TypeOK
<1>2. /\ wire' = wire \o [i \in 1 .. Len(inFlight) |-> [of |-> inFlight[i], holds |-> buf]]
      /\ inFlight' = sockBuf /\ sockBuf' = <<>> /\ out' = out
  BY DEF KernelTakes, pipe
<1>3. wire' \in Seq(Entry) /\ Sent' = Sent \o inFlight
  <2> DEFINE v == wire \o [i \in 1 .. Len(inFlight) |-> [of |-> inFlight[i], holds |-> buf]]
  <2>1. /\ v \in Seq(Entry)
        /\ [i \in DOMAIN v |-> v[i].of] = [i \in DOMAIN wire |-> wire[i].of] \o inFlight
    BY <1>1, SentConcat
  <2>2. wire' = v
    BY <1>2
  <2> HIDE DEF v
  <2> QED  BY <2>1, <2>2 DEF Sent
<1>4. \A s, t \in Seq(FrameSet) : s \o t \o <<>> = s \o t
  OBVIOUS
<1>5. <<>> \in Seq(FrameSet) /\ Sent \o inFlight \in Seq(FrameSet)
  BY <1>1
<1>6. Pushed' = Pushed
  BY <1>1, <1>2, <1>3, <1>4, <1>5 DEF Pushed
<1> QED  BY <1>1, <1>2, <1>3, <1>5, <1>6 DEF Pipe, SocketInOrder

LEMMA PushAppends ==
  ASSUME TypeOK, SocketInOrder, Push
  PROVE  /\ Pipe' = Append(Pipe, Head(left)) /\ SocketInOrder'
         /\ wire' \in Seq(Entry) /\ out' \in Seq(FrameSet)
         /\ inFlight' \in Seq(FrameSet) /\ sockBuf' \in Seq(FrameSet)
         /\ flowing' \in BOOLEAN
<1>1. DEFINE f == Head(left)
<1>2. /\ left \in Seq(FrameSet) /\ left # <<>> /\ out \in Seq(FrameSet)
      /\ wire \in Seq(Entry) /\ inFlight \in Seq(FrameSet) /\ sockBuf \in Seq(FrameSet)
      /\ flowing \in BOOLEAN /\ Pushed \in Seq(FrameSet)
  BY PipeType DEF TypeOK, Push
<1>3. f \in FrameSet
  BY <1>2
<1> HIDE DEF f
<1>4. /\ buf' = f
      /\ \/ flowing /\ out = <<>> /\ SocketWrite(f, buf') /\ out' = out
         \/ out' = Append(out, f) /\ UNCHANGED <<flowing, socket>>
  BY DEF Push, Encoded, f
<1>5. CASE flowing /\ out = <<>> /\ SocketWrite(f, buf') /\ out' = out
  <2>1. /\ wire' \in Seq(Entry)
        /\ inFlight' \in Seq(FrameSet) /\ sockBuf' \in Seq(FrameSet)
        /\ flowing' \in BOOLEAN /\ SocketInOrder'
        /\ Pushed' = Append(Pushed, f)
    BY <1>3, <1>4, <1>5, Socket
  <2>2. \A s \in Seq(FrameSet) : s \o <<>> = s /\ Append(s, f) \o <<>> = Append(s, f)
    BY <1>3
  <2>3. Pipe' = Append(Pipe, f)
    BY <1>2, <1>5, <2>1, <2>2 DEF Pipe
  <2> QED  BY <1>2, <1>5, <2>1, <2>3 DEF f
<1>6. CASE out' = Append(out, f) /\ UNCHANGED <<flowing, socket>>
  <2>1. \A s, t \in Seq(FrameSet) : s \o Append(t, f) = Append(s \o t, f)
    BY <1>3
  <2>2. Pushed' = Pushed /\ SocketInOrder'
    BY <1>6 DEF Pushed, Sent, SocketInOrder, socket
  <2>3. Pipe' = Append(Pipe, f)
    BY <1>2, <1>6, <2>1, <2>2 DEF Pipe
  <2>4. Append(out, f) \in Seq(FrameSet)
    BY <1>2, <1>3
  <2> QED  BY <1>2, <1>6, <2>2, <2>3, <2>4 DEF f, socket
<1> QED  BY <1>4, <1>5, <1>6

-----------------------------------------------------------------------------
(***************************************************************************)
(* The types.                                                              *)
(***************************************************************************)
LEMMA InitType == Init => TypeOK
<1> SUFFICES ASSUME Init PROVE TypeOK
  OBVIOUS
<1>1. \A S : <<>> \in Seq(S)
  OBVIOUS
<1>2. \A ch \in Channels : Len(Program[ch]) \in Nat
  <2>1. \A s \in Seq(Commands) : Len(s) \in Nat
    OBVIOUS
  <2> QED  BY <2>1, CommandWriterAssumption
<1> QED  BY <1>1, <1>2 DEF Init, TypeOK

LEMMA TypeStep ==
  ASSUME TypeOK, SocketInOrder, [Next]_vars
  PROVE  TypeOK'
<1>1. ASSUME NEW ch \in Channels, Forward(ch)
      PROVE  TypeOK'
  <2>1. /\ chanBuf[ch] \in Seq(Commands) /\ chanBuf[ch] # <<>>
        /\ pending' = Append(pending, Head(chanBuf[ch]))
        /\ chanBuf' = [chanBuf EXCEPT ![ch] = Tail(@)]
    BY <1>1 DEF TypeOK, Forward, CanForward
  <2>2. Tail(chanBuf[ch]) \in Seq(Commands) /\ Head(chanBuf[ch]) \in Commands
    BY <2>1
  <2>3. chanBuf' \in [Channels -> Seq(Commands)] /\ pending' \in Seq(Commands)
    BY <2>1, <2>2 DEF TypeOK
  <2>4. blocked' \in [Channels -> BOOLEAN]
    <3>1. (WriterLength + 1 >= WriterLimit) \in BOOLEAN
      OBVIOUS
    <3>2. blocked' = [blocked EXCEPT ![ch] = (WriterLength + 1 >= WriterLimit)]
      BY <1>1 DEF Forward
    <3> HIDE DEF WriterLength
    <3> QED  BY <3>1, <3>2, Zenon DEF TypeOK
  <2> QED  BY <1>1, <2>3, <2>4 DEF TypeOK, Forward, pipe, socket
<1>2. ASSUME Take
      PROVE  TypeOK'
  <2>1. pending \in Seq(Commands) /\ pending # <<>> /\ pending' = Tail(pending)
    BY <1>2 DEF TypeOK, Take, CanTake
  <2>2. Head(pending) \in Commands /\ pending' \in Seq(Commands)
    BY <2>1
  <2>3. left' \in Seq(FrameSet)
    BY <1>2, <2>2, Frames DEF Take
  <2> QED  BY <1>2, <2>2, <2>3 DEF TypeOK, Take, channel, pipe, socket
<1>3. ASSUME Push
      PROVE  TypeOK'
  <2>1. /\ wire' \in Seq(Entry) /\ out' \in Seq(FrameSet)
        /\ inFlight' \in Seq(FrameSet) /\ sockBuf' \in Seq(FrameSet)
        /\ flowing' \in BOOLEAN
    BY <1>3, PushAppends
  <2>2. left \in Seq(FrameSet) /\ left # <<>> /\ left' = Tail(left) /\ buf' = Head(left)
    BY <1>3 DEF TypeOK, Push, Encoded
  <2>3. left' \in Seq(FrameSet) /\ buf' \in FrameSet \cup {None}
    BY <2>2
  <2>4. loop' \in {"running", "deferred"}
    BY <1>3 DEF Push
  <2> QED  BY <1>3, <2>1, <2>3, <2>4 DEF TypeOK, Push, channel
<1>4. ASSUME Throw \/ Immediate \/ Drain \/ SocketDrain
      PROVE  TypeOK'
  BY <1>4 DEF TypeOK, Throw, Immediate, Drain, SocketDrain, Released, channel, writer, pipe, socket
<1>5. ASSUME Finish
      PROVE  TypeOK'
  BY <1>5 DEF TypeOK, Finish, channel, pipe, socket
<1>6. ASSUME Flow
      PROVE  TypeOK'
  BY <1>6, FlowKeepsPipe DEF TypeOK, Flow, channel, writer
<1>7. ASSUME NEW ch \in Channels, Write(ch)
      PROVE  TypeOK'
  <2>1. /\ written' = [written EXCEPT ![ch] = @ + 1] /\ written[ch] < Len(Program[ch])
        /\ chanBuf' = [chanBuf EXCEPT ![ch] = Append(@, Program[ch][written[ch] + 1])]
        /\ written[ch] \in Nat /\ chanBuf[ch] \in Seq(Commands)
    BY <1>7 DEF Write, TypeOK
  <2>2. Program[ch] \in Seq(Commands)
    BY CommandWriterAssumption
  <2>3. written[ch] + 1 \in 1 .. Len(Program[ch]) /\ written[ch] + 1 \in Nat
    BY <2>1, <2>2
  <2>4. Append(chanBuf[ch], Program[ch][written[ch] + 1]) \in Seq(Commands)
    BY <2>1, <2>2, <2>3
  <2>5. chanBuf' \in [Channels -> Seq(Commands)]
    BY <2>1, <2>4 DEF TypeOK
  <2>6. written' \in [Channels -> Nat]
    BY <2>1, <2>3 DEF TypeOK
  <2>7. \A c \in Channels : written'[c] <= Len(Program[c])
    <3>1. \A c \in Channels : c # ch => written'[c] = written[c]
      BY <2>1 DEF TypeOK
    <3>2. written'[ch] <= Len(Program[ch])
      BY <2>1, <2>2, <2>3 DEF TypeOK
    <3> QED  BY <3>1, <3>2 DEF TypeOK
  <2> QED  BY <1>7, <2>5, <2>6, <2>7 DEF TypeOK, Write, writer, pipe, socket
<1>8. ASSUME KernelTakes
      PROVE  TypeOK'
  BY <1>8, KernelKeepsPipe DEF TypeOK, KernelTakes, channel, writer, pipe
<1>9. ASSUME UNCHANGED vars
      PROVE  TypeOK'
  BY <1>9 DEF TypeOK, vars, channel, writer, pipe, socket
<1> QED  BY <1>1, <1>2, <1>3, <1>4, <1>5, <1>6, <1>7, <1>8, <1>9 DEF Next, Micro

-----------------------------------------------------------------------------
(***************************************************************************)
(* The order, step by step.                                                *)
(***************************************************************************)
LEMMA InitOrder == Init => Order
<1> SUFFICES ASSUME Init PROVE Order
  OBVIOUS
<1>1. wire = <<>> /\ inFlight = <<>> /\ sockBuf = <<>> /\ out = <<>>
  BY DEF Init
<1>2. Pipe = <<>>
  <2>1. Sent = <<>>
    BY <1>1 DEF Sent
  <2>2. <<>> \o <<>> \o <<>> \o <<>> = <<>>
    OBVIOUS
  <2> QED  BY <1>1, <2>1, <2>2 DEF Pipe, Pushed
<1>3. DOMAIN <<>> = {} /\ 1 .. 0 = {} /\ Len(<<>>) = 0
  OBVIOUS
<1>4. PipeInOrder /\ SocketInOrder /\ LastIsLast
  BY <1>1, <1>2, <1>3 DEF PipeInOrder, SocketInOrder, LastIsLast
<1>5. JobInOrder
  BY <1>4 DEF Init, JobInOrder
<1>6. \A ch \in Channels : passed[ch] = 0 /\ chanBuf[ch] = <<>>
  <2> TAKE ch \in Channels
  <2>1. written[ch] = 0 /\ passed[ch] = written[ch] - Len(chanBuf[ch])
    BY DEF Init, passed
  <2>2. chanBuf[ch] = <<>>
    BY DEF Init
  <2>3. Len(chanBuf[ch]) = 0
    BY <1>3, <2>2
  <2>4. passed[ch] = 0
    BY <2>1, <2>3
  <2> QED  BY <2>2, <2>4
<1>7. BufferedLast
  <2>1. \A ch \in Channels : DOMAIN chanBuf[ch] = {}
    BY <1>3, <1>6, Zenon
  <2>2. \A ch \in Channels : passed[ch] = 0
    BY <1>6, Zenon
  <2>3. \A ch \in Channels : passed[ch] >= 0
    <3>1. \A x : x = 0 => x >= 0
      OBVIOUS
    <3> QED  BY <2>2, <3>1, Zenon
  <2> QED  BY <2>1, <2>3 DEF BufferedLast
<1>8. PendingInOrder
  BY <1>3 DEF PendingInOrder, Init
<1>9. NoneLost
  BY <1>2, <1>3, <1>6 DEF NoneLost
<1> QED  BY <1>4, <1>5, <1>7, <1>8, <1>9 DEF Order

\* What neither pushes a frame nor hands over a command leaves the order as it is.
LEMMA OrderKept ==
  ASSUME Order, SocketInOrder', Pipe' = Pipe,
         UNCHANGED <<written, chanBuf, pending, job, left>>, job = None => loop' = "idle"
  PROVE  Order'
<1>1. PipeInOrder'
  BY DEF Order, PipeInOrder, InTurn
<1>2. JobInOrder'
  BY DEF Order, JobInOrder, LastIsLast, Begun, passed
<1>3. BufferedLast'
  BY DEF Order, BufferedLast, passed
<1>4. PendingInOrder'
  BY DEF Order, PendingInOrder, Taken, Begun, passed
<1>5. NoneLost'
  BY DEF Order, NoneLost, Taken, Begun, Queued, passed
<1> QED  BY <1>1, <1>2, <1>3, <1>4, <1>5 DEF Order

\* The application's write goes behind its others.
LEMMA WriteOrder ==
  ASSUME TypeOK, Order, NEW ch \in Channels, Write(ch)
  PROVE  Order'
<1>1. /\ written' = [written EXCEPT ![ch] = @ + 1]
      /\ chanBuf' = [chanBuf EXCEPT ![ch] = Append(@, Program[ch][written[ch] + 1])]
      /\ UNCHANGED <<pending, job, left, loop, wire, inFlight, sockBuf, out>>
  BY DEF Write, writer, pipe, socket
<1>2. /\ written \in [Channels -> Nat] /\ chanBuf \in [Channels -> Seq(Commands)]
      /\ \A c \in Channels : written[c] \in Nat /\ chanBuf[c] \in Seq(Commands)
  BY DEF TypeOK
<1>3. /\ written'[ch] = written[ch] + 1
      /\ chanBuf'[ch] = Append(chanBuf[ch], Program[ch][written[ch] + 1])
      /\ \A c \in Channels : c # ch => written'[c] = written[c] /\ chanBuf'[c] = chanBuf[c]
  BY <1>1, <1>2
<1>4. Len(chanBuf'[ch]) = Len(chanBuf[ch]) + 1 /\ Len(chanBuf[ch]) \in Nat
  BY <1>2, <1>3
<1>5. Pipe' = Pipe /\ SocketInOrder'
  BY <1>1 DEF Pipe, Pushed, Sent, Order, SocketInOrder
<1>6. \A c \in Channels : passed'[c] = passed[c]
  <2>1. passed[ch] = written[ch] - Len(chanBuf[ch]) /\ passed'[ch] = written'[ch] - Len(chanBuf'[ch])
    BY DEF passed
  <2>2. passed'[ch] = passed[ch]
    BY <1>2, <1>3, <1>4, <2>1
  <2>3. \A c \in Channels : c # ch => passed'[c] = passed[c]
    BY <1>3 DEF passed
  <2> QED  BY <2>2, <2>3
<1>7. passed' = passed
  BY <1>6 DEF passed
<1>8. PipeInOrder'
  <2>1. \A c \in Channels : 1 .. written[c] \subseteq 1 .. written'[c]
    <3>1. 1 .. written[ch] \subseteq 1 .. written[ch] + 1
      BY <1>2
    <3> QED  BY <1>3, <3>1
  <2>2. \A i : InTurn(Pipe, i) => InTurn(Pipe, i)'
    BY <1>5, <2>1 DEF InTurn
  <2> QED  BY <1>5, <2>2 DEF Order, PipeInOrder
<1>9. JobInOrder'
  BY <1>1, <1>5, <1>7 DEF Order, JobInOrder, LastIsLast, Begun
<1>10. BufferedLast'
  <2>1. passed[ch] >= 0 /\ \A i \in 1 .. Len(chanBuf[ch]) : chanBuf[ch][i] = Program[ch][passed[ch] + i]
    BY <1>2 DEF Order, BufferedLast
  <2>2. passed[ch] = written[ch] - Len(chanBuf[ch]) /\ passed[ch] \in Int
    BY <1>2, <1>4 DEF passed
  <2>3. written[ch] + 1 = passed[ch] + (Len(chanBuf[ch]) + 1)
    BY <1>2, <1>4, <2>2
  <2>4. /\ DOMAIN chanBuf'[ch] = 1 .. Len(chanBuf[ch]) + 1
        /\ \A i \in 1 .. Len(chanBuf[ch]) : chanBuf'[ch][i] = chanBuf[ch][i]
        /\ chanBuf'[ch][Len(chanBuf[ch]) + 1] = Program[ch][written[ch] + 1]
    BY <1>2, <1>3
  <2>5. \A i \in 1 .. Len(chanBuf[ch]) + 1 : i \in 1 .. Len(chanBuf[ch]) \/ i = Len(chanBuf[ch]) + 1
    BY <1>4
  <2>6. ASSUME NEW i \in DOMAIN chanBuf'[ch]
        PROVE  chanBuf'[ch][i] = Program[ch][passed[ch] + i]
    <3>1. CASE i \in 1 .. Len(chanBuf[ch])
      BY <2>1, <2>4, <3>1
    <3>2. CASE i = Len(chanBuf[ch]) + 1
      BY <2>3, <2>4, <3>2
    <3> QED  BY <2>4, <2>5, <3>1, <3>2, Zenon
  <2>7. \A c \in Channels : passed[c] >= 0 /\ \A i \in DOMAIN chanBuf'[c] :
                              chanBuf'[c][i] = Program[c][passed[c] + i]
    BY <1>3, <2>1, <2>6 DEF Order, BufferedLast
  <2> QED  BY <1>7, <2>7 DEF BufferedLast
<1>11. PendingInOrder'
  <2>1. \A c : Taken(c)' <=> Taken(c)
    BY <1>1, <1>5 DEF Taken, Begun
  <2> QED  BY <1>1, <1>7, <2>1 DEF Order, PendingInOrder
<1>12. NoneLost'
  BY <1>1, <1>5, <1>7 DEF Order, NoneLost, Taken, Begun, Queued
<1> QED  BY <1>5, <1>8, <1>9, <1>10, <1>11, <1>12 DEF Order

\* A command that is handed over is a new one, and the next of its channel.
LEMMA ForwardOrder ==
  ASSUME TypeOK, Order, NEW ch \in Channels, Forward(ch)
  PROVE  Order'
<1> DEFINE c == Head(chanBuf[ch])
<1>1. /\ chanBuf' = [chanBuf EXCEPT ![ch] = Tail(@)] /\ chanBuf[ch] # <<>>
      /\ pending' = Append(pending, c)
      /\ UNCHANGED <<written, job, left, loop, wire, inFlight, sockBuf, out>>
  BY DEF Forward, CanForward, pipe, socket
<1>2. /\ chanBuf \in [Channels -> Seq(Commands)] /\ pending \in Seq(Commands)
      /\ \A d \in Channels : written[d] \in Nat /\ chanBuf[d] \in Seq(Commands)
      /\ \A d \in Channels : written[d] <= Len(Program[d])
  BY DEF TypeOK
<1>3. /\ c \in Commands /\ c = chanBuf[ch][1] /\ Len(chanBuf[ch]) \in Nat /\ Len(chanBuf[ch]) >= 1
      /\ Len(Tail(chanBuf[ch])) = Len(chanBuf[ch]) - 1
      /\ \A i \in 1 .. Len(chanBuf[ch]) - 1 : Tail(chanBuf[ch])[i] = chanBuf[ch][i + 1]
  BY <1>1, <1>2
<1>4. /\ chanBuf'[ch] = Tail(chanBuf[ch])
      /\ \A d \in Channels : d # ch => chanBuf'[d] = chanBuf[d]
  BY <1>1, <1>2
<1>5. \A d \in Channels : passed[d] \in Int /\ passed[d] >= 0 /\ passed[d] <= written[d]
  <2> TAKE d \in Channels
  <2>1. passed[d] = written[d] - Len(chanBuf[d]) /\ Len(chanBuf[d]) \in Nat
    BY <1>2 DEF passed
  <2>2. passed[d] >= 0
    BY DEF Order, BufferedLast
  <2> QED  BY <1>2, <2>1, <2>2
<1>6. passed'[ch] = passed[ch] + 1 /\ passed[ch] + 1 <= written[ch]
  <2>1. /\ passed[ch] = written[ch] - Len(chanBuf[ch])
        /\ passed'[ch] = written[ch] - Len(chanBuf'[ch])
    BY <1>1 DEF passed
  <2>2. Len(chanBuf'[ch]) = Len(chanBuf[ch]) - 1
    BY <1>3, <1>4
  <2> HIDE DEF c
  <2> QED  BY <1>2, <1>3, <2>1, <2>2
<1>7. \A d \in Channels : d # ch => passed'[d] = passed[d]
  BY <1>1, <1>4 DEF passed
<1>8. c = Program[ch][passed[ch] + 1]
  <2>1. 1 \in 1 .. Len(chanBuf[ch])
    BY <1>3
  <2> QED  BY <1>2, <1>3, <2>1 DEF Order, BufferedLast
<1> HIDE DEF c
<1>9. Pipe' = Pipe /\ SocketInOrder'
  BY <1>1 DEF Pipe, Pushed, Sent, Order, SocketInOrder
<1>10. \A d : Taken(d)' <=> Taken(d)
  BY <1>1, <1>9 DEF Taken, Begun
<1>11. \A d \in Channels : 1 .. passed[d] \subseteq 1 .. passed'[d]
  <2>1. 1 .. passed[ch] \subseteq 1 .. passed[ch] + 1
    BY <1>5
  <2> QED  BY <1>6, <1>7, <2>1
<1>12. \A d \in Channels : \A n \in 1 .. passed[d] : Program[d][n] # c
  <2> TAKE d \in Channels
  <2> TAKE n \in 1 .. passed[d]
  <2>1. \A s \in Seq(Commands) : DOMAIN s = 1 .. Len(s) /\ Len(s) \in Nat
    OBVIOUS
  <2>2. Program[d] \in Seq(Commands) /\ Program[ch] \in Seq(Commands)
    BY CommandWriterAssumption
  <2>3. /\ DOMAIN Program[d] = 1 .. Len(Program[d]) /\ Len(Program[d]) \in Nat
        /\ DOMAIN Program[ch] = 1 .. Len(Program[ch]) /\ Len(Program[ch]) \in Nat
    BY <2>1, <2>2
  <2>4. /\ passed[d] \in Int /\ passed[d] <= Len(Program[d]) /\ passed[ch] \in Int
        /\ passed[ch] >= 0 /\ passed[ch] + 1 <= Len(Program[ch])
    <3>1. /\ written[d] \in Nat /\ written[d] <= Len(Program[d])
          /\ written[ch] \in Nat /\ written[ch] <= Len(Program[ch])
      BY <1>2
    <3>2. /\ passed[d] \in Int /\ passed[d] <= written[d]
          /\ passed[ch] \in Int /\ passed[ch] >= 0 /\ passed[ch] + 1 <= written[ch]
      BY <1>5, <1>6
    <3> QED  BY <2>3, <3>1, <3>2
  <2>5. n \in DOMAIN Program[d] /\ passed[ch] + 1 \in DOMAIN Program[ch]
    BY <2>3, <2>4
  <2>6. d = ch => n # passed[ch] + 1
    BY <1>5
  <2>7. Program[d][n] = Program[ch][passed[ch] + 1] => d = ch /\ n = passed[ch] + 1
    <3>1. \A i \in DOMAIN Program[d], j \in DOMAIN Program[ch] :
            Program[d][i] = Program[ch][j] => d = ch /\ i = j
      BY CommandWriterAssumption
    <3> QED  BY <2>5, <3>1
  <2> QED  BY <1>8, <2>6, <2>7
<1>13. ~Taken(c)
  <2>1. job # c
    <3>1. job = c => job # None
      BY <1>3, CommandWriterAssumption
    <3> QED  BY <1>12, <3>1 DEF Order, JobInOrder
  <2>2. ~Begun(c)
    BY <1>12 DEF Order, NoneLost, Begun
  <2> QED  BY <2>1, <2>2 DEF Taken
<1>14. \A i \in DOMAIN pending : pending[i] # c
  BY <1>12 DEF Order, PendingInOrder
<1>15. PipeInOrder'
  BY <1>1, <1>9 DEF Order, PipeInOrder, InTurn
<1>16. JobInOrder'
  <2>1. \A k : (\E d \in Channels : \E n \in 1 .. passed[d] :
                  k = Program[d][n] /\ \A m \in 1 .. n - 1 : Begun(Program[d][m])) =>
               \E d \in Channels : \E n \in 1 .. passed'[d] :
                  k = Program[d][n] /\ \A m \in 1 .. n - 1 : Begun(Program[d][m])
    BY <1>11
  <2>2. (\A d : Begun(d)' <=> Begun(d)) /\ (LastIsLast' <=> LastIsLast)
    BY <1>9 DEF Begun, LastIsLast
  <2>3. CASE job = None
    BY <1>1, <2>2, <2>3 DEF Order, JobInOrder
  <2>4. CASE job # None
    <3> DEFINE frames == FramesOf(job)
               k == Len(frames) - Len(left)
    <3>1. /\ k >= 0
          /\ \A i \in DOMAIN left : left[i] = frames[k + i]
          /\ k = 0 => ~Begun(job) /\ LastIsLast
          /\ k > 0 => Pipe # <<>> /\ Pipe[Len(Pipe)] = frames[k]
          /\ \E d \in Channels : \E n \in 1 .. passed'[d] :
               job = Program[d][n] /\ \A m \in 1 .. n - 1 : Begun(Program[d][m])
      BY <2>1, <2>4 DEF Order, JobInOrder
    <3>2. frames' = frames /\ k' = k /\ left' = left /\ job' = job
      BY <1>1
    <3> HIDE DEF frames, k
    <3>3. /\ k' >= 0
          /\ \A i \in DOMAIN left' : left'[i] = frames'[k' + i]
          /\ k' = 0 => ~Begun(job)' /\ LastIsLast'
          /\ k' > 0 => Pipe' # <<>> /\ Pipe'[Len(Pipe')] = frames'[k']
          /\ \E d \in Channels : \E n \in 1 .. passed'[d] :
               job' = Program[d][n] /\ \A m \in 1 .. n - 1 : Begun(Program[d][m])'
      <4>1. Begun(job)' <=> Begun(job)
        BY <1>1, <1>9 DEF Begun
      <4> QED  BY <1>9, <2>2, <3>1, <3>2, <4>1
    <3> QED  BY <2>4, <3>2, <3>3 DEF JobInOrder, frames, k
  <2> QED  BY <2>3, <2>4
<1>17. BufferedLast'
  <2>1. \A i \in 1 .. Len(chanBuf[ch]) - 1 :
          chanBuf[ch][i + 1] = Program[ch][passed[ch] + (i + 1)]
    <3>1. \A i \in 1 .. Len(chanBuf[ch]) - 1 : i + 1 \in 1 .. Len(chanBuf[ch])
      BY <1>3
    <3> QED  BY <1>2, <3>1 DEF Order, BufferedLast
  <2>2. \A i \in 1 .. Len(chanBuf[ch]) - 1 : passed[ch] + (i + 1) = passed'[ch] + i
    BY <1>3, <1>5, <1>6
  <2>3. DOMAIN chanBuf'[ch] = 1 .. Len(chanBuf[ch]) - 1
    BY <1>1, <1>2, <1>4
  <2>4. \A i \in DOMAIN chanBuf'[ch] : chanBuf'[ch][i] = Program[ch][passed'[ch] + i]
    BY <1>3, <1>4, <2>1, <2>2, <2>3
  <2>5. \A d \in Channels : passed'[d] >= 0
    BY <1>5, <1>6, <1>7
  <2>6. \A d \in Channels : \A i \in DOMAIN chanBuf'[d] :
          chanBuf'[d][i] = Program[d][passed'[d] + i]
    <3> TAKE d \in Channels
    <3>1. CASE d = ch
      BY <2>4, <3>1
    <3>2. CASE d # ch
      BY <1>4, <1>7, <3>2 DEF Order, BufferedLast
    <3> QED  BY <3>1, <3>2
  <2> QED  BY <2>5, <2>6 DEF BufferedLast
<1>18. /\ DOMAIN pending = 1 .. Len(pending) /\ Len(pending) \in Nat
       /\ DOMAIN pending' = 1 .. Len(pending) + 1
       /\ \A i \in 1 .. Len(pending) : pending'[i] = pending[i]
       /\ pending'[Len(pending) + 1] = c
  BY <1>1, <1>2, <1>3
<1>19. \A i \in 1 .. Len(pending) + 1 :
         i \in 1 .. Len(pending) \/ (i = Len(pending) + 1 /\ i - 1 = Len(pending))
  BY <1>18
<1>20. \A i \in 1 .. Len(pending) : 1 .. i - 1 \subseteq 1 .. Len(pending)
  BY <1>18
<1>21. \A d \in Channels : \A n \in 1 .. passed[d] :
         Taken(Program[d][n]) \/ \E j \in 1 .. Len(pending) : pending[j] = Program[d][n]
  BY <1>18 DEF Order, NoneLost, Queued
<1>22. PendingInOrder'
  <2>1. ASSUME NEW i \in 1 .. Len(pending)
        PROVE  /\ ~Taken(pending'[i])
               /\ \A j \in 1 .. i - 1 : pending'[j] # pending'[i]
               /\ \E d \in Channels : \E n \in 1 .. passed'[d] :
                    /\ pending'[i] = Program[d][n]
                    /\ \A m \in 1 .. n - 1 :
                         Taken(Program[d][m]) \/ \E j \in 1 .. i - 1 : pending'[j] = Program[d][m]
    <3>1. i \in DOMAIN pending /\ pending'[i] = pending[i]
      BY <1>18
    <3>2. \A j \in 1 .. i - 1 : pending'[j] = pending[j]
      BY <1>18, <1>20
    <3>3. PICK d \in Channels : \E n \in 1 .. passed[d] :
            /\ pending[i] = Program[d][n]
            /\ \A m \in 1 .. n - 1 :
                 Taken(Program[d][m]) \/ \E j \in 1 .. i - 1 : pending[j] = Program[d][m]
      BY <3>1 DEF Order, PendingInOrder
    <3>4. 1 .. passed[d] \subseteq 1 .. passed'[d]
      BY <1>11
    <3>5. ~Taken(pending[i]) /\ \A j \in 1 .. i - 1 : pending[j] # pending[i]
      BY <3>1 DEF Order, PendingInOrder
    <3>6. PICK n \in 1 .. passed[d] :
            /\ pending[i] = Program[d][n]
            /\ \A m \in 1 .. n - 1 :
                 Taken(Program[d][m]) \/ \E j \in 1 .. i - 1 : pending[j] = Program[d][m]
      BY <3>3
    <3>7. n \in 1 .. passed'[d] /\ pending'[i] = Program[d][n]
      BY <3>1, <3>4, <3>6
    <3>8. \A m \in 1 .. n - 1 :
            Taken(Program[d][m]) \/ \E j \in 1 .. i - 1 : pending'[j] = Program[d][m]
      BY <3>2, <3>6, Zenon
    <3>9. ~Taken(pending'[i]) /\ \A j \in 1 .. i - 1 : pending'[j] # pending'[i]
      BY <3>1, <3>2, <3>5, Zenon
    <3> QED  BY <3>7, <3>8, <3>9, Zenon
  <2>2. /\ ~Taken(c)
        /\ \A j \in 1 .. Len(pending) : pending'[j] # c
        /\ \E d \in Channels : \E n \in 1 .. passed'[d] :
             /\ c = Program[d][n]
             /\ \A m \in 1 .. n - 1 :
                  Taken(Program[d][m]) \/ \E j \in 1 .. Len(pending) : pending'[j] = Program[d][m]
    <3>1. passed'[ch] \in 1 .. passed'[ch] /\ passed'[ch] - 1 = passed[ch]
      BY <1>5, <1>6
    <3>2. \A m \in 1 .. passed'[ch] - 1 :
            Taken(Program[ch][m]) \/ \E j \in 1 .. Len(pending) : pending'[j] = Program[ch][m]
      BY <1>18, <1>21, <3>1
    <3>3. c = Program[ch][passed'[ch]]
      BY <1>6, <1>8
    <3> QED  BY <1>13, <1>14, <1>18, <3>1, <3>2, <3>3
  <2>3. ASSUME NEW i \in DOMAIN pending'
        PROVE  /\ ~Taken(pending'[i])
               /\ \A j \in 1 .. i - 1 : pending'[j] # pending'[i]
               /\ \E d \in Channels : \E n \in 1 .. passed'[d] :
                    /\ pending'[i] = Program[d][n]
                    /\ \A m \in 1 .. n - 1 :
                         Taken(Program[d][m]) \/ \E j \in 1 .. i - 1 : pending'[j] = Program[d][m]
    <3>1. CASE i \in 1 .. Len(pending)
      BY <2>1, <3>1
    <3>2. CASE i = Len(pending) + 1 /\ i - 1 = Len(pending)
      BY <1>18, <2>2, <3>2
    <3> QED  BY <1>18, <1>19, <3>1, <3>2
  <2> QED  BY <1>10, <2>3 DEF PendingInOrder
<1>23. NoneLost'
  <2>1. \A d \in Channels : \A n \in 1 .. passed'[d] :
          n \in 1 .. passed[d] \/ (d = ch /\ n = passed[ch] + 1)
    BY <1>5, <1>6, <1>7
  <2>2. Len(pending) + 1 \in 1 .. Len(pending) + 1
    BY <1>18
  <2>3. \A d \in Channels : \A n \in 1 .. passed'[d] :
          Taken(Program[d][n]) \/ \E j \in DOMAIN pending' : pending'[j] = Program[d][n]
    <3> TAKE d \in Channels
    <3> TAKE n \in 1 .. passed'[d]
    <3>1. CASE n \in 1 .. passed[d]
      <4>1. 1 .. Len(pending) \subseteq 1 .. Len(pending) + 1
        BY <1>18
      <4> QED  BY <1>18, <1>21, <3>1, <4>1
    <3>2. CASE d = ch /\ n = passed[ch] + 1
      BY <1>8, <1>18, <2>2, <3>2
    <3> QED  BY <2>1, <3>1, <3>2
  <2>4. \A i \in DOMAIN Pipe :
          \E d \in Channels : \E n \in 1 .. passed'[d] : Pipe[i].cmd = Program[d][n]
    BY <1>11 DEF Order, NoneLost
  <2> QED  BY <1>9, <1>10, <2>3, <2>4 DEF NoneLost, Queued
<1> QED  BY <1>9, <1>15, <1>16, <1>17, <1>22, <1>23 DEF Order

\* A program's command is one, and the first commands of each are written.
LEMMA Written ==
  ASSUME TypeOK, Order, NEW ch \in Channels
  PROVE  /\ passed[ch] \in Int /\ passed[ch] <= written[ch] /\ 1 .. passed[ch] \subseteq 1 .. written[ch]
         /\ \A n \in 1 .. passed[ch] : Program[ch][n] \in Commands /\ Program[ch][n] # None
<1>1. /\ passed[ch] = written[ch] - Len(chanBuf[ch]) /\ chanBuf[ch] \in Seq(Commands)
      /\ written[ch] \in Nat /\ written[ch] <= Len(Program[ch])
  BY DEF TypeOK, passed
<1>2. Program[ch] \in Seq(Commands)
  BY CommandWriterAssumption
<1>3. passed[ch] \in Int /\ passed[ch] <= written[ch]
  BY <1>1
<1>4. \A n \in 1 .. passed[ch] : n \in 1 .. Len(Program[ch])
  BY <1>1, <1>2, <1>3
<1>5. \A n \in 1 .. passed[ch] : Program[ch][n] \in Commands
  BY <1>2, <1>4
<1>6. 1 .. passed[ch] \subseteq 1 .. written[ch]
  BY <1>1, <1>3
<1>7. None \notin Commands
  BY CommandWriterAssumption
<1> QED  BY <1>3, <1>5, <1>6, <1>7, Zenon

\* The next of the commands in the writer goes into _transform.
LEMMA TakeOrder ==
  ASSUME TypeOK, Order, Take
  PROVE  Order'
<1>0. PICK c : c = Head(pending)
  OBVIOUS
<1>1. /\ job = None /\ pending # <<>> /\ job' = c /\ pending' = Tail(pending)
      /\ left' = FramesOf(c)
      /\ UNCHANGED <<written, chanBuf, wire, inFlight, sockBuf, out>>
  BY <1>0 DEF Take, CanTake, channel, pipe, socket
<1>2. /\ pending \in Seq(Commands) /\ c \in Commands /\ c = pending[1]
      /\ Len(pending) \in Nat /\ Len(pending) >= 1 /\ DOMAIN pending = 1 .. Len(pending)
      /\ DOMAIN pending' = 1 .. Len(pending) - 1
      /\ \A i \in 1 .. Len(pending) - 1 : pending'[i] = pending[i + 1]
  BY <1>0, <1>1 DEF TypeOK
<1>3. c # None
  BY <1>2, CommandWriterAssumption
<1>4. Pipe' = Pipe /\ SocketInOrder' /\ passed' = passed
  BY <1>1 DEF Pipe, Pushed, Sent, Order, SocketInOrder, passed
<1>5. \A d : Begun(d)' <=> Begun(d)
  BY <1>4 DEF Begun
<1>6. \A d \in Commands : (Taken(d) <=> Begun(d)) /\ (Taken(d)' <=> d = c \/ Begun(d))
  BY <1>1, <1>5, CommandWriterAssumption DEF Taken
<1>7. \A i \in DOMAIN pending : pending[i] \in Commands
  BY <1>2
<1>8. \A d \in Channels : \A n \in 1 .. passed[d] : Program[d][n] \in Commands
  BY Written
<1>9. \A i \in DOMAIN pending :
        /\ ~Begun(pending[i])
        /\ \A j \in 1 .. i - 1 : pending[j] # pending[i]
        /\ \E d \in Channels : \E n \in 1 .. passed[d] :
             /\ pending[i] = Program[d][n]
             /\ \A m \in 1 .. n - 1 :
                  Begun(Program[d][m]) \/ \E j \in 1 .. i - 1 : pending[j] = Program[d][m]
  <2> TAKE i \in DOMAIN pending
  <2>1. PICK d \in Channels : \E n \in 1 .. passed[d] :
          /\ pending[i] = Program[d][n]
          /\ \A m \in 1 .. n - 1 :
               Taken(Program[d][m]) \/ \E j \in 1 .. i - 1 : pending[j] = Program[d][m]
    BY DEF Order, PendingInOrder
  <2>2. PICK n \in 1 .. passed[d] :
          /\ pending[i] = Program[d][n]
          /\ \A m \in 1 .. n - 1 :
               Taken(Program[d][m]) \/ \E j \in 1 .. i - 1 : pending[j] = Program[d][m]
    BY <2>1
  <2>3. 1 .. n - 1 \subseteq 1 .. passed[d]
    BY Written
  <2>4. \A m \in 1 .. n - 1 : Taken(Program[d][m]) => Begun(Program[d][m])
    BY <1>6, <1>8, <2>3
  <2>5. ~Taken(pending[i]) /\ \A j \in 1 .. i - 1 : pending[j] # pending[i]
    BY DEF Order, PendingInOrder
  <2> QED  BY <1>6, <1>7, <2>2, <2>4, <2>5
<1>10. PipeInOrder'
  BY <1>1, <1>4 DEF Order, PipeInOrder, InTurn
<1>11. JobInOrder'
  <2>1. LastIsLast'
    BY <1>1, <1>4 DEF Order, JobInOrder, LastIsLast
  <2>2. Len(FramesOf(c)) \in Nat
    BY <1>2, Frames
  <2>3. 1 \in DOMAIN pending /\ 1 .. 1 - 1 = {}
    BY <1>2
  <2>4. /\ ~Begun(c)
        /\ \E d \in Channels : \E n \in 1 .. passed[d] :
             c = Program[d][n] /\ \A m \in 1 .. n - 1 : Begun(Program[d][m])
    BY <1>2, <1>9, <2>3
  <2>5. Len(FramesOf(c)) - Len(left') = 0
    BY <1>1, <2>2
  <2>6. \A i \in DOMAIN left' : left'[i] = FramesOf(c)[0 + i]
    <3>1. \A i \in DOMAIN FramesOf(c) : 0 + i = i
      BY <1>2, Frames
    <3> QED  BY <1>1, <3>1
  <2>7. /\ Len(FramesOf(job')) - Len(left') = 0
        /\ \A i \in DOMAIN left' : left'[i] = FramesOf(job')[0 + i]
    BY <1>1, <2>5, <2>6
  <2>8. job' # None
    BY <1>1, <1>3
  <2> QED  BY <1>1, <1>4, <2>1, <2>4, <2>7, <2>8 DEF JobInOrder, Begun
<1>12. BufferedLast'
  BY <1>1, <1>4 DEF Order, BufferedLast
<1>13. PendingInOrder'
  <2>1. ASSUME NEW i \in 1 .. Len(pending) - 1
        PROVE  /\ ~Begun(pending'[i]) /\ pending'[i] # c
               /\ \A j \in 1 .. i - 1 : pending'[j] # pending'[i]
               /\ \E d \in Channels : \E n \in 1 .. passed[d] :
                    /\ pending'[i] = Program[d][n]
                    /\ \A m \in 1 .. n - 1 :
                         Program[d][m] = c \/ Begun(Program[d][m]) \/ \E j \in 1 .. i - 1 : pending'[j] = Program[d][m]
    <3>1. /\ i + 1 \in DOMAIN pending /\ pending'[i] = pending[i + 1] /\ 1 \in 1 .. (i + 1) - 1
          /\ \A j \in 1 .. i - 1 : pending'[j] = pending[j + 1] /\ j + 1 \in 1 .. (i + 1) - 1
      BY <1>2
    <3>2. /\ ~Begun(pending[i + 1])
          /\ \A j \in 1 .. (i + 1) - 1 : pending[j] # pending[i + 1]
      BY <1>9, <3>1
    <3>3. \A j \in 1 .. (i + 1) - 1 : j = 1 \/ (j - 1 \in 1 .. i - 1 /\ (j - 1) + 1 = j)
      BY <1>2
    <3>4. PICK d \in Channels : \E n \in 1 .. passed[d] :
            /\ pending[i + 1] = Program[d][n]
            /\ \A m \in 1 .. n - 1 :
                 Begun(Program[d][m]) \/ \E j \in 1 .. (i + 1) - 1 : pending[j] = Program[d][m]
      BY <1>9, <3>1
    <3>5. PICK n \in 1 .. passed[d] :
            /\ pending[i + 1] = Program[d][n]
            /\ \A m \in 1 .. n - 1 :
                 Begun(Program[d][m]) \/ \E j \in 1 .. (i + 1) - 1 : pending[j] = Program[d][m]
      BY <3>4
    <3>6. 1 .. n - 1 \subseteq 1 .. passed[d]
      BY Written
    <3>7. \A m \in 1 .. n - 1 :
            Program[d][m] = c \/ Begun(Program[d][m]) \/ \E j \in 1 .. i - 1 : pending'[j] = Program[d][m]
      <4> TAKE m \in 1 .. n - 1
      <4>2. CASE Begun(Program[d][m])
        BY <4>2
      <4>3. ASSUME NEW j \in 1 .. (i + 1) - 1, pending[j] = Program[d][m]
            PROVE  Program[d][m] = c \/ Begun(Program[d][m]) \/ \E l \in 1 .. i - 1 : pending'[l] = Program[d][m]
        <5>1. CASE j = 1
          BY <1>2, <4>3, <5>1
        <5>2. CASE j - 1 \in 1 .. i - 1 /\ (j - 1) + 1 = j
          BY <3>1, <4>3, <5>2
        <5> QED  BY <3>3, <5>1, <5>2
      <4> QED  BY <3>5, <4>2, <4>3
    <3>8. ~Begun(pending'[i]) /\ pending'[i] # c
      BY <1>2, <3>1, <3>2
    <3>9. \A j \in 1 .. i - 1 : pending'[j] # pending'[i]
      BY <3>1, <3>2
    <3> QED  BY <3>1, <3>5, <3>7, <3>8, <3>9
  <2>2. \A i \in DOMAIN pending' :
          /\ ~(pending'[i] = job' \/ \E l \in DOMAIN Pipe' : Pipe'[l].cmd = pending'[i])
          /\ \A j \in 1 .. i - 1 : pending'[j] # pending'[i]
          /\ \E d \in Channels : \E n \in 1 .. passed'[d] :
               /\ pending'[i] = Program[d][n]
               /\ \A m \in 1 .. n - 1 :
                    \/ Program[d][m] = job' \/ \E l \in DOMAIN Pipe' : Pipe'[l].cmd = Program[d][m]
                    \/ \E j \in 1 .. i - 1 : pending'[j] = Program[d][m]
    <3> TAKE i \in DOMAIN pending'
    <3>1. i \in 1 .. Len(pending) - 1
      BY <1>2
    <3>2. \A d : Begun(d) <=> \E l \in DOMAIN Pipe' : Pipe'[l].cmd = d
      BY <1>4 DEF Begun
    <3>3. PICK d \in Channels : \E n \in 1 .. passed[d] :
            /\ pending'[i] = Program[d][n]
            /\ \A m \in 1 .. n - 1 :
                 Program[d][m] = c \/ Begun(Program[d][m]) \/ \E j \in 1 .. i - 1 : pending'[j] = Program[d][m]
      BY <2>1, <3>1
    <3>4. PICK n \in 1 .. passed[d] :
            /\ pending'[i] = Program[d][n]
            /\ \A m \in 1 .. n - 1 :
                 Program[d][m] = c \/ Begun(Program[d][m]) \/ \E j \in 1 .. i - 1 : pending'[j] = Program[d][m]
      BY <3>3
    <3>5. \A m \in 1 .. n - 1 :
            \/ Program[d][m] = job' \/ \E l \in DOMAIN Pipe' : Pipe'[l].cmd = Program[d][m]
            \/ \E j \in 1 .. i - 1 : pending'[j] = Program[d][m]
      BY <1>1, <3>2, <3>4
    <3>6. n \in 1 .. passed'[d]
      BY <1>4
    <3>7. ~Begun(pending'[i]) /\ pending'[i] # c /\ \A j \in 1 .. i - 1 : pending'[j] # pending'[i]
      BY <2>1, <3>1
    <3>8. ~(pending'[i] = job' \/ \E l \in DOMAIN Pipe' : Pipe'[l].cmd = pending'[i])
      BY <1>1, <3>2, <3>7
    <3> QED  BY <3>4, <3>5, <3>6, <3>7, <3>8
  <2> QED  BY <2>2 DEF PendingInOrder, Taken, Begun
<1>14. NoneLost'
  <2>1. \A i \in DOMAIN pending : i = 1 \/ (i - 1 \in DOMAIN pending' /\ (i - 1) + 1 = i)
    BY <1>2
  <2>2. \A d : Queued(d) => d = c \/ \E i \in DOMAIN pending' : pending'[i] = d
    <3> TAKE d
    <3>1. ASSUME NEW i \in DOMAIN pending, pending[i] = d, i # 1
          PROVE  \E l \in DOMAIN pending' : pending'[l] = d
      BY <1>2, <2>1, <3>1
    <3> QED  BY <1>2, <3>1 DEF Queued
  <2>3. \A d \in Channels : \A n \in 1 .. passed[d] :
          Taken(Program[d][n])' \/ \E i \in DOMAIN pending' : pending'[i] = Program[d][n]
    BY <1>6, <1>8, <2>2 DEF Order, NoneLost
  <2> QED  BY <1>4, <2>3 DEF Order, NoneLost, Queued
<1> QED  BY <1>4, <1>10, <1>11, <1>12, <1>13, <1>14 DEF Order

\* What takes nothing and loses nothing leaves the rest of the writer as it is.
LEMMA TakenKept ==
  ASSUME TypeOK, Order, UNCHANGED <<written, chanBuf, pending>>,
         \A d \in Commands : Taken(d)' <=> Taken(d),
         \A i \in DOMAIN Pipe' :
           \E ch \in Channels : \E n \in 1 .. passed[ch] : Pipe'[i].cmd = Program[ch][n]
  PROVE  BufferedLast' /\ PendingInOrder' /\ NoneLost'
<1>1. passed' = passed
  BY DEF passed
<1>2. BufferedLast'
  BY <1>1 DEF Order, BufferedLast
<1>3. \A ch \in Channels : \A n \in 1 .. passed[ch] : Program[ch][n] \in Commands
  BY Written
<1>4. PendingInOrder'
  <2>1. ASSUME NEW i \in DOMAIN pending
        PROVE  /\ ~Taken(pending[i])'
               /\ \A j \in 1 .. i - 1 : pending[j] # pending[i]
               /\ \E ch \in Channels : \E n \in 1 .. passed[ch] :
                    /\ pending[i] = Program[ch][n]
                    /\ \A m \in 1 .. n - 1 :
                         Taken(Program[ch][m])' \/ \E j \in 1 .. i - 1 : pending[j] = Program[ch][m]
    <3>1. PICK ch \in Channels : \E n \in 1 .. passed[ch] :
            /\ pending[i] = Program[ch][n]
            /\ \A m \in 1 .. n - 1 :
                 Taken(Program[ch][m]) \/ \E j \in 1 .. i - 1 : pending[j] = Program[ch][m]
      BY DEF Order, PendingInOrder
    <3>2. PICK n \in 1 .. passed[ch] :
            /\ pending[i] = Program[ch][n]
            /\ \A m \in 1 .. n - 1 :
                 Taken(Program[ch][m]) \/ \E j \in 1 .. i - 1 : pending[j] = Program[ch][m]
      BY <3>1
    <3>3. 1 .. n - 1 \subseteq 1 .. passed[ch]
      BY Written
    <3>4. \A m \in 1 .. n - 1 : Taken(Program[ch][m])' <=> Taken(Program[ch][m])
      BY <1>3, <3>3
    <3>5. /\ ~Taken(pending[i])
          /\ \A j \in 1 .. i - 1 : pending[j] # pending[i]
      BY DEF Order, PendingInOrder
    <3>6. PICK e \in Commands : e = pending[i]
      BY DEF TypeOK
    <3>7. ~Taken(e)'
      BY <3>5, <3>6
    <3>8. ~Taken(pending[i])'
      BY <3>6, <3>7 DEF Taken, Begun
    <3> QED  BY <3>2, <3>4, <3>5, <3>8
  <2> QED  BY <1>1, <2>1 DEF PendingInOrder
<1>5. NoneLost'
  <2>1. \A d : Queued(d)' <=> Queued(d)
    BY DEF Queued
  <2>2. \A ch \in Channels : \A n \in 1 .. passed[ch] :
          Taken(Program[ch][n])' \/ Queued(Program[ch][n])'
    BY <1>3, <2>1 DEF Order, NoneLost
  <2> QED  BY <1>1, <2>2 DEF NoneLost
<1> QED  BY <1>2, <1>4, <1>5

\* The command whose last frame is pushed is begun for ever.
LEMMA FinishOrder ==
  ASSUME TypeOK, Order, Finish
  PROVE  Order'
<1>1. /\ loop = "running" /\ left = <<>> /\ left' = <<>> /\ job' = None /\ loop' = "idle"
      /\ UNCHANGED <<written, chanBuf, pending, wire, inFlight, sockBuf, out>>
  BY DEF Finish, channel, pipe, socket
<1>2. Pipe' = Pipe /\ SocketInOrder'
  BY <1>1 DEF Pipe, Pushed, Sent, Order, SocketInOrder
<1>3. job # None /\ job \in Commands
  BY <1>1 DEF Order, JobInOrder, TypeOK
<1>4. PICK c : c = job
  OBVIOUS
<1>5. Len(<<>>) = 0
  OBVIOUS
<1>6. PICK k \in DOMAIN FramesOf(c) :
        k = Len(FramesOf(c)) /\ Pipe # <<>> /\ Pipe[Len(Pipe)] = FramesOf(c)[k]
  <2>1. Len(FramesOf(c)) \in Nat /\ Len(FramesOf(c)) >= 1
        /\ DOMAIN FramesOf(c) = 1 .. Len(FramesOf(c))
    BY <1>3, <1>4, Frames
  <2>2. Len(left) = 0
    BY <1>1, <1>5
  <2>3. Len(FramesOf(c)) - Len(left) > 0 /\ Len(FramesOf(c)) - Len(left) = Len(FramesOf(c))
    BY <2>1, <2>2
  <2>4. Pipe # <<>> /\ Pipe[Len(Pipe)] = FramesOf(c)[Len(FramesOf(c)) - Len(left)]
    BY <1>3, <1>4, <2>3 DEF Order, JobInOrder
  <2> QED  BY <2>1, <2>3, <2>4
<1>7. Pipe[Len(Pipe)].cmd = c /\ Pipe[Len(Pipe)].index = Len(FramesOf(c))
  BY <1>3, <1>4, <1>6, OwnFrame
<1>8. LastIsLast
  BY <1>7 DEF LastIsLast
<1>9. Begun(c)
  <2>1. Len(Pipe) \in DOMAIN Pipe
    BY <1>6, PipeType
  <2> QED  BY <1>7, <2>1 DEF Begun
<1>10. \A d \in Commands : Taken(d)' <=> Taken(d)
  <2>1. \A d : Begun(d)' <=> Begun(d)
    BY <1>2 DEF Begun
  <2> QED  BY <1>1, <1>4, <1>9, <2>1, CommandWriterAssumption DEF Taken
<1>11. \A i \in DOMAIN Pipe' :
         \E ch \in Channels : \E n \in 1 .. passed[ch] : Pipe'[i].cmd = Program[ch][n]
  BY <1>2 DEF Order, NoneLost
<1>12. BufferedLast' /\ PendingInOrder' /\ NoneLost'
  BY <1>1, <1>10, <1>11, TakenKept
<1>13. PipeInOrder'
  BY <1>1, <1>2 DEF Order, PipeInOrder, InTurn
<1>14. JobInOrder'
  BY <1>1, <1>2, <1>8 DEF JobInOrder, LastIsLast
<1> QED  BY <1>2, <1>12, <1>13, <1>14 DEF Order

\* Whether a frame is in turn depends on those before it only.
LEMMA InTurnBefore ==
  ASSUME NEW s, NEW t, NEW i \in Nat, i >= 1, \A j \in 1 .. i : s[j] = t[j], InTurn(s, i)
  PROVE  InTurn(t, i)
<1>1. s[i] = t[i] /\ \A j \in 1 .. i - 1 : s[j] = t[j]
  OBVIOUS
<1>2. i > 1 => i - 1 \in 1 .. i - 1
  OBVIOUS
<1> QED  BY <1>1, <1>2 DEF InTurn

\* The frame pushed is the next of the command in _transform, and in turn.
LEMMA PushOrder ==
  ASSUME TypeOK, Order, Push
  PROVE  Order'
<1>0. PICK c, f, q : c = job /\ f = Head(left) /\ q = Append(Pipe, f)
  OBVIOUS
<1>1. /\ loop = "running" /\ left # <<>> /\ left' = Tail(left) /\ job' = job
      /\ ~Overflows(f)
      /\ UNCHANGED <<written, chanBuf, pending>>
  BY <1>0 DEF Push, channel
<1>2. Pipe' = q /\ SocketInOrder'
  BY <1>0, PushAppends DEF Order
<1>3. c \in Commands /\ c # None /\ job # None
  BY <1>0, <1>1 DEF Order, JobInOrder, TypeOK
<1>4. /\ left \in Seq(FrameSet) /\ Len(left) \in Nat /\ Len(left) >= 1
      /\ f = left[1] /\ f \in FrameSet /\ DOMAIN left = 1 .. Len(left)
      /\ Len(left') = Len(left) - 1 /\ DOMAIN left' = 1 .. Len(left) - 1
      /\ \A i \in 1 .. Len(left) - 1 : left'[i] = left[i + 1]
  BY <1>0, <1>1 DEF TypeOK
<1>5. PICK k : k = Len(FramesOf(c)) - Len(left)
  OBVIOUS
<1>6. /\ k >= 0
      /\ \A i \in DOMAIN left : left[i] = FramesOf(c)[k + i]
      /\ k = 0 => ~Begun(c) /\ LastIsLast
      /\ k > 0 => Pipe # <<>> /\ Pipe[Len(Pipe)] = FramesOf(c)[k]
      /\ \E ch \in Channels : \E n \in 1 .. passed[ch] :
           c = Program[ch][n] /\ \A m \in 1 .. n - 1 : Begun(Program[ch][m])
  BY <1>0, <1>3, <1>5 DEF Order, JobInOrder
<1>7. /\ Len(FramesOf(c)) \in Nat /\ DOMAIN FramesOf(c) = 1 .. Len(FramesOf(c))
      /\ \A i \in DOMAIN FramesOf(c) : FramesOf(c)[i].cmd = c /\ FramesOf(c)[i].index = i
  BY <1>3, Frames
<1>8. k \in Nat /\ k + 1 \in DOMAIN FramesOf(c) /\ (k > 0 => k \in DOMAIN FramesOf(c))
  BY <1>4, <1>5, <1>6, <1>7
<1>9. f = FramesOf(c)[k + 1] /\ f.cmd = c /\ f.index = k + 1
  <2>1. 1 \in DOMAIN left
    BY <1>4
  <2>2. f = FramesOf(c)[k + 1]
    BY <1>4, <1>6, <2>1
  <2> QED  BY <1>7, <1>8, <2>2
<1>10. /\ Pipe \in Seq(FrameSet) /\ Len(Pipe) \in Nat /\ DOMAIN Pipe = 1 .. Len(Pipe)
       /\ q \in Seq(FrameSet) /\ Len(q) = Len(Pipe) + 1 /\ DOMAIN q = 1 .. Len(Pipe) + 1
       /\ q # <<>> /\ q[Len(Pipe) + 1] = f
       /\ \A i \in 1 .. Len(Pipe) : q[i] = Pipe[i]
  <2>1. PICK p \in Seq(FrameSet) : p = Pipe
    BY PipeType
  <2>2. q = Append(p, f) /\ f \in FrameSet
    BY <1>0, <1>4, <2>1
  <2>3. /\ Len(p) \in Nat /\ DOMAIN p = 1 .. Len(p)
        /\ q \in Seq(FrameSet) /\ Len(q) = Len(p) + 1 /\ DOMAIN q = 1 .. Len(p) + 1
        /\ q[Len(p) + 1] = f /\ \A i \in 1 .. Len(p) : q[i] = p[i]
    BY <2>2
  <2>4. q # <<>>
    BY <2>2
  <2> QED  BY <2>1, <2>3, <2>4
<1>11. \A i \in 1 .. Len(Pipe) + 1 : i \in 1 .. Len(Pipe) \/ i = Len(Pipe) + 1
  BY <1>10
<1>12. \A d : (\E i \in DOMAIN q : q[i].cmd = d) <=> Begun(d) \/ d = c
  <2> TAKE d
  <2>1. 1 .. Len(Pipe) \subseteq DOMAIN q /\ Len(Pipe) + 1 \in DOMAIN q
    BY <1>10
  <2>2. ASSUME Begun(d) \/ d = c
        PROVE  \E i \in DOMAIN q : q[i].cmd = d
    <3>1. CASE Begun(d)
      BY <1>10, <2>1, <3>1 DEF Begun
    <3>2. CASE d = c
      BY <1>9, <1>10, <2>1, <3>2
    <3> QED  BY <2>2, <3>1, <3>2
  <2>3. ASSUME NEW i \in DOMAIN q, q[i].cmd = d
        PROVE  Begun(d) \/ d = c
    <3>1. CASE i \in 1 .. Len(Pipe)
      BY <1>10, <2>3, <3>1 DEF Begun
    <3>2. CASE i = Len(Pipe) + 1
      BY <1>9, <1>10, <2>3, <3>2
    <3> QED  BY <1>10, <1>11, <3>1, <3>2
  <2> QED  BY <2>2, <2>3
<1>13. \A i \in DOMAIN q : InTurn(q, i) /\ q[i].size <= FrameMax
  <2>1. ASSUME NEW i \in 1 .. Len(Pipe)
        PROVE  InTurn(q, i) /\ q[i].size <= FrameMax
    <3>1. InTurn(Pipe, i) /\ Pipe[i].size <= FrameMax
      BY <1>10 DEF Order, PipeInOrder
    <3>2. i \in Nat /\ i >= 1 /\ 1 .. i \subseteq 1 .. Len(Pipe)
      BY <1>10
    <3>3. \A j \in 1 .. i : Pipe[j] = q[j]
      BY <1>10, <3>2
    <3>4. InTurn(q, i)
      BY <3>1, <3>2, <3>3, InTurnBefore
    <3> QED  BY <1>10, <3>1, <3>4
  <2> DEFINE e == Len(Pipe) + 1
  <2>2. e - 1 = Len(Pipe) /\ e \in Nat /\ q[e] = f /\ 1 .. e - 1 = 1 .. Len(Pipe)
    BY <1>10
  <2> HIDE DEF e
  <2>3. \A d : (\E j \in 1 .. e - 1 : q[j].cmd = d) <=> Begun(d)
    BY <1>10, <2>2 DEF Begun
  <2>4. f.index > 1 => e > 1 /\ q[e - 1] = FramesOf(c)[f.index - 1]
    <3>1. CASE k = 0
      BY <1>8, <1>9, <3>1
    <3>2. CASE k > 0
      <4>1. Pipe # <<>> /\ Pipe[Len(Pipe)] = FramesOf(c)[k]
        BY <1>6, <3>2
      <4>2. Len(Pipe) \in 1 .. Len(Pipe)
        <5>1. Len(Pipe) # 0
          BY <1>10, <4>1
        <5> QED  BY <1>10, <5>1
      <4>3. e > 1
        BY <2>2, <4>2
      <4>4. k = f.index - 1
        BY <1>8, <1>9
      <4> QED  BY <1>10, <2>2, <4>1, <4>2, <4>3, <4>4
    <3> QED  BY <1>8, <3>1, <3>2
  <2>5. f.index = 1 => ~Begun(c) /\ (e > 1 => q[e - 1].index = Len(FramesOf(q[e - 1].cmd)))
    <3> SUFFICES ASSUME f.index = 1
                 PROVE  ~Begun(c) /\ (e > 1 => q[e - 1].index = Len(FramesOf(q[e - 1].cmd)))
      OBVIOUS
    <3>1. k = 0
      BY <1>8, <1>9
    <3>2. ~Begun(c) /\ LastIsLast
      BY <1>6, <3>1
    <3>3. ASSUME e > 1
          PROVE  q[e - 1].index = Len(FramesOf(q[e - 1].cmd))
      <4>1. Len(Pipe) \in 1 .. Len(Pipe)
        BY <1>10, <2>2, <3>3
      <4>2. Pipe # <<>>
        BY <1>10, <4>1
      <4>3. q[e - 1] = Pipe[Len(Pipe)]
        BY <1>10, <2>2, <4>1
      <4> QED  BY <3>2, <4>2, <4>3 DEF LastIsLast
    <3> QED  BY <3>2, <3>3
  <2>6. \E ch \in Channels : \E n \in 1 .. written[ch] :
          c = Program[ch][n] /\ \A m \in 1 .. n - 1 : Begun(Program[ch][m])
    BY <1>6, Written
  <2>7. InTurn(q, e)
    <3>1. \E ch \in Channels : \E n \in 1 .. written[ch] :
            c = Program[ch][n] /\ \A m \in 1 .. n - 1 : \E j \in 1 .. e - 1 : q[j].cmd = Program[ch][m]
      BY <2>3, <2>6
    <3>2. f.index \in DOMAIN FramesOf(f.cmd) /\ f = FramesOf(f.cmd)[f.index]
      BY <1>8, <1>9
    <3>3. ~(\E j \in 1 .. e - 1 : q[j].cmd = c) \/ f.index # 1
      BY <2>3, <2>5
    <3> QED  BY <1>9, <2>2, <2>4, <2>5, <3>1, <3>2, <3>3 DEF InTurn
  <2>8. f.size <= FrameMax
    BY <1>1, <1>4, CommandWriterAssumption DEF Overflows, FrameSet
  <2>9. \A i \in DOMAIN q : i \in 1 .. Len(Pipe) \/ i = e
    BY <1>10, <1>11 DEF e
  <2> QED  BY <2>1, <2>2, <2>7, <2>8, <2>9
<1>14. PipeInOrder'
  BY <1>1, <1>2, <1>13 DEF PipeInOrder, InTurn
<1>15. JobInOrder'
  <2>1. Len(FramesOf(c)) - Len(left') = k + 1
    BY <1>4, <1>5, <1>7
  <2>2. \A i \in DOMAIN left' : left'[i] = FramesOf(c)[(k + 1) + i]
    <3> TAKE i \in DOMAIN left'
    <3>1. i + 1 \in DOMAIN left /\ left'[i] = left[i + 1] /\ i \in Int
      BY <1>4
    <3>2. k + (i + 1) = (k + 1) + i
      BY <1>8, <3>1
    <3> QED  BY <1>6, <3>1, <3>2
  <2>3. q[Len(q)] = FramesOf(c)[k + 1] /\ k + 1 > 0 /\ k + 1 # 0
    BY <1>8, <1>9, <1>10
  <2>4. \E ch \in Channels : \E n \in 1 .. passed[ch] :
          c = Program[ch][n] /\ \A m \in 1 .. n - 1 : \E i \in DOMAIN q : q[i].cmd = Program[ch][m]
    BY <1>6, <1>12
  <2>5. passed' = passed /\ job' = c
    BY <1>0, <1>1 DEF passed
  <2>6. /\ Len(FramesOf(job')) - Len(left') = k + 1
        /\ \A i \in DOMAIN left' : left'[i] = FramesOf(job')[(k + 1) + i]
        /\ Pipe' # <<>> /\ Pipe'[Len(Pipe')] = FramesOf(job')[k + 1]
        /\ \E ch \in Channels : \E n \in 1 .. passed'[ch] :
             job' = Program[ch][n] /\ \A m \in 1 .. n - 1 :
               \E i \in DOMAIN Pipe' : Pipe'[i].cmd = Program[ch][m]
    BY <1>2, <1>10, <2>1, <2>2, <2>3, <2>4, <2>5
  <2> QED  BY <1>3, <2>3, <2>5, <2>6 DEF JobInOrder, Begun
<1>16. \A d \in Commands : Taken(d)' <=> Taken(d)
  <2>1. \A d : Begun(d)' <=> Begun(d) \/ d = c
    BY <1>2, <1>12 DEF Begun
  <2> QED  BY <1>0, <1>1, <2>1 DEF Taken
<1>17. \A i \in DOMAIN Pipe' :
         \E ch \in Channels : \E n \in 1 .. passed[ch] : Pipe'[i].cmd = Program[ch][n]
  <2>1. \A i \in 1 .. Len(Pipe) :
          \E ch \in Channels : \E n \in 1 .. passed[ch] : q[i].cmd = Program[ch][n]
    BY <1>10 DEF Order, NoneLost
  <2>2. \E ch \in Channels : \E n \in 1 .. passed[ch] : q[Len(Pipe) + 1].cmd = Program[ch][n]
    BY <1>6, <1>9, <1>10
  <2> QED  BY <1>2, <1>10, <1>11, <2>1, <2>2
<1>18. BufferedLast' /\ PendingInOrder' /\ NoneLost'
  BY <1>1, <1>16, <1>17, TakenKept
<1> QED  BY <1>2, <1>14, <1>15, <1>18 DEF Order

-----------------------------------------------------------------------------
LEMMA OrderStep ==
  ASSUME TypeOK, Order, [Next]_vars
  PROVE  Order'
<1>1. ASSUME Flow
      PROVE  Order'
  <2>1. Pipe' = Pipe /\ SocketInOrder'
    BY <1>1, FlowKeepsPipe DEF Order
  <2> QED  BY <1>1, <2>1, OrderKept DEF Flow, channel, writer, Order, JobInOrder
<1>2. ASSUME KernelTakes
      PROVE  Order'
  <2>1. Pipe' = Pipe /\ SocketInOrder'
    BY <1>2, KernelKeepsPipe
  <2> QED  BY <1>2, <2>1, OrderKept DEF KernelTakes, channel, writer, Order, JobInOrder
<1>3. ASSUME Throw \/ Immediate \/ Drain \/ SocketDrain \/ UNCHANGED vars
      PROVE  Order'
  <2>1. UNCHANGED <<wire, inFlight, sockBuf, out, written, chanBuf, pending, job, left>>
    BY <1>3 DEF Throw, Immediate, Drain, SocketDrain, vars, channel, writer, pipe, socket
  <2>2. Pipe' = Pipe /\ SocketInOrder'
    BY <2>1 DEF Pipe, Pushed, Sent, Order, SocketInOrder
  <2>3. job = None => loop' = "idle"
    BY <1>3 DEF Throw, Immediate, Drain, SocketDrain, vars, channel, writer, Order, JobInOrder
  <2> QED  BY <2>1, <2>2, <2>3, OrderKept
<1> QED  BY <1>1, <1>2, <1>3, ForwardOrder, TakeOrder, PushOrder, FinishOrder, WriteOrder
         DEF Next, Micro

\* The types, with the order of the pipe that the socket's buffer relies on.
THEOREM TypeCorrect == Spec => [](TypeOK /\ Order)
<1>1. Init => TypeOK /\ Order
  BY InitType, InitOrder
<1>2. TypeOK /\ Order /\ [Next]_vars => (TypeOK /\ Order)'
  <2>1. Order => SocketInOrder
    BY DEF Order
  <2> QED  BY <2>1, TypeStep, OrderStep
<1> QED  BY <1>1, <1>2, PTL DEF Spec

\* Whatever blocks, and whatever the programs and the sizes are: the frames go out whole,
\* command after command, each once and in the order of its channel, and none is longer
\* than frame_max.
THEOREM CommandsWholeAndInOrder == Spec => []WholeAndInOrder
<1>1. TypeOK /\ Order => WholeAndInOrder
  <2> SUFFICES ASSUME TypeOK, Order, NEW i \in DOMAIN Sent
               PROVE  InTurn(Sent, i) /\ Sent[i].size <= FrameMax
    BY DEF WholeAndInOrder
  <2>1. /\ Sent \in Seq(FrameSet) /\ inFlight \in Seq(FrameSet) /\ sockBuf \in Seq(FrameSet)
        /\ out \in Seq(FrameSet)
    BY PipeType DEF TypeOK
  <2>2. PICK rest \in Seq(FrameSet) : Pipe = Sent \o rest
    <3>1. \A s, t, u \in Seq(FrameSet) : s \o t \o u = s \o (t \o u) /\ s \o t \in Seq(FrameSet)
      OBVIOUS
    <3> DEFINE r == inFlight \o sockBuf \o out
    <3>2. r \in Seq(FrameSet) /\ Sent \o inFlight \o sockBuf \o out = Sent \o r
      <4> DEFINE t == inFlight \o sockBuf
      <4>1. t \in Seq(FrameSet) /\ Sent \o inFlight \o sockBuf = Sent \o t
        BY <2>1, <3>1
      <4> HIDE DEF t
      <4>2. t \o out \in Seq(FrameSet) /\ Sent \o t \o out = Sent \o (t \o out)
        BY <2>1, <3>1, <4>1
      <4> QED  BY <4>1, <4>2 DEF t
    <3>3. Pipe = Sent \o r
      BY <3>2 DEF Pipe, Pushed
    <3> HIDE DEF r
    <3> QED  BY <3>2, <3>3
  <2>3. /\ i \in Nat /\ i >= 1 /\ DOMAIN Sent = 1 .. Len(Sent) /\ Len(Sent) \in Nat
        /\ 1 .. i \subseteq 1 .. Len(Sent) /\ i \in 1 .. i
    BY <2>1
  <2>4. \A j \in 1 .. Len(Sent) : Pipe[j] = Sent[j] /\ j \in DOMAIN Pipe
    BY <2>1, <2>2
  <2>5. InTurn(Pipe, i) /\ Pipe[i].size <= FrameMax
    BY <2>3, <2>4 DEF Order, PipeInOrder
  <2>6. InTurn(Sent, i)
    BY <2>3, <2>4, <2>5, InTurnBefore
  <2> QED  BY <2>3, <2>4, <2>5, <2>6
<1> QED  BY <1>1, TypeCorrect, PTL

-----------------------------------------------------------------------------
(***************************************************************************)
(* The one buffer.                                                         *)
(***************************************************************************)
\* As long as the kernel takes every write at once, and no frame fills the socket, nothing
\* is ever left in a buffer when a frame is pushed.
LEMMA UnharmedStep ==
  ASSUME TypeOK, Order, Unharmed, [Next]_vars
  PROVE  Unharmed'
<1>1. CASE UNCHANGED <<inFlight, sockBuf, wire, out, backedUp>> /\ (flowing => flowing')
  BY <1>1 DEF Unharmed
<1>2. CASE backedUp
  <2>1. backedUp'
    BY <1>2 DEF Next, Micro, Forward, Take, Push, SocketWrite, Throw, Finish, Drain, Flow,
         SocketDrain, Write, Immediate, KernelTakes, vars, channel, writer, pipe, socket
  <2> QED  BY <2>1 DEF Unharmed
<1>3. CASE \E i \in DOMAIN wire : wire[i].of.size >= HighWater
  <2>1. PICK i \in DOMAIN wire : wire[i].of.size >= HighWater
    BY <1>3
  <2>2. wire \in Seq(Entry)
    BY DEF TypeOK
  <2>3. ASSUME NEW e \in Entry, wire' = Append(wire, e)
        PROVE  i \in DOMAIN wire' /\ wire'[i] = wire[i]
    BY <2>1, <2>2, <2>3
  <2>4. ASSUME NEW f \in FrameSet, NEW h \in FrameSet \cup {None}, SocketWrite(f, h)
        PROVE  i \in DOMAIN wire' /\ wire'[i] = wire[i]
    <3>1. [of |-> f, holds |-> h] \in Entry
      BY DEF Entry
    <3> QED  BY <2>1, <2>3, <2>4, <3>1 DEF SocketWrite
  <2>5. CASE Flow
    <3>1. Head(out) \in FrameSet /\ buf \in FrameSet \cup {None} /\ SocketWrite(Head(out), buf)
      BY <2>5 DEF Flow, CanFlow, TypeOK
    <3> QED  BY <2>1, <2>4, <3>1 DEF Unharmed
  <2>6. CASE Push
    <3>1. Head(left) \in FrameSet /\ buf' = Head(left)
      BY <2>6 DEF Push, Encoded, TypeOK
    <3>2. SocketWrite(Head(left), buf') \/ UNCHANGED wire
      BY <2>6 DEF Push, socket
    <3> QED  BY <2>1, <2>4, <3>1, <3>2 DEF Unharmed
  <2>7. CASE KernelTakes
    <3> DEFINE p == [j \in 1 .. Len(inFlight) |-> [of |-> inFlight[j], holds |-> buf]]
    <3>1. p \in Seq(Entry)
      BY DEF TypeOK, Entry
    <3>2. wire' = wire \o p
      BY <2>7 DEF KernelTakes
    <3> HIDE DEF p
    <3>3. i \in DOMAIN wire' /\ wire'[i] = wire[i]
      BY <2>1, <2>2, <3>1, <3>2
    <3> QED  BY <2>1, <3>3 DEF Unharmed
  <2>8. CASE UNCHANGED wire
    BY <2>1, <2>8 DEF Unharmed
  <2> QED  BY <2>5, <2>6, <2>7, <2>8 DEF Next, Micro, Forward, Take, Throw, Finish, Drain,
              SocketDrain, Write, Immediate, vars, channel, writer, pipe, socket
<1>4. CASE /\ inFlight = <<>> /\ sockBuf = <<>> /\ out = <<>> /\ flowing
           /\ \A i \in DOMAIN wire : wire[i].holds = wire[i].of
  <2>1. ~Flow /\ ~KernelTakes
    BY <1>4 DEF Flow, CanFlow, KernelTakes
  <2>2. CASE Push
    <3>1. PICK f \in FrameSet : f = Head(left)
      BY <2>2 DEF Push, TypeOK
    <3>2. SocketWrite(f, f) /\ out' = out
      BY <1>4, <2>2, <3>1 DEF Push, Encoded
    <3>3. CASE backedUp'
      BY <3>3 DEF Unharmed
    <3>4. CASE ~backedUp'
      <4>1. wire' = Append(wire, [of |-> f, holds |-> f]) /\ UNCHANGED <<inFlight, sockBuf>>
        BY <1>4, <3>2, <3>4 DEF SocketWrite
      <4>2. PICK e \in Entry : e = [of |-> f, holds |-> f] /\ e.of = f /\ e.holds = f
        <5>1. [of |-> f, holds |-> f] \in Entry
          BY <3>1 DEF Entry
        <5> QED  BY <5>1
      <4>3. /\ Len(wire) \in Nat /\ DOMAIN wire = 1 .. Len(wire)
            /\ DOMAIN wire' = 1 .. Len(wire) + 1
            /\ \A i \in 1 .. Len(wire) : wire'[i] = wire[i]
            /\ wire'[Len(wire) + 1] = e
        BY <4>1, <4>2 DEF TypeOK
      <4>4. CASE f.size >= HighWater
        <5>1. Len(wire) + 1 \in DOMAIN wire' /\ wire'[Len(wire) + 1].of.size >= HighWater
          BY <4>2, <4>3, <4>4
        <5> QED  BY <5>1 DEF Unharmed
      <4>5. CASE ~(f.size >= HighWater)
        <5>1. Octets(inFlight) = 0 /\ Octets(sockBuf) = 0
          BY <1>4, NoOctets
        <5>2. 0 + 0 + f.size = f.size
          BY <3>1 DEF FrameSet
        <5>3. flowing'
          BY <3>2, <4>5, <5>1, <5>2 DEF SocketWrite
        <5>4. \A i \in DOMAIN wire' : i \in 1 .. Len(wire) \/ i = Len(wire) + 1
          BY <4>3
        <5>5. \A i \in DOMAIN wire' : wire'[i].holds = wire'[i].of
          BY <1>4, <4>2, <4>3, <5>4
        <5> QED  BY <1>4, <3>2, <4>1, <5>3, <5>5 DEF Unharmed
      <4> QED  BY <4>4, <4>5
    <3> QED  BY <3>3, <3>4
  <2> QED  BY <1>1, <2>1, <2>2 DEF Next, Micro, Forward, Take, Throw, Finish, Drain,
              SocketDrain, Write, Immediate, vars, channel, writer, pipe, socket
<1> QED  BY <1>2, <1>3, <1>4 DEF Unharmed

\* Until the kernel first leaves a write for later, what the wire gets of every frame is
\* what was encoded, if no frame is as long as the high water mark.
THEOREM BufferIntact == Spec => []IntactUntilBackedUp
<1>1. Init => Unharmed
  BY DEF Init, Unharmed
<1>2. TypeOK /\ Order /\ Unharmed /\ [Next]_vars => Unharmed'
  BY UnharmedStep
<1>3. Unharmed => IntactUntilBackedUp
  BY DEF Unharmed, IntactUntilBackedUp
<1> QED  BY <1>1, <1>2, <1>3, TypeCorrect, PTL DEF Spec
=============================================================================
