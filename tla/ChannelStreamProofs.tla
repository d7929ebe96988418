------------------------ MODULE ChannelStreamProofs ------------------------
(***************************************************************************)
(* The writable side of a channel for any number of messages and flows and *)
(* any highWaterMarks: what the connection gets is never out of order, and *)
(* the server's close is answered when the stream can still write.         *)
(*                                                                         *)
(* A message passes through four buffers on its way, and each hand-over    *)
(* takes a turn.  While the channel is open nothing is lost between them:  *)
(* the line from the connection back to the transform has every message    *)
(* once (Line, Numbered), and the transform has the rest (Rest).  When it  *)
(* closes, whatever waits is cut off, and the connection gets no publish   *)
(* any more.                                                               *)
(***************************************************************************)
EXTENDS ChannelStream, TLAPS, SequenceTheorems

Kinds == {"json", "direct", "close", "close_ok", "flow_ok"}
Commands == Kinds \X Nat

\* Every variable has its type.
TypeOK ==
  /\ written \in Nat /\ published \in Nat /\ flows \in Nat
  /\ jsonBuf \in Seq(Nat) /\ immediate \in Nat /\ out \in Seq(Nat)
  /\ piped \in BOOLEAN /\ flowing \in BOOLEAN
  /\ chanBuf \in Seq(Commands) /\ sent \in Seq(Commands)
  /\ blocked \in BOOLEAN /\ draining \in BOOLEAN
  /\ state \in {"open", "closing", "closed"}
  /\ closing \in {"no", "waits", "asked"}
  /\ serverClose \in {"none", "immediate", "done"}

\* The stream holds commands only while it is waiting for the connection or writing them.
Waits ==
  /\ ~blocked /\ ~draining => chanBuf = <<>>
  /\ draining => ~blocked /\ chanBuf # <<>>

\* What is before the connection: got by it, or behind what it got.
Line == sent \o chanBuf

\* A publish has its turn in q.
InOrder(q) == \A i \in 1 .. Len(q) : IsPublish(q[i]) => InTurn(q, i)

\* The publishes of a kind in q have the numbers up to n.
Numbered(q, kind, n) ==
  \A k \in Nat : (\E i \in 1 .. Len(q) : q[i] = <<kind, k>>) <=> k \in 1 .. n

\* The last message the transform has begun, and the last it has passed on.
Begun == written - Len(jsonBuf)
Ready == IF immediate = NoMessage THEN Begun ELSE Begun - 1
Passed == Ready - Len(out)

\* The transform has the messages that are not in the line, in order.
Rest ==
  /\ Passed \in Nat
  /\ \A i \in 1 .. Len(out) : out[i] = Passed + i
  /\ immediate # NoMessage => immediate = Begun
  /\ \A i \in 1 .. Len(jsonBuf) : jsonBuf[i] = Begun + i

\* While the channel is open the line is all that was published, and that is in order.
Complete ==
  state = "open" =>
    /\ \A i \in 1 .. Len(chanBuf) : chanBuf[i][1] # "close_ok"
    /\ InOrder(Line)
    /\ Numbered(Line, "json", Passed) /\ Numbered(Line, "direct", published)
    /\ Rest

\* The inductive invariant.
Inv == TypeOK /\ Waits /\ Complete /\ SentIsPrefix

-----------------------------------------------------------------------------
(***************************************************************************)
(* What is in order stays in order.                                        *)
(***************************************************************************)
\* A publish that has its turn at the end.
LEMMA AppendInOrder ==
  ASSUME NEW q \in Seq(Commands), NEW x \in Commands, NEW r, r = Append(q, x), InOrder(q),
         IsPublish(x) =>
           /\ \A j \in 1 .. Len(q) : q[j] # x
           /\ x[2] = 1 \/ \E j \in 1 .. Len(q) : q[j] = <<x[1], x[2] - 1>>
  PROVE  InOrder(r)
<1>1. /\ r \in Seq(Commands) /\ Len(r) = Len(q) + 1 /\ Len(q) \in Nat
      /\ \A j \in 1 .. Len(q) : r[j] = q[j]
      /\ r[Len(q) + 1] = x
  BY AppendProperties
<1> SUFFICES ASSUME NEW i \in 1 .. Len(r), IsPublish(r[i])
             PROVE  InTurn(r, i)
  BY DEF InOrder
<1>2. CASE i \in 1 .. Len(q)
  <2>1. IsPublish(q[i]) /\ InTurn(q, i)
    BY <1>1, <1>2 DEF InOrder
  <2>2. \A j \in 1 .. i - 1 : j \in 1 .. Len(q)
    BY <1>1, <1>2
  <2> QED BY <2>1, <2>2, <1>1, <1>2 DEF InTurn
<1>3. CASE i = Len(q) + 1
  <2>1. i - 1 = Len(q) /\ r[i] = x
    BY <1>1, <1>3
  <2> QED BY <2>1, <1>1 DEF InTurn
<1> QED BY <1>1, <1>2, <1>3

\* The next number of a kind extends that kind, and leaves the others alone.
LEMMA AppendNumbered ==
  ASSUME NEW q \in Seq(Commands), NEW x \in Commands, NEW r, r = Append(q, x),
         NEW kind, NEW n \in Nat, Numbered(q, kind, n)
  PROVE  /\ x = <<kind, n + 1>> => Numbered(r, kind, n + 1)
         /\ x[1] # kind => Numbered(r, kind, n)
<1>1. /\ Len(r) = Len(q) + 1 /\ Len(q) \in Nat
      /\ \A j \in 1 .. Len(q) : r[j] = q[j]
      /\ r[Len(q) + 1] = x
  BY AppendProperties
<1>2. \A y : (\E i \in 1 .. Len(r) : r[i] = y) <=> y = x \/ \E i \in 1 .. Len(q) : q[i] = y
  BY <1>1
<1>3. CASE x = <<kind, n + 1>>
  <2>1. \A k \in Nat : <<kind, k>> = x <=> k = n + 1
    BY <1>3
  <2>2. \A k \in Nat : k \in 1 .. n + 1 <=> k \in 1 .. n \/ k = n + 1
    OBVIOUS
  <2>3. x[1] = kind
    BY <1>3
  <2> QED BY <1>2, <2>1, <2>2, <2>3 DEF Numbered
<1>4. CASE x[1] # kind
  <2>1. \A k \in Nat : <<kind, k>> # x
    BY <1>4
  <2>2. x # <<kind, n + 1>>
    BY <1>4
  <2> QED BY <1>2, <2>1, <2>2 DEF Numbered
<1> QED BY <1>3, <1>4

\* The next publish of a kind is in order.
LEMMA NextInOrder ==
  ASSUME NEW q \in Seq(Commands), NEW kind \in {"json", "direct"}, NEW n \in Nat,
         NEW r, r = Append(q, <<kind, n + 1>>), InOrder(q), Numbered(q, kind, n)
  PROVE  InOrder(r)
<1> DEFINE x == <<kind, n + 1>>
<1>1. x = <<kind, n + 1>> /\ x \in Commands /\ x[1] = kind /\ x[2] = n + 1
  BY DEF Commands, Kinds
<1> HIDE DEF x
<1>2. \A j \in 1 .. Len(q) : q[j] # x
  <2>1. n + 1 \in Nat /\ n + 1 \notin 1 .. n
    OBVIOUS
  <2> QED BY <2>1, <1>1 DEF Numbered
<1>3. x[2] = 1 \/ \E j \in 1 .. Len(q) : q[j] = <<x[1], x[2] - 1>>
  <2>1. CASE n = 0
    BY <2>1, <1>1
  <2>2. CASE n # 0
    <3>1. n \in 1 .. n /\ n + 1 - 1 = n
      BY <2>2
    <3>2. \E j \in 1 .. Len(q) : q[j] = <<kind, n>>
      BY <3>1 DEF Numbered
    <3> QED BY <3>1, <3>2, <1>1
  <2> QED BY <2>1, <2>2
<1>4. r = Append(q, x)
  BY <1>1
<1> QED BY <1>1, <1>2, <1>3, <1>4, AppendInOrder

\* A command that is no publish changes nothing.
LEMMA OtherInOrder ==
  ASSUME NEW q \in Seq(Commands), NEW x \in Commands, NEW r, r = Append(q, x), InOrder(q),
         ~IsPublish(x)
  PROVE  InOrder(r)
BY AppendInOrder

\* What has been written so far is in order if all is.
LEMMA PrefixInOrder ==
  ASSUME NEW s \in Seq(Commands), NEW c \in Seq(Commands), InOrder(s \o c)
  PROVE  InOrder(s)
<1>1. /\ Len(s \o c) = Len(s) + Len(c) /\ Len(s) \in Nat /\ Len(c) \in Nat
      /\ \A i \in 1 .. Len(s) : (s \o c)[i] = s[i]
  BY ConcatProperties, LenProperties
<1> SUFFICES ASSUME NEW i \in 1 .. Len(s), IsPublish(s[i])
             PROVE  InTurn(s, i)
  BY DEF InOrder
<1>2. i \in 1 .. Len(s \o c) /\ (s \o c)[i] = s[i] /\ \A j \in 1 .. i - 1 : j \in 1 .. Len(s)
  BY <1>1
<1>3. InTurn(s \o c, i)
  BY <1>2 DEF InOrder
<1> QED BY <1>1, <1>2, <1>3 DEF InTurn

-----------------------------------------------------------------------------
(***************************************************************************)
(* What a write does, and a drain.                                         *)
(***************************************************************************)
\* The first element and the others.
LEMMA HeadTail ==
  ASSUME NEW S, NEW s \in Seq(S), s # <<>>
  PROVE  /\ Head(s) \in S /\ Tail(s) \in Seq(S) /\ Len(Tail(s)) = Len(s) - 1
         /\ Head(s) = s[1] /\ Len(s) \in Nat \ {0}
         /\ \A i \in 1 .. Len(s) - 1 : Tail(s)[i] = s[i + 1]
BY HeadTailProperties, LenProperties, EmptySeq

\* Writing to an open channel adds to the line.
LEMMA WriteToLine ==
  ASSUME TypeOK, Waits, state = "open", ~draining, UNCHANGED draining,
         \A i \in 1 .. Len(chanBuf) : chanBuf[i][1] # "close_ok",
         NEW x \in Commands, x[1] # "close_ok", WriteTo(x, state)
  PROVE  /\ chanBuf' \in Seq(Commands) /\ sent' \in Seq(Commands) /\ blocked' \in BOOLEAN
         /\ Waits'
         /\ \A i \in 1 .. Len(chanBuf') : chanBuf'[i][1] # "close_ok"
         /\ Line \in Seq(Commands) /\ Line' = Append(Line, x)
<1>0. sent \in Seq(Commands) /\ chanBuf \in Seq(Commands) /\ Line \in Seq(Commands)
  BY DEF TypeOK, Line
<1>1. CASE blocked /\ chanBuf' = Append(chanBuf, x) /\ UNCHANGED <<blocked, sent>>
  <2>1. /\ chanBuf' \in Seq(Commands) /\ Len(chanBuf') = Len(chanBuf) + 1 /\ Len(chanBuf) \in Nat
        /\ \A i \in 1 .. Len(chanBuf) : chanBuf'[i] = chanBuf[i]
        /\ chanBuf'[Len(chanBuf) + 1] = x
    BY <1>0, <1>1, AppendProperties
  <2>2. \A i \in 1 .. Len(chanBuf') : chanBuf'[i][1] # "close_ok"
    BY <2>1
  <2>3. sent \o Append(chanBuf, x) = Append(sent \o chanBuf, x)
    BY <1>0
  <2> QED BY <1>0, <1>1, <2>1, <2>2, <2>3 DEF Line, Waits, TypeOK
<1>2. CASE ~blocked /\ WriteOne(x, state) /\ UNCHANGED chanBuf
  <2>1. chanBuf = <<>> /\ chanBuf' = <<>>
    BY <1>2 DEF Waits
  <2>2. sent' = Append(sent, x) /\ blocked' \in BOOLEAN
    BY <1>2 DEF WriteOne, Allowed
  <2>3. Append(sent, x) \o <<>> = Append(sent \o <<>>, x)
    BY <1>0
  <2>4. Append(sent, x) \in Seq(Commands)
    BY <1>0
  <2> QED BY <1>0, <1>2, <2>1, <2>2, <2>3, <2>4 DEF Line, Waits, TypeOK
<1> QED BY <1>1, <1>2 DEF WriteTo

\* Writing to one that is closing or closed sends no publish.
LEMMA WriteOneClosing ==
  ASSUME TypeOK, SentIsPrefix, NEW x \in Commands, NEW st, st # "open", WriteOne(x, st)
  PROVE  sent' \in Seq(Commands) /\ blocked' \in BOOLEAN /\ InOrder(sent')
<1>0. sent \in Seq(Commands) /\ blocked \in BOOLEAN /\ InOrder(sent)
  BY DEF TypeOK, SentIsPrefix, InOrder
<1>1. CASE Allowed(x, st)
  <2>1. sent' = Append(sent, x) /\ blocked' \in BOOLEAN /\ ~IsPublish(x)
    BY <1>1 DEF WriteOne, Allowed
  <2>2. Append(sent, x) \in Seq(Commands)
    BY <1>0
  <2>3. \A r : r = Append(sent, x) => InOrder(r)
    BY <1>0, <2>1, OtherInOrder
  <2> QED BY <2>1, <2>2, <2>3
<1>2. CASE ~Allowed(x, st)
  <2>1. sent' = sent /\ blocked' = blocked
    BY <1>2 DEF WriteOne
  <2> QED BY <1>0, <2>1
<1> QED BY <1>1, <1>2

\* The same for what may have to wait.
LEMMA WriteToClosing ==
  ASSUME TypeOK, Waits, SentIsPrefix, ~draining, UNCHANGED draining,
         NEW x \in Commands, NEW st, st # "open", WriteTo(x, st)
  PROVE  /\ chanBuf' \in Seq(Commands) /\ sent' \in Seq(Commands) /\ blocked' \in BOOLEAN
         /\ Waits' /\ InOrder(sent')
<1>0. chanBuf \in Seq(Commands) /\ sent \in Seq(Commands) /\ blocked \in BOOLEAN /\ InOrder(sent)
  BY DEF TypeOK, SentIsPrefix, InOrder
<1>1. CASE UNCHANGED stream
  BY <1>0, <1>1 DEF stream, Waits
<1>2. CASE blocked /\ chanBuf' = Append(chanBuf, x) /\ UNCHANGED <<blocked, sent>>
  BY <1>0, <1>2 DEF Waits
<1>3. CASE ~blocked /\ WriteOne(x, st) /\ UNCHANGED chanBuf
  BY <1>0, <1>3, WriteOneClosing DEF Waits
<1> QED BY <1>1, <1>2, <1>3 DEF WriteTo

\* The stream writes what it has buffered.
LEMMA WriteNextKeeps ==
  ASSUME Inv, WriteNext
  PROVE  Inv'
<1>0. /\ chanBuf \in Seq(Commands) /\ sent \in Seq(Commands) /\ blocked \in BOOLEAN
      /\ ~blocked /\ chanBuf # <<>> /\ Line \in Seq(Commands)
  BY DEF Inv, TypeOK, Waits, WriteNext, Line
<1>1. /\ Head(chanBuf) \in Commands /\ Tail(chanBuf) \in Seq(Commands)
      /\ Len(Tail(chanBuf)) = Len(chanBuf) - 1 /\ Head(chanBuf) = chanBuf[1]
      /\ Len(chanBuf) \in Nat \ {0}
      /\ \A i \in 1 .. Len(chanBuf) - 1 : Tail(chanBuf)[i] = chanBuf[i + 1]
  BY <1>0, HeadTail
<1>2. /\ chanBuf' = Tail(chanBuf) /\ WriteOne(Head(chanBuf), state)
      /\ draining' = (~blocked' /\ chanBuf' # <<>>)
      /\ UNCHANGED <<written, json, piped, flowing, published, state, closing, flows, serverClose>>
  BY DEF WriteNext, Waiting
<1>3. CASE state = "open"
  <2>1. Head(chanBuf)[1] # "close_ok"
    BY <1>1, <1>3 DEF Inv, Complete
  <2>2. sent' = Append(sent, Head(chanBuf)) /\ blocked' \in BOOLEAN
    BY <1>2, <1>3, <2>1 DEF WriteOne, Allowed
  <2>3. Append(sent, Head(chanBuf)) \o Tail(chanBuf) = sent \o chanBuf
    BY <1>0, <1>1
  <2>4. Line' = Line /\ sent' \in Seq(Commands)
    BY <1>0, <1>1, <1>2, <2>2, <2>3 DEF Line
  <2>5. \A i \in 1 .. Len(chanBuf') : chanBuf'[i][1] # "close_ok"
    BY <1>1, <1>2, <1>3 DEF Inv, Complete
  <2>6. TypeOK' /\ Waits'
    BY <1>0, <1>1, <1>2, <2>2, <2>4 DEF Inv, TypeOK, Waits, json
  <2>7. Complete'
    BY <1>2, <1>3, <2>4, <2>5
       DEF Inv, Complete, InOrder, InTurn, Numbered, Rest, Passed, Ready, Begun, json
  <2>8. \A s, c : s \in Seq(Commands) /\ c \in Seq(Commands) /\ InOrder(s \o c) => InOrder(s)
    BY PrefixInOrder
  <2>9. sent' \o chanBuf' = Line /\ InOrder(Line) /\ chanBuf' \in Seq(Commands)
    BY <1>1, <1>2, <1>3, <2>4 DEF Inv, Complete, Line
  <2>10. InOrder(sent')
    BY <2>4, <2>8, <2>9
  <2>11. SentIsPrefix'
    BY <2>10 DEF SentIsPrefix, InOrder, InTurn
  <2> QED BY <2>6, <2>7, <2>11 DEF Inv
<1>4. CASE state # "open"
  <2>1. sent' \in Seq(Commands) /\ blocked' \in BOOLEAN /\ InOrder(sent')
    BY <1>1, <1>2, <1>4, WriteOneClosing DEF Inv
  <2>2. TypeOK' /\ Waits'
    BY <1>0, <1>1, <1>2, <2>1 DEF Inv, TypeOK, Waits, json
  <2>3. SentIsPrefix'
    BY <2>1 DEF SentIsPrefix, InOrder, InTurn
  <2> QED BY <1>2, <1>4, <2>2, <2>3 DEF Inv, Complete
<1> QED BY <1>3, <1>4

-----------------------------------------------------------------------------
(***************************************************************************)
(* Each action keeps the invariant.                                        *)
(***************************************************************************)
\* What a command does to a line that is complete.
LEMMA LineGrows ==
  ASSUME NEW q \in Seq(Commands), InOrder(q), NEW m \in Nat, NEW d \in Nat,
         Numbered(q, "json", m), Numbered(q, "direct", d),
         NEW x \in Commands, NEW r, r = Append(q, x)
  PROVE  /\ ~IsPublish(x) =>
              InOrder(r) /\ Numbered(r, "json", m) /\ Numbered(r, "direct", d)
         /\ x = <<"json", m + 1>> =>
              InOrder(r) /\ Numbered(r, "json", m + 1) /\ Numbered(r, "direct", d)
         /\ x = <<"direct", d + 1>> =>
              InOrder(r) /\ Numbered(r, "json", m) /\ Numbered(r, "direct", d + 1)
<1>1. ASSUME ~IsPublish(x)
      PROVE  InOrder(r) /\ Numbered(r, "json", m) /\ Numbered(r, "direct", d)
  <2>1. x[1] # "json" /\ x[1] # "direct"
    BY <1>1 DEF IsPublish
  <2>2. InOrder(r)
    BY <1>1, OtherInOrder
  <2> QED BY <2>1, <2>2, AppendNumbered
<1>2. ASSUME x = <<"json", m + 1>>
      PROVE  InOrder(r) /\ Numbered(r, "json", m + 1) /\ Numbered(r, "direct", d)
  <2>1. x[1] # "direct" /\ r = Append(q, <<"json", m + 1>>)
    BY <1>2
  <2>2. InOrder(r)
    BY <2>1, NextInOrder
  <2> QED BY <1>2, <2>1, <2>2, AppendNumbered
<1>3. ASSUME x = <<"direct", d + 1>>
      PROVE  InOrder(r) /\ Numbered(r, "json", m) /\ Numbered(r, "direct", d + 1)
  <2>1. x[1] # "json" /\ r = Append(q, <<"direct", d + 1>>)
    BY <1>3
  <2>2. InOrder(r)
    BY <2>1, NextInOrder
  <2> QED BY <1>3, <2>1, <2>2, AppendNumbered
<1> QED BY <1>1, <1>2, <1>3

\* What a write to the open channel does to the line.
LEMMA WriteToOpen ==
  ASSUME Inv, state = "open", ~draining, UNCHANGED draining,
         NEW x \in Commands, x[1] # "close_ok", WriteTo(x, state),
         ~IsPublish(x) \/ x = <<"json", Passed + 1>> \/ x = <<"direct", published + 1>>
  PROVE  /\ chanBuf' \in Seq(Commands) /\ sent' \in Seq(Commands) /\ blocked' \in BOOLEAN
         /\ Waits' /\ SentIsPrefix'
         /\ \A i \in 1 .. Len(chanBuf') : chanBuf'[i][1] # "close_ok"
         /\ InOrder(Line')
         /\ Numbered(Line', "json", IF x = <<"json", Passed + 1>> THEN Passed + 1 ELSE Passed)
         /\ Numbered(Line', "direct",
              IF x = <<"direct", published + 1>> THEN published + 1 ELSE published)
<1>0. /\ TypeOK /\ Waits /\ InOrder(Line) /\ Passed \in Nat /\ published \in Nat
      /\ Numbered(Line, "json", Passed) /\ Numbered(Line, "direct", published)
      /\ \A i \in 1 .. Len(chanBuf) : chanBuf[i][1] # "close_ok"
  BY DEF Inv, Complete, Rest, TypeOK
<1>1. /\ chanBuf' \in Seq(Commands) /\ sent' \in Seq(Commands) /\ blocked' \in BOOLEAN
      /\ Waits'
      /\ \A i \in 1 .. Len(chanBuf') : chanBuf'[i][1] # "close_ok"
      /\ Line \in Seq(Commands) /\ Line' = Append(Line, x)
  BY <1>0, WriteToLine
<1>2. \A q, r, m, d : q \in Seq(Commands) /\ InOrder(q) /\ m \in Nat /\ d \in Nat
          /\ Numbered(q, "json", m) /\ Numbered(q, "direct", d) /\ r = Append(q, x) =>
        /\ ~IsPublish(x) =>
             InOrder(r) /\ Numbered(r, "json", m) /\ Numbered(r, "direct", d)
        /\ x = <<"json", m + 1>> =>
             InOrder(r) /\ Numbered(r, "json", m + 1) /\ Numbered(r, "direct", d)
        /\ x = <<"direct", d + 1>> =>
             InOrder(r) /\ Numbered(r, "json", m) /\ Numbered(r, "direct", d + 1)
  BY LineGrows
<1>3. /\ ~IsPublish(x) =>
           InOrder(Line') /\ Numbered(Line', "json", Passed) /\ Numbered(Line', "direct", published)
      /\ x = <<"json", Passed + 1>> =>
           InOrder(Line') /\ Numbered(Line', "json", Passed + 1)
             /\ Numbered(Line', "direct", published)
      /\ x = <<"direct", published + 1>> =>
           InOrder(Line') /\ Numbered(Line', "json", Passed)
             /\ Numbered(Line', "direct", published + 1)
  BY <1>0, <1>1, <1>2
<1>4. /\ x = <<"json", Passed + 1>> => x # <<"direct", published + 1>> /\ IsPublish(x)
      /\ x = <<"direct", published + 1>> => x # <<"json", Passed + 1>> /\ IsPublish(x)
  BY DEF IsPublish
<1>5. \A s, c : s \in Seq(Commands) /\ c \in Seq(Commands) /\ InOrder(s \o c) => InOrder(s)
  BY PrefixInOrder
<1>6. Line' = sent' \o chanBuf' /\ InOrder(Line')
  BY <1>3 DEF Line
<1>7. InOrder(sent')
  BY <1>1, <1>5, <1>6
<1>8. SentIsPrefix'
  BY <1>7 DEF SentIsPrefix, InOrder, InTurn
<1> QED BY <1>1, <1>3, <1>4, <1>6, <1>8

\* Numbers that follow one another still do with the next one.
LEMMA AppendNext ==
  ASSUME NEW s \in Seq(Nat), NEW b \in Int, \A i \in 1 .. Len(s) : s[i] = b + i,
         NEW x \in Nat, x = b + (Len(s) + 1), NEW r, r = Append(s, x)
  PROVE  \A i \in 1 .. Len(r) : r[i] = b + i
<1>1. /\ Len(r) = Len(s) + 1 /\ Len(s) \in Nat /\ r[Len(s) + 1] = x
      /\ \A i \in 1 .. Len(s) : r[i] = s[i]
  BY AppendProperties
<1> SUFFICES ASSUME NEW i \in 1 .. Len(r)
             PROVE  r[i] = b + i
  OBVIOUS
<1>2. CASE i \in 1 .. Len(s)
  BY <1>1, <1>2
<1>3. CASE i = Len(s) + 1
  BY <1>1, <1>3
<1> QED BY <1>1, <1>2, <1>3

\* The transform's side: ch.json.write(), _transform and its immediate leave the line alone.
LEMMA TransformKeeps ==
  ASSUME Inv, ~draining, UNCHANGED draining, Write \/ Transform \/ Immediate
  PROVE  Inv'
<1>0. /\ TypeOK /\ jsonBuf \in Seq(Nat) /\ out \in Seq(Nat) /\ written \in Nat /\ immediate \in Nat
      /\ UNCHANGED <<piped, flowing, published, stream, state, closing, flows, serverClose>>
      /\ Len(jsonBuf) \in Nat /\ Len(out) \in Nat
  BY DEF Inv, TypeOK, Write, Transform, Immediate
<1>a. /\ Begun \in Int /\ Ready \in Int /\ Passed \in Int
      /\ Begun = written - Len(jsonBuf) /\ Passed = Ready - Len(out)
      /\ Ready = IF immediate = 0 THEN Begun ELSE Begun - 1
  BY <1>0 DEF Begun, Ready, Passed, NoMessage
<1>b. /\ Begun' = written' - Len(jsonBuf') /\ Passed' = Ready' - Len(out')
      /\ Ready' = IF immediate' = 0 THEN Begun' ELSE Begun' - 1
  BY DEF Begun, Ready, Passed, NoMessage
<1>1. Waits' /\ SentIsPrefix'
  BY <1>0 DEF Inv, Waits, SentIsPrefix, InTurn, stream
<1>2. ASSUME TypeOK', state = "open" => Rest' /\ Passed' = Passed
      PROVE  Inv'
  <2>1. Complete'
    BY <1>0, <1>2 DEF Inv, Complete, Line, InOrder, InTurn, Numbered, stream
  <2> QED BY <1>1, <1>2, <2>1 DEF Inv
<1>3. CASE Write
  <2>0. /\ written' = written + 1 /\ UNCHANGED <<immediate, out>>
        /\ jsonBuf' = IF state = "open" THEN Append(jsonBuf, written + 1) ELSE jsonBuf
    BY <1>3 DEF Write
  <2>1. TypeOK'
    BY <1>0, <2>0 DEF TypeOK, stream
  <2>2. CASE state = "open"
    <3>1. /\ Len(jsonBuf') = Len(jsonBuf) + 1 /\ jsonBuf'[Len(jsonBuf) + 1] = written + 1
          /\ \A i \in 1 .. Len(jsonBuf) : jsonBuf'[i] = jsonBuf[i]
      BY <1>0, <2>0, <2>2, AppendProperties
    <3>2. Begun' = Begun /\ written + 1 = Begun + (Len(jsonBuf) + 1)
      BY <1>0, <1>a, <1>b, <2>0, <3>1
    <3>3. Ready' = Ready /\ Passed' = Passed
      BY <1>a, <1>b, <2>0, <3>2
    <3>4. \A i \in 1 .. Len(jsonBuf) : jsonBuf[i] = Begun + i
      BY <2>2 DEF Inv, Complete, Rest
    <3>5. jsonBuf' = Append(jsonBuf, written + 1) /\ written + 1 \in Nat
      BY <1>0, <2>0, <2>2
    <3>6. \A i \in 1 .. Len(jsonBuf') : jsonBuf'[i] = Begun' + i
      BY <1>0, <1>a, <3>2, <3>4, <3>5, AppendNext
    <3> QED BY <1>2, <2>0, <2>1, <2>2, <3>2, <3>3, <3>6 DEF Inv, Complete, Rest
  <2> QED BY <1>2, <2>1, <2>2
<1>4. CASE Transform
  <2>0. /\ state = "open" /\ immediate = 0 /\ jsonBuf # <<>> /\ immediate' = Head(jsonBuf)
        /\ jsonBuf' = Tail(jsonBuf) /\ UNCHANGED <<written, out>>
    BY <1>4 DEF Transform, NoMessage
  <2>1. /\ Head(jsonBuf) \in Nat /\ Tail(jsonBuf) \in Seq(Nat)
        /\ Len(jsonBuf') = Len(jsonBuf) - 1
        /\ Head(jsonBuf) = jsonBuf[1] /\ Len(jsonBuf) \in Nat \ {0}
        /\ \A i \in 1 .. Len(jsonBuf) - 1 : Tail(jsonBuf)[i] = jsonBuf[i + 1]
    BY <1>0, <2>0, HeadTail
  <2>2. TypeOK'
    BY <1>0, <2>0, <2>1 DEF TypeOK, stream
  <2>3. Rest /\ Passed \in Nat /\ Begun = Passed + Len(out)
    BY <1>0, <2>0 DEF Inv, Complete, Rest, Passed, Ready, NoMessage, Begun
  <2>4. Begun' = Begun + 1
    BY <1>0, <1>a, <1>b, <2>0, <2>1
  <2>5. immediate' = Begun'
    <3>1. 1 \in 1 .. Len(jsonBuf)
      BY <2>1
    <3>2. jsonBuf[1] = Begun + 1
      BY <2>3, <3>1 DEF Rest
    <3> QED BY <2>0, <2>1, <2>4, <3>2
  <2>6. Ready' = Begun /\ Passed' = Passed
    BY <1>0, <1>a, <1>b, <2>0, <2>3, <2>4, <2>5
  <2>7. \A i \in 1 .. Len(jsonBuf') : jsonBuf'[i] = Begun' + i
    <3> SUFFICES ASSUME NEW i \in 1 .. Len(jsonBuf) - 1
                 PROVE  Tail(jsonBuf)[i] = Begun + 1 + i
      BY <2>0, <2>1, <2>4
    <3>1. i + 1 \in 1 .. Len(jsonBuf) /\ Tail(jsonBuf)[i] = jsonBuf[i + 1]
      BY <2>1
    <3>2. jsonBuf[i + 1] = Begun + (i + 1)
      BY <2>3, <3>1 DEF Rest
    <3> QED BY <1>a, <3>1, <3>2
  <2>8. Rest'
    BY <2>0, <2>3, <2>5, <2>6, <2>7 DEF Rest
  <2> QED BY <1>2, <2>2, <2>6, <2>8
<1>5. CASE Immediate
  <2>0. /\ immediate # NoMessage /\ immediate' = NoMessage /\ UNCHANGED <<written, jsonBuf>>
        /\ out' = IF state = "open" THEN Append(out, immediate) ELSE out
    BY <1>5 DEF Immediate
  <2>1. TypeOK'
    BY <1>0, <2>0 DEF TypeOK, stream, NoMessage
  <2>2. CASE state = "open"
    <3>1. /\ Len(out') = Len(out) + 1 /\ out'[Len(out) + 1] = immediate
          /\ \A i \in 1 .. Len(out) : out'[i] = out[i]
      BY <1>0, <2>0, <2>2, AppendProperties
    <3>2. Rest /\ Passed \in Nat /\ immediate = Begun /\ Begun = Passed + (Len(out) + 1)
      BY <1>0, <2>0, <2>2 DEF Inv, Complete, Rest, Passed, Ready, Begun
    <3>3. Begun' = Begun /\ Ready' = Begun /\ Passed' = Passed
      BY <1>0, <2>0, <3>1, <3>2 DEF Begun, Ready, Passed
    <3>4. \A i \in 1 .. Len(out') : out'[i] = Passed + i
      <4>1. \A i \in 1 .. Len(out) : out[i] = Passed + i
        BY <3>2 DEF Rest
      <4>2. immediate = Passed + (Len(out) + 1) /\ out' = Append(out, immediate)
        BY <2>0, <2>2, <3>2
      <4> QED BY <1>0, <1>a, <4>1, <4>2, AppendNext
    <3>5. Rest'
      BY <2>0, <3>2, <3>3, <3>4 DEF Rest
    <3> QED BY <1>2, <2>1, <3>3, <3>5
  <2> QED BY <1>2, <2>1, <2>2
<1> QED BY <1>3, <1>4, <1>5

\* The pipe, which passes the next message on.
LEMMA FlowKeeps ==
  ASSUME Inv, ~draining, UNCHANGED draining, Flow
  PROVE  Inv'
<1> DEFINE x == <<"json", Head(out)>>
<1>0. /\ TypeOK /\ Waits /\ SentIsPrefix /\ out \in Seq(Nat) /\ out # <<>> /\ out' = Tail(out)
      /\ flowing' \in BOOLEAN /\ WriteTo(x, state)
      /\ UNCHANGED <<written, jsonBuf, immediate, piped, published, state, closing, flows, serverClose>>
  BY DEF Inv, TypeOK, Flow
<1>1. /\ Head(out) \in Nat /\ Tail(out) \in Seq(Nat) /\ Len(Tail(out)) = Len(out) - 1
      /\ Head(out) = out[1] /\ Len(out) \in Nat \ {0}
      /\ \A i \in 1 .. Len(out) - 1 : Tail(out)[i] = out[i + 1]
  BY <1>0, HeadTail
<1>2. x \in Commands /\ x[1] = "json"
  BY <1>1 DEF Commands, Kinds
<1>3. ASSUME chanBuf' \in Seq(Commands), sent' \in Seq(Commands), blocked' \in BOOLEAN
      PROVE  TypeOK'
  BY <1>0, <1>1, <1>3 DEF TypeOK
<1>4. CASE state = "open"
  <2>1. Rest /\ Passed \in Nat /\ Passed = Ready - Len(out) /\ Ready \in Int
    BY <1>0, <1>1, <1>4 DEF Inv, Complete, Rest, Passed, Ready, Begun, TypeOK
  <2>2. Head(out) = Passed + 1
    <3>1. 1 \in 1 .. Len(out)
      BY <1>1
    <3> QED BY <1>1, <2>1, <3>1 DEF Rest
  <2>3. x = <<"json", Passed + 1>> /\ x # <<"direct", published + 1>>
    BY <2>2
  <2> HIDE DEF x
  <2>4. /\ chanBuf' \in Seq(Commands) /\ sent' \in Seq(Commands) /\ blocked' \in BOOLEAN
        /\ Waits' /\ SentIsPrefix'
        /\ \A i \in 1 .. Len(chanBuf') : chanBuf'[i][1] # "close_ok"
        /\ InOrder(Line')
        /\ Numbered(Line', "json", IF x = <<"json", Passed + 1>> THEN Passed + 1 ELSE Passed)
        /\ Numbered(Line', "direct",
             IF x = <<"direct", published + 1>> THEN published + 1 ELSE published)
    BY <1>0, <1>2, <1>4, <2>3, WriteToOpen
  <2>5. Numbered(Line', "json", Passed + 1) /\ Numbered(Line', "direct", published)
    BY <2>3, <2>4
  <2>6. Begun' = Begun /\ Ready' = Ready /\ Passed' = Passed + 1
    BY <1>0, <1>1, <2>1 DEF Begun, Ready, Passed
  <2>7. \A i \in 1 .. Len(out') : out'[i] = Passed + 1 + i
    BY <1>0, <1>1, <2>1 DEF Rest
  <2>8. Rest'
    BY <1>0, <2>1, <2>6, <2>7 DEF Rest
  <2>9. Complete'
    BY <1>0, <2>4, <2>5, <2>6, <2>8 DEF Complete, InOrder, InTurn, Numbered
  <2> QED BY <1>3, <2>4, <2>9 DEF Inv
<1>5. CASE state # "open"
  <2> HIDE DEF x
  <2>1. /\ chanBuf' \in Seq(Commands) /\ sent' \in Seq(Commands) /\ blocked' \in BOOLEAN
        /\ Waits' /\ InOrder(sent')
    BY <1>0, <1>2, <1>5, WriteToClosing
  <2>2. SentIsPrefix'
    BY <2>1 DEF SentIsPrefix, InOrder, InTurn
  <2> QED BY <1>0, <1>3, <1>5, <2>1, <2>2 DEF Inv, Complete
<1> QED BY <1>4, <1>5

\* The other writes: of basicPublish(), of close() and of onFlow.
LEMMA WriteKeeps ==
  ASSUME Inv, ~draining, UNCHANGED <<draining, json, written, piped, state>>,
         NEW x \in Commands, WriteTo(x, state),
         \/ x = <<"direct", published + 1>> /\ published' = published + 1
         \/ ~IsPublish(x) /\ x[1] # "close_ok" /\ published' = published,
         flowing' = flowing, flows' \in Nat, closing' \in {"no", "waits", "asked"},
         serverClose' = serverClose
  PROVE  Inv'
<1>0. /\ TypeOK /\ Waits /\ SentIsPrefix /\ x[1] # "close_ok"
      /\ UNCHANGED <<jsonBuf, immediate, out, written>>
      /\ published' \in Nat /\ published \in Nat
  BY DEF Inv, TypeOK, json
<1>1. ASSUME chanBuf' \in Seq(Commands), sent' \in Seq(Commands), blocked' \in BOOLEAN
      PROVE  TypeOK'
  BY <1>0, <1>1 DEF TypeOK
<1>2. CASE state = "open"
  <2>1. /\ chanBuf' \in Seq(Commands) /\ sent' \in Seq(Commands) /\ blocked' \in BOOLEAN
        /\ Waits' /\ SentIsPrefix'
        /\ \A i \in 1 .. Len(chanBuf') : chanBuf'[i][1] # "close_ok"
        /\ InOrder(Line')
        /\ Numbered(Line', "json", IF x = <<"json", Passed + 1>> THEN Passed + 1 ELSE Passed)
        /\ Numbered(Line', "direct",
             IF x = <<"direct", published + 1>> THEN published + 1 ELSE published)
    BY <1>0, <1>2, WriteToOpen
  <2>2. /\ x # <<"json", Passed + 1>>
        /\ x = <<"direct", published + 1>> <=> published' = published + 1
        /\ x # <<"direct", published + 1>> => published' = published
    BY <1>0 DEF IsPublish
  <2>3. Numbered(Line', "json", Passed) /\ Numbered(Line', "direct", published')
    BY <2>1, <2>2
  <2>4. Rest' /\ Passed' = Passed
    BY <1>0, <1>2 DEF Inv, Complete, Rest, Passed, Ready, Begun
  <2>5. Complete'
    BY <1>0, <1>2, <2>1, <2>3, <2>4 DEF Complete, InOrder, InTurn, Numbered
  <2> QED BY <1>1, <2>1, <2>5 DEF Inv
<1>3. CASE state # "open"
  <2>1. /\ chanBuf' \in Seq(Commands) /\ sent' \in Seq(Commands) /\ blocked' \in BOOLEAN
        /\ Waits' /\ InOrder(sent')
    BY <1>0, <1>3, WriteToClosing
  <2>2. SentIsPrefix'
    BY <2>1 DEF SentIsPrefix, InOrder, InTurn
  <2> QED BY <1>1, <1>3, <2>1, <2>2 DEF Inv, Complete
<1> QED BY <1>2, <1>3

\* The other turns of an open channel, which write nothing.
LEMMA QuietKeeps ==
  ASSUME Inv, UNCHANGED draining, Resume \/ RecvClose
  PROVE  Inv'
<1>1. /\ UNCHANGED <<written, jsonBuf, immediate, out, piped, published, chanBuf, blocked, sent,
                     state, closing, flows, draining>>
      /\ flowing' \in BOOLEAN /\ serverClose' \in {"none", "immediate", "done"}
  BY DEF Inv, TypeOK, Resume, RecvClose, Resumed, json, stream
<1>2. TypeOK'
  BY <1>1 DEF Inv, TypeOK
<1>3. Waits' /\ SentIsPrefix'
  <2>1. Waits'
    BY <1>1 DEF Inv, Waits
  <2>2. sent' = sent
    BY <1>1
  <2> QED BY <2>1, <2>2 DEF Inv, SentIsPrefix, InTurn
<1>4. Complete'
  BY <1>1 DEF Inv, Complete, Line, InOrder, InTurn, Numbered, Rest, Passed, Ready, Begun
<1> QED BY <1>2, <1>3, <1>4 DEF Inv

\* The connection's 'drain'.
LEMMA DrainKeeps ==
  ASSUME Inv, ~draining, Drain
  PROVE  Inv'
<1>1. /\ UNCHANGED <<written, jsonBuf, immediate, out, piped, flowing, published, chanBuf, sent,
                     state, closing, flows, serverClose>>
      /\ blocked' = FALSE /\ draining' = (chanBuf # <<>>)
  BY DEF Drain, json
<1>2. TypeOK' /\ Waits' /\ SentIsPrefix'
  BY <1>1 DEF Inv, TypeOK, Waits, SentIsPrefix, InTurn
<1>3. Complete'
  BY <1>1 DEF Inv, Complete, Line, InOrder, InTurn, Numbered, Rest, Passed, Ready, Begun
<1> QED BY <1>2, <1>3 DEF Inv

\* The closes.
LEMMA ClosingKeeps ==
  ASSUME Inv, ~draining, UNCHANGED draining, Close \/ OnCloseOk \/ OnClose
  PROVE  Inv'
<1>0. /\ TypeOK /\ Waits /\ SentIsPrefix /\ chanBuf \in Seq(Commands) /\ sent \in Seq(Commands)
      /\ blocked \in BOOLEAN
  BY DEF Inv, TypeOK
<1>1. ASSUME sent' \in Seq(Commands), chanBuf' \in Seq(Commands), blocked' \in BOOLEAN,
             Waits', InOrder(sent')
      PROVE  Inv'
  <2>1. /\ jsonBuf' \in Seq(Nat) /\ out' \in Seq(Nat) /\ immediate' = immediate
        /\ UNCHANGED <<written, flowing, published, flows>> /\ piped' \in BOOLEAN
        /\ state' \in {"closing", "closed"} /\ closing' \in {"no", "waits", "asked"}
        /\ serverClose' \in {"none", "immediate", "done"}
    <3>1. <<>> \in Seq(Nat)
      OBVIOUS
    <3>2. CASE Close
      BY <1>0, <3>1, <3>2 DEF Close, TransitionToClosing, TypeOK
    <3>3. CASE OnCloseOk
      BY <1>0, <3>1, <3>3 DEF OnCloseOk, TypeOK, json
    <3>4. CASE OnClose
      BY <1>0, <3>1, <3>4 DEF OnClose, TransitionToClosing, TypeOK
    <3> QED BY <3>2, <3>3, <3>4
  <2>2. TypeOK'
    BY <1>0, <1>1, <2>1 DEF TypeOK
  <2>3. SentIsPrefix'
    BY <1>1 DEF SentIsPrefix, InOrder, InTurn
  <2> QED BY <1>1, <2>1, <2>2, <2>3 DEF Inv, Complete
<1>2. InOrder(sent) /\ <<>> \in Seq(Commands)
  BY <1>0 DEF SentIsPrefix, InOrder
<1>3. CASE Close
  BY <1>0, <1>1, <1>2, <1>3 DEF Close, stream, Waits
<1>4. CASE OnCloseOk
  BY <1>0, <1>1, <1>2, <1>4 DEF OnCloseOk, Waits
<1>5. CASE OnClose
  <2>1. CASE blocked
    <3>1. chanBuf' = <<>> /\ UNCHANGED <<blocked, sent>>
      BY <1>5, <2>1 DEF OnClose, AnswerAndDestroy
    <3> QED BY <1>0, <1>1, <1>2, <3>1 DEF Waits
  <2>2. CASE ~blocked
    <3>1. WriteTo(<<"close_ok", 0>>, "closing")
      BY <1>5, <2>2 DEF OnClose, AnswerAndDestroy
    <3>2. <<"close_ok", 0>> \in Commands /\ "closing" # "open"
      BY DEF Commands, Kinds
    <3>3. /\ chanBuf' \in Seq(Commands) /\ sent' \in Seq(Commands) /\ blocked' \in BOOLEAN
          /\ Waits' /\ InOrder(sent')
      BY <1>0, <3>1, <3>2, WriteToClosing
    <3> QED BY <1>1, <3>3
  <2> QED BY <2>1, <2>2
<1> QED BY <1>3, <1>4, <1>5

-----------------------------------------------------------------------------
(***************************************************************************)
(* The theorems.                                                           *)
(***************************************************************************)
\* The invariant holds at the start, and every step keeps it.
LEMMA InvInit == Init => Inv
<1> SUFFICES ASSUME Init
             PROVE  Inv
  OBVIOUS
<1>0. Len(<<>>) = 0 /\ <<>> \in Seq(Commands) /\ <<>> \in Seq(Nat) /\ 1 .. 0 = {}
  OBVIOUS
<1>1. <<>> \o <<>> = <<>>
  OBVIOUS
<1>2. /\ chanBuf = <<>> /\ sent = <<>> /\ jsonBuf = <<>> /\ out = <<>>
      /\ written = 0 /\ published = 0 /\ immediate = 0
  BY DEF Init, NoMessage
<1>3. TypeOK
  <2>1. chanBuf \in Seq(Commands) /\ sent \in Seq(Commands)
    BY <1>0, <1>2
  <2>2. jsonBuf \in Seq(Nat) /\ out \in Seq(Nat)
    BY <1>0, <1>2
  <2>3. /\ written \in Nat /\ published \in Nat /\ flows \in Nat /\ immediate \in Nat
        /\ piped \in BOOLEAN /\ flowing \in BOOLEAN /\ blocked \in BOOLEAN /\ draining \in BOOLEAN
    BY DEF Init, NoMessage
  <2>4. /\ state \in {"open", "closing", "closed"} /\ closing \in {"no", "waits", "asked"}
        /\ serverClose \in {"none", "immediate", "done"}
    BY DEF Init
  <2> QED BY <2>1, <2>2, <2>3, <2>4 DEF TypeOK
<1>4. Waits /\ SentIsPrefix
  <2>1. Waits
    BY DEF Init, Waits
  <2>2. 1 .. Len(sent) = {}
    BY <1>0, <1>2
  <2> QED BY <2>1, <2>2 DEF SentIsPrefix
<1>5. Begun = 0 /\ Ready = 0 /\ Passed = 0
  <2>1. Len(jsonBuf) = 0 /\ Len(out) = 0
    BY <1>0, <1>2
  <2>2. written = 0 /\ immediate = 0
    BY <1>2
  <2> QED BY <2>1, <2>2 DEF Begun, Ready, Passed, NoMessage
<1>6. Rest
  <2>1. 1 .. Len(out) = {} /\ 1 .. Len(jsonBuf) = {}
    BY <1>0, <1>2
  <2> QED BY <1>2, <1>5, <2>1 DEF Rest, NoMessage
<1>7. InOrder(Line) /\ Numbered(Line, "json", 0) /\ Numbered(Line, "direct", 0)
  <2>1. Line = <<>> /\ 1 .. Len(Line) = {}
    BY <1>0, <1>1, <1>2 DEF Line
  <2> QED BY <1>0, <2>1 DEF InOrder, Numbered
<1>8. Complete
  <2>1. 1 .. Len(chanBuf) = {}
    BY <1>0, <1>2
  <2> QED BY <1>2, <1>5, <1>6, <1>7, <2>1 DEF Complete
<1> QED BY <1>3, <1>4, <1>8 DEF Inv

LEMMA InvStep == Inv /\ [Next]_vars => Inv'
<1> SUFFICES ASSUME Inv, [Next]_vars
             PROVE  Inv'
  OBVIOUS
<1>1. CASE WriteNext
  BY <1>1, WriteNextKeeps
<1>2. CASE ~draining /\ Drain
  BY <1>2, DrainKeeps
<1> DEFINE Turns == ~draining /\ UNCHANGED draining
<1>3. CASE Turns /\ (Write \/ Transform \/ Immediate)
  BY <1>3, TransformKeeps
<1>4. CASE Turns /\ Flow
  BY <1>4, FlowKeeps
<1>5. CASE Turns /\ (Resume \/ RecvClose)
  BY <1>5, QuietKeeps
<1>6. CASE Turns /\ Publish
  <2>1. <<"direct", published + 1>> \in Commands
    BY DEF Inv, TypeOK, Commands, Kinds
  <2>2. flows' \in Nat /\ closing' \in {"no", "waits", "asked"}
    BY <1>6 DEF Publish, Inv, TypeOK
  <2>3. /\ UNCHANGED <<draining, json, written, piped, state, flowing, serverClose>> /\ ~draining
        /\ published' = published + 1 /\ WriteTo(<<"direct", published + 1>>, state)
    BY <1>6 DEF Publish
  <2> QED BY <2>1, <2>2, <2>3, WriteKeeps
<1>7. CASE Turns /\ WriteClose
  <2>1. <<"close", 0>> \in Commands /\ ~IsPublish(<<"close", 0>>) /\ <<"close", 0>>[1] # "close_ok"
    BY DEF Commands, Kinds, IsPublish
  <2>2. flows' \in Nat /\ closing' \in {"no", "waits", "asked"}
    BY <1>7 DEF WriteClose, Inv, TypeOK
  <2>3. /\ UNCHANGED <<draining, json, written, piped, state, flowing, serverClose>> /\ ~draining
        /\ published' = published /\ WriteTo(<<"close", 0>>, state)
    BY <1>7 DEF WriteClose
  <2> QED BY <2>1, <2>2, <2>3, WriteKeeps
<1>8. CASE Turns /\ RecvFlow
  <2>1. /\ <<"flow_ok", 0>> \in Commands /\ ~IsPublish(<<"flow_ok", 0>>)
        /\ <<"flow_ok", 0>>[1] # "close_ok"
    BY DEF Commands, Kinds, IsPublish
  <2>2. flows' \in Nat /\ closing' \in {"no", "waits", "asked"}
    BY <1>8 DEF RecvFlow, Inv, TypeOK
  <2>3. /\ UNCHANGED <<draining, json, written, piped, state, flowing, serverClose>> /\ ~draining
        /\ published' = published
    BY <1>8 DEF RecvFlow
  <2>4. CASE WriteTo(<<"flow_ok", 0>>, state)
    BY <2>1, <2>2, <2>3, <2>4, WriteKeeps
  <2>5. CASE UNCHANGED stream
    <3>1. /\ UNCHANGED <<written, jsonBuf, immediate, out, piped, flowing, published, chanBuf,
                         blocked, sent, state, closing, draining, serverClose>>
          /\ flows' \in Nat
      BY <1>8, <2>2, <2>3, <2>5 DEF RecvFlow, json, stream
    <3>2. TypeOK' /\ Waits' /\ SentIsPrefix'
      BY <3>1 DEF Inv, TypeOK, Waits, SentIsPrefix, InTurn
    <3>3. Complete'
      BY <3>1 DEF Inv, Complete, Line, InOrder, InTurn, Numbered, Rest, Passed, Ready, Begun
    <3> QED BY <3>2, <3>3 DEF Inv
  <2> QED BY <1>8, <2>4, <2>5 DEF RecvFlow
<1>9. CASE Turns /\ (Close \/ OnCloseOk \/ OnClose)
  BY <1>9, ClosingKeeps
<1>10. CASE UNCHANGED vars
  <2>1. UNCHANGED <<written, jsonBuf, immediate, out, piped, flowing, published, chanBuf,
                    blocked, sent, state, closing, draining, flows, serverClose>>
    BY <1>10 DEF vars, json, stream
  <2>2. TypeOK' /\ Waits' /\ SentIsPrefix'
    BY <2>1 DEF Inv, TypeOK, Waits, SentIsPrefix, InTurn
  <2>3. Complete'
    BY <2>1 DEF Inv, Complete, Line, InOrder, InTurn, Numbered, Rest, Passed, Ready, Begun
  <2> QED BY <2>2, <2>3 DEF Inv
<1> QED BY <1>1, <1>2, <1>3, <1>4, <1>5, <1>6, <1>7, <1>8, <1>9, <1>10 DEF Next

\* So it always holds.
LEMMA Invariance == Spec => []Inv
<1> QED BY InvInit, InvStep, PTL DEF Spec

\* Every variable keeps its type, whatever is written, blocked or closed (classes/Channel.ts,
\* ChannelN.ts).
THEOREM StreamTypeCorrect == Spec => []TypeOK
<1>1. Inv => TypeOK
  BY DEF Inv
<1> QED BY <1>1, Invariance, PTL

\* What sendCommand() gets of the messages of ch.json and of basicPublish() is what was
\* written there, once each and in order, up to some message, however the pipe pauses, the
\* connection is full and the channel closes (Channel._write, ChannelN.allowCommand,
\* transitionToClosingState).
THEOREM PublishesInOrder == Spec => []SentIsPrefix
<1>1. Inv => SentIsPrefix
  BY DEF Inv
<1> QED BY <1>1, Invariance, PTL

\* onClose writes channel.close-ok before it destroys the stream, unless that stream waits
\* for the connection (ChannelN.onClose).
THEOREM CloseAnswered == Spec => AnsweredUnlessBlocked
<1> DEFINE Answers ==
      serverClose' = "done" /\ serverClose # "done" /\ state # "closed" /\ ~blocked
        => sent' = Append(sent, <<"close_ok", 0>>)
<1>1. [Next]_vars => [Answers]_vars
  <2> SUFFICES ASSUME Next, serverClose' = "done", serverClose # "done", state # "closed", ~blocked
               PROVE  sent' = Append(sent, <<"close_ok", 0>>)
    OBVIOUS
  <2>1. OnClose
    BY DEF Next, WriteNext, Write, Transform, Immediate, Flow, Resume, Publish, Close, WriteClose,
           OnCloseOk, RecvClose, RecvFlow, Drain
  <2>2. WriteTo(<<"close_ok", 0>>, "closing")
    BY <2>1 DEF OnClose, AnswerAndDestroy
  <2>3. WriteOne(<<"close_ok", 0>>, "closing")
    BY <2>2 DEF WriteTo
  <2>4. Allowed(<<"close_ok", 0>>, "closing")
    BY DEF Allowed, IsPublish
  <2> QED BY <2>3, <2>4 DEF WriteOne
<1> QED BY <1>1, PTL DEF Spec, AnsweredUnlessBlocked
=============================================================================
