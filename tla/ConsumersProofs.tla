-------------------------- MODULE ConsumersProofs --------------------------
(***************************************************************************)
(* The consumers of a channel for any number of them, of tags and of       *)
(* deliveries.                                                             *)
(*                                                                         *)
(* A delivery finds its consumer by a tag, a turn after it was read.  That *)
(* it finds the right one rests on what a tag means at each time: the one  *)
(* call under way (Serial), one consumer per tag (Sole), nothing of a      *)
(* consumer after its end (Ended, Fresh) or before its consume-ok          *)
(* (Announced), and the order of what is under way (InOrder).              *)
(***************************************************************************)
EXTENDS Consumers, TLAPS, SequenceTheorems

\* What is sent over the transport: calls, and commands.
Requests == [kind : {"consume", "cancel"}, sub : Subs]
Commands == [type : {"ok", "deliver", "cancel"}, tag : Tags, sub : Subs, n : Nat]

\* Every variable has its type.
TypeOK ==
  /\ consumers \in [Tags -> Subs \union {NoSub}]
  /\ stream \in [Subs -> {"unborn", "live", "left", "destroyed"}]
  /\ tag \in [Subs -> Tags \union {NoTag}]
  /\ got \in [Subs -> Seq(Subs \X Nat)]
  /\ dropped \subseteq Commands /\ cancelled \subseteq Subs /\ detached \subseteq Subs
  /\ calls \in Seq(Requests) /\ c2s \in Seq(Requests)
  /\ reading \in BOOLEAN /\ crashed \in BOOLEAN
  /\ resolved \in Requests \union {NoCall}
  /\ immediates \in Seq(Commands) /\ s2c \in Seq(Commands)
  /\ srv \in [Tags -> Subs \union {NoSub}]
  /\ sent \in [Subs -> Nat]

\* The two calls for a consumer.
ToConsume(s) == [kind |-> "consume", sub |-> s]
ToCancel(s) == [kind |-> "cancel", sub |-> s]

\* What an array has in it.
Occurs(x, a) == \E i \in 1 .. Len(a) : a[i] = x

\* The commands that are not answers: those read in this turn, and those to come.
Read == {m \in Commands : Occurs(m, immediates)}
Coming == {m \in Commands : Occurs(m, s2c) /\ m.type # "ok"}
Under == Read \union Coming

\* A call to consume waits until the consumer is there, and the other calls are for one
\* that was; nobody calls twice.
Called ==
  /\ \A i, j \in 1 .. Len(calls) : calls[i] = calls[j] => i = j
  /\ \A s \in Subs : Occurs(ToConsume(s), calls) <=> tag[s] # NoTag /\ stream[s] = "unborn"
  /\ \A s \in Subs : Occurs(ToCancel(s), calls) => s \in cancelled /\ stream[s] # "unborn"
  /\ \A s \in cancelled : stream[s] # "unborn"
  /\ \A s \in Subs : stream[s] # "unborn" => tag[s] # NoTag

\* The head of the calls is on its way to the server, or back, or it has been answered in
\* this turn; and no other is.
Answer(i) == i \in 1 .. Len(s2c) /\ s2c[i].type = "ok"
Serial ==
  /\ c2s # <<>> => calls # <<>> /\ c2s = <<Head(calls)>> /\ resolved = NoCall /\ \A i : ~Answer(i)
  /\ \A i, j : Answer(i) /\ Answer(j) => i = j
  /\ resolved # NoCall => calls # <<>> /\ resolved = Head(calls) /\ \A i : ~Answer(i)
  /\ (\E i : Answer(i)) => calls # <<>>
  /\ calls # <<>> => c2s # <<>> \/ resolved # NoCall \/ \E i : Answer(i)

\* The call under way is this one, and it has reached the server.
Reached(c) == calls # <<>> /\ Head(calls) = c /\ c2s = <<>>

\* A tag has one consumer that has not ended, and the calls for it are made in order.
Sole ==
  \A s, u \in Subs : s # u /\ tag[s] = tag[u] /\ tag[s] # NoTag =>
    /\ stream[s] \in Over \/ stream[u] \in Over
    /\ Occurs(ToCancel(s), calls) => stream[u] # "live"
    /\ \A i, j \in 1 .. Len(calls) : calls[i] = ToConsume(u) /\ calls[j] = ToCancel(s) => j < i

\* The map has the consumers that live.
Mapped ==
  /\ \A s \in Subs : stream[s] = "live" => consumers[tag[s]] = s
  /\ \A t \in Tags : consumers[t] # NoSub =>
       tag[consumers[t]] = t /\ stream[consumers[t]] = "live"

\* The server has those that live or have just been answered, until they are cancelled.
Subscribed ==
  /\ \A t \in Tags : srv[t] # NoSub =>
       /\ tag[srv[t]] = t
       /\ stream[srv[t]] = "live" \/ (stream[srv[t]] = "unborn" /\ Reached(ToConsume(srv[t])))
       /\ ~Reached(ToCancel(srv[t]))
       /\ \A m \in Under : m.type = "cancel" => m.sub # srv[t]

\* Commands for a consumer have its tag, and follow the consume-ok ...
Announced ==
  /\ \A i \in 1 .. Len(s2c) : tag[s2c[i].sub] = s2c[i].tag
  /\ \A i \in 1 .. Len(immediates) :
       tag[immediates[i].sub] = immediates[i].tag /\ immediates[i].type # "ok"
  /\ \A m \in Under : stream[m.sub] # "unborn" \/ Reached(ToConsume(m.sub))
  /\ \A m \in Read : stream[m.sub] # "unborn" \/ resolved # NoCall
  /\ \A i, j \in 1 .. Len(s2c) : i < j /\ Answer(j) => stream[s2c[i].sub] # "unborn"

\* ... and are read before the cancel-ok.
Ended ==
  /\ \A s \in Subs, j \in 1 .. Len(s2c) :
       Reached(ToCancel(s)) /\ Answer(j) => \A i \in j + 1 .. Len(s2c) : s2c[i].sub # s
  /\ \A s \in Subs : resolved = ToCancel(s) => \A m \in Coming : m.sub # s
  /\ \A m \in Coming : stream[m.sub] \notin Over

\* In a turn nothing is handled for a consumer that has ended before, and no other consumer
\* has its tag meanwhile.
Fresh ==
  /\ ~TurnOver => \A m \in Read : stream[m.sub] \notin Over
  /\ \A m \in Under, u \in Subs : u # m.sub /\ tag[u] = m.tag => stream[u] # "live"

\* Of two commands for one consumer: the deliveries are in order, and a cancel is the last.
Before(x, y) ==
  x.sub = y.sub /\ x.type # "ok" /\ y.type # "ok" =>
    x.type = "deliver" /\ (y.type = "deliver" => x.n < y.n)
Sorted(a) == \A i, j \in 1 .. Len(a) : i < j => Before(a[i], a[j])
InOrder ==
  /\ Sorted(immediates) /\ Sorted(s2c)
  /\ \A x \in Read, y \in Coming : Before(x, y)

\* A consumer that has not ended has got what was sent to it, but for what is under way; and
\* one for which anything is still to come after its end was cancelled.
Delivered ==
  /\ \A s \in Subs : \A i \in 1 .. Len(got[s]) : got[s][i] = <<s, i>>
  /\ \A s \in Subs : stream[s] \notin Over =>
       \A n \in Len(got[s]) + 1 .. sent[s] :
         \E m \in Under : m.type = "deliver" /\ m.sub = s /\ m.n = n
  /\ \A m \in Under : m.type = "deliver" =>
       IF stream[m.sub] \in Over THEN m.sub \in cancelled
                                      ELSE m.n \in Len(got[m.sub]) + 1 .. sent[m.sub]
  /\ \A s \in Subs : Len(got[s]) <= sent[s]
  /\ \A m \in dropped : m.sub \in cancelled

\* The server has a consumer that lives, or the end of it is under way.
Known ==
  \A s \in Subs :
    stream[s] = "live" \/ (stream[s] = "unborn" /\ Reached(ToConsume(s))) =>
      \/ srv[tag[s]] = s
      \/ \E m \in Under : m.type = "cancel" /\ m.sub = s
      \/ Reached(ToCancel(s))

\* The inductive invariant.
IInv ==
  /\ TypeOK /\ Called /\ Serial /\ Sole /\ Mapped /\ Subscribed /\ Announced /\ Ended /\ Fresh
  /\ InOrder /\ Delivered /\ Known

USE DEF Over

-----------------------------------------------------------------------------
(***************************************************************************)
(* What the steps do to the commands under way.                            *)
(***************************************************************************)
\* What occurs in an array with one more ...
LEMMA OccursAppended ==
  ASSUME NEW S, NEW a \in Seq(S), NEW y \in S, NEW x
  PROVE  Occurs(x, Append(a, y)) <=> Occurs(x, a) \/ x = y
<1>1. /\ Len(a) \in Nat /\ Len(Append(a, y)) = Len(a) + 1
      /\ \A i \in 1 .. Len(a) : Append(a, y)[i] = a[i]
      /\ Append(a, y)[Len(a) + 1] = y
  BY AppendProperties
<1>2. \A i \in 1 .. Len(Append(a, y)) : i \in 1 .. Len(a) \/ i = Len(a) + 1
  BY <1>1
<1>3. Len(a) + 1 \in 1 .. Len(Append(a, y))
  BY <1>1
<1>4. \A i \in 1 .. Len(a) : i \in 1 .. Len(Append(a, y))
  BY <1>1
<1> QED BY <1>1, <1>2, <1>3, <1>4 DEF Occurs

\* ... and in one without the first.
LEMMA OccursTaken ==
  ASSUME NEW S, NEW a \in Seq(S), a # <<>>, NEW x
  PROVE  Occurs(x, a) <=> x = Head(a) \/ Occurs(x, Tail(a))
<1>1. /\ Len(a) \in Nat \ {0} /\ Head(a) = a[1] /\ Len(Tail(a)) = Len(a) - 1
      /\ \A i \in 1 .. Len(Tail(a)) : Tail(a)[i] = a[i + 1]
  BY EmptySeq, LenProperties, HeadTailProperties
<1>2. \A i \in 1 .. Len(a) : i = 1 \/ (i - 1 \in 1 .. Len(Tail(a)) /\ i = (i - 1) + 1)
  BY <1>1
<1>3. \A i \in 1 .. Len(Tail(a)) : i + 1 \in 1 .. Len(a)
  BY <1>1
<1>4. 1 \in 1 .. Len(a)
  BY <1>1
<1> QED BY <1>1, <1>2, <1>3, <1>4 DEF Occurs

\* A command is read.
LEMMA ReadNext ==
  ASSUME TypeOK, NEW more \in BOOLEAN, RecvCommand(more)
  PROVE  /\ s2c # <<>> /\ Head(s2c) \in Commands /\ s2c' = Tail(s2c) /\ s2c' \in Seq(Commands)
         /\ Len(s2c) \in Nat /\ Len(s2c') = Len(s2c) - 1 /\ Head(s2c) = s2c[1]
         /\ \A i \in 1 .. Len(s2c') : s2c'[i] = s2c[i + 1] /\ i + 1 \in 1 .. Len(s2c)
         /\ immediates' \in Seq(Commands)
         /\ \/ /\ Head(s2c).type # "ok"
               /\ immediates' = Append(immediates, Head(s2c)) /\ resolved' = resolved
               /\ Read' = Read \union {Head(s2c)} /\ Coming = Coming' \union {Head(s2c)}
            \/ /\ Head(s2c).type = "ok"
               /\ immediates' = immediates /\ resolved' = Head(calls)
               /\ Read' = Read /\ Coming' = Coming
<1>1. /\ s2c # <<>> /\ s2c \in Seq(Commands) /\ s2c' = Tail(s2c)
      /\ immediates \in Seq(Commands)
  BY DEF RecvCommand, TypeOK
<1>2. /\ Head(s2c) \in Commands /\ s2c' \in Seq(Commands)
      /\ Len(s2c) \in Nat /\ Len(s2c') = Len(s2c) - 1 /\ Head(s2c) = s2c[1]
      /\ \A i \in 1 .. Len(s2c') : s2c'[i] = s2c[i + 1]
  BY <1>1, EmptySeq, LenProperties, HeadTailProperties
<1>3. \A i \in 1 .. Len(s2c') : i + 1 \in 1 .. Len(s2c)
  BY <1>2
<1>4. \A x : Occurs(x, s2c) <=> x = Head(s2c) \/ Occurs(x, s2c)'
  <2>1. ASSUME NEW x PROVE Occurs(x, s2c) <=> x = Head(s2c) \/ Occurs(x, s2c)'
    <3>1. Occurs(x, s2c) <=> x = Head(s2c) \/ Occurs(x, Tail(s2c))
      BY <1>1, OccursTaken
    <3> QED BY <1>1, <3>1 DEF Occurs
  <2> QED BY <2>1
<1>5. CASE HandleAsyncCommands(Head(s2c))
  <2>1. /\ Head(s2c).type # "ok" /\ resolved' = resolved
        /\ immediates' = Append(immediates, Head(s2c)) /\ immediates' \in Seq(Commands)
    BY <1>1, <1>2, <1>5, AppendProperties DEF HandleAsyncCommands
  <2>2. \A x : Occurs(x, immediates)' <=> Occurs(x, immediates) \/ x = Head(s2c)
    <3>1. ASSUME NEW x PROVE Occurs(x, immediates)' <=> Occurs(x, immediates) \/ x = Head(s2c)
      <4>1. Occurs(x, Append(immediates, Head(s2c))) <=> Occurs(x, immediates) \/ x = Head(s2c)
        BY <1>1, <1>2, OccursAppended
      <4> QED BY <2>1, <4>1 DEF Occurs
    <3> QED BY <3>1
  <2>3. Read' = Read \union {Head(s2c)}
    BY <1>2, <2>2 DEF Read
  <2>4. Coming = Coming' \union {Head(s2c)}
    BY <1>2, <1>4, <2>1 DEF Coming
  <2> QED BY <1>1, <1>2, <1>3, <2>1, <2>3, <2>4
<1>6. CASE Answered(Head(s2c))
  <2>1. Head(s2c).type = "ok" /\ resolved' = Head(calls) /\ immediates' = immediates
    BY <1>6 DEF Answered
  <2>2. Read' = Read
    BY <2>1 DEF Read, Occurs
  <2>3. Coming' = Coming
    BY <1>4, <2>1 DEF Coming
  <2> QED BY <1>1, <1>2, <1>3, <2>1, <2>2, <2>3
<1> QED BY <1>5, <1>6 DEF RecvCommand

\* An immediate runs.
LEMMA RunNext ==
  ASSUME TypeOK, RunImmediate
  PROVE  /\ immediates # <<>> /\ immediates[1] \in Commands /\ immediates' = Tail(immediates)
         /\ immediates' \in Seq(Commands)
         /\ Len(immediates) \in Nat \ {0} /\ Len(immediates') = Len(immediates) - 1
         /\ \A i \in 1 .. Len(immediates') :
              immediates'[i] = immediates[i + 1] /\ i + 1 \in 1 .. Len(immediates)
         /\ Read = Read' \union {immediates[1]} /\ Coming' = Coming
<1>1. /\ immediates # <<>> /\ immediates \in Seq(Commands) /\ s2c' = s2c
      /\ immediates' = SubSeq(immediates, 1, 0) \o SubSeq(immediates, 2, Len(immediates))
  BY DEF RunImmediate, TypeOK, Oldest
<1>2. /\ Len(immediates) \in Nat \ {0} /\ Head(immediates) = immediates[1]
      /\ Head(immediates) \in Commands
      /\ Tail(immediates) \in Seq(Commands) /\ Len(Tail(immediates)) = Len(immediates) - 1
      /\ \A i \in 1 .. Len(Tail(immediates)) : Tail(immediates)[i] = immediates[i + 1]
  BY <1>1, EmptySeq, LenProperties, HeadTailProperties
<1>3. immediates' = Tail(immediates)
  BY <1>1, <1>2
<1>4. \A i \in 1 .. Len(immediates') : i + 1 \in 1 .. Len(immediates)
  BY <1>2, <1>3
<1>5. \A x : Occurs(x, immediates) <=> x = immediates[1] \/ Occurs(x, immediates)'
  <2>1. ASSUME NEW x PROVE Occurs(x, immediates) <=> x = immediates[1] \/ Occurs(x, immediates)'
    <3>1. Occurs(x, immediates) <=> x = immediates[1] \/ Occurs(x, Tail(immediates))
      BY <1>1, <1>2, OccursTaken
    <3> QED BY <1>3, <3>1 DEF Occurs
  <2> QED BY <2>1
<1>6. Read = Read' \union {immediates[1]}
  BY <1>2, <1>5 DEF Read
<1>7. Coming' = Coming
  BY <1>1 DEF Coming, Occurs
<1> QED BY <1>1, <1>2, <1>3, <1>4, <1>6, <1>7

\* A command is sent.
LEMMA SendNext ==
  ASSUME TypeOK, NEW m \in Commands, s2c' = Append(s2c, m), UNCHANGED immediates
  PROVE  /\ s2c' \in Seq(Commands) /\ Len(s2c) \in Nat /\ Len(s2c') = Len(s2c) + 1
         /\ s2c'[Len(s2c) + 1] = m
         /\ \A i \in 1 .. Len(s2c) : s2c'[i] = s2c[i] /\ i \in 1 .. Len(s2c')
         /\ \A i \in 1 .. Len(s2c') : i \in 1 .. Len(s2c) \/ i = Len(s2c) + 1
         /\ Read' = Read
         /\ Coming' = IF m.type = "ok" THEN Coming ELSE Coming \union {m}
<1>1. /\ s2c' \in Seq(Commands) /\ Len(s2c) \in Nat /\ Len(s2c') = Len(s2c) + 1
      /\ s2c'[Len(s2c) + 1] = m /\ \A i \in 1 .. Len(s2c) : s2c'[i] = s2c[i]
  BY AppendProperties DEF TypeOK
<1>2. /\ \A i \in 1 .. Len(s2c) : i \in 1 .. Len(s2c')
      /\ \A i \in 1 .. Len(s2c') : i \in 1 .. Len(s2c) \/ i = Len(s2c) + 1
  BY <1>1
<1>3. \A x : Occurs(x, s2c)' <=> Occurs(x, s2c) \/ x = m
  <2>1. ASSUME NEW x PROVE Occurs(x, s2c)' <=> Occurs(x, s2c) \/ x = m
    <3>1. Occurs(x, Append(s2c, m)) <=> Occurs(x, s2c) \/ x = m
      BY OccursAppended DEF TypeOK
    <3> QED BY <3>1 DEF Occurs
  <2> QED BY <2>1
<1>4. Read' = Read
  BY DEF Read, Occurs
<1>5. Coming' = IF m.type = "ok" THEN Coming ELSE Coming \union {m}
  BY <1>3 DEF Coming
<1> QED BY <1>1, <1>2, <1>4, <1>5

\* Nothing is sent, read or handled.
LEMMA SameUnder ==
  ASSUME UNCHANGED <<immediates, s2c>>
  PROVE  Read' = Read /\ Coming' = Coming
BY DEF Read, Coming, Occurs

\* A call is made: it is under way if no other is.
LEMMA Submitted ==
  ASSUME TypeOK, Serial, NEW c \in Requests, Submit(c), UNCHANGED <<resolved, s2c>>
  PROVE  /\ calls' \in Seq(Requests) /\ Len(calls) \in Nat /\ Len(calls') = Len(calls) + 1
         /\ calls'[Len(calls) + 1] = c /\ calls' # <<>>
         /\ \A i \in 1 .. Len(calls) : calls'[i] = calls[i] /\ i \in 1 .. Len(calls')
         /\ \A i \in 1 .. Len(calls') : i \in 1 .. Len(calls) \/ i = Len(calls) + 1
         /\ \A x : Occurs(x, calls)' <=> Occurs(x, calls) \/ x = c
         /\ Head(calls)' = IF calls = <<>> THEN c ELSE Head(calls)
         /\ c2s' = IF calls = <<>> THEN <<c>> ELSE c2s
         /\ c2s' \in Seq(Requests)
         /\ \A x : Reached(x)' <=> Reached(x)
<1>1. /\ calls \in Seq(Requests) /\ calls' = Append(calls, c)
      /\ c2s' = IF calls = <<>> THEN Append(c2s, c) ELSE c2s
  BY DEF Submit, TypeOK
<1>2. /\ calls' \in Seq(Requests) /\ Len(calls) \in Nat /\ Len(calls') = Len(calls) + 1
      /\ calls'[Len(calls) + 1] = c /\ \A i \in 1 .. Len(calls) : calls'[i] = calls[i]
  BY <1>1, AppendProperties
<1>3. /\ \A i \in 1 .. Len(calls) : i \in 1 .. Len(calls')
      /\ \A i \in 1 .. Len(calls') : i \in 1 .. Len(calls) \/ i = Len(calls) + 1
  BY <1>2
<1>4. calls' # <<>> /\ Head(calls') = calls'[1]
  BY <1>2, EmptySeq, HeadTailProperties
<1>5. Head(calls') = IF calls = <<>> THEN c ELSE Head(calls)
  <2>1. CASE calls = <<>>
    BY <1>2, <1>4, <2>1, EmptySeq
  <2>2. CASE calls # <<>>
    <3>1. Head(calls) = calls[1] /\ 1 \in 1 .. Len(calls)
      BY <1>1, <2>2, EmptySeq, LenProperties, HeadTailProperties
    <3> QED BY <1>2, <1>4, <2>2, <3>1
  <2> QED BY <2>1, <2>2
<1>6. \A x : Occurs(x, calls)' <=> Occurs(x, calls) \/ x = c
  <2>1. ASSUME NEW x PROVE Occurs(x, calls)' <=> Occurs(x, calls) \/ x = c
    <3>1. Occurs(x, Append(calls, c)) <=> Occurs(x, calls) \/ x = c
      BY <1>1, OccursAppended
    <3> QED BY <1>1, <3>1 DEF Occurs
  <2> QED BY <2>1
<1>7. calls = <<>> => c2s = <<>>
  BY DEF Serial
<1>8. c2s' = (IF calls = <<>> THEN <<c>> ELSE c2s) /\ c2s' \in Seq(Requests)
  <2>1. <<c>> \in Seq(Requests) /\ Append(<<>>, c) = <<c>>
    OBVIOUS
  <2>2. c2s' = IF calls = <<>> THEN <<c>> ELSE c2s
    BY <1>1, <1>7, <2>1
  <2> QED BY <2>1, <2>2 DEF TypeOK
<1>9. \A x : Reached(x)' <=> Reached(x)
  BY <1>4, <1>5, <1>8 DEF Reached
<1> QED BY <1>2, <1>3, <1>4, <1>5, <1>6, <1>8, <1>9

\* The call under way is over, and the next one is on its way.
LEMMA Continued ==
  ASSUME TypeOK, Serial, Continue
  PROVE  /\ resolved \in Requests
         /\ calls # <<>> /\ resolved = Head(calls) /\ Head(calls) = calls[1]
         /\ 1 \in 1 .. Len(calls) /\ Len(calls) \in Nat /\ Len(calls') = Len(calls) - 1
         /\ c2s = <<>> /\ \A i : ~Answer(i)
         /\ calls' \in Seq(Requests) /\ c2s' \in Seq(Requests)
         /\ \A i \in 1 .. Len(calls') : calls'[i] = calls[i + 1] /\ i + 1 \in 1 .. Len(calls)
         /\ \A x : Occurs(x, calls) <=> x = resolved \/ Occurs(x, calls)'
         /\ \A x : Reached(x) <=> x = resolved
         /\ \A x : ~Reached(x)'
         /\ calls' # <<>> => c2s' = <<Head(calls')>>
         /\ c2s' # <<>> => calls' # <<>>
<1>1. /\ resolved # NoCall /\ calls' = Tail(calls) /\ calls \in Seq(Requests)
      /\ resolved \in Requests
      /\ c2s' = IF Len(calls) > 1 THEN Append(c2s, calls[2]) ELSE c2s
  BY DEF Continue, TypeOK
<1>2. calls # <<>> /\ resolved = Head(calls) /\ c2s = <<>> /\ \A i : ~Answer(i)
  BY <1>1 DEF Serial
<1>3. /\ Len(calls) \in Nat \ {0} /\ Head(calls) = calls[1] /\ calls' \in Seq(Requests)
      /\ Len(calls') = Len(calls) - 1
      /\ \A i \in 1 .. Len(calls') : calls'[i] = calls[i + 1]
  BY <1>1, <1>2, EmptySeq, LenProperties, HeadTailProperties
<1>4. 1 \in 1 .. Len(calls) /\ \A i \in 1 .. Len(calls') : i + 1 \in 1 .. Len(calls)
  BY <1>3
<1>5. \A x : Occurs(x, calls) <=> x = resolved \/ Occurs(x, calls)'
  <2>1. ASSUME NEW x PROVE Occurs(x, calls) <=> x = resolved \/ Occurs(x, calls)'
    <3>1. Occurs(x, calls) <=> x = Head(calls) \/ Occurs(x, Tail(calls))
      BY <1>1, <1>2, OccursTaken
    <3> QED BY <1>1, <1>2, <3>1 DEF Occurs
  <2> QED BY <2>1
<1>6. CASE Len(calls) > 1
  <2>1. /\ calls' # <<>> /\ Head(calls') = calls'[1] /\ 1 \in 1 .. Len(calls')
    BY <1>3, <1>6, EmptySeq, HeadTailProperties
  <2>2. Head(calls') = calls[2] /\ calls[2] \in Requests
    BY <1>1, <1>3, <1>6, <2>1
  <2>3. c2s' = <<Head(calls')>> /\ c2s' \in Seq(Requests) /\ c2s' # <<>>
    BY <1>1, <1>2, <1>6, <2>2
  <2> QED BY <1>1, <1>2, <1>3, <1>4, <1>5, <2>1, <2>3 DEF Reached
<1>7. CASE Len(calls) = 1
  <2>1. calls' = <<>> /\ c2s' = <<>>
    BY <1>1, <1>2, <1>3, <1>7, EmptySeq
  <2> QED BY <1>1, <1>2, <1>3, <1>4, <1>5, <2>1 DEF Reached
<1> QED BY <1>3, <1>6, <1>7

-----------------------------------------------------------------------------
(***************************************************************************)
(* Types, and the one call under way.                                      *)
(***************************************************************************)
\* The call that reaches the server is one of a consumer with its tag.
LEMMA Arrives ==
  ASSUME TypeOK, Called, Serial, ServerStep
  PROVE  /\ calls # <<>> /\ Head(c2s) = Head(calls) /\ c2s' = <<>> /\ c2s' \in Seq(Requests)
         /\ resolved = NoCall /\ \A i : ~Answer(i)
         /\ Head(c2s) \in Requests /\ Head(c2s).sub \in Subs /\ tag[Head(c2s).sub] \in Tags
         /\ Occurs(Head(c2s), calls) /\ c2s # <<>>
         /\ \E s \in Subs : Head(c2s) = ToConsume(s) \/ Head(c2s) = ToCancel(s)
<1>1. c2s # <<>> /\ c2s' = Tail(c2s) /\ calls \in Seq(Requests)
  BY DEF ServerStep, TypeOK
<1>2. /\ calls # <<>> /\ c2s = <<Head(calls)>> /\ resolved = NoCall /\ \A i : ~Answer(i)
  BY <1>1 DEF Serial
<1>3. /\ Head(c2s) = Head(calls) /\ c2s' = <<>> /\ c2s' \in Seq(Requests)
  BY <1>1, <1>2
<1>4. /\ Head(calls) \in Requests /\ Head(calls) = calls[1] /\ 1 \in 1 .. Len(calls)
  BY <1>1, <1>2, EmptySeq, LenProperties, HeadTailProperties
<1>5. Occurs(Head(c2s), calls)
  BY <1>3, <1>4 DEF Occurs
<1>6. PICK s \in Subs : Head(c2s) = ToConsume(s) \/ Head(c2s) = ToCancel(s)
  BY <1>3, <1>4 DEF Requests, ToConsume, ToCancel
<1>7. Head(c2s).sub = s
  BY <1>6 DEF ToConsume, ToCancel
<1>8. tag[s] \in Tags
  BY <1>5, <1>6 DEF Called, TypeOK
<1> QED BY <1>1, <1>2, <1>3, <1>4, <1>5, <1>6, <1>7, <1>8

\* A step keeps the types.
LEMMA TypeStep ==
  ASSUME TypeOK, Called, Serial, Subscribed, [Next]_vars
  PROVE  TypeOK'
<1> USE ConsumersAssumption
<1>1. ASSUME NEW s \in Subs, NEW t \in Tags, Consume(s, t) PROVE TypeOK'
  <2>1. ToConsume(s) \in Requests /\ Submit(ToConsume(s))
    BY <1>1 DEF Consume, ToConsume, Requests
  <2>2. calls' \in Seq(Requests) /\ c2s' \in Seq(Requests)
    BY <1>1, <2>1, Submitted DEF Consume
  <2> QED BY <1>1, <2>2 DEF Consume, TypeOK
<1>2. ASSUME NEW s \in Subs, Cancel(s) \/ BasicCancel(s) PROVE TypeOK'
  <2>1. CallCancel(s) /\ detached' \subseteq Subs
    BY <1>2 DEF Cancel, BasicCancel, TypeOK
  <2>2. ToCancel(s) \in Requests /\ Submit(ToCancel(s))
    BY <2>1 DEF CallCancel, ToCancel, Requests
  <2>3. calls' \in Seq(Requests) /\ c2s' \in Seq(Requests)
    BY <2>1, <2>2, Submitted DEF CallCancel
  <2> QED BY <2>1, <2>3 DEF CallCancel, TypeOK
<1>3. ASSUME NEW more \in BOOLEAN, RecvCommand(more) PROVE TypeOK'
  <2>1. s2c' \in Seq(Commands) /\ immediates' \in Seq(Commands) /\ s2c # <<>>
    BY <1>3, ReadNext
  <2>2. resolved' \in Requests \union {NoCall}
    <3>1. CASE Head(s2c).type = "ok"
      <4>1. Answer(1)
        BY <1>3, <3>1, ReadNext, EmptySeq DEF Answer
      <4>2. calls # <<>> /\ calls \in Seq(Requests)
        BY <4>1 DEF Serial, TypeOK
      <4>3. Head(calls) \in Requests
        BY <4>2
      <4> QED BY <1>3, <3>1, <4>3, ReadNext
    <3> QED BY <1>3, <3>1, ReadNext DEF TypeOK
  <2> QED BY <1>3, <2>1, <2>2 DEF RecvCommand, TypeOK
<1>4. CASE Continue
  <2>1. calls' \in Seq(Requests) /\ c2s' \in Seq(Requests) /\ resolved \in Requests
    BY <1>4, Continued
  <2>2. resolved.sub \in Subs
    BY <2>1 DEF Requests
  <2>3. consumers' \in [Tags -> Subs \union {NoSub}]
    BY <1>4, <2>2 DEF Continue, Register, Unregister, TypeOK
  <2>4. stream' \in [Subs -> {"unborn", "live", "left", "destroyed"}]
    BY <1>4, <2>2 DEF Continue, EndStream, Leave, TypeOK
  <2> QED BY <1>4, <2>1, <2>3, <2>4 DEF Continue, TypeOK
<1>5. CASE RunImmediate
  <2> DEFINE m == immediates[1]
  <2>1. m \in Commands /\ immediates' \in Seq(Commands)
    BY <1>5, RunNext
  <2>2. m.tag \in Tags /\ m.sub \in Subs /\ m.n \in Nat
    BY <2>1 DEF Commands
  <2>3. consumers[m.tag] \in Subs \union {NoSub}
    BY <2>2 DEF TypeOK
  <2>4. UNCHANGED <<tag, cancelled, detached, calls, reading, resolved, c2s, s2c, srv, sent>>
    BY <1>5 DEF RunImmediate
  <2>5. CASE HandleDelivery(m)
    <3>1. dropped' \subseteq Commands
      BY <2>1, <2>5 DEF HandleDelivery, TypeOK
    <3>2. got' \in [Subs -> Seq(Subs \X Nat)]
      <4>1. ASSUME NEW s \in Subs PROVE Append(got[s], <<m.sub, m.n>>) \in Seq(Subs \X Nat)
        <5>1. got[s] \in Seq(Subs \X Nat) /\ <<m.sub, m.n>> \in Subs \X Nat
          BY <2>2 DEF TypeOK
        <5> QED BY <5>1, AppendProperties
      <4>2. CASE consumers[m.tag] = NoSub
        BY <2>5, <4>2 DEF HandleDelivery, TypeOK
      <4>3. CASE consumers[m.tag] \in Subs
        <5>1. /\ consumers[m.tag] # NoSub
              /\ got' = [got EXCEPT ![consumers[m.tag]] =
                            Append(got[consumers[m.tag]], <<m.sub, m.n>>)]
          BY <2>5, <4>3 DEF HandleDelivery
        <5> QED BY <4>1, <4>3, <5>1 DEF TypeOK
      <4> QED BY <2>3, <4>2, <4>3
    <3> QED BY <2>1, <2>4, <2>5, <3>1, <3>2 DEF HandleDelivery, TypeOK
  <2>6. CASE HandleCancel(m)
    BY <2>1, <2>3, <2>4, <2>6 DEF HandleCancel, EndStream, Unregister, TypeOK
  <2> QED BY <1>5, <2>5, <2>6 DEF RunImmediate, Oldest
<1>6. CASE ServerStep
  <2> DEFINE c == Head(c2s)
  <2>1. c \in Requests /\ c2s' \in Seq(Requests) /\ tag[c.sub] \in Tags /\ c.sub \in Subs
    BY <1>6, Arrives
  <2>2. srv' \in [Tags -> Subs \union {NoSub}]
    BY <1>6, <2>1 DEF ServerStep, TypeOK
  <2>3. Command("ok", c.sub, 0) \in Commands /\ s2c' = Append(s2c, Command("ok", c.sub, 0))
    BY <1>6, <2>1 DEF ServerStep, Command, Commands
  <2>4. s2c' \in Seq(Commands)
    BY <1>6, <2>3, SendNext DEF ServerStep, client
  <2> QED BY <1>6, <2>1, <2>2, <2>4 DEF ServerStep, TypeOK, client
<1>7. ASSUME NEW t \in Tags, ServerDelivers(t) PROVE TypeOK'
  <2>1. srv[t] \in Subs /\ tag[srv[t]] = t /\ sent[srv[t]] \in Nat
    BY <1>7 DEF ServerDelivers, TypeOK, Subscribed
  <2>2. Command("deliver", srv[t], sent[srv[t]] + 1) \in Commands
    BY <2>1 DEF Command, Commands
  <2>3. s2c' \in Seq(Commands)
    BY <1>7, <2>2, SendNext DEF ServerDelivers, client
  <2>4. sent' \in [Subs -> Nat]
    BY <1>7, <2>1 DEF ServerDelivers, TypeOK
  <2> QED BY <1>7, <2>3, <2>4 DEF ServerDelivers, TypeOK, client
<1>8. ASSUME NEW t \in Tags, ServerCancels(t) PROVE TypeOK'
  <2>1. srv[t] \in Subs /\ tag[srv[t]] = t
    BY <1>8 DEF ServerCancels, TypeOK, Subscribed
  <2>2. Command("cancel", srv[t], 0) \in Commands
    BY <2>1 DEF Command, Commands
  <2>3. s2c' \in Seq(Commands)
    BY <1>8, <2>2, SendNext DEF ServerCancels, client
  <2> QED BY <1>8, <2>1, <2>3 DEF ServerCancels, TypeOK, client
<1>9. CASE UNCHANGED vars
  BY <1>9 DEF vars, client, TypeOK
<1> QED BY <1>1, <1>2, <1>3, <1>4, <1>5, <1>6, <1>7, <1>8, <1>9 DEF Next

-----------------------------------------------------------------------------
(***************************************************************************)
(* The application's calls.                                                *)
(***************************************************************************)
\* Commands under way are for a consumer with a tag.
LEMMA Tagged ==
  ASSUME TypeOK, Announced, NEW m \in Under
  PROVE  /\ m \in Commands /\ m.sub \in Subs /\ m.tag \in Tags /\ tag[m.sub] = m.tag
         /\ m.type \in {"deliver", "cancel"}
<1>1. m \in Commands /\ m.sub \in Subs /\ m.tag \in Tags /\ m.type \in {"ok", "deliver", "cancel"}
  BY DEF Under, Read, Coming, Commands
<1>2. CASE m \in Read
  BY <1>1, <1>2 DEF Read, Occurs, Announced
<1>3. CASE m \in Coming
  BY <1>1, <1>3 DEF Coming, Occurs, Announced
<1> QED BY <1>1, <1>2, <1>3 DEF Under

\* The call under way is one that was made.
LEMMA FirstCall ==
  ASSUME TypeOK, calls # <<>>
  PROVE  /\ Occurs(Head(calls), calls) /\ Head(calls) = calls[1] /\ 1 \in 1 .. Len(calls)
         /\ Head(calls) \in Requests
         /\ \E s \in Subs : Head(calls) = ToConsume(s) \/ Head(calls) = ToCancel(s)
<1>1. Head(calls) = calls[1] /\ 1 \in 1 .. Len(calls) /\ Head(calls) \in Requests
  BY EmptySeq, LenProperties, HeadTailProperties DEF TypeOK
<1>2. \E s \in Subs : Head(calls) = ToConsume(s) \/ Head(calls) = ToCancel(s)
  BY <1>1 DEF Requests, ToConsume, ToCancel
<1> QED BY <1>1, <1>2 DEF Occurs

\* The calls of two consumers, and of two kinds, are different ones.
LEMMA Distinct ==
  /\ \A s, u : ToConsume(s) # ToCancel(u)
  /\ \A s, u : ToConsume(s) = ToConsume(u) => s = u
  /\ \A s, u : ToCancel(s) = ToCancel(u) => s = u
  /\ \A s : ToConsume(s).sub = s /\ ToCancel(s).sub = s
  /\ \A s : ToConsume(s).kind = "consume" /\ ToCancel(s).kind = "cancel"
BY DEF ToConsume, ToCancel

\* A call leaves what is under way as it is.
LEMMA SubmitKeeps ==
  ASSUME IInv, NEW c \in Requests, ~Occurs(c, calls), Submit(c),
         UNCHANGED <<consumers, stream, got, dropped, reading, resolved, immediates, s2c,
                     srv, sent>>
  PROVE  /\ Read' = Read /\ Coming' = Coming /\ Under' = Under
         /\ \A i, j \in 1 .. Len(calls') : calls'[i] = calls'[j] => i = j
         /\ Serial' /\ Ended' /\ InOrder'
         /\ \A x : Reached(x)' <=> Reached(x)
<1> USE DEF IInv
<1>1. Read' = Read /\ Coming' = Coming /\ Under' = Under
  BY SameUnder DEF Under
<1>2. /\ Len(calls) \in Nat /\ Len(calls') = Len(calls) + 1 /\ calls'[Len(calls) + 1] = c
      /\ \A i \in 1 .. Len(calls) : calls'[i] = calls[i]
      /\ \A i \in 1 .. Len(calls') : i \in 1 .. Len(calls) \/ i = Len(calls) + 1
      /\ Head(calls)' = IF calls = <<>> THEN c ELSE Head(calls)
      /\ c2s' = IF calls = <<>> THEN <<c>> ELSE c2s
      /\ calls' # <<>>
      /\ \A x : Reached(x)' <=> Reached(x)
  BY Submitted
<1>3. \A i, j \in 1 .. Len(calls') : calls'[i] = calls'[j] => i = j
  BY <1>2 DEF Called, Occurs
<1>4. \A i : Answer(i)' <=> Answer(i)
  BY DEF Answer
<1>5. Serial'
  <2>1. CASE calls = <<>>
    <3>1. resolved = NoCall /\ \A i : ~Answer(i)
      BY <2>1 DEF Serial
    <3> QED BY <1>2, <1>4, <2>1, <3>1 DEF Serial
  <2>2. CASE calls # <<>>
    BY <1>2, <1>4, <2>2 DEF Serial
  <2> QED BY <2>1, <2>2
<1>6. Ended'
  BY <1>1, <1>2, <1>4 DEF Ended
<1>7. InOrder'
  BY <1>1 DEF InOrder, Sorted
<1> QED BY <1>1, <1>2, <1>3, <1>5, <1>6, <1>7

\* basicConsume() keeps the invariant: the tag is new, or its last consumer has ended.
LEMMA ConsumeKeeps ==
  ASSUME IInv, NEW s \in Subs, NEW t \in Tags, Consume(s, t), TypeOK'
  PROVE  IInv'
<1> USE DEF IInv
<1>1. /\ tag[s] = NoTag /\ tag' = [tag EXCEPT ![s] = t] /\ Submit(ToConsume(s))
      /\ \A u \in Subs : tag[u] = t => stream[u] \in Over
      /\ UNCHANGED <<consumers, stream, got, dropped, cancelled, reading, resolved, immediates,
                     crashed, s2c, srv, sent>>
  BY DEF Consume, ToConsume
<1>2. /\ stream[s] = "unborn" /\ ~Occurs(ToConsume(s), calls) /\ ~Occurs(ToCancel(s), calls)
  BY <1>1 DEF Called, TypeOK
<1>3. /\ tag'[s] = t /\ \A u \in Subs \ {s} : tag'[u] = tag[u]
  BY <1>1 DEF TypeOK
<1>4. ToConsume(s) \in Requests
  BY DEF ToConsume, Requests
<1>5. /\ Read' = Read /\ Coming' = Coming /\ Under' = Under
      /\ \A i, j \in 1 .. Len(calls') : calls'[i] = calls'[j] => i = j
      /\ Serial' /\ Ended' /\ InOrder'
      /\ \A x : Reached(x)' <=> Reached(x)
  BY <1>1, <1>2, <1>4, SubmitKeeps
<1>6. /\ Len(calls) \in Nat /\ Len(calls') = Len(calls) + 1
      /\ calls'[Len(calls) + 1] = ToConsume(s)
      /\ \A i \in 1 .. Len(calls) : calls'[i] = calls[i]
      /\ \A i \in 1 .. Len(calls') : i \in 1 .. Len(calls) \/ i = Len(calls) + 1
      /\ \A x : Occurs(x, calls)' <=> Occurs(x, calls) \/ x = ToConsume(s)
  BY <1>1, <1>4, Submitted
<1>7. t # NoTag
  BY ConsumersAssumption
<1>8. \A m \in Under : m.sub \in Subs /\ m.tag \in Tags /\ m.sub # s /\ tag[m.sub] = m.tag
  BY <1>1, Tagged, ConsumersAssumption
<1>9. Called'
  BY <1>1, <1>2, <1>3, <1>5, <1>6, <1>7, Distinct DEF Called
<1>10. Sole'
  <2> SUFFICES ASSUME NEW x \in Subs, NEW u \in Subs, x # u, tag'[x] = tag'[u], tag'[x] # NoTag
               PROVE  /\ stream[x] \in Over \/ stream[u] \in Over
                      /\ Occurs(ToCancel(x), calls)' => stream[u] # "live"
                      /\ \A i, j \in 1 .. Len(calls') :
                           calls'[i] = ToConsume(u) /\ calls'[j] = ToCancel(x) => j < i
    BY <1>1 DEF Sole
  <2>1. CASE x # s /\ u # s
    <3>1. \A i \in 1 .. Len(calls') :
            calls'[i] \in {ToConsume(u), ToCancel(x)} => i \in 1 .. Len(calls)
      BY <1>6, <2>1, Distinct
    <3> QED BY <1>3, <1>6, <2>1, <3>1, Distinct DEF Sole
  <2>2. CASE x = s
    <3>1. \A j \in 1 .. Len(calls') : calls'[j] # ToCancel(s)
      BY <1>2, <1>6, Distinct DEF Occurs
    <3> QED BY <1>1, <1>2, <1>3, <1>6, <2>2, <3>1, Distinct
  <2>3. CASE u = s
    <3>1. stream[x] \in Over /\ stream[u] = "unborn"
      BY <1>1, <1>2, <1>3, <2>3
    <3>2. \A i, j \in 1 .. Len(calls') :
            calls'[i] = ToConsume(u) /\ calls'[j] = ToCancel(x) => j < i
      <4>1. \A i \in 1 .. Len(calls') : calls'[i] = ToConsume(u) => i = Len(calls) + 1
        BY <1>2, <1>6, <2>3 DEF Occurs
      <4>2. \A j \in 1 .. Len(calls') : calls'[j] = ToCancel(x) => j \in 1 .. Len(calls)
        BY <1>6, Distinct
      <4> QED BY <1>6, <4>1, <4>2
    <3> QED BY <3>1, <3>2
  <2> QED BY <2>1, <2>2, <2>3
<1>11. Mapped'
  <2>1. \A u \in Subs : stream[u] = "live" => u # s
    BY <1>2
  <2>2. \A x \in Tags : consumers[x] # NoSub => consumers[x] \in Subs
    BY DEF TypeOK
  <2> QED BY <1>1, <1>3, <2>1, <2>2 DEF Mapped
<1>12. Subscribed'
  <2>1. \A x \in Tags : srv[x] # NoSub => srv[x] \in Subs /\ srv[x] # s
    BY <1>1, ConsumersAssumption DEF Subscribed, TypeOK
  <2> QED BY <1>1, <1>3, <1>5, <2>1 DEF Subscribed
<1>13. Announced'
  <2>1. \A i \in 1 .. Len(s2c) : s2c[i].sub \in Subs /\ s2c[i].sub # s
    <3>1. ASSUME NEW i \in 1 .. Len(s2c) PROVE s2c[i] \in Commands
      BY DEF TypeOK
    <3> QED BY <1>1, <3>1, ConsumersAssumption DEF Announced, Commands
  <2>2. \A i \in 1 .. Len(immediates) : immediates[i].sub \in Subs /\ immediates[i].sub # s
    <3>1. ASSUME NEW i \in 1 .. Len(immediates) PROVE immediates[i] \in Commands
      BY DEF TypeOK
    <3> QED BY <1>1, <3>1, ConsumersAssumption DEF Announced, Commands
  <2>3. \A i : Answer(i)' <=> Answer(i)
    BY <1>1 DEF Answer
  <2> QED BY <1>1, <1>3, <1>5, <2>1, <2>2, <2>3 DEF Announced
<1>14. Fresh'
  <2>1. TurnOver' = TurnOver
    BY <1>1 DEF TurnOver
  <2> QED BY <1>1, <1>2, <1>3, <1>5, <1>8, <2>1 DEF Fresh
<1>15. Delivered'
  BY <1>1, <1>5 DEF Delivered
<1>16. Known'
  <2>1. ~Reached(ToConsume(s))
    BY <1>2, FirstCall DEF Reached
  <2> QED BY <1>1, <1>2, <1>3, <1>5, <2>1 DEF Known
<1> QED BY <1>5, <1>9, <1>10, <1>11, <1>12, <1>13, <1>14, <1>15, <1>16

\* Consumer.cancel() keeps the invariant: it is for a consumer that lives.
LEMMA CancelKeeps ==
  ASSUME IInv, NEW s \in Subs, CallCancel(s), TypeOK'
  PROVE  IInv'
<1> USE DEF IInv
<1>1. /\ stream[s] = "live" /\ s \notin cancelled /\ Submit(ToCancel(s))
      /\ cancelled' = cancelled \union {s}
      /\ UNCHANGED <<consumers, stream, tag, got, dropped, reading, resolved, immediates,
                     crashed, s2c, srv, sent>>
  BY DEF CallCancel, ToCancel
<1>2. ~Occurs(ToCancel(s), calls) /\ tag[s] # NoTag
  BY <1>1 DEF Called
<1>3. ToCancel(s) \in Requests
  BY DEF ToCancel, Requests
<1>4. /\ Read' = Read /\ Coming' = Coming /\ Under' = Under
      /\ \A i, j \in 1 .. Len(calls') : calls'[i] = calls'[j] => i = j
      /\ Serial' /\ Ended' /\ InOrder'
      /\ \A x : Reached(x)' <=> Reached(x)
  BY <1>1, <1>2, <1>3, SubmitKeeps
<1>5. /\ Len(calls) \in Nat /\ Len(calls') = Len(calls) + 1
      /\ calls'[Len(calls) + 1] = ToCancel(s)
      /\ \A i \in 1 .. Len(calls) : calls'[i] = calls[i]
      /\ \A i \in 1 .. Len(calls') : i \in 1 .. Len(calls) \/ i = Len(calls) + 1
      /\ \A x : Occurs(x, calls)' <=> Occurs(x, calls) \/ x = ToCancel(s)
  BY <1>1, <1>3, Submitted
<1>6. Called'
  BY <1>1, <1>4, <1>5, Distinct DEF Called
<1>7. Sole'
  <2> SUFFICES ASSUME NEW x \in Subs, NEW u \in Subs, x # u, tag[x] = tag[u], tag[x] # NoTag
               PROVE  /\ stream[x] \in Over \/ stream[u] \in Over
                      /\ Occurs(ToCancel(x), calls)' => stream[u] # "live"
                      /\ \A i, j \in 1 .. Len(calls') :
                           calls'[i] = ToConsume(u) /\ calls'[j] = ToCancel(x) => j < i
    BY <1>1 DEF Sole
  <2>1. \A i \in 1 .. Len(calls') : calls'[i] = ToConsume(u) => i \in 1 .. Len(calls)
    BY <1>5, Distinct
  <2>2. CASE x = s
    <3>1. stream[u] \in Over
      BY <1>1, <2>2 DEF Sole
    <3>2. \A i \in 1 .. Len(calls') : calls'[i] # ToConsume(u)
      BY <1>5, <2>1, <3>1 DEF Called, Occurs
    <3> QED BY <3>1, <3>2
  <2>3. CASE x # s
    <3>1. \A j \in 1 .. Len(calls') : calls'[j] = ToCancel(x) => j \in 1 .. Len(calls)
      BY <1>5, <2>3, Distinct
    <3> QED BY <1>5, <2>1, <2>3, <3>1, Distinct DEF Sole
  <2> QED BY <2>2, <2>3
<1>8. Mapped' /\ Subscribed' /\ Known'
  BY <1>1, <1>4 DEF Mapped, Subscribed, Known
<1>9. Announced'
  <2>1. \A i : Answer(i)' <=> Answer(i)
    BY <1>1 DEF Answer
  <2> QED BY <1>1, <1>4, <2>1 DEF Announced
<1>10. Fresh'
  BY <1>1, <1>4 DEF Fresh, TurnOver
<1>11. Delivered'
  BY <1>1, <1>4 DEF Delivered
<1> QED BY <1>4, <1>6, <1>7, <1>8, <1>9, <1>10, <1>11

-----------------------------------------------------------------------------
(***************************************************************************)
(* A turn of the channel.                                                  *)
(***************************************************************************)
\* An answer to a call is not mistaken for the absence of one.
LEMMA NoCallIsNone == NoCall \notin Requests
BY DEF NoCall, Requests

\* Reading keeps the invariant: a handler that is deferred is for a consumer that lives, or
\* will before the handler runs.
LEMMA RecvKeeps ==
  ASSUME IInv, NEW more \in BOOLEAN, RecvCommand(more), TypeOK'
  PROVE  IInv'
<1> USE DEF IInv
<1> DEFINE h == Head(s2c)
<1>1. /\ UNCHANGED <<consumers, stream, tag, got, dropped, cancelled, calls, crashed, c2s,
                     srv, sent>>
      /\ reading \/ (immediates = <<>> /\ ~reading /\ resolved = NoCall)
  BY DEF RecvCommand, TurnOver
<1>2. /\ s2c # <<>> /\ h \in Commands /\ Len(s2c) \in Nat /\ Len(s2c') = Len(s2c) - 1 /\ h = s2c[1]
      /\ 1 \in 1 .. Len(s2c)
      /\ \A i \in 1 .. Len(s2c') : s2c'[i] = s2c[i + 1] /\ i + 1 \in 1 .. Len(s2c)
  <2>1. Len(s2c) # 0
    BY ReadNext, EmptySeq
  <2> QED BY <2>1, ReadNext
<1>3. \/ /\ h.type # "ok"
         /\ immediates' = Append(immediates, h) /\ resolved' = resolved
         /\ Read' = Read \union {h} /\ Coming = Coming' \union {h}
      \/ /\ h.type = "ok"
         /\ immediates' = immediates /\ resolved' = Head(calls)
         /\ Read' = Read /\ Coming' = Coming
  BY ReadNext
<1>4. Under' = Under
  BY <1>3 DEF Under
<1>5. \A x : Reached(x)' <=> Reached(x)
  BY <1>1 DEF Reached
<1>6. \A i \in 1 .. Len(s2c') : Answer(i)' <=> Answer(i + 1)
  BY <1>2 DEF Answer
<1>7. Answer(1) <=> h.type = "ok"
  BY <1>2 DEF Answer
<1>8. \A i : Answer(i) => i = 1 \/ (i - 1 \in 1 .. Len(s2c') /\ Answer(i - 1)')
  <2>1. ASSUME NEW i, Answer(i), i # 1 PROVE i - 1 \in 1 .. Len(s2c') /\ Answer(i - 1)'
    <3>1. i \in 1 .. Len(s2c) /\ i - 1 \in 1 .. Len(s2c') /\ (i - 1) + 1 = i
      BY <1>2, <2>1 DEF Answer
    <3>2. s2c'[i - 1] = s2c[i] /\ s2c[i].type = "ok"
      BY <1>2, <2>1, <3>1 DEF Answer
    <3> QED BY <3>1, <3>2 DEF Answer
  <2> QED BY <2>1
<1>9. \A i : Answer(i)' => i \in 1 .. Len(s2c')
  BY DEF Answer
<1> HIDE DEF h
<1>10. Answer(1) => /\ calls # <<>> /\ c2s = <<>> /\ resolved = NoCall /\ \A i : Answer(i) => i = 1
                    /\ Head(calls) \in Requests /\ Head(calls) # NoCall
  <2>1. calls # <<>> => Head(calls) \in Requests
    BY FirstCall
  <2> QED BY <2>1, NoCallIsNone DEF Serial
<1>11. Called' /\ Sole' /\ Mapped'
  BY <1>1 DEF Called, Sole, Mapped
<1>12. Subscribed' /\ Delivered' /\ Known'
  BY <1>1, <1>4, <1>5 DEF Subscribed, Delivered, Known
<1>13. Serial'
  <2>1. CASE h.type = "ok"
    <3>1. \A i : ~Answer(i)'
      <4>1. ASSUME NEW i, Answer(i)' PROVE FALSE
        <5>1. i \in 1 .. Len(s2c') /\ Answer(i + 1)
          BY <1>6, <1>9, <4>1
        <5>2. i + 1 # 1
          BY <1>2, <5>1
        <5> QED BY <1>7, <1>10, <2>1, <5>1, <5>2
      <4> QED BY <4>1
    <3> QED BY <1>1, <1>3, <1>7, <1>10, <2>1, <3>1 DEF Serial
  <2>2. CASE h.type # "ok"
    <3>1. resolved' = resolved
      BY <1>3, <2>2
    <3>2. (\E i : Answer(i)) <=> \E i : Answer(i)'
      BY <1>6, <1>7, <1>8, <1>9, <2>2
    <3>3. \A i, j : Answer(i)' /\ Answer(j)' => i = j
      <4>1. ASSUME NEW i, NEW j, Answer(i)', Answer(j)' PROVE i = j
        <5>1. i \in 1 .. Len(s2c') /\ j \in 1 .. Len(s2c') /\ Answer(i + 1) /\ Answer(j + 1)
          BY <1>6, <1>9, <4>1
        <5>2. i + 1 = j + 1
          BY <5>1 DEF Serial
        <5> QED BY <1>2, <5>1, <5>2
      <4> QED BY <4>1
    <3>4. /\ c2s # <<>> => /\ calls # <<>> /\ c2s = <<Head(calls)>> /\ resolved = NoCall
                           /\ ~\E i : Answer(i)
          /\ resolved # NoCall => calls # <<>> /\ resolved = Head(calls) /\ ~\E i : Answer(i)
          /\ (\E i : Answer(i)) => calls # <<>>
          /\ calls # <<>> => c2s # <<>> \/ resolved # NoCall \/ \E i : Answer(i)
      BY DEF Serial
    <3> QED BY <1>1, <3>1, <3>2, <3>3, <3>4 DEF Serial
  <2> QED BY <2>1, <2>2
<1>14. h.type # "ok" => h \in Coming /\ h \in Under /\ h.sub \in Subs
  BY <1>2, <1>3, Tagged DEF Under
<1>15. Announced'
  <2>1. \A i \in 1 .. Len(s2c') : tag'[s2c'[i].sub] = s2c'[i].tag
    BY <1>1, <1>2 DEF Announced
  <2>2. \A i \in 1 .. Len(immediates') :
          tag'[immediates'[i].sub] = immediates'[i].tag /\ immediates'[i].type # "ok"
    <3>1. CASE h.type = "ok"
      BY <1>1, <1>3, <3>1 DEF Announced
    <3>2. CASE h.type # "ok"
      <4>1. /\ Len(immediates) \in Nat /\ Len(immediates') = Len(immediates) + 1
            /\ immediates'[Len(immediates) + 1] = h
            /\ \A i \in 1 .. Len(immediates) : immediates'[i] = immediates[i]
        <5>1. immediates \in Seq(Commands) /\ h \in Commands /\ immediates' = Append(immediates, h)
          BY <1>2, <1>3, <3>2 DEF TypeOK
        <5> QED BY <5>1, AppendProperties
      <4>2. \A i \in 1 .. Len(immediates') : i \in 1 .. Len(immediates) \/ i = Len(immediates) + 1
        BY <4>1
      <4>3. tag[h.sub] = h.tag
        BY <1>2 DEF Announced
      <4> QED BY <1>1, <3>2, <4>1, <4>2, <4>3 DEF Announced
    <3> QED BY <3>1, <3>2
  <2>3. \A m \in Under' : stream'[m.sub] # "unborn" \/ Reached(ToConsume(m.sub))'
    BY <1>1, <1>4, <1>5 DEF Announced
  <2>4. \A m \in Read' : stream'[m.sub] # "unborn" \/ resolved' # NoCall
    <3>1. CASE h.type = "ok"
      BY <1>1, <1>3, <1>7, <1>10, <3>1 DEF Announced
    <3>2. CASE h.type # "ok"
      <4>1. stream[h.sub] # "unborn" \/ resolved # NoCall
        <5>1. SUFFICES ASSUME stream[h.sub] = "unborn", resolved = NoCall PROVE FALSE
          OBVIOUS
        <5>2. calls # <<>> /\ c2s = <<>>
          BY <1>14, <3>2, <5>1 DEF Announced, Reached
        <5>3. PICK i : Answer(i)
          BY <5>1, <5>2 DEF Serial
        <5>4. i \in 1 .. Len(s2c) /\ i # 1 /\ 1 < i
          BY <1>2, <1>7, <3>2, <5>3 DEF Answer
        <5> QED BY <1>2, <5>1, <5>3, <5>4 DEF Announced
      <4> QED BY <1>1, <1>3, <3>2, <4>1 DEF Announced
    <3> QED BY <3>1, <3>2
  <2>5. ASSUME NEW i \in 1 .. Len(s2c'), NEW j \in 1 .. Len(s2c'), i < j, Answer(j)'
        PROVE  stream'[s2c'[i].sub] # "unborn"
    <3>1. Answer(j + 1) /\ i + 1 < j + 1 /\ i + 1 \in 1 .. Len(s2c) /\ j + 1 \in 1 .. Len(s2c)
      BY <1>2, <1>6, <2>5
    <3>2. stream[s2c[i + 1].sub] # "unborn"
      BY <3>1 DEF Announced
    <3> QED BY <1>1, <1>2, <2>5, <3>2
  <2> QED BY <2>1, <2>2, <2>3, <2>4, <2>5 DEF Announced
<1>16. Ended'
  <2>1. ASSUME NEW s \in Subs, NEW j \in 1 .. Len(s2c'), Reached(ToCancel(s))', Answer(j)',
               NEW i \in j + 1 .. Len(s2c')
        PROVE  s2c'[i].sub # s
    <3>1. /\ Answer(j + 1) /\ i + 1 \in (j + 1) + 1 .. Len(s2c) /\ j + 1 \in 1 .. Len(s2c)
          /\ i \in 1 .. Len(s2c')
      BY <1>2, <1>6, <2>1
    <3>2. s2c[i + 1].sub # s
      BY <1>5, <2>1, <3>1 DEF Ended
    <3> QED BY <1>2, <3>1, <3>2
  <2>2. ASSUME NEW s \in Subs, resolved' = ToCancel(s), NEW m \in Coming' PROVE m.sub # s
    <3>1. CASE h.type = "ok"
      <4>1. Reached(ToCancel(s)) /\ Answer(1)
        BY <1>3, <1>7, <1>10, <2>2, <3>1 DEF Reached
      <4>2. PICK i \in 1 .. Len(s2c') : s2c'[i] = m
        BY <2>2 DEF Coming, Occurs
      <4>3. i + 1 \in 1 + 1 .. Len(s2c) /\ s2c[i + 1] = m
        BY <1>2, <4>2
      <4> QED BY <1>2, <4>1, <4>3 DEF Ended
    <3>2. CASE h.type # "ok"
      BY <1>3, <2>2, <3>2 DEF Ended
    <3> QED BY <3>1, <3>2
  <2>3. \A m \in Coming' : stream'[m.sub] \notin Over
    BY <1>1, <1>3 DEF Ended
  <2> QED BY <2>1, <2>2, <2>3 DEF Ended
<1>17. Fresh'
  <2>1. \A m \in Read' : stream'[m.sub] \notin Over
    <3>1. \A m \in Read : stream[m.sub] \notin Over
      <4>1. CASE reading
        BY <4>1 DEF Fresh, TurnOver
      <4>2. CASE immediates = <<>>
        BY <4>2 DEF Read, Occurs
      <4> QED BY <1>1, <4>1, <4>2
    <3> QED BY <1>1, <1>3, <1>14, <3>1 DEF Ended
  <2> QED BY <1>1, <1>4, <2>1 DEF Fresh
<1>18. InOrder'
  <2>1. Sorted(s2c)'
    <3>1. ASSUME NEW i \in 1 .. Len(s2c'), NEW j \in 1 .. Len(s2c'), i < j
          PROVE  Before(s2c'[i], s2c'[j])
      <4>1. i + 1 \in 1 .. Len(s2c) /\ j + 1 \in 1 .. Len(s2c) /\ i + 1 < j + 1
        BY <1>2, <3>1
      <4>2. Before(s2c[i + 1], s2c[j + 1])
        BY <4>1 DEF InOrder, Sorted
      <4> QED BY <1>2, <4>2
    <3> QED BY <3>1 DEF Sorted
  <2>2. CASE h.type = "ok"
    BY <1>3, <2>1, <2>2 DEF InOrder, Sorted
  <2>3. CASE h.type # "ok"
    <3>1. /\ immediates \in Seq(Commands) /\ immediates' = Append(immediates, h)
          /\ Read' = Read \union {h} /\ Coming = Coming' \union {h}
      BY <1>3, <2>3 DEF TypeOK
    <3>2. /\ Len(immediates) \in Nat /\ Len(immediates') = Len(immediates) + 1
          /\ immediates'[Len(immediates) + 1] = h
          /\ \A i \in 1 .. Len(immediates) : immediates'[i] = immediates[i]
      BY <1>2, <3>1, AppendProperties
    <3>3. Sorted(immediates)'
      <4>1. ASSUME NEW i \in 1 .. Len(immediates'), NEW j \in 1 .. Len(immediates'), i < j
            PROVE  Before(immediates'[i], immediates'[j])
        <5>1. CASE j \in 1 .. Len(immediates)
          BY <3>2, <4>1, <5>1 DEF InOrder, Sorted
        <5>2. CASE j = Len(immediates) + 1
          <6>1. i \in 1 .. Len(immediates) /\ immediates[i] \in Commands
            BY <3>1, <3>2, <4>1, <5>2
          <6>2. immediates[i] \in Read
            BY <6>1 DEF Read, Occurs
          <6> QED BY <1>14, <2>3, <3>2, <5>2, <6>1, <6>2 DEF InOrder
        <5> QED BY <3>2, <4>1, <5>1, <5>2
      <4> QED BY <4>1 DEF Sorted
    <3>4. ASSUME NEW y \in Coming' PROVE Before(h, y)
      <4>1. PICK i \in 1 .. Len(s2c') : s2c'[i] = y
        BY <3>4 DEF Coming, Occurs
      <4>2. i + 1 \in 1 .. Len(s2c) /\ 1 < i + 1 /\ s2c[i + 1] = y
        BY <1>2, <4>1
      <4> QED BY <1>2, <4>2 DEF InOrder, Sorted
    <3> QED BY <2>1, <3>1, <3>3, <3>4 DEF InOrder
  <2> QED BY <2>2, <2>3
<1> QED BY <1>11, <1>12, <1>13, <1>15, <1>16, <1>17, <1>18

\* The promises keep the invariant: a tag that is registered has no other consumer under way,
\* and after one that is removed nothing comes for its consumer.
LEMMA ContinueKeeps ==
  ASSUME IInv, Continue, TypeOK'
  PROVE  IInv'
<1> USE DEF IInv
<1>1. PICK s \in Subs : resolved = ToConsume(s) \/ resolved = ToCancel(s)
  <2>1. resolved \in Requests
    BY Continued
  <2> QED BY <2>1 DEF Requests, ToConsume, ToCancel
<1>2. /\ calls # <<>> /\ resolved = calls[1] /\ 1 \in 1 .. Len(calls)
      /\ Len(calls) \in Nat /\ Len(calls') = Len(calls) - 1 /\ \A i : ~Answer(i)
      /\ \A i \in 1 .. Len(calls') : calls'[i] = calls[i + 1] /\ i + 1 \in 1 .. Len(calls)
      /\ \A x : Occurs(x, calls) <=> x = resolved \/ Occurs(x, calls)'
      /\ \A x : Reached(x) <=> x = resolved
      /\ \A x : ~Reached(x)'
      /\ calls' # <<>> => c2s' = <<Head(calls')>>
      /\ c2s' # <<>> => calls' # <<>>
  BY Continued
<1>3. /\ ~reading /\ ~reading' /\ resolved # NoCall /\ resolved' = NoCall
      /\ UNCHANGED <<tag, got, dropped, cancelled, immediates, crashed, s2c, srv, sent>>
  BY DEF Continue
<1>4. Read' = Read /\ Coming' = Coming /\ Under' = Under
  BY <1>3, SameUnder DEF Under
<1>5. \A i : ~Answer(i)'
  BY <1>2, <1>3 DEF Answer
<1>6. \A i, j \in 1 .. Len(calls') : calls'[i] = calls'[j] => i = j
  <2>1. ASSUME NEW i \in 1 .. Len(calls'), NEW j \in 1 .. Len(calls'), calls'[i] = calls'[j]
        PROVE  i = j
    <3>1. i + 1 \in 1 .. Len(calls) /\ j + 1 \in 1 .. Len(calls) /\ calls[i + 1] = calls[j + 1]
      BY <1>2, <2>1
    <3>2. i + 1 = j + 1
      BY <3>1 DEF Called
    <3> QED BY <1>2, <3>2
  <2> QED BY <2>1
<1>7. \A i \in 1 .. Len(calls') : calls'[i] # resolved
  <2>1. ASSUME NEW i \in 1 .. Len(calls'), calls'[i] = resolved PROVE FALSE
    <3>1. i + 1 \in 1 .. Len(calls) /\ calls[i + 1] = calls[1] /\ i + 1 # 1
      BY <1>2, <2>1
    <3> QED BY <1>2, <3>1 DEF Called
  <2> QED BY <2>1
<1>8. Serial'
  <2>1. calls' # <<>> => c2s' # <<>>
    <3>1. \A x : <<x>> # <<>>
      OBVIOUS
    <3> QED BY <1>2, <3>1
  <2>2. c2s' # <<>> => calls' # <<>> /\ c2s' = <<Head(calls')>>
    BY <1>2
  <2>3. c2s' # <<>> => calls' # <<>> /\ c2s' = <<Head(calls)>>' /\ resolved' = NoCall
    BY <1>3, <2>2
  <2> QED BY <1>3, <1>5, <2>1, <2>3 DEF Serial
<1>9. InOrder'
  BY <1>3, <1>4 DEF InOrder, Sorted
<1>10. \A x, u \in Subs : x # u /\ tag[x] = tag[u] /\ tag[x] # NoTag =>
         \A i, j \in 1 .. Len(calls') :
           calls'[i] = ToConsume(u) /\ calls'[j] = ToCancel(x) => j < i
  <2>1. ASSUME NEW x \in Subs, NEW u \in Subs, x # u, tag[x] = tag[u], tag[x] # NoTag,
               NEW i \in 1 .. Len(calls'), NEW j \in 1 .. Len(calls'),
               calls'[i] = ToConsume(u), calls'[j] = ToCancel(x)
        PROVE  j < i
    <3>1. /\ i + 1 \in 1 .. Len(calls) /\ j + 1 \in 1 .. Len(calls)
          /\ calls[i + 1] = ToConsume(u) /\ calls[j + 1] = ToCancel(x)
      BY <1>2, <2>1
    <3>2. j + 1 < i + 1
      BY <2>1, <3>1 DEF Sole
    <3> QED BY <1>2, <3>2
  <2> QED BY <2>1
<1>11. /\ \A i \in 1 .. Len(s2c') : tag'[s2c'[i].sub] = s2c'[i].tag
       /\ \A i \in 1 .. Len(immediates') :
            tag'[immediates'[i].sub] = immediates'[i].tag /\ immediates'[i].type # "ok"
  BY <1>3 DEF Announced
<1>12. \A m \in Under : m.sub \in Subs /\ m.tag \in Tags /\ tag[m.sub] = m.tag
  BY Tagged
<1>13. /\ \A u \in Subs, j \in 1 .. Len(s2c') :
            Reached(ToCancel(u))' /\ Answer(j)' => \A i \in j + 1 .. Len(s2c') : s2c'[i].sub # u
       /\ \A u \in Subs : resolved' # ToCancel(u)
  BY <1>2, <1>3 DEF NoCall, ToCancel
<1>14. TurnOver'
  BY <1>3 DEF TurnOver
<1>15. CASE resolved = ToConsume(s)
  <2>1. /\ consumers' = [consumers EXCEPT ![tag[s]] = s]
        /\ stream' = [stream EXCEPT ![s] = "live"]
    BY <1>15, Distinct DEF Continue, Register
  <2>2. tag[s] \in Tags /\ tag[s] # NoTag /\ stream[s] = "unborn"
    BY <1>2, <1>15 DEF Called, TypeOK
  <2>3. stream'[s] = "live" /\ \A u \in Subs : u # s => stream'[u] = stream[u]
    BY <2>1 DEF TypeOK
  <2>4. consumers'[tag[s]] = s /\ \A t \in Tags : t # tag[s] => consumers'[t] = consumers[t]
    BY <2>1, <2>2 DEF TypeOK
  <2>5. \A u \in Subs : u # s /\ tag[u] = tag[s] => stream[u] \in Over
    BY <2>2 DEF Sole
  <2>6. Called'
    <3>1. ASSUME NEW u \in Subs
          PROVE  Occurs(ToConsume(u), calls)' <=> tag[u] # NoTag /\ stream'[u] = "unborn"
      <4>1. CASE u = s
        <5>1. ~Occurs(ToConsume(s), calls)'
          BY <1>7, <1>15 DEF Occurs
        <5> QED BY <2>3, <4>1, <5>1
      <4>2. CASE u # s
        BY <1>2, <1>15, <2>3, <4>2, Distinct DEF Called
      <4> QED BY <4>1, <4>2
    <3>2. \A u \in Subs : Occurs(ToCancel(u), calls)' => u \in cancelled /\ stream'[u] # "unborn"
      BY <1>2, <2>3 DEF Called
    <3>3. \A u \in cancelled : stream'[u] # "unborn"
      BY <2>3 DEF Called, TypeOK
    <3>4. \A u \in Subs : stream'[u] # "unborn" => tag[u] # NoTag
      BY <2>2, <2>3 DEF Called
    <3> QED BY <1>3, <1>6, <3>1, <3>2, <3>3, <3>4 DEF Called
  <2>7. \A x \in Subs : x # s /\ tag[x] = tag[s] => ~Occurs(ToCancel(x), calls)
    <3>1. ASSUME NEW x \in Subs, x # s, tag[x] = tag[s], NEW j \in 1 .. Len(calls),
                 calls[j] = ToCancel(x)
          PROVE  FALSE
      <4>1. j < 1
        BY <1>2, <1>15, <2>2, <3>1 DEF Sole
      <4> QED BY <1>2, <4>1
    <3> QED BY <3>1 DEF Occurs
  <2>8. Sole'
    <3> SUFFICES ASSUME NEW x \in Subs, NEW u \in Subs, x # u, tag[x] = tag[u], tag[x] # NoTag
                 PROVE  /\ stream'[x] \in Over \/ stream'[u] \in Over
                        /\ Occurs(ToCancel(x), calls)' => stream'[u] # "live"
      BY <1>3, <1>10 DEF Sole
    <3>1. stream'[x] \in Over \/ stream'[u] \in Over
      BY <2>3, <2>5 DEF Sole
    <3>2. Occurs(ToCancel(x), calls)' => stream'[u] # "live"
      BY <1>2, <2>3, <2>7 DEF Sole
    <3> QED BY <3>1, <3>2
  <2>9. Mapped'
    <3>1. ASSUME NEW u \in Subs, stream'[u] = "live" PROVE consumers'[tag[u]] = u
      <4>1. CASE u = s
        BY <2>4, <4>1
      <4>2. CASE u # s
        <5>1. stream[u] = "live" /\ tag[u] # tag[s]
          BY <2>3, <2>5, <3>1, <4>2
        <5>2. tag[u] \in Tags
          BY <5>1 DEF Called, TypeOK
        <5> QED BY <2>4, <5>1, <5>2 DEF Mapped
      <4> QED BY <4>1, <4>2
    <3>2. ASSUME NEW t \in Tags, consumers'[t] # NoSub
          PROVE  tag[consumers'[t]] = t /\ stream'[consumers'[t]] = "live"
      <4>1. CASE t = tag[s]
        BY <2>3, <2>4, <4>1
      <4>2. CASE t # tag[s]
        <5>1. consumers'[t] = consumers[t] /\ consumers[t] \in Subs
          BY <2>4, <3>2, <4>2 DEF TypeOK
        <5>2. tag[consumers[t]] = t /\ stream[consumers[t]] = "live"
          BY <3>2, <5>1 DEF Mapped
        <5> QED BY <2>3, <4>2, <5>1, <5>2
      <4> QED BY <4>1, <4>2
    <3> QED BY <1>3, <3>1, <3>2 DEF Mapped
  <2>10. Subscribed'
    <3>1. ASSUME NEW t \in Tags, srv[t] # NoSub
          PROVE  /\ tag[srv[t]] = t /\ stream'[srv[t]] = "live"
                 /\ \A m \in Under : m.type = "cancel" => m.sub # srv[t]
      <4>1. srv[t] \in Subs
        BY <3>1 DEF TypeOK
      <4> QED BY <1>2, <1>15, <2>3, <3>1, <4>1, Distinct DEF Subscribed
    <3> QED BY <1>2, <1>3, <1>4, <3>1 DEF Subscribed
  <2>11. \A m \in Under : stream'[m.sub] # "unborn"
    BY <1>2, <1>12, <1>15, <2>3, Distinct DEF Announced
  <2>12. Announced'
    BY <1>4, <1>5, <1>11, <2>11 DEF Announced, Under
  <2>13. \A m \in Under : stream[m.sub] \notin Over
    BY <1>3 DEF Ended, Fresh, TurnOver, Under
  <2>14. \A m \in Coming : stream'[m.sub] \notin Over
    BY <1>12, <2>3, <2>13 DEF Under
  <2>15. Ended'
    BY <1>4, <1>13, <2>14 DEF Ended
  <2>16. ASSUME NEW m \in Under, NEW u \in Subs, u # m.sub, tag[u] = m.tag PROVE stream'[u] # "live"
    <3>1. u # s
      BY <1>12, <2>5, <2>13, <2>16
    <3> QED BY <2>3, <2>16, <3>1 DEF Fresh
  <2>17. Fresh'
    BY <1>3, <1>4, <1>14, <2>16 DEF Fresh
  <2>18. Delivered'
    <3>1. \A u \in Subs : stream'[u] \in Over <=> stream[u] \in Over
      BY <2>2, <2>3
    <3> QED BY <1>3, <1>4, <1>12, <3>1 DEF Delivered
  <2>19. Known'
    BY <1>2, <1>3, <1>4, <1>15, <2>2, <2>3, Distinct DEF Known
  <2> QED BY <1>8, <1>9, <2>6, <2>8, <2>9, <2>10, <2>12, <2>15, <2>17, <2>18, <2>19
<1>16. CASE resolved = ToCancel(s)
  <2>1. /\ consumers' = [consumers EXCEPT ![tag[s]] = NoSub]
        /\ \/ stream' = [stream EXCEPT ![s] = IF @ = "live" THEN "left" ELSE @]
           \/ stream' = [stream EXCEPT ![s] = "destroyed"]
    BY <1>16, Distinct DEF Continue, Unregister, Leave, EndStream
  <2>2. /\ s \in cancelled /\ stream[s] # "unborn" /\ tag[s] \in Tags /\ tag[s] # NoTag
        /\ Occurs(ToCancel(s), calls)
    BY <1>2, <1>16 DEF Called, TypeOK
  <2>3. stream'[s] \in Over /\ \A u \in Subs : u # s => stream'[u] = stream[u]
    BY <2>1, <2>2 DEF TypeOK
  <2>4. consumers'[tag[s]] = NoSub /\ \A t \in Tags : t # tag[s] => consumers'[t] = consumers[t]
    BY <2>1, <2>2 DEF TypeOK
  <2>5. \A u \in Subs : u # s /\ tag[u] = tag[s] => stream[u] # "live"
    BY <2>2 DEF Sole
  <2>6. Called'
    <3>1. \A u \in Subs : Occurs(ToConsume(u), calls)' <=> tag[u] # NoTag /\ stream'[u] = "unborn"
      BY <1>2, <1>16, <2>2, <2>3, Distinct DEF Called
    <3>2. \A u \in Subs : Occurs(ToCancel(u), calls)' => u \in cancelled /\ stream'[u] # "unborn"
      BY <1>2, <2>3 DEF Called
    <3>3. \A u \in cancelled : stream'[u] # "unborn"
      BY <2>3 DEF Called, TypeOK
    <3>4. \A u \in Subs : stream'[u] # "unborn" => tag[u] # NoTag
      BY <2>2, <2>3 DEF Called
    <3> QED BY <1>3, <1>6, <3>1, <3>2, <3>3, <3>4 DEF Called
  <2>7. Sole'
    <3> SUFFICES ASSUME NEW x \in Subs, NEW u \in Subs, x # u, tag[x] = tag[u], tag[x] # NoTag
                 PROVE  /\ stream'[x] \in Over \/ stream'[u] \in Over
                        /\ Occurs(ToCancel(x), calls)' => stream'[u] # "live"
      BY <1>3, <1>10 DEF Sole
    <3> QED BY <1>2, <2>3 DEF Sole
  <2>8. Mapped'
    <3>1. ASSUME NEW u \in Subs, stream'[u] = "live" PROVE consumers'[tag[u]] = u
      <4>1. u # s /\ stream[u] = "live" /\ tag[u] # tag[s]
        BY <2>3, <2>5, <3>1
      <4>2. tag[u] \in Tags
        BY <4>1 DEF Called, TypeOK
      <4> QED BY <2>4, <4>1, <4>2 DEF Mapped
    <3>2. ASSUME NEW t \in Tags, consumers'[t] # NoSub
          PROVE  tag[consumers'[t]] = t /\ stream'[consumers'[t]] = "live"
      <4>1. t # tag[s] /\ consumers'[t] = consumers[t] /\ consumers[t] \in Subs
        BY <2>4, <3>2 DEF TypeOK
      <4>2. tag[consumers[t]] = t /\ stream[consumers[t]] = "live"
        BY <3>2, <4>1 DEF Mapped
      <4> QED BY <2>3, <4>1, <4>2
    <3> QED BY <1>3, <3>1, <3>2 DEF Mapped
  <2>9. Subscribed'
    <3>1. ASSUME NEW t \in Tags, srv[t] # NoSub
          PROVE  /\ tag[srv[t]] = t /\ stream'[srv[t]] = "live"
                 /\ \A m \in Under : m.type = "cancel" => m.sub # srv[t]
      <4>1. srv[t] \in Subs
        BY <3>1 DEF TypeOK
      <4>2. srv[t] # s /\ ~Reached(ToConsume(srv[t]))
        BY <1>2, <1>16, <3>1, Distinct DEF Subscribed
      <4> QED BY <2>3, <3>1, <4>1, <4>2 DEF Subscribed
    <3> QED BY <1>2, <1>3, <1>4, <3>1 DEF Subscribed
  <2>10. \A m \in Under : stream'[m.sub] # "unborn"
    BY <1>2, <1>12, <1>16, <2>3, Distinct DEF Announced
  <2>11. Announced'
    BY <1>4, <1>5, <1>11, <2>10 DEF Announced, Under
  <2>12. \A m \in Coming : stream'[m.sub] \notin Over
    <3>1. \A m \in Coming : m.sub \in Subs /\ m.sub # s
      BY <1>12, <1>16 DEF Ended, Under
    <3> QED BY <2>3, <3>1 DEF Ended
  <2>13. Ended'
    BY <1>4, <1>13, <2>12 DEF Ended
  <2>14. Fresh'
    <3>1. \A u \in Subs : stream'[u] = "live" => stream[u] = "live"
      BY <2>3
    <3> QED BY <1>3, <1>4, <1>14, <3>1 DEF Fresh
  <2>15. Delivered'
    <3>1. \A u \in Subs : u # s => (stream'[u] \in Over <=> stream[u] \in Over)
      BY <2>3
    <3> QED BY <1>3, <1>4, <1>12, <2>2, <2>3, <3>1 DEF Delivered
  <2>16. Known'
    BY <1>2, <1>3, <1>4, <1>16, <2>2, <2>3, Distinct DEF Known
  <2> QED BY <1>8, <1>9, <2>6, <2>7, <2>8, <2>9, <2>11, <2>13, <2>14, <2>15, <2>16
<1> QED BY <1>1, <1>15, <1>16

\* A handler keeps the invariant: it finds its own consumer, or that one has ended.
LEMMA RunKeeps ==
  ASSUME IInv, RunImmediate, TypeOK'
  PROVE  IInv'
<1> USE DEF IInv
<1> DEFINE h == immediates[1]
           s == h.sub
<1>1. /\ h \in Commands /\ Len(immediates') = Len(immediates) - 1 /\ Len(immediates) \in Nat
      /\ 1 \in 1 .. Len(immediates)
      /\ \A i \in 1 .. Len(immediates') :
           immediates'[i] = immediates[i + 1] /\ i + 1 \in 1 .. Len(immediates)
      /\ Read = Read' \union {h} /\ Coming' = Coming
  <2>1. Len(immediates) \in Nat \ {0}
    BY RunNext
  <2>2. 1 \in 1 .. Len(immediates)
    BY <2>1
  <2> QED BY <2>1, <2>2, RunNext
<1>2. Under = Under' \union {h} /\ h \in Read /\ h \in Under
  BY <1>1 DEF Under
<1>3. /\ s \in Subs /\ h.tag \in Tags /\ tag[s] = h.tag /\ h.type \in {"deliver", "cancel"}
  BY <1>2, Tagged
<1>4. /\ ~reading /\ resolved = NoCall /\ TurnOver /\ TurnOver'
      /\ UNCHANGED <<tag, cancelled, calls, reading, resolved, c2s, s2c, srv, sent>>
      /\ HandleDelivery(h) \/ HandleCancel(h)
  BY DEF RunImmediate, TurnOver, Oldest
<1>5. stream[s] # "unborn" /\ stream[s] \in {"unborn", "live", "left", "destroyed"}
  BY <1>2, <1>3, <1>4 DEF Announced, TypeOK
<1>6. consumers[h.tag] = IF stream[s] = "live" THEN s ELSE NoSub
  <2>1. CASE stream[s] = "live"
    BY <1>3, <2>1 DEF Mapped
  <2>2. CASE stream[s] # "live"
    <3>1. SUFFICES ASSUME consumers[h.tag] # NoSub PROVE FALSE
      BY <2>2
    <3>2. consumers[h.tag] \in Subs
      BY <1>3, <3>1 DEF TypeOK
    <3>3. tag[consumers[h.tag]] = h.tag /\ stream[consumers[h.tag]] = "live"
      BY <1>3, <3>1 DEF Mapped
    <3> QED BY <1>2, <2>2, <3>2, <3>3 DEF Fresh
  <2> QED BY <2>1, <2>2
<1>7. NoSub # s
  BY <1>3, ConsumersAssumption
<1>8. \A m \in Under' : /\ m \in Under /\ m.sub \in Subs
                        /\ m.type \in {"deliver", "cancel"}
  BY <1>2, Tagged
<1>9. \A m \in Under' : Before(h, m)
  <2>1. ASSUME NEW m \in Read' PROVE Before(h, m)
    <3>1. PICK i \in 1 .. Len(immediates') : immediates'[i] = m
      BY <2>1 DEF Read, Occurs
    <3>2. i + 1 \in 1 .. Len(immediates) /\ 1 < i + 1 /\ immediates[i + 1] = m
      BY <1>1, <3>1
    <3> QED BY <1>1, <3>2 DEF InOrder, Sorted
  <2>2. ASSUME NEW m \in Coming' PROVE Before(h, m)
    BY <1>1, <1>2, <2>2 DEF InOrder
  <2> QED BY <2>1, <2>2 DEF Under
<1>10. \A m \in Under' : m.sub = s => h.type = "deliver" /\ (m.type = "deliver" => h.n < m.n)
  BY <1>3, <1>8, <1>9 DEF Before
<1>11. InOrder'
  <2>1. Sorted(immediates)'
    <3>1. ASSUME NEW i \in 1 .. Len(immediates'), NEW j \in 1 .. Len(immediates'), i < j
          PROVE  Before(immediates'[i], immediates'[j])
      <4>1. i + 1 \in 1 .. Len(immediates) /\ j + 1 \in 1 .. Len(immediates) /\ i + 1 < j + 1
        BY <1>1, <3>1
      <4>2. Before(immediates[i + 1], immediates[j + 1])
        BY <4>1 DEF InOrder, Sorted
      <4> QED BY <1>1, <4>2
    <3> QED BY <3>1 DEF Sorted
  <2> QED BY <1>1, <1>4, <2>1 DEF InOrder, Sorted
<1>12. /\ \A i \in 1 .. Len(s2c') : tag'[s2c'[i].sub] = s2c'[i].tag
       /\ \A i \in 1 .. Len(immediates') :
            tag'[immediates'[i].sub] = immediates'[i].tag /\ immediates'[i].type # "ok"
  BY <1>1, <1>4 DEF Announced
<1>13. /\ \A i : Answer(i)' <=> Answer(i)
       /\ \A x : Reached(x)' <=> Reached(x)
       /\ \A x : Occurs(x, calls)' <=> Occurs(x, calls)
  BY <1>4 DEF Answer, Reached, Occurs
<1>14. Serial'
  BY <1>4, <1>13 DEF Serial
<1> HIDE DEF h
<1>15. CASE UNCHANGED <<consumers, stream>> /\ (h.type = "deliver" \/ stream[s] \in Over)
  <2>1. Called' /\ Sole' /\ Mapped'
    BY <1>4, <1>15 DEF Called, Sole, Mapped, Occurs
  <2>2. Subscribed'
    BY <1>2, <1>4, <1>13, <1>15 DEF Subscribed
  <2>3. Announced'
    BY <1>1, <1>2, <1>4, <1>12, <1>13, <1>15 DEF Announced
  <2>4. Ended'
    BY <1>1, <1>4, <1>13, <1>15 DEF Ended
  <2>5. Fresh'
    BY <1>2, <1>4, <1>15 DEF Fresh
  <2>6. Known'
    <3>1. ASSUME NEW u \in Subs,
                 stream[u] = "live" \/ (stream[u] = "unborn" /\ Reached(ToConsume(u)))
          PROVE  \/ srv[tag[u]] = u
                 \/ \E m \in Under' : m.type = "cancel" /\ m.sub = u
                 \/ Reached(ToCancel(u))
      <4>1. \/ srv[tag[u]] = u
            \/ \E m \in Under : m.type = "cancel" /\ m.sub = u
            \/ Reached(ToCancel(u))
        BY <3>1 DEF Known
      <4>2. h.type = "cancel" => h.sub # u
        BY <1>5, <1>15, <3>1
      <4> QED BY <1>2, <4>1, <4>2
    <3> QED BY <1>4, <1>13, <1>15, <3>1 DEF Known
  <2>7. Delivered'
    <3>1. CASE h.type = "deliver" /\ stream[s] = "live"
      <4>1. dropped' = dropped /\ got' = [got EXCEPT ![s] = Append(got[s], <<s, h.n>>)]
        BY <1>4, <1>6, <1>7, <3>1 DEF HandleDelivery, HandleCancel
      <4>2. got[s] \in Seq(Subs \X Nat) /\ <<s, h.n>> \in Subs \X Nat /\ h.n \in Nat
        BY <1>1, <1>3 DEF TypeOK, Commands
      <4>3. got'[s] = Append(got[s], <<s, h.n>>) /\ \A u \in Subs : u # s => got'[u] = got[u]
        BY <1>3, <4>1 DEF TypeOK
      <4>4. /\ Len(got[s]) \in Nat /\ Len(got'[s]) = Len(got[s]) + 1
            /\ got'[s][Len(got[s]) + 1] = <<s, h.n>>
            /\ \A i \in 1 .. Len(got[s]) : got'[s][i] = got[s][i]
        BY <4>2, <4>3, AppendProperties
      <4>5. sent[s] \in Nat /\ h.n \in Len(got[s]) + 1 .. sent[s]
        BY <1>2, <1>3, <3>1 DEF Delivered, TypeOK
      <4>6. h.n = Len(got[s]) + 1
        <5>1. SUFFICES ASSUME h.n # Len(got[s]) + 1 PROVE FALSE
          OBVIOUS
        <5>2. Len(got[s]) + 1 \in Len(got[s]) + 1 .. sent[s] /\ ~(h.n < Len(got[s]) + 1)
          BY <4>2, <4>4, <4>5
        <5>3. PICK m \in Under : m.type = "deliver" /\ m.sub = s /\ m.n = Len(got[s]) + 1
          BY <1>3, <3>1, <5>2 DEF Delivered
        <5>4. m \in Under'
          BY <1>2, <5>1, <5>3
        <5> QED BY <1>10, <5>2, <5>3, <5>4
      <4>7. \A u \in Subs : \A i \in 1 .. Len(got'[u]) : got'[u][i] = <<u, i>>
        <5>1. \A i \in 1 .. Len(got'[s]) : i \in 1 .. Len(got[s]) \/ i = Len(got[s]) + 1
          BY <4>4
        <5>2. \A i \in 1 .. Len(got'[s]) : got'[s][i] = <<s, i>>
          <6>1. \A i \in 1 .. Len(got[s]) : got[s][i] = <<s, i>>
            BY <1>3 DEF Delivered
          <6> QED BY <4>4, <4>6, <5>1, <6>1
        <5>3. ASSUME NEW u \in Subs, u # s PROVE \A i \in 1 .. Len(got'[u]) : got'[u][i] = <<u, i>>
          <6>1. got'[u] = got[u]
            BY <4>3, <5>3
          <6> QED BY <6>1 DEF Delivered
        <5> QED BY <5>2, <5>3
      <4>8. ASSUME NEW u \in Subs, stream[u] \notin Over, NEW n \in Len(got'[u]) + 1 .. sent[u]
            PROVE  \E m \in Under' : m.type = "deliver" /\ m.sub = u /\ m.n = n
        <5>1. n \in Len(got[u]) + 1 .. sent[u] /\ (u = s => n # h.n)
          BY <4>3, <4>4, <4>5, <4>6, <4>8
        <5>2. PICK m \in Under : m.type = "deliver" /\ m.sub = u /\ m.n = n
          BY <4>8, <5>1 DEF Delivered
        <5>3. m # h
          BY <5>1, <5>2
        <5> QED BY <1>2, <5>2, <5>3
      <4>9. ASSUME NEW m \in Under', m.type = "deliver"
            PROVE  IF stream[m.sub] \in Over THEN m.sub \in cancelled
                                                  ELSE m.n \in Len(got'[m.sub]) + 1 .. sent[m.sub]
        <5>1. IF stream[m.sub] \in Over THEN m.sub \in cancelled
                                             ELSE m.n \in Len(got[m.sub]) + 1 .. sent[m.sub]
          BY <1>8, <4>9 DEF Delivered
        <5>2. CASE m.sub = s
          <6>1. h.n < m.n /\ m.n \in Len(got[s]) + 1 .. sent[s]
            BY <1>10, <3>1, <4>9, <5>1, <5>2
          <6> QED BY <3>1, <4>4, <4>5, <4>6, <5>2, <6>1
        <5>3. CASE m.sub # s
          BY <1>8, <4>3, <5>1, <5>3
        <5> QED BY <5>2, <5>3
      <4>10. \A u \in Subs : Len(got'[u]) <= sent[u]
        <5>1. Len(got'[s]) <= sent[s]
          BY <4>4, <4>5, <4>6
        <5> QED BY <4>3, <5>1 DEF Delivered
      <4>11. \A m \in dropped : m.sub \in cancelled
        BY DEF Delivered
      <4> HIDE DEF s
      <4> QED BY <1>4, <1>15, <4>1, <4>7, <4>8, <4>9, <4>10, <4>11 DEF Delivered
    <3>2. CASE stream[s] \in Over
      <4>1. /\ got' = got
            /\ dropped' = dropped \/ (h.type = "deliver" /\ dropped' = dropped \union {h})
        BY <1>4, <1>6, <3>2 DEF HandleDelivery, HandleCancel
      <4>2. h.type = "deliver" => s \in cancelled
        BY <1>2, <3>2 DEF Delivered
      <4>3. ASSUME NEW u \in Subs, stream[u] \notin Over, NEW n \in Len(got[u]) + 1 .. sent[u]
            PROVE  \E m \in Under' : m.type = "deliver" /\ m.sub = u /\ m.n = n
        <5>1. PICK m \in Under : m.type = "deliver" /\ m.sub = u /\ m.n = n
          BY <4>3 DEF Delivered
        <5>2. m # h
          BY <3>2, <4>3, <5>1
        <5> QED BY <1>2, <5>1, <5>2
      <4>4. \A m \in dropped' : m.sub \in cancelled
        BY <4>1, <4>2 DEF Delivered
      <4> QED BY <1>4, <1>8, <1>15, <4>1, <4>3, <4>4 DEF Delivered
    <3> QED BY <1>3, <1>5, <1>15, <3>1, <3>2
  <2> QED BY <1>11, <1>14, <2>1, <2>2, <2>3, <2>4, <2>5, <2>6, <2>7
<1>16. CASE h.type = "cancel" /\ stream[s] = "live"
  <2>1. /\ consumers' = [consumers EXCEPT ![h.tag] = NoSub]
        /\ stream' = [stream EXCEPT ![s] = "destroyed"]
        /\ UNCHANGED <<got, dropped>>
    BY <1>4, <1>6, <1>7, <1>16 DEF HandleDelivery, HandleCancel, EndStream, Unregister
  <2>2. stream'[s] \in Over /\ \A u \in Subs : u # s => stream'[u] = stream[u]
    BY <1>3, <2>1 DEF TypeOK
  <2>3. consumers'[h.tag] = NoSub /\ \A t \in Tags : t # h.tag => consumers'[t] = consumers[t]
    BY <1>3, <2>1 DEF TypeOK
  <2>4. \A m \in Under' : m.sub # s
    BY <1>10, <1>16
  <2>5. \A u \in Subs : stream'[u] = "unborn" <=> stream[u] = "unborn"
    BY <1>16, <2>2
  <2>6. \A u \in Subs : stream'[u] = "live" => stream[u] = "live" /\ u # s
    BY <2>2
  <2>7. Called'
    BY <1>4, <1>13, <2>5 DEF Called, TypeOK
  <2>8. Sole'
    BY <1>4, <1>13, <2>2, <2>6 DEF Sole
  <2>9. Mapped'
    <3>1. ASSUME NEW u \in Subs, stream'[u] = "live" PROVE consumers'[tag[u]] = u
      <4>1. consumers[tag[u]] = u /\ u # s
        BY <2>6, <3>1 DEF Mapped
      <4>2. tag[u] # h.tag
        BY <1>6, <1>16, <4>1
      <4>3. tag[u] \in Tags
        BY <2>6, <3>1 DEF Called, TypeOK
      <4> QED BY <2>3, <4>1, <4>2, <4>3
    <3>2. ASSUME NEW t \in Tags, consumers'[t] # NoSub
          PROVE  tag[consumers'[t]] = t /\ stream'[consumers'[t]] = "live"
      <4>1. t # h.tag /\ consumers'[t] = consumers[t] /\ consumers[t] \in Subs
        BY <2>3, <3>2 DEF TypeOK
      <4>2. tag[consumers[t]] = t /\ stream[consumers[t]] = "live"
        BY <3>2, <4>1 DEF Mapped
      <4> QED BY <1>3, <2>2, <4>1, <4>2
    <3> QED BY <1>4, <3>1, <3>2 DEF Mapped
  <2>10. Subscribed'
    <3>1. ASSUME NEW t \in Tags, srv[t] # NoSub
          PROVE  /\ tag[srv[t]] = t
                 /\ \/ stream'[srv[t]] = "live"
                    \/ stream'[srv[t]] = "unborn" /\ Reached(ToConsume(srv[t]))
                 /\ ~Reached(ToCancel(srv[t]))
                 /\ \A m \in Under' : m.type = "cancel" => m.sub # srv[t]
      <4>1. srv[t] \in Subs /\ srv[t] # s
        BY <1>2, <1>16, <3>1 DEF TypeOK, Subscribed
      <4> QED BY <1>2, <2>2, <3>1, <4>1 DEF Subscribed
    <3> QED BY <1>4, <1>13, <3>1 DEF Subscribed
  <2>11. Announced'
    <3>1. \A m \in Under' : stream'[m.sub] # "unborn" \/ Reached(ToConsume(m.sub))
      BY <1>8, <2>5 DEF Announced
    <3>2. \A m \in Read' : stream'[m.sub] # "unborn" \/ resolved # NoCall
      <4>1. \A m \in Read' : m \in Read /\ m.sub \in Subs
        BY <1>1, <1>8 DEF Under
      <4> QED BY <2>5, <4>1 DEF Announced
    <3>3. \A i, j \in 1 .. Len(s2c) : i < j /\ Answer(j) => stream'[s2c[i].sub] # "unborn"
      <4>1. \A i \in 1 .. Len(s2c) : s2c[i].sub \in Subs
        <5>1. \A i \in 1 .. Len(s2c) : s2c[i] \in Commands
          BY DEF TypeOK
        <5> QED BY <5>1 DEF Commands
      <4> QED BY <2>5, <4>1 DEF Announced
    <3> QED BY <1>4, <1>12, <1>13, <3>1, <3>2, <3>3 DEF Announced
  <2>12. Ended'
    <3>1. \A m \in Coming' : stream'[m.sub] \notin Over
      <4>1. \A m \in Coming' : m \in Coming /\ m.sub \in Subs /\ m.sub # s
        BY <1>1, <1>8, <2>4 DEF Under
      <4> QED BY <2>2, <4>1 DEF Ended
    <3> QED BY <1>1, <1>4, <1>13, <3>1 DEF Ended
  <2>13. Fresh'
    BY <1>2, <1>4, <2>6 DEF Fresh
  <2>14. Delivered'
    <3>1. ASSUME NEW u \in Subs, stream'[u] \notin Over, NEW n \in Len(got[u]) + 1 .. sent[u]
          PROVE  \E m \in Under' : m.type = "deliver" /\ m.sub = u /\ m.n = n
      <4>1. u # s /\ stream[u] \notin Over
        BY <2>2, <3>1
      <4>2. PICK m \in Under : m.type = "deliver" /\ m.sub = u /\ m.n = n
        BY <3>1, <4>1 DEF Delivered
      <4> QED BY <1>2, <1>16, <4>2
    <3>2. ASSUME NEW m \in Under', m.type = "deliver"
          PROVE  IF stream'[m.sub] \in Over THEN m.sub \in cancelled
                                                 ELSE m.n \in Len(got[m.sub]) + 1 .. sent[m.sub]
      <4>1. stream'[m.sub] = stream[m.sub] /\ m \in Under
        BY <1>8, <2>2, <2>4, <3>2
      <4> QED BY <3>2, <4>1 DEF Delivered
    <3> QED BY <1>4, <2>1, <3>1, <3>2 DEF Delivered
  <2>15. Known'
    <3>1. ASSUME NEW u \in Subs,
                 stream'[u] = "live" \/ (stream'[u] = "unborn" /\ Reached(ToConsume(u)))
          PROVE  \/ srv[tag[u]] = u
                 \/ \E m \in Under' : m.type = "cancel" /\ m.sub = u
                 \/ Reached(ToCancel(u))
      <4>1. u # s /\ stream'[u] = stream[u]
        BY <2>2, <3>1
      <4>2. \/ srv[tag[u]] = u
            \/ \E m \in Under : m.type = "cancel" /\ m.sub = u
            \/ Reached(ToCancel(u))
        BY <3>1, <4>1 DEF Known
      <4> QED BY <1>2, <4>1, <4>2
    <3> QED BY <1>4, <1>13, <3>1 DEF Known
  <2> QED BY <1>11, <1>14, <2>7, <2>8, <2>9, <2>10, <2>11, <2>12, <2>13, <2>14, <2>15
<1> QED
  <2>1. \/ UNCHANGED <<consumers, stream>> /\ (h.type = "deliver" \/ stream[s] \in Over)
        \/ h.type = "cancel" /\ stream[s] = "live"
    <3>1. h.type = "deliver" => UNCHANGED <<consumers, stream>>
      BY <1>4 DEF HandleDelivery, HandleCancel
    <3>2. h.type = "cancel" /\ stream[s] # "live" => UNCHANGED <<consumers, stream>>
      BY <1>4, <1>6 DEF HandleDelivery, HandleCancel
    <3> QED BY <1>3, <1>5, <3>1, <3>2
  <2> QED BY <1>15, <1>16, <2>1

-----------------------------------------------------------------------------
(***************************************************************************)
(* The server.                                                             *)
(***************************************************************************)
\* Answering a call keeps the invariant.
LEMMA ServerStepKeeps ==
  ASSUME IInv, ServerStep, TypeOK'
  PROVE  IInv'
<1> USE DEF IInv
<1> DEFINE c == Head(c2s)
           m == Command("ok", c.sub, 0)
<1>1. /\ calls # <<>> /\ c = Head(calls) /\ c2s # <<>> /\ c2s' = <<>>
      /\ resolved = NoCall /\ \A i : ~Answer(i)
      /\ c \in Requests /\ c.sub \in Subs /\ tag[c.sub] \in Tags
      /\ Occurs(c, calls)
      /\ \E s \in Subs : c = ToConsume(s) \/ c = ToCancel(s)
  BY Arrives
<1>2. /\ srv' = [srv EXCEPT ![tag[c.sub]] = IF c.kind = "consume" THEN c.sub ELSE NoSub]
      /\ s2c' = Append(s2c, m)
      /\ UNCHANGED <<consumers, stream, tag, got, dropped, cancelled, calls, reading, resolved,
                     immediates, crashed, sent>>
  BY DEF ServerStep, client
<1>3. m \in Commands /\ m.type = "ok" /\ m.tag = tag[m.sub]
  BY <1>1 DEF Command, Commands
<1> HIDE DEF m
<1>4. /\ Len(s2c) \in Nat /\ Len(s2c') = Len(s2c) + 1 /\ s2c'[Len(s2c) + 1] = m
      /\ \A i \in 1 .. Len(s2c) : s2c'[i] = s2c[i] /\ i \in 1 .. Len(s2c')
      /\ \A i \in 1 .. Len(s2c') : i \in 1 .. Len(s2c) \/ i = Len(s2c) + 1
      /\ Read' = Read /\ Coming' = Coming
  BY <1>2, <1>3, SendNext
<1>5. Under' = Under
  BY <1>4 DEF Under
<1>6. \A i : Answer(i)' <=> i = Len(s2c) + 1
  <2>1. ASSUME NEW i, Answer(i)' PROVE i = Len(s2c) + 1
    <3>1. i \in 1 .. Len(s2c') /\ s2c'[i].type = "ok"
      BY <2>1 DEF Answer
    <3>2. i \in 1 .. Len(s2c) => Answer(i)
      BY <1>4, <3>1 DEF Answer
    <3> QED BY <1>1, <1>4, <3>1, <3>2
  <2>2. ASSUME NEW i, i = Len(s2c) + 1 PROVE Answer(i)'
    <3>1. i \in 1 .. Len(s2c') /\ s2c'[i].type = "ok"
      BY <1>3, <1>4, <2>2
    <3> QED BY <3>1 DEF Answer
  <2> QED BY <2>1, <2>2
<1>7. \A x : ~Reached(x)
  BY <1>1 DEF Reached
<1>8. \A x : Reached(x)' <=> x = c
  BY <1>1, <1>2 DEF Reached
<1>9. \A x \in Under : x.sub \in Subs /\ stream[x.sub] # "unborn"
  BY <1>7, Tagged DEF Announced
<1>10. Called' /\ Sole' /\ Mapped'
  BY <1>2 DEF Called, Sole, Mapped, Occurs
<1>11. Serial'
  <2>1. \E i : Answer(i)'
    BY <1>6
  <2> QED BY <1>1, <1>2, <1>6, <2>1 DEF Serial
<1>12. Fresh' /\ Delivered'
  BY <1>2, <1>5, <1>4 DEF Fresh, Delivered, TurnOver
<1>13. InOrder'
  <2>1. Sorted(s2c)'
    <3>1. ASSUME NEW i \in 1 .. Len(s2c'), NEW j \in 1 .. Len(s2c'), i < j
          PROVE  Before(s2c'[i], s2c'[j])
      <4>1. CASE j \in 1 .. Len(s2c)
        BY <1>4, <3>1, <4>1 DEF InOrder, Sorted
      <4>2. CASE j = Len(s2c) + 1
        BY <1>3, <1>4, <4>2 DEF Before
      <4> QED BY <1>4, <4>1, <4>2
    <3> QED BY <3>1 DEF Sorted
  <2> QED BY <1>2, <1>4, <2>1 DEF InOrder, Sorted
<1>14. Announced'
  <2>1. \A i \in 1 .. Len(s2c') : tag'[s2c'[i].sub] = s2c'[i].tag
    BY <1>2, <1>3, <1>4 DEF Announced
  <2>2. ASSUME NEW i \in 1 .. Len(s2c'), NEW j \in 1 .. Len(s2c'), i < j, Answer(j)'
        PROVE  stream'[s2c'[i].sub] # "unborn"
    <3>1. i \in 1 .. Len(s2c)
      BY <1>4, <1>6, <2>2
    <3>2. s2c[i] \in Commands
      BY <3>1 DEF TypeOK
    <3>3. s2c[i].type # "ok"
      BY <1>1, <3>1 DEF Answer
    <3>4. s2c[i] \in Under
      BY <3>1, <3>2, <3>3 DEF Under, Coming, Occurs
    <3> QED BY <1>2, <1>4, <1>9, <3>1, <3>4
  <2>3. \A i \in 1 .. Len(immediates') :
          tag'[immediates'[i].sub] = immediates'[i].tag /\ immediates'[i].type # "ok"
    BY <1>2 DEF Announced
  <2>4. \A x \in Read' : stream'[x.sub] # "unborn" \/ resolved' # NoCall
    BY <1>2, <1>4 DEF Announced
  <2> QED BY <1>2, <1>5, <1>9, <2>1, <2>2, <2>3, <2>4 DEF Announced
<1>15. Ended'
  <2>1. ASSUME NEW u \in Subs, NEW j \in 1 .. Len(s2c'), Answer(j)', NEW i \in j + 1 .. Len(s2c')
        PROVE  FALSE
    <3>1. j = Len(s2c) + 1
      BY <1>6, <2>1
    <3> QED BY <1>4, <2>1, <3>1
  <2>2. \A u \in Subs : resolved' # ToCancel(u)
    BY <1>1, <1>2 DEF NoCall, ToCancel
  <2>3. \A x \in Coming' : stream'[x.sub] \notin Over
    BY <1>2, <1>4 DEF Ended
  <2> QED BY <2>1, <2>2, <2>3 DEF Ended
<1>16. PICK s \in Subs : c = ToConsume(s) \/ c = ToCancel(s)
  BY <1>1
<1>17. c.sub = s /\ tag[s] \in Tags
  BY <1>1, <1>16, Distinct
<1>18. \A u \in Subs : stream[u] = "live" /\ u # s => tag[u] # tag[s] /\ tag[u] \in Tags
  <2>1. ASSUME NEW u \in Subs, stream[u] = "live" PROVE tag[u] # NoTag /\ tag[u] \in Tags
    BY <2>1 DEF Called, TypeOK
  <2>2. ASSUME NEW u \in Subs, stream[u] = "live", u # s, tag[u] = tag[s] PROVE FALSE
    <3>1. tag[s] # NoTag
      BY <2>1, <2>2
    <3>2. CASE c = ToConsume(s)
      <4>1. stream[s] = "unborn"
        BY <1>1, <3>2 DEF Called
      <4> QED BY <2>2, <3>1, <4>1 DEF Sole
    <3>3. CASE c = ToCancel(s)
      BY <1>1, <2>2, <3>1, <3>3 DEF Sole
    <3> QED BY <1>16, <3>2, <3>3
  <2> QED BY <2>1, <2>2
<1> HIDE DEF c
<1>19. srv'[tag[s]] = (IF c.kind = "consume" THEN s ELSE NoSub)
       /\ \A t \in Tags : t # tag[s] => srv'[t] = srv[t]
  BY <1>2, <1>17 DEF TypeOK
<1>20. Subscribed'
  <2>1. ASSUME NEW t \in Tags, srv'[t] # NoSub
        PROVE  /\ tag[srv'[t]] = t
               /\ stream[srv'[t]] = "live" \/ (stream[srv'[t]] = "unborn" /\ c = ToConsume(srv'[t]))
               /\ c # ToCancel(srv'[t])
               /\ \A x \in Under : x.type = "cancel" => x.sub # srv'[t]
    <3>1. CASE t = tag[s]
      <4>1. c = ToConsume(s) /\ srv'[t] = s
        BY <1>16, <1>19, <2>1, <3>1, Distinct
      <4>2. stream[s] = "unborn"
        BY <1>1, <4>1 DEF Called
      <4> QED BY <1>9, <3>1, <4>1, <4>2, Distinct
    <3>2. CASE t # tag[s]
      <4>1. srv'[t] = srv[t] /\ srv[t] # NoSub
        BY <1>19, <2>1, <3>2
      <4>2. /\ tag[srv[t]] = t /\ stream[srv[t]] = "live"
            /\ \A x \in Under : x.type = "cancel" => x.sub # srv[t]
        BY <1>7, <4>1 DEF Subscribed
      <4>3. srv[t] # s
        BY <3>2, <4>2
      <4> QED BY <1>16, <4>1, <4>2, <4>3, Distinct
    <3> QED BY <3>1, <3>2
  <2> QED BY <1>2, <1>5, <1>8, <2>1 DEF Subscribed
<1>21. Known'
  <2>1. ASSUME NEW u \in Subs, stream[u] = "live" \/ (stream[u] = "unborn" /\ c = ToConsume(u))
        PROVE  \/ srv'[tag[u]] = u
               \/ \E x \in Under : x.type = "cancel" /\ x.sub = u
               \/ c = ToCancel(u)
    <3>1. CASE c = ToConsume(u)
      BY <1>16, <1>19, <3>1, Distinct
    <3>2. CASE stream[u] = "live" /\ u # s
      <4>1. srv[tag[u]] = u \/ \E x \in Under : x.type = "cancel" /\ x.sub = u
        BY <1>7, <3>2 DEF Known
      <4> QED BY <1>18, <1>19, <3>2, <4>1
    <3>3. CASE stream[u] = "live" /\ u = s
      <4>1. c # ToConsume(s)
        BY <1>1, <3>3 DEF Called
      <4> QED BY <1>16, <3>3, <4>1
    <3> QED BY <2>1, <3>1, <3>2, <3>3
  <2> QED BY <1>2, <1>5, <1>8, <2>1 DEF Known
<1> QED BY <1>10, <1>11, <1>12, <1>13, <1>14, <1>15, <1>20, <1>21

\* What a subscription sends keeps to the order and comes for a consumer that has not ended.
LEMMA SendKeeps ==
  ASSUME IInv, NEW t \in Tags, srv[t] # NoSub,
         NEW m \in Commands, m.type # "ok", m.tag = t, m.sub = srv[t],
         \A x \in Under : Before(x, m),
         s2c' = Append(s2c, m), UNCHANGED <<client, c2s>>
  PROVE  /\ Called' /\ Serial' /\ Sole' /\ Mapped' /\ Announced' /\ Ended' /\ Fresh' /\ InOrder'
         /\ Under' = Under \union {m} /\ \A x : Reached(x)' <=> Reached(x)
         /\ srv[t] \in Subs /\ tag[srv[t]] = t /\ stream[srv[t]] \notin Over
<1> USE DEF IInv
<1> DEFINE s == srv[t]
<1>1. UNCHANGED <<consumers, stream, tag, got, dropped, cancelled, detached, calls, reading,
                  resolved, immediates, crashed, c2s>>
  BY DEF client
<1>2. /\ s \in Subs /\ tag[s] = t /\ t # NoTag /\ m.sub = s
      /\ stream[s] = "live" \/ (stream[s] = "unborn" /\ Reached(ToConsume(s)))
      /\ ~Reached(ToCancel(s))
  BY ConsumersAssumption DEF Subscribed, TypeOK
<1>3. /\ Len(s2c) \in Nat /\ Len(s2c') = Len(s2c) + 1 /\ s2c'[Len(s2c) + 1] = m
      /\ \A i \in 1 .. Len(s2c) : s2c'[i] = s2c[i] /\ i \in 1 .. Len(s2c')
      /\ \A i \in 1 .. Len(s2c') : i \in 1 .. Len(s2c) \/ i = Len(s2c) + 1
      /\ Read' = Read /\ Coming' = Coming \union {m}
  BY <1>1, SendNext
<1>4. Under' = Under \union {m}
  BY <1>3 DEF Under
<1>5. \A x : Reached(x)' <=> Reached(x)
  BY <1>1 DEF Reached
<1> HIDE DEF s
<1>6. \A i : Answer(i)' <=> Answer(i)
  <2>1. ASSUME NEW i, Answer(i)' PROVE Answer(i)
    <3>1. i \in 1 .. Len(s2c') /\ s2c'[i].type = "ok"
      BY <2>1 DEF Answer
    <3>2. i \in 1 .. Len(s2c)
      BY <1>3, <3>1
    <3> QED BY <1>3, <3>1, <3>2 DEF Answer
  <2>2. ASSUME NEW i, Answer(i) PROVE Answer(i)'
    <3>1. i \in 1 .. Len(s2c) /\ s2c[i].type = "ok"
      BY <2>2 DEF Answer
    <3> QED BY <1>3, <3>1 DEF Answer
  <2> QED BY <2>1, <2>2
<1>7. Called' /\ Sole' /\ Mapped'
  BY <1>1 DEF Called, Sole, Mapped, Occurs
<1>8. Serial'
  BY <1>1, <1>6 DEF Serial
<1>9. Announced'
  <2>1. \A i \in 1 .. Len(s2c') : tag'[s2c'[i].sub] = s2c'[i].tag
    BY <1>1, <1>2, <1>3 DEF Announced
  <2>2. ASSUME NEW i \in 1 .. Len(s2c'), NEW j \in 1 .. Len(s2c'), i < j, Answer(j)'
        PROVE  stream'[s2c'[i].sub] # "unborn"
    <3>1. j \in 1 .. Len(s2c) /\ Answer(j)
      BY <1>6, <2>2 DEF Answer
    <3>2. i \in 1 .. Len(s2c)
      BY <1>3, <2>2, <3>1
    <3> QED BY <1>1, <1>3, <2>2, <3>1, <3>2 DEF Announced
  <2>3. \A i \in 1 .. Len(immediates') :
          tag'[immediates'[i].sub] = immediates'[i].tag /\ immediates'[i].type # "ok"
    BY <1>1 DEF Announced
  <2>4. \A x \in Read' : stream'[x.sub] # "unborn" \/ resolved' # NoCall
    BY <1>1, <1>3 DEF Announced
  <2>5. \A x \in Under' : stream'[x.sub] # "unborn" \/ Reached(ToConsume(x.sub))'
    BY <1>1, <1>2, <1>4, <1>5 DEF Announced
  <2> QED BY <2>1, <2>2, <2>3, <2>4, <2>5 DEF Announced
<1>10. Ended'
  <2>1. ASSUME NEW u \in Subs, NEW j \in 1 .. Len(s2c'), Reached(ToCancel(u))', Answer(j)',
               NEW i \in j + 1 .. Len(s2c')
        PROVE  s2c'[i].sub # u
    <3>1. Reached(ToCancel(u)) /\ Answer(j) /\ j \in 1 .. Len(s2c)
      BY <1>5, <1>6, <2>1 DEF Answer
    <3>2. i \in j + 1 .. Len(s2c) \/ i = Len(s2c) + 1
      BY <1>3, <2>1
    <3>3. CASE i \in j + 1 .. Len(s2c)
      <4>1. i \in 1 .. Len(s2c)
        BY <1>3, <3>1, <3>3
      <4> QED BY <1>3, <3>1, <3>3, <4>1 DEF Ended
    <3>4. CASE i = Len(s2c) + 1
      BY <1>2, <1>3, <3>1, <3>4
    <3> QED BY <3>2, <3>3, <3>4
  <2>2. ASSUME NEW u \in Subs, resolved' = ToCancel(u), NEW x \in Coming' PROVE x.sub # u
    <3>1. resolved = ToCancel(u) /\ resolved # NoCall
      BY <1>1, <2>2 DEF NoCall, ToCancel
    <3>2. Reached(ToCancel(u))
      BY <3>1 DEF Serial, Reached
    <3> QED BY <1>2, <1>3, <2>2, <3>1, <3>2 DEF Ended
  <2>3. \A x \in Coming' : stream'[x.sub] \notin Over
    BY <1>1, <1>2, <1>3 DEF Ended
  <2> QED BY <2>1, <2>2, <2>3 DEF Ended
<1>11. Fresh'
  <2>1. \A u \in Subs : u # s /\ tag[u] = t => stream[u] # "live"
    BY <1>2 DEF Sole
  <2>2. \A x \in Under', u \in Subs : u # x.sub /\ tag[u] = x.tag => stream[u] # "live"
    BY <1>2, <1>4, <2>1 DEF Fresh
  <2> QED BY <1>1, <1>3, <2>2 DEF Fresh, TurnOver
<1>12. InOrder'
  <2>1. Sorted(s2c)'
    <3>1. ASSUME NEW i \in 1 .. Len(s2c'), NEW j \in 1 .. Len(s2c'), i < j
          PROVE  Before(s2c'[i], s2c'[j])
      <4>1. CASE j \in 1 .. Len(s2c)
        <5>1. i \in 1 .. Len(s2c)
          BY <1>3, <3>1, <4>1
        <5> QED BY <1>3, <3>1, <4>1, <5>1 DEF InOrder, Sorted
      <4>2. CASE j = Len(s2c) + 1
        <5>1. i \in 1 .. Len(s2c) /\ s2c[i] \in Commands
          BY <1>3, <3>1, <4>2 DEF TypeOK
        <5>2. CASE s2c[i].type = "ok"
          BY <1>3, <4>2, <5>1, <5>2 DEF Before
        <5>3. CASE s2c[i].type # "ok"
          <6>1. s2c[i] \in Under
            BY <5>1, <5>3 DEF Under, Coming, Occurs
          <6> QED BY <1>3, <4>2, <5>1, <6>1
        <5> QED BY <5>2, <5>3
      <4> QED BY <1>3, <4>1, <4>2
    <3> QED BY <3>1 DEF Sorted
  <2>2. Sorted(immediates)'
    BY <1>1 DEF InOrder, Sorted
  <2>3. \A x \in Read', y \in Coming' : Before(x, y)
    BY <1>3 DEF InOrder, Under
  <2> QED BY <2>1, <2>2, <2>3 DEF InOrder
<1> QED BY <1>2, <1>4, <1>5, <1>7, <1>8, <1>9, <1>10, <1>11, <1>12 DEF s

\* Of a consumer that the server still has, only deliveries are under way, up to the last.
LEMMA OnlyDeliveries ==
  ASSUME IInv, NEW t \in Tags, srv[t] # NoSub, NEW x \in Under, x.sub = srv[t]
  PROVE  x.type = "deliver" /\ x.n \in Len(got[srv[t]]) + 1 .. sent[srv[t]]
<1> USE DEF IInv
<1>1. x.type = "deliver"
  BY Tagged DEF Subscribed
<1>2. stream[x.sub] \notin Over
  BY DEF Subscribed
<1> QED BY <1>1, <1>2 DEF Delivered

\* A delivery keeps the invariant.
LEMMA ServerDeliversKeeps ==
  ASSUME IInv, NEW t \in Tags, ServerDelivers(t), TypeOK'
  PROVE  IInv'
<1> USE DEF IInv
<1> DEFINE s == srv[t]
           m == Command("deliver", s, sent[s] + 1)
<1>1. /\ s # NoSub /\ sent' = [sent EXCEPT ![s] = sent[s] + 1] /\ s2c' = Append(s2c, m)
      /\ UNCHANGED <<client, c2s, srv>>
      /\ UNCHANGED <<stream, tag, got, dropped, cancelled>>
  BY DEF ServerDelivers, client
<1>2. s \in Subs /\ tag[s] = t /\ sent[s] \in Nat /\ Len(got[s]) \in Nat
  BY <1>1 DEF Subscribed, TypeOK
<1>3. m \in Commands /\ m.type = "deliver" /\ m.tag = t /\ m.sub = s /\ m.n = sent[s] + 1
  BY <1>2 DEF Command, Commands
<1> HIDE DEF m
<1>4. ASSUME NEW x \in Under PROVE Before(x, m)
  <2>1. x.sub = s => x.type = "deliver" /\ x.n \in Len(got[s]) + 1 .. sent[s]
    BY <1>1, OnlyDeliveries
  <2> QED BY <1>2, <1>3, <2>1 DEF Before
<1>5. /\ Called' /\ Serial' /\ Sole' /\ Mapped' /\ Announced' /\ Ended' /\ Fresh' /\ InOrder'
      /\ Under' = Under \union {m} /\ \A x : Reached(x)' <=> Reached(x)
      /\ stream[s] \notin Over
  BY <1>1, <1>3, <1>4, SendKeeps
<1> HIDE DEF s
<1>6. Subscribed'
  BY <1>1, <1>3, <1>5 DEF Subscribed
<1>7. Known'
  BY <1>1, <1>5 DEF Known
<1>8. sent'[s] = sent[s] + 1 /\ \A u \in Subs : u # s => sent'[u] = sent[u]
  BY <1>1, <1>2 DEF TypeOK
<1>9. Delivered'
  <2>1. ASSUME NEW u \in Subs, stream[u] \notin Over, NEW n \in Len(got[u]) + 1 .. sent'[u]
        PROVE  \E x \in Under' : x.type = "deliver" /\ x.sub = u /\ x.n = n
    <3>1. n \in Len(got[u]) + 1 .. sent[u] \/ (u = s /\ n = sent[s] + 1)
      BY <1>2, <1>8, <2>1
    <3> QED BY <1>3, <1>5, <2>1, <3>1 DEF Delivered
  <2>2. ASSUME NEW x \in Under', x.type = "deliver"
        PROVE  IF stream[x.sub] \in Over THEN x.sub \in cancelled
                                              ELSE x.n \in Len(got[x.sub]) + 1 .. sent'[x.sub]
    <3>1. CASE x = m
      <4>1. Len(got[s]) <= sent[s]
        BY <1>2 DEF Delivered
      <4>2. sent[s] + 1 \in Len(got[s]) + 1 .. sent'[s]
        BY <1>2, <1>8, <4>1
      <4> QED BY <1>3, <1>5, <3>1, <4>2
    <3>2. CASE x \in Under
      <4>1. IF stream[x.sub] \in Over THEN x.sub \in cancelled
                                           ELSE x.n \in Len(got[x.sub]) + 1 .. sent[x.sub]
        BY <2>2, <3>2 DEF Delivered
      <4>2. x.sub \in Subs
        BY <3>2, Tagged
      <4> QED BY <1>2, <1>8, <4>1, <4>2
    <3> QED BY <1>5, <2>2, <3>1, <3>2
  <2>3. \A u \in Subs : Len(got[u]) <= sent'[u]
    <3>1. Len(got[s]) <= sent'[s]
      BY <1>2, <1>8 DEF Delivered
    <3> QED BY <1>8, <3>1 DEF Delivered
  <2> QED BY <1>1, <2>1, <2>2, <2>3 DEF Delivered
<1> QED BY <1>5, <1>6, <1>7, <1>9

\* The end of a subscription keeps the invariant.
LEMMA ServerCancelsKeeps ==
  ASSUME IInv, NEW t \in Tags, ServerCancels(t), TypeOK'
  PROVE  IInv'
<1> USE DEF IInv
<1> DEFINE s == srv[t]
           m == Command("cancel", s, 0)
<1>1. /\ s # NoSub /\ srv' = [srv EXCEPT ![t] = NoSub] /\ s2c' = Append(s2c, m)
      /\ UNCHANGED <<client, c2s>>
      /\ UNCHANGED <<stream, tag, got, dropped, cancelled, sent>>
  BY DEF ServerCancels, client
<1>2. s \in Subs /\ tag[s] = t
  BY <1>1 DEF Subscribed, TypeOK
<1>3. m \in Commands /\ m.type = "cancel" /\ m.tag = t /\ m.sub = s
  BY <1>2 DEF Command, Commands
<1> HIDE DEF m
<1>4. ASSUME NEW x \in Under PROVE Before(x, m)
  <2>1. x.sub = s => x.type = "deliver"
    BY <1>1, OnlyDeliveries
  <2> QED BY <1>3, <2>1 DEF Before
<1>5. /\ Called' /\ Serial' /\ Sole' /\ Mapped' /\ Announced' /\ Ended' /\ Fresh' /\ InOrder'
      /\ Under' = Under \union {m} /\ \A x : Reached(x)' <=> Reached(x)
  BY <1>1, <1>3, <1>4, SendKeeps
<1>6. srv'[t] = NoSub /\ \A u \in Tags : u # t => srv'[u] = srv[u]
  BY <1>1 DEF TypeOK
<1>7. Subscribed'
  <2>1. ASSUME NEW u \in Tags, srv'[u] # NoSub PROVE srv'[u] = srv[u] /\ srv[u] # s
    <3>1. srv'[u] = srv[u] /\ u # t
      BY <1>6, <2>1
    <3>2. tag[srv[u]] = u
      BY <2>1, <3>1 DEF Subscribed
    <3> QED BY <1>2, <3>1, <3>2
  <2> QED BY <1>1, <1>3, <1>5, <2>1 DEF Subscribed
<1>8. Known'
  <2>1. ASSUME NEW u \in Subs, stream[u] = "live" \/ (stream[u] = "unborn" /\ Reached(ToConsume(u)))
        PROVE  \/ srv'[tag[u]] = u
               \/ \E x \in Under' : x.type = "cancel" /\ x.sub = u
               \/ Reached(ToCancel(u))
    <3>1. \/ srv[tag[u]] = u
          \/ \E x \in Under : x.type = "cancel" /\ x.sub = u
          \/ Reached(ToCancel(u))
      BY <2>1 DEF Known
    <3>2. CASE srv[tag[u]] = u /\ tag[u] = t
      BY <1>3, <1>5, <3>2
    <3>3. CASE srv[tag[u]] = u /\ tag[u] # t
      <4>1. stream[u] = "unborn" /\ Reached(ToConsume(u)) => Occurs(ToConsume(u), calls)
        BY FirstCall DEF Reached
      <4>2. tag[u] \in Tags
        BY <2>1, <4>1 DEF Called, TypeOK
      <4> QED BY <1>6, <3>3, <4>2
    <3> QED BY <1>5, <3>1, <3>2, <3>3
  <2> QED BY <1>1, <1>5, <2>1 DEF Known
<1>9. Delivered'
  BY <1>1, <1>3, <1>5 DEF Delivered
<1> QED BY <1>5, <1>7, <1>8, <1>9

-----------------------------------------------------------------------------
(***************************************************************************)
(* The theorems.                                                           *)
(***************************************************************************)
\* The channel starts without consumers.
LEMMA InitIInv == Init => IInv
<1> SUFFICES ASSUME Init PROVE IInv
  OBVIOUS
<1> USE ConsumersAssumption
<1>1. /\ calls = <<>> /\ c2s = <<>> /\ s2c = <<>> /\ immediates = <<>> /\ resolved = NoCall
      /\ dropped = {} /\ cancelled = {} /\ detached = {} /\ reading = FALSE /\ crashed = FALSE
      /\ stream = [s \in Subs |-> "unborn"] /\ tag = [s \in Subs |-> NoTag]
      /\ got = [s \in Subs |-> <<>>] /\ sent = [s \in Subs |-> 0]
      /\ consumers = [t \in Tags |-> NoSub] /\ srv = [t \in Tags |-> NoSub]
  BY DEF Init
<1>2. 1 .. Len(<<>>) = {}
  OBVIOUS
<1>3. Read = {} /\ Coming = {} /\ Under = {}
  BY <1>1, <1>2 DEF Read, Coming, Under, Occurs
<1>4. \A x : ~Reached(x) /\ ~Occurs(x, calls)
  BY <1>1, <1>2 DEF Reached, Occurs
<1>5. \A i : ~Answer(i)
  BY <1>1, <1>2 DEF Answer
<1>6. TypeOK
  <2>1. \A S : <<>> \in Seq(S)
    OBVIOUS
  <2>2. got \in [Subs -> Seq(Subs \X Nat)]
    BY <1>1, <2>1
  <2>3. calls \in Seq(Requests) /\ c2s \in Seq(Requests)
    BY <1>1, <2>1
  <2>4. immediates \in Seq(Commands) /\ s2c \in Seq(Commands)
    BY <1>1, <2>1
  <2> QED BY <1>1, <2>2, <2>3, <2>4 DEF TypeOK
<1>7. Called /\ Serial /\ Sole
  BY <1>1, <1>2, <1>4, <1>5 DEF Called, Serial, Sole
<1>8. Mapped /\ Subscribed /\ Known
  BY <1>1, <1>3, <1>4 DEF Mapped, Subscribed, Known
<1>9. Announced /\ Fresh /\ InOrder
  BY <1>1, <1>2, <1>3 DEF Announced, Fresh, InOrder, Sorted
<1>10. Ended
  BY <1>1, <1>2, <1>3, <1>4 DEF Ended
<1>11. Delivered
  BY <1>1, <1>2, <1>3 DEF Delivered
<1> QED BY <1>6, <1>7, <1>8, <1>9, <1>10, <1>11 DEF IInv

\* A step that changes nothing keeps the invariant.
LEMMA StutterKeeps == IInv /\ UNCHANGED vars => IInv'
<1> SUFFICES ASSUME IInv, UNCHANGED vars PROVE IInv'
  OBVIOUS
<1> USE DEF IInv
<1>1. UNCHANGED <<consumers, stream, tag, got, dropped, cancelled, detached, calls, reading,
                  resolved, immediates, crashed, c2s, s2c, srv, sent>>
  BY DEF vars, client
<1>2. /\ Read' = Read /\ Coming' = Coming /\ Under' = Under
      /\ \A i : Answer(i)' <=> Answer(i)
      /\ \A x : Reached(x)' <=> Reached(x)
  BY <1>1, SameUnder DEF Under, Answer, Reached
<1>3. TypeOK'
  BY <1>1 DEF TypeOK
<1>4. Called' /\ Sole' /\ Mapped'
  BY <1>1 DEF Called, Sole, Mapped, Occurs
<1>5. Serial'
  BY <1>1, <1>2 DEF Serial
<1>6. Subscribed' /\ Known'
  BY <1>1, <1>2 DEF Subscribed, Known
<1>7. Announced'
  BY <1>1, <1>2 DEF Announced
<1>8. Ended'
  BY <1>1, <1>2 DEF Ended
<1>9. Fresh' /\ InOrder'
  BY <1>1, <1>2 DEF Fresh, TurnOver, InOrder, Sorted
<1>10. Delivered'
  BY <1>1, <1>2 DEF Delivered
<1> QED BY <1>3, <1>4, <1>5, <1>6, <1>7, <1>8, <1>9, <1>10

\* Every step keeps it.
LEMMA NextIInv == IInv /\ [Next]_vars => IInv'
<1> SUFFICES ASSUME IInv, [Next]_vars PROVE IInv'
  OBVIOUS
<1>1. TypeOK'
  BY TypeStep DEF IInv
<1>2. ASSUME NEW s \in Subs, NEW t \in Tags, Consume(s, t) PROVE IInv'
  BY <1>1, <1>2, ConsumeKeeps
<1>3. ASSUME NEW s \in Subs, Cancel(s) \/ BasicCancel(s) PROVE IInv'
  BY <1>1, <1>3, CancelKeeps DEF Cancel, BasicCancel
<1>4. ASSUME NEW more \in BOOLEAN, RecvCommand(more) PROVE IInv'
  BY <1>1, <1>4, RecvKeeps
<1>5. CASE Continue
  BY <1>1, <1>5, ContinueKeeps
<1>6. CASE RunImmediate
  BY <1>1, <1>6, RunKeeps
<1>7. CASE ServerStep
  BY <1>1, <1>7, ServerStepKeeps
<1>8. ASSUME NEW t \in Tags, ServerDelivers(t) PROVE IInv'
  BY <1>1, <1>8, ServerDeliversKeeps
<1>9. ASSUME NEW t \in Tags, ServerCancels(t) PROVE IInv'
  BY <1>1, <1>9, ServerCancelsKeeps
<1>10. CASE UNCHANGED vars
  BY <1>10, StutterKeeps
<1> QED BY <1>2, <1>3, <1>4, <1>5, <1>6, <1>7, <1>8, <1>9, <1>10 DEF Next

\* Every variable of the channel, the transport and the server keeps its type.
THEOREM ConsumersTypeCorrect == Spec => []TypeOK
<1>1. IInv => TypeOK
  BY DEF IInv
<1> QED BY <1>1, InitIInv, NextIInv, PTL DEF Spec

\* A consumer gets its own deliveries, all of them, in order and once, however its tag was used
\* before; and only a consumer that the application cancelled misses any.
THEOREM OwnDeliveriesHold == Spec => []OwnDeliveriesInOrder
<1>1. IInv => OwnDeliveriesInOrder
  BY DEF IInv, Delivered, OwnDeliveriesInOrder
<1> QED BY <1>1, InitIInv, NextIInv, PTL DEF Spec

\* A stream that is open and out of the map is that of a consumer whose tag the application
\* gave to basicCancel() itself.
Forgotten == \A s \in Subs : stream[s] = "left" => s \in detached

\* Every step keeps this: only the end of such a call leaves a stream.
LEMMA ForgottenStep == IInv /\ Forgotten /\ [Next]_vars => Forgotten'
<1> SUFFICES ASSUME IInv, Forgotten, [Next]_vars PROVE Forgotten'
  OBVIOUS
<1>1. stream \in [Subs -> {"unborn", "live", "left", "destroyed"}]
  BY DEF IInv, TypeOK
<1>2. CASE Continue
  BY <1>1, <1>2 DEF Continue, Leave, EndStream, Forgotten
<1>3. CASE RunImmediate
  BY <1>1, <1>3 DEF RunImmediate, HandleDelivery, HandleCancel, EndStream, Forgotten
<1>4. CASE UNCHANGED stream /\ (UNCHANGED detached \/ \E s \in Subs : detached' = detached \union {s})
  BY <1>4 DEF Forgotten
<1> QED BY <1>2, <1>3, <1>4 DEF Next, Consume, Cancel, BasicCancel, CallCancel, RecvCommand,
     ServerStep, ServerDelivers, ServerCancels, client, vars

\* With nothing under way, channel and server have the same consumers, and the streams that are
\* open are theirs, and those of consumers whose tag the application gave to basicCancel().
THEOREM AgreeAtRestHolds == Spec => []AgreeAtRest
<1>1. IInv /\ Forgotten => AgreeAtRest
  <2> SUFFICES ASSUME IInv, Forgotten, Quiet
               PROVE  /\ consumers = srv
                      /\ \A s \in Subs : stream[s] = "live" <=> \E t \in Tags : consumers[t] = s
    BY DEF AgreeAtRest, Forgotten
  <2> USE ConsumersAssumption DEF IInv
  <2>1. calls = <<>> /\ s2c = <<>> /\ immediates = <<>>
    BY DEF Quiet
  <2>2. Under = {} /\ \A x : ~Reached(x)
    <3>1. 1 .. Len(<<>>) = {}
      OBVIOUS
    <3> QED BY <2>1, <3>1 DEF Under, Read, Coming, Occurs, Reached
  <2>3. ASSUME NEW t \in Tags PROVE consumers[t] = srv[t]
    <3>1. CASE consumers[t] # NoSub
      <4>1. consumers[t] \in Subs /\ tag[consumers[t]] = t /\ stream[consumers[t]] = "live"
        BY <3>1 DEF Mapped, TypeOK
      <4> QED BY <2>2, <4>1 DEF Known
    <3>2. CASE srv[t] # NoSub
      <4>1. srv[t] \in Subs /\ tag[srv[t]] = t /\ stream[srv[t]] = "live"
        BY <2>2, <3>2 DEF Subscribed, TypeOK
      <4> QED BY <4>1 DEF Mapped
    <3> QED BY <3>1, <3>2
  <2>4. consumers = srv
    BY <2>3 DEF TypeOK
  <2>5. ASSUME NEW s \in Subs PROVE stream[s] = "live" <=> \E t \in Tags : consumers[t] = s
    <3>1. stream[s] = "live" => tag[s] \in Tags
      BY DEF Called, TypeOK
    <3> QED BY <3>1 DEF Mapped
  <2> QED BY <2>4, <2>5
<1>2. Init => Forgotten
  BY DEF Init, Forgotten
<1> QED BY <1>1, <1>2, InitIInv, NextIInv, ForgottenStep, PTL DEF Spec
=============================================================================
