-------------------------- MODULE ChannelRPCProofs --------------------------
(***************************************************************************)
(* A channel, for any operations, methods and classes, whether or not the  *)
(* server is in time: first its calls, then how it comes to its end.       *)
(*                                                                         *)
(* Of the end: Closing is the invariant for RefusalReported, Sparing the   *)
(* one for SparesConnection, and Course the one under which what one       *)
(* channel does is what ChannelManager says of each of its channels        *)
(* (LivesAsManaged).                                                       *)
(***************************************************************************)
EXTENDS ChannelRPC, TLAPS, FiniteSetTheorems, SequenceTheorems

\* The calls that the server may refuse, and those that close the channel.
Own == Ops \union {"open"}
\* The two attempts of close().
Closes == {"close1", "close2"}

\* A call that has not begun.
Pending == {"idle", "queued"}
\* The stages of a loop that reads, and of one that has not ended.
Reading == {"waiting", "read", "next"}
Busy == Reading \union {"matched", "refused", "broke"}

\* What an array contains.
Occurs(x, a) == \E i \in 1 .. Len(a) : a[i] = x
\* No element of an array occurs twice.
Once(a) == \A i, j \in 1 .. Len(a) : a[i] = a[j] => i = j

\* The types.
TypeOK ==
  /\ state \in {"closed", "open", "closing"}
  /\ destroyed \in BOOLEAN /\ closeArmed \in BOOLEAN /\ closePending \in BOOLEAN
  /\ buf \in Seq(Commands) /\ c2s \in Seq(Commands) /\ s2c \in Seq(Commands)
  /\ queue \in Seq(Calls) /\ started \in Seq(Calls)
  /\ call \in [Calls -> Pending \union {"active"} \union Finals]
  /\ loop \in [Calls -> Busy \union {"none", "over"}]
  /\ hand \in [Calls -> Commands]
  /\ settled \in [Classes -> BOOLEAN]
  /\ timer \in [Classes -> Calls \union {Nobody}]
  /\ active \in [Classes -> Calls \union {Nobody}]
  /\ ticking \subseteq Calls
  /\ stage \in {"unborn", "opening", "open", "draining", "first", "last", "closed", "failed"}
  /\ drain \subseteq Calls
  /\ answer \in [Calls -> Calls \union {Nobody}]
  /\ srv \in {"none", "open", "closing", "fault"}
  /\ cause \in Calls \union {Nobody}
  /\ stray \in BOOLEAN

\* The protocols of open() and close(): which of their calls have been made at a stage,
\* and that nothing but flow() is called before the channel is open.
Stages ==
  /\ stage = "unborn" <=> call["open"] = "idle"
  /\ stage \in {"unborn", "opening", "open", "draining"} => call["close1"] = "idle"
  /\ stage \in {"unborn", "opening", "open", "draining", "first"} => call["close2"] = "idle"
  /\ stage \in {"open", "draining", "first", "last", "closed"} => call["open"] = "ok"
  /\ state # "closed" => call["open"] = "ok"
  /\ state = "open" => stage = "open"
  /\ call["open"] = "idle" => \A c \in Calls : call[c] = "idle"
  /\ call["open"] # "ok" =>
       \A c \in Calls \ {"open"} : call[c] = "idle" \/ (c \in Ops /\ Unchecked(c))

\* The mutex: the call that is under way is at the head of the queue, and the youngest.
\* Nothing begins before the open is decided.
Holder ==
  /\ call["open"] \in {"queued", "active"} =>
       /\ queue # <<>> /\ Head(queue) = "open"
       /\ \A c \in Calls \ {"open"} : call[c] \in Pending
  /\ \A i \in 1 .. Len(queue) : call[queue[i]] # "idle"
  /\ \A c \in Calls : call[c] = "active" =>
       /\ queue # <<>> /\ Head(queue) = c
       /\ started # <<>> /\ started[Len(started)] = c

\* Each call begins once, and has a loop from then on, which ends by itself before the
\* call is decided unless its timer goes off.
Loops ==
  /\ Once(started)
  /\ \A c \in Calls : Occurs(c, started) <=> call[c] \notin Pending
  /\ \A c \in Calls : loop[c] = "none" <=> call[c] \in Pending
  /\ \A c \in Calls : loop[c] \in Busy => call[c] \in {"active", "timeout"}

\* The part of the invariant that says where each call is.
Places == TypeOK /\ Stages /\ Holder /\ Loops

-----------------------------------------------------------------------------
\* The calls that open() and close() make are different ones, and none is Nobody.
LEMMA CallsDiffer ==
  /\ {"open", "close1", "close2"} \subseteq Calls /\ Ops \subseteq Calls
  /\ Nobody \notin Calls
  /\ "open" \notin Ops /\ "close1" \notin Ops /\ "close2" \notin Ops
  /\ \A c \in Calls : Method(c) = "open" <=> c = "open"
  /\ \A c \in Calls : Method(c) = "close" <=> c \in Closes
<1>1. \A c \in Ops : OpMethod[c] \notin {"open", "close"}
  BY ChannelRPCAssumption
<1> QED BY <1>1, ChannelRPCAssumption DEF Calls, Method, Closes

\* Every call has a class, and "channel" is that of open() and close().
LEMMA ClassType ==
  /\ \A c \in Calls : Class(c) \in Classes
  /\ "channel" \in Classes
  /\ Class("open") = "channel" /\ Class("close1") = "channel" /\ Class("close2") = "channel"
<1>1. \A c \in Calls : Method(c) \in DOMAIN ClassOfMethod
  BY ChannelRPCAssumption DEF Calls, Method
<1> QED BY <1>1, ChannelRPCAssumption DEF Class, Classes, Method

\* A command is one of Commands if what it is about is a call or nobody.
LEMMA CmdType ==
  /\ End \in Commands
  /\ \A t \in {"call", "reply", "empty", "close", "closeOk", "end"}, c \in Calls \union {Nobody} :
       Cmd(t, c) \in Commands /\ Cmd(t, c).type = t /\ Cmd(t, c).of = c
  BY DEF End, Cmd, Commands

\* Of the loops that wait there are finitely many, and each has its turn.
LEMMA TurnType ==
  ASSUME started \in Seq(Calls), \A c \in Readers : Occurs(c, started)
  PROVE  /\ IsFiniteSet(Readers) /\ Cardinality(Readers) \in Nat
         /\ \A c \in Readers : Once(started) => Turn(c) \in 1 .. Cardinality(Readers)
<1> DEFINE R == {started[i] : i \in 1 .. Len(started)}
           f == [i \in 1 .. Len(started) |-> started[i]]
<1>1. Len(started) \in Nat
  OBVIOUS
<1>2. IsFiniteSet(1 .. Len(started))
  BY <1>1, FS_Interval
<1>3. f \in Surjection(1 .. Len(started), R)
  BY DEF Surjection
<1>4. IsFiniteSet(R)
  BY <1>2, <1>3, FS_Surjection
<1>5. Readers \subseteq R
  BY DEF Occurs
<1>6. IsFiniteSet(Readers) /\ Cardinality(Readers) \in Nat
  BY <1>4, <1>5, FS_Subset, FS_CardinalityType
<1>7. ASSUME NEW c \in Readers, Once(started)
      PROVE  Turn(c) \in 1 .. Cardinality(Readers)
  <2> DEFINE D == {d \in Readers : ~Before(c, d)}
  <2>1. D \in SUBSET Readers
    OBVIOUS
  <2>2. IsFiniteSet(D) /\ Cardinality(D) \in Nat /\ Cardinality(D) <= Cardinality(Readers)
    BY <1>6, <2>1, FS_Subset, FS_CardinalityType
  <2>3. ~Before(c, c)
    BY <1>1, <1>7 DEF Before, Once
  <2>4. c \in D
    BY <1>7, <2>3
  <2>5. Cardinality(D) # 0
    BY <2>2, <2>4, FS_EmptySet
  <2>6. Turn(c) = Cardinality(D)
    BY DEF Turn
  <2> HIDE DEF D
  <2> QED BY <1>6, <2>2, <2>5, <2>6
<1> QED BY <1>6, <1>7

\* The end and a head of the commands not read.
LEMMA ReadNextType ==
  ASSUME TypeOK, NEW c \in Calls, ReadNext(c)
  PROVE  /\ buf' \in Seq(Commands)
         /\ loop' \in [Calls -> Busy \union {"none", "over"}]
         /\ hand' \in [Calls -> Commands]
         /\ loop'[c] \in {"next", "waiting"}
         /\ \A d \in Calls \ {c} : loop'[d] = loop[d] /\ hand'[d] = hand[d]
<1>1. CASE destroyed /\ loop' = [loop EXCEPT ![c] = "next"]
           /\ hand' = [hand EXCEPT ![c] = End] /\ UNCHANGED buf
  BY <1>1, CmdType DEF TypeOK, Busy, Reading
<1>2. CASE buf # <<>> /\ loop' = [loop EXCEPT ![c] = "next"]
           /\ hand' = [hand EXCEPT ![c] = Head(buf)] /\ buf' = Tail(buf)
  <2>1. Head(buf) \in Commands /\ Tail(buf) \in Seq(Commands)
    BY <1>2 DEF TypeOK
  <2> QED BY <1>2, <2>1 DEF TypeOK, Busy, Reading
<1>3. CASE loop' = [loop EXCEPT ![c] = "waiting"] /\ UNCHANGED <<hand, buf>>
  BY <1>3 DEF TypeOK, Busy, Reading
<1> QED BY <1>1, <1>2, <1>3 DEF ReadNext

\* It holds at first.
LEMMA InitTypes == Init => Places
<1> SUFFICES ASSUME Init PROVE Places
  OBVIOUS
<1>1. TypeOK
  <2>1. /\ call \in [Calls -> Pending \union {"active"} \union Finals]
        /\ loop \in [Calls -> Busy \union {"none", "over"}]
        /\ hand \in [Calls -> Commands]
    BY CmdType DEF Init, Pending
  <2>2. /\ buf \in Seq(Commands) /\ c2s \in Seq(Commands) /\ s2c \in Seq(Commands)
        /\ queue \in Seq(Calls) /\ started \in Seq(Calls)
    BY DEF Init
  <2> QED BY <2>1, <2>2 DEF Init, TypeOK
<1>2. Stages
  BY CallsDiffer DEF Init, Stages
<1>3. Holder
  BY CallsDiffer DEF Init, Holder
<1>4. Loops
  BY DEF Init, Loops, Once, Occurs, Pending, Busy, Reading
<1> QED BY <1>1, <1>2, <1>3, <1>4 DEF Places

\* Who is decided has the mutex and leaves it.
LEMMA DecideType ==
  ASSUME TypeOK, Holder, NEW c \in Calls, NEW result \in Finals, Decide(c, result)
  PROVE  /\ call' \in [Calls -> Pending \union {"active"} \union Finals]
         /\ queue' \in Seq(Calls)
<1>1. call[c] = "active" => queue # <<>>
  BY DEF Holder
<1>2. call[c] = "active" => Tail(queue) \in Seq(Calls)
  BY <1>1, HeadTailProperties DEF TypeOK
<1>3. queue' \in Seq(Calls)
  BY <1>2 DEF Decide, TypeOK
<1>4. call' \in [Calls -> Pending \union {"active"} \union Finals]
  BY DEF Decide, TypeOK
<1> QED BY <1>3, <1>4

\* Every step keeps the types.
LEMMA TypeStep ==
  ASSUME TypeOK, Loops, Holder, [Next]_vars
  PROVE  TypeOK'
<1>1. ASSUME NEW c \in Calls, Start(c) PROVE TypeOK'
  <2>1. ReadNext(c)
    BY <1>1 DEF Start
  <2>2. /\ call' \in [Calls -> Pending \union {"active"} \union Finals]
        /\ started' \in Seq(Calls) /\ queue' \in Seq(Calls)
    BY <1>1 DEF Start, TypeOK, Pending
  <2>3. c2s' \in Seq(Commands) /\ s2c' \in Seq(Commands)
    BY <1>1, CmdType DEF Start, TypeOK
  <2>4. /\ timer' \in [Classes -> Calls \union {Nobody}] /\ ticking' \subseteq Calls
        /\ active' \in [Classes -> Calls \union {Nobody}]
        /\ settled' \in [Classes -> BOOLEAN]
    BY <1>1, ClassType DEF Start, TypeOK, Timeout
  <2> QED BY <1>1, <2>1, <2>2, <2>3, <2>4, ReadNextType DEF Start, TypeOK
<1>2. ASSUME NEW c \in Calls, Body(c) PROVE TypeOK'
  <2>1. CASE ReadNext(c)
    BY <1>2, <2>1, ReadNextType DEF Body, TypeOK
  <2>2. CASE /\ \/ loop' = [loop EXCEPT ![c] = "broke"] 
                \/ loop' = [loop EXCEPT ![c] = "matched"]
                \/ loop' = [loop EXCEPT ![c] = "refused"]
             /\ UNCHANGED <<hand, buf>>
    BY <1>2, <2>2 DEF Body, TypeOK, Busy
  <2> QED BY <1>2, <2>1, <2>2 DEF Body
<1>3. ASSUME NEW c \in Calls, Leave(c) PROVE TypeOK'
  <2>0. hand[c].of \in Calls \union {Nobody}
    BY DEF TypeOK, Commands
  <2>1. /\ loop' \in [Calls -> Busy \union {"none", "over"}]
        /\ answer' \in [Calls -> Calls \union {Nobody}]
    BY <1>3, <2>0 DEF Leave, TypeOK
  <2>2. PICK result \in Finals : Decide(c, result)
    BY <1>3 DEF Leave, Finals
  <2>3. call' \in [Calls -> Pending \union {"active"} \union Finals] /\ queue' \in Seq(Calls)
    BY <2>2, DecideType
  <2>4. /\ timer' \in [Classes -> Calls \union {Nobody}] /\ ticking' \subseteq Calls
        /\ settled' \in [Classes -> BOOLEAN]
    BY <1>3 DEF Leave, TypeOK, Settle
  <2> QED BY <1>3, <2>1, <2>3, <2>4 DEF Leave, TypeOK
<1>4. ASSUME OnOpenOk \/ OpenFails \/ CloseFails PROVE TypeOK'
  <2>1. settled' \in [Classes -> BOOLEAN]
    BY <1>4, ClassType DEF OnOpenOk, OpenFails, CloseFails, TypeOK
  <2> QED BY <1>4, <2>1 DEF OnOpenOk, OpenFails, CloseFails, TypeOK, ExpectClose
<1>5. ASSUME CloseFirst \/ CloseAgain PROVE TypeOK'
  <2>1. PICK c \in Closes, next \in {"first", "last"} : RequestCloseOf(c, next)
    BY <1>5 DEF CloseFirst, CloseAgain, Closes
  <2>2. c \in Calls
    BY CallsDiffer DEF Closes
  <2> QED BY <2>1, <2>2 DEF RequestCloseOf, TypeOK, Pending
<1>6. ASSUME OnCloseOk \/ OnClose PROVE TypeOK'
  <2>1. /\ loop' \in [Calls -> Busy \union {"none", "over"}]
        /\ hand' \in [Calls -> Commands]
        /\ state' = "closed" /\ destroyed' = TRUE
    <3>1. Destroy
      BY <1>6 DEF OnCloseOk, OnClose
    <3>2. loop' \in [Calls -> Busy \union {"none", "over"}]
      BY <3>1 DEF Destroy, TypeOK, Busy, Reading
    <3>3. hand' \in [Calls -> Commands]
      BY <3>1, CmdType DEF Destroy, TypeOK
    <3> QED BY <3>1, <3>2, <3>3 DEF Destroy
  <2>2. c2s' \in Seq(Commands)
    <3>1. Append(c2s, Cmd("closeOk", Nobody)) \in Seq(Commands)
      BY CmdType DEF TypeOK
    <3> QED BY <1>6, <3>1 DEF OnCloseOk, OnClose, TypeOK, AfterCloseOk
  <2> QED BY <1>6, <2>1, <2>2 DEF OnCloseOk, OnClose, TypeOK
<1>7. ASSUME NEW k \in 1 .. Len(s2c), RecvChunk(k) PROVE TypeOK'
  <2> DEFINE all == buf \o SubSeq(s2c, 1, k)
  <2>1. SubSeq(s2c, 1, k) \in Seq(Commands) /\ s2c' \in Seq(Commands)
    BY <1>7 DEF RecvChunk, TypeOK
  <2>2. all \in Seq(Commands)
    BY <2>1, ConcatProperties DEF TypeOK
  <2>3. \A c \in Readers : Occurs(c, started)
    BY DEF Loops, Readers, Pending
  <2>4. /\ Cardinality(Readers) \in Nat
        /\ \A c \in Readers : Turn(c) \in 1 .. Cardinality(Readers)
    BY <2>3, TurnType DEF TypeOK, Loops
  <2>5. loop' = [c \in Calls |-> IF c \in Readers /\ Turn(c) <= Len(all) THEN "read" ELSE loop[c]]
    BY <1>7 DEF RecvChunk
  <2>6. hand' = [c \in Calls |-> IF c \in Readers /\ Turn(c) <= Len(all)
                                 THEN all[Turn(c)] ELSE hand[c]]
    BY <1>7 DEF RecvChunk
  <2>7. buf' = SubSeq(all, Cardinality(Readers) + 1, Len(all))
    BY <1>7 DEF RecvChunk
  <2> HIDE DEF all
  <2>8. loop' \in [Calls -> Busy \union {"none", "over"}]
    BY <2>5 DEF TypeOK, Busy, Reading
  <2>9. ASSUME NEW c \in Readers, Turn(c) <= Len(all) PROVE all[Turn(c)] \in Commands
    <3>1. Turn(c) \in 1 .. Len(all)
      BY <2>2, <2>4, <2>9
    <3> QED BY <2>2, <3>1
  <2>10. hand' \in [Calls -> Commands]
    BY <2>6, <2>9 DEF TypeOK
  <2>11. buf' \in Seq(Commands)
    <3>1. \A i \in Cardinality(Readers) + 1 .. Len(all) : all[i] \in Commands
      BY <2>2, <2>4
    <3> QED BY <2>2, <2>4, <2>7, <3>1, SubSeqProperties
  <2> QED BY <1>7, <2>1, <2>8, <2>10, <2>11 DEF RecvChunk, TypeOK
<1>8. ASSUME RecvStray PROVE TypeOK'
  BY <1>8 DEF RecvStray, TypeOK, client
<1>9. ASSUME NEW c \in Calls, Fire(c) PROVE TypeOK'
  <2>1. Decide(c, "timeout") /\ "timeout" \in Finals
    BY <1>9 DEF Fire, Finals
  <2>2. call' \in [Calls -> Pending \union {"active"} \union Finals] /\ queue' \in Seq(Calls)
    BY <2>1, DecideType
  <2>3. /\ timer' \in [Classes -> Calls \union {Nobody}] /\ ticking' \subseteq Calls
        /\ settled' \in [Classes -> BOOLEAN]
    BY <1>9 DEF Fire, TypeOK
  <2> QED BY <1>9, <2>1, <2>2, <2>3 DEF Fire, TypeOK
<1>10. ASSUME Create PROVE TypeOK'
  <2>1. queue' \in Seq(Calls)
    BY <1>10, CallsDiffer DEF Create
  <2>2. call' \in [Calls -> Pending \union {"active"} \union Finals]
    BY <1>10, CallsDiffer DEF Create, TypeOK, Pending
  <2> QED BY <1>10, <2>1, <2>2 DEF Create, TypeOK
<1>11. ASSUME NEW c \in Ops, Issue(c) PROVE TypeOK'
  BY <1>11, CallsDiffer DEF Issue, TypeOK, Pending
<1>12. ASSUME Close PROVE TypeOK'
  BY <1>12 DEF Close, TypeOK
<1>13. ASSUME ServerStep \/ ServerClose PROVE TypeOK'
  <2>1. c2s' \in Seq(Commands)
    <3>1. c2s # <<>> => Tail(c2s) \in Seq(Commands)
      BY HeadTailProperties DEF TypeOK
    <3> QED BY <1>13, <3>1 DEF ServerStep, ServerClose, TypeOK
  <2>2. /\ s2c' \in Seq(Commands) /\ srv' \in {"none", "open", "closing", "fault"}
        /\ cause' \in Calls \union {Nobody}
    <3>1. ASSUME NEW m \in Commands, NEW next \in {"none", "open", "closing"},
                 ServerSends(m, next)
          PROVE  /\ s2c' \in Seq(Commands) /\ srv' \in {"none", "open", "closing", "fault"}
                 /\ cause' \in Calls \union {Nobody}
      BY <3>1 DEF ServerSends, TypeOK, Commands
    <3>2. CASE ServerClose
      BY <3>1, <3>2, CmdType DEF ServerClose
    <3>3. CASE ServerStep /\ Head(c2s).type = "call"
      <4> DEFINE c == Head(c2s).of
      <4>1. c \in Calls \union {Nobody} /\ ServerTakesCall(c)
        <5>1. Head(c2s) \in Commands
          BY <3>3, HeadTailProperties DEF ServerStep, TypeOK
        <5> QED BY <3>3, <5>1 DEF ServerStep, Commands
      <4>2. CASE \E m \in Commands, next \in {"none", "open", "closing"} : ServerSends(m, next)
        BY <3>1, <4>2
      <4>3. CASE UNCHANGED <<s2c, cause>> /\ (srv' = srv \/ srv' = "fault")
        BY <4>3 DEF TypeOK
      <4> HIDE DEF c
      <4> QED BY <4>1, <4>2, <4>3, CmdType DEF ServerTakesCall
    <3>4. CASE ServerStep /\ Head(c2s).type = "closeOk"
      BY <3>4 DEF ServerStep, TypeOK
    <3> QED BY <1>13, <3>2, <3>3, <3>4 DEF ServerStep
  <2> QED BY <1>13, <2>1, <2>2 DEF ServerStep, ServerClose, TypeOK, client
<1>14. CASE UNCHANGED vars
  BY <1>14 DEF vars, client, TypeOK
<1> QED BY <1>1, <1>2, <1>3, <1>4, <1>5, <1>6, <1>7, <1>8, <1>9, <1>10, <1>11, <1>12,
           <1>13, <1>14 DEF Next, Micro

\* What a step does to the calls and the mutex.
Begins(c) ==
  /\ CanStart(c)
  /\ call' = [call EXCEPT ![c] = "active"] /\ started' = Append(started, c)
  /\ UNCHANGED queue
\* A call is queued behind the holder of the mutex.
Queues(c) ==
  /\ call[c] = "idle"
  /\ call' = [call EXCEPT ![c] = "queued"] /\ queue' = Append(queue, c)
  /\ UNCHANGED started
\* A call ends, by its loop or by its timer.
Decides(c) == \E result \in Finals : Decide(c, result) /\ UNCHANGED started

\* Each step has one of these effects, or none.
LEMMA CallSteps ==
  ASSUME Places, [Next]_vars
  PROVE  \/ UNCHANGED <<call, queue, started>>
         \/ \E c \in Calls : Begins(c) \/ Queues(c) \/ Decides(c)
<1>1. ASSUME NEW c \in Calls, Start(c) PROVE Begins(c)
  BY <1>1 DEF Start, Begins
<1>2. ASSUME NEW c \in Calls, Body(c) PROVE UNCHANGED <<call, queue, started>>
  BY <1>2 DEF Body
<1>3. ASSUME NEW c \in Calls, Leave(c) PROVE Decides(c)
  BY <1>3 DEF Leave, Decides, Finals
<1>4. ASSUME OnOpenOk \/ OpenFails \/ CloseFails \/ OnCloseOk \/ OnClose \/ RecvStray \/ Close
             \/ ServerStep \/ ServerClose
      PROVE  UNCHANGED <<call, queue, started>>
  BY <1>4 DEF OnOpenOk, OpenFails, CloseFails, OnCloseOk, OnClose, RecvStray, Close, ServerStep,
              ServerClose, client
<1>5. ASSUME CloseFirst PROVE Queues("close1")
  BY <1>5 DEF CloseFirst, RequestCloseOf, Queues, Places, Stages
<1>6. ASSUME CloseAgain PROVE Queues("close2")
  BY <1>6 DEF CloseAgain, RequestCloseOf, Queues, Places, Stages
<1>7. ASSUME NEW k \in 1 .. Len(s2c), RecvChunk(k) PROVE UNCHANGED <<call, queue, started>>
  BY <1>7 DEF RecvChunk
<1>8. ASSUME NEW c \in Calls, Fire(c) PROVE Decides(c)
  BY <1>8 DEF Fire, Decides, Finals
<1>9. ASSUME Create PROVE Queues("open")
  <2>1. call["open"] = "idle" /\ \A c \in Calls : call[c] = "idle"
    BY <1>9 DEF Create, Places, Stages
  <2>2. \A i \in 1 .. Len(queue) : FALSE
    BY <2>1 DEF Places, Holder, TypeOK
  <2>3. queue = <<>>
    BY <2>2 DEF Places, TypeOK
  <2>4. queue' = Append(queue, "open")
    BY <1>9, <2>3 DEF Create
  <2> QED BY <1>9, <2>1, <2>4 DEF Create, Queues
<1>10. ASSUME NEW c \in Ops, Issue(c) PROVE Queues(c)
  BY <1>10 DEF Issue, Queues
<1>11. CASE UNCHANGED vars
  BY <1>11 DEF vars, client
<1> QED BY <1>1, <1>2, <1>3, <1>4, <1>5, <1>6, <1>7, <1>8, <1>9, <1>10, <1>11, CallsDiffer
        DEF Next, Micro

\* A call goes from idle over queued and active to an end, and no further.
LEMMA CallGoesOn ==
  ASSUME Places, [Next]_vars, NEW c \in Calls
  PROVE  \/ call'[c] = call[c]
         \/ call[c] = "idle" /\ call'[c] = "queued"
         \/ call[c] = "queued" /\ call'[c] = "active"
         \/ call[c] = "active" /\ call'[c] \in Finals
  BY CallSteps DEF Begins, Queues, Decides, Decide, CanStart, Places, TypeOK

\* A call begins by Start.
LEMMA StartsBy ==
  ASSUME Places, [Next]_vars, NEW c \in Calls, call[c] = "queued", call'[c] = "active"
  PROVE  Start(c)
<1>0. TypeOK
  BY DEF Places
<1>1. ASSUME NEW d \in Calls, d # c, Start(d) PROVE FALSE
  BY <1>0, <1>1 DEF Start, TypeOK
<1>2. ASSUME NEW d \in Calls, Leave(d) \/ Fire(d) PROVE FALSE
  BY <1>0, <1>2 DEF Leave, Fire, Decide, TypeOK, Finals
<1>3. ASSUME \/ \E d \in Ops : Issue(d)
             \/ CloseFirst \/ CloseAgain \/ Create
      PROVE  FALSE
  BY <1>0, <1>3, CallsDiffer DEF Issue, CloseFirst, CloseAgain, RequestCloseOf, Create, TypeOK
<1>4. ASSUME \/ OnOpenOk \/ OpenFails \/ CloseFails \/ OnCloseOk \/ OnClose
             \/ RecvStray \/ Close \/ ServerStep \/ ServerClose
             \/ \E d \in Calls : Body(d)
             \/ \E k \in 1 .. Len(s2c) : RecvChunk(k)
      PROVE  UNCHANGED call
  BY <1>4 DEF OnOpenOk, OpenFails, CloseFails, OnCloseOk, OnClose, RecvStray, Close, ServerStep,
              ServerClose, client, Body, RecvChunk
<1>5. CASE UNCHANGED vars
  BY <1>5 DEF vars, client
<1> QED BY <1>1, <1>2, <1>3, <1>4, <1>5 DEF Next, Micro

\* The open is the first to have the mutex.
LEMMA OpenHolds ==
  ASSUME Places, [Next]_vars, call'["open"] \in {"queued", "active"}
  PROVE  /\ queue' # <<>> /\ Head(queue') = "open"
         /\ \A c \in Calls \ {"open"} : call'[c] \in Pending
<1>0. TypeOK /\ Holder /\ Stages /\ "open" \in Calls
  BY CallsDiffer DEF Places
<1>1. CASE call["open"] \in {"queued", "active"}
  <2>0. /\ queue # <<>> /\ Head(queue) = "open"
        /\ \A c \in Calls \ {"open"} : call[c] \in Pending
    BY <1>0, <1>1 DEF Holder
  <2>1. ASSUME NEW c \in Calls, Begins(c)
        PROVE  UNCHANGED queue /\ \A e \in Calls \ {"open"} : call'[e] = call[e]
    BY <1>0, <2>0, <2>1 DEF Begins, CanStart, TypeOK
  <2>2. ASSUME NEW c \in Calls, Queues(c)
        PROVE  /\ queue' # <<>> /\ Head(queue') = "open"
               /\ \A e \in Calls \ {"open"} : call'[e] \in Pending
    <3>a. queue \in Seq(Calls) /\ queue' = Append(queue, c)
      BY <1>0, <2>2 DEF Queues, TypeOK
    <3>b. queue' # <<>>
      BY <3>a, AppendProperties
    <3>c. Head(queue') = Head(queue)
      BY <2>0, <3>a, HeadTailAppend
    <3>1. queue' # <<>> /\ Head(queue') = Head(queue)
      BY <3>b, <3>c
    <3> QED BY <1>0, <2>0, <2>2, <3>1 DEF Queues, TypeOK, Pending
  <2>3. ASSUME NEW c \in Calls, Decides(c) PROVE UNCHANGED <<queue, call>>
    <3>1. PICK result \in Finals : Decide(c, result)
      BY <2>3 DEF Decides
    <3>2. c # "open" \/ call[c] # "active"
      BY <1>0, <3>1 DEF Decide, TypeOK, Finals
    <3>3. call[c] # "active"
      BY <2>0, <3>2 DEF Pending
    <3> QED BY <1>0, <3>1, <3>3 DEF Decide, TypeOK
  <2> QED BY <2>0, <2>1, <2>2, <2>3, CallSteps
<1>2. CASE call["open"] \notin {"queued", "active"}
  <2>1. Queues("open")
    BY <1>0, <1>2, CallSteps DEF Begins, Queues, Decides, Decide, CanStart, TypeOK, Finals
  <2>2. \A c \in Calls : call[c] = "idle"
    BY <1>0, <2>1 DEF Queues, Stages
  <2>3. queue = <<>>
    BY <1>0, <2>2, EmptySeq DEF Holder, TypeOK
  <2>4. queue' = <<"open">>
    BY <2>1, <2>3 DEF Queues
  <2> QED BY <1>0, <2>1, <2>2, <2>4 DEF Queues, TypeOK, Pending
<1> QED BY <1>1, <1>2

\* The mutex is handed on in the order of its queue.
LEMMA HolderStep ==
  ASSUME Places, [Next]_vars
  PROVE  Holder'
<1>0. TypeOK /\ Holder /\ Loops /\ Len(queue) \in Nat /\ Len(started) \in Nat
  BY DEF Places, TypeOK
<1>a. "open" \in Calls /\ Stages
  BY CallsDiffer DEF Places
<1>b. call'["open"] \in {"queued", "active"} =>
        /\ queue' # <<>> /\ Head(queue') = "open"
        /\ \A c \in Calls \ {"open"} : call'[c] \in Pending
  BY OpenHolds
<1>1. ASSUME NEW c \in Calls, Begins(c) PROVE Holder'
  <2>1. queue # <<>> /\ c = Head(queue) /\ call[c] = "queued"
    BY <1>1 DEF Begins, CanStart
  <2>2. \A d \in Calls : call'[d] = IF d = c THEN "active" ELSE call[d]
    BY <1>0, <1>1 DEF Begins, TypeOK
  <2>3. \A d \in Calls : call[d] # "active"
    BY <1>0, <2>1 DEF Holder
  <2>4. started' # <<>> /\ started'[Len(started')] = c
    <3>1. started \in Seq(Calls) /\ started' = Append(started, c)
      BY <1>0, <1>1 DEF Begins, TypeOK
    <3>2. Len(started') = Len(started) + 1 /\ started'[Len(started) + 1] = c /\ started' # <<>>
      BY <3>1, AppendProperties
    <3> QED BY <3>2
  <2>5. \A i \in 1 .. Len(queue') : call'[queue'[i]] # "idle"
    <3>1. UNCHANGED queue /\ \A i \in 1 .. Len(queue) : queue[i] \in Calls
      BY <1>0, <1>1 DEF Begins, TypeOK
    <3> QED BY <1>0, <2>2, <3>1 DEF Holder
  <2> QED BY <1>1, <1>b, <2>1, <2>2, <2>3, <2>4, <2>5 DEF Begins, Holder
<1>2. ASSUME NEW c \in Calls, Queues(c) PROVE Holder'
  <2>1. \A d \in Calls : call'[d] = IF d = c THEN "queued" ELSE call[d]
    BY <1>0, <1>2 DEF Queues, TypeOK
  <2>2. /\ Len(queue') = Len(queue) + 1 /\ queue'[Len(queue) + 1] = c
        /\ \A i \in 1 .. Len(queue) : queue'[i] = queue[i] /\ queue[i] \in Calls
        /\ queue' # <<>>
    BY <1>0, <1>2, AppendProperties DEF Queues, TypeOK
  <2>3. queue # <<>> => Head(queue') = Head(queue)
    BY <1>0, <1>2, HeadTailAppend DEF Queues, TypeOK
  <2>4. \A i \in 1 .. Len(queue') : call'[queue'[i]] # "idle"
    BY <1>0, <2>1, <2>2 DEF Holder
  <2>5. \A d \in Calls : call'[d] = "active" =>
          /\ queue' # <<>> /\ Head(queue') = d
          /\ started' # <<>> /\ started'[Len(started')] = d
    BY <1>0, <1>2, <2>1, <2>2, <2>3 DEF Queues, Holder
  <2> QED BY <1>b, <2>4, <2>5 DEF Holder
<1>3. ASSUME NEW c \in Calls, Decides(c) PROVE Holder'
  <2>1. PICK result \in Finals : Decide(c, result) /\ UNCHANGED started
    BY <1>3 DEF Decides
  <2>2. \A d \in Calls : call'[d] = IF d = c /\ call[c] = "active" THEN result ELSE call[d]
    BY <1>0, <2>1 DEF Decide, TypeOK
  <2>3. CASE call[c] # "active"
    <3>1. UNCHANGED <<call, queue, started>>
      BY <1>0, <2>1, <2>3 DEF Decide, TypeOK
    <3> QED BY <1>0, <1>b, <3>1 DEF Holder
  <2>4. CASE call[c] = "active"
    <3>1. queue # <<>> /\ queue' = Tail(queue)
      BY <1>0, <2>1, <2>4 DEF Decide, Holder
    <3>2. /\ Len(queue') = Len(queue) - 1
          /\ \A i \in 1 .. Len(queue') : queue'[i] = queue[i + 1]
      BY <1>0, <3>1, HeadTailProperties DEF TypeOK
    <3>3. \A i \in 1 .. Len(queue') : call'[queue'[i]] # "idle"
      <4>1. \A i \in 1 .. Len(queue) : queue[i] \in Calls /\ call'[queue[i]] # "idle"
        BY <1>0, <2>2 DEF Holder, TypeOK, Finals
      <4> QED BY <1>0, <3>2, <4>1
    <3>4. \A d \in Calls : call'[d] # "active"
      BY <1>0, <2>2, <2>4 DEF Holder, Finals
    <3> QED BY <1>b, <3>3, <3>4 DEF Holder
  <2> QED BY <2>3, <2>4
<1>4. CASE UNCHANGED <<call, queue, started>>
  BY <1>0, <1>b, <1>4 DEF Holder
<1> QED BY <1>1, <1>2, <1>3, <1>4, CallSteps

\* The protocols of open() and close().
LEMMA StagesStep ==
  ASSUME Places, [Next]_vars
  PROVE  Stages'
<1>0. TypeOK /\ Stages
  BY DEF Places
<1>a. \A c \in Calls : \/ call'[c] = call[c]
                       \/ call[c] = "idle" /\ call'[c] = "queued"
                       \/ call[c] = "queued" /\ call'[c] = "active"
                       \/ call[c] = "active" /\ call'[c] \in Finals
  BY CallGoesOn
<1>1. CASE UNCHANGED <<stage, state>> /\ \A c \in Calls : call[c] = "idle" => call'[c] = "idle"
  BY <1>0, <1>1, <1>a, CallsDiffer DEF Stages, Finals
<1>2. CASE \E c \in Calls : Start(c) \/ Body(c) \/ Leave(c) \/ Fire(c)
  <2>1. PICK c \in Calls : Start(c) \/ Body(c) \/ Leave(c) \/ Fire(c)
    BY <1>2
  <2>2. UNCHANGED <<stage, state>>
    BY <2>1 DEF Start, Body, Leave, Fire
  <2>3. \A d \in Calls : call[d] = "idle" => call'[d] = "idle"
    BY <1>0, <2>1 DEF Start, CanStart, Body, Leave, Fire, Decide, TypeOK
  <2> QED BY <1>1, <2>2, <2>3
<1>3. CASE OnOpenOk
  BY <1>0, <1>3 DEF OnOpenOk, Stages
<1>4. CASE OpenFails \/ CloseFails
  BY <1>0, <1>4 DEF OpenFails, CloseFails, Stages
<1>5. CASE CloseFirst
  BY <1>0, <1>5, CallsDiffer DEF CloseFirst, RequestCloseOf, Stages, TypeOK
<1>6. CASE CloseAgain
  BY <1>0, <1>6, CallsDiffer DEF CloseAgain, RequestCloseOf, Stages, TypeOK
<1>7. CASE OnCloseOk
  BY <1>0, <1>7 DEF OnCloseOk, CloseAcknowledged, Destroy, Stages
<1>8. CASE \E k \in 1 .. Len(s2c) : RecvChunk(k)
  <2>1. PICK k \in 1 .. Len(s2c) : RecvChunk(k)
    BY <1>8
  <2>2. UNCHANGED <<stage, state, call>>
    BY <2>1 DEF RecvChunk
  <2> QED BY <1>1, <2>2
<1>9. CASE RecvStray \/ ServerStep \/ ServerClose
  BY <1>1, <1>9 DEF RecvStray, ServerStep, ServerClose, client
<1>10. CASE OnClose
  BY <1>0, <1>10 DEF OnClose, Destroy, Stages
<1>11. CASE Create
  BY <1>0, <1>11, CallsDiffer DEF Create, Stages, TypeOK
<1>12. CASE \E c \in Ops : Issue(c)
  <2>1. PICK c \in Ops : Issue(c)
    BY <1>12
  <2>2. /\ UNCHANGED <<stage, state>>
        /\ call["open"] = "ok" \/ (Unchecked(c) /\ stage # "unborn")
        /\ \A d \in Calls : d # c => call'[d] = call[d]
    BY <1>0, <2>1, CallsDiffer DEF Issue, TypeOK, Stages
  <2>3. stage # "unborn" => call["open"] # "idle"
    BY <1>0 DEF Stages
  <2> QED BY <1>0, <2>1, <2>2, <2>3, CallsDiffer DEF Stages
<1>13. CASE Close
  BY <1>0, <1>13 DEF Close, Stages
<1>14. CASE UNCHANGED vars
  BY <1>1, <1>14 DEF vars, client
<1> QED BY <1>2, <1>3, <1>4, <1>5, <1>6, <1>7, <1>8, <1>9, <1>10, <1>11, <1>12, <1>13, <1>14
        DEF Next, Micro

\* What an array contains when something has been appended.
LEMMA AppendOccurs ==
  ASSUME NEW S, NEW s \in Seq(S), NEW x \in S
  PROVE  /\ \A y : Occurs(y, Append(s, x)) <=> y = x \/ Occurs(y, s)
         /\ Once(s) /\ ~Occurs(x, s) => Once(Append(s, x))
<1> DEFINE t == Append(s, x)
<1>1. /\ Len(s) \in Nat /\ Len(t) = Len(s) + 1
      /\ \A i \in 1 .. Len(s) : t[i] = s[i]
      /\ t[Len(s) + 1] = x
  BY AppendProperties
<1> HIDE DEF t
<1>2. ASSUME NEW i \in 1 .. Len(t) PROVE \/ i = Len(s) + 1 /\ t[i] = x
                                         \/ i \in 1 .. Len(s) /\ t[i] = s[i]
  BY <1>1
<1>3. \A y : Occurs(y, t) <=> y = x \/ Occurs(y, s)
  <2>1. \A y : Occurs(y, t) => y = x \/ Occurs(y, s)
    BY <1>2 DEF Occurs
  <2>2. Occurs(x, t)
    BY <1>1 DEF Occurs
  <2>3. ASSUME NEW y, Occurs(y, s) PROVE Occurs(y, t)
    <3>1. PICK i \in 1 .. Len(s) : s[i] = y
      BY <2>3 DEF Occurs
    <3>2. i \in 1 .. Len(t) /\ t[i] = y
      BY <1>1, <3>1
    <3> QED BY <3>2 DEF Occurs
  <2> QED BY <2>1, <2>2, <2>3
<1>4. ASSUME Once(s), ~Occurs(x, s) PROVE Once(t)
  BY <1>1, <1>2, <1>4 DEF Once, Occurs
<1> QED BY <1>3, <1>4 DEF t

\* Each call begins once.
LEMMA StartedStep ==
  ASSUME Places, [Next]_vars
  PROVE  /\ Once(started')
         /\ \A c \in Calls : Occurs(c, started') <=> call'[c] \notin Pending
<1>0. TypeOK /\ Loops
  BY DEF Places
<1>1. ASSUME NEW c \in Calls, Begins(c)
      PROVE  /\ Once(started')
             /\ \A d \in Calls : Occurs(d, started') <=> call'[d] \notin Pending
  <2>1. ~Occurs(c, started)
    BY <1>0, <1>1 DEF Begins, CanStart, Loops, Pending
  <2>2. Once(started') /\ \A d : Occurs(d, started') <=> d = c \/ Occurs(d, started)
    BY <1>0, <1>1, <2>1, AppendOccurs DEF Begins, TypeOK, Loops
  <2>3. \A d \in Calls : call'[d] = IF d = c THEN "active" ELSE call[d]
    BY <1>0, <1>1 DEF Begins, TypeOK
  <2> QED BY <1>0, <2>2, <2>3 DEF Loops, Pending
<1>2. ASSUME NEW c \in Calls, Queues(c) \/ Decides(c)
      PROVE  /\ Once(started')
             /\ \A d \in Calls : Occurs(d, started') <=> call'[d] \notin Pending
  <2>1. UNCHANGED started /\ \A d \in Calls : call'[d] \in Pending <=> call[d] \in Pending
    BY <1>0, <1>2 DEF Queues, Decides, Decide, TypeOK, Pending, Finals
  <2> QED BY <1>0, <2>1 DEF Loops
<1> QED BY <1>0, <1>1, <1>2, CallSteps DEF Loops

\* Which loops run.
LEMMA LoopsStep ==
  ASSUME Places, [Next]_vars
  PROVE  Loops'
<1> DEFINE Fits == \A c \in Calls : /\ loop[c] = "none" <=> call[c] \in Pending
                                    /\ loop[c] \in Busy => call[c] \in {"active", "timeout"}
<1> SUFFICES Fits'
  BY StartedStep DEF Loops
<1>0. TypeOK /\ Loops /\ Holder /\ Fits
  BY DEF Places, Loops
<1>1. ASSUME NEW c \in Calls, Start(c) PROVE Fits'
  <2>1. \A d \in Calls : call'[d] = IF d = c THEN "active" ELSE call[d]
    BY <1>0, <1>1 DEF Start, TypeOK
  <2>2. /\ loop'[c] \in {"next", "waiting"}
        /\ \A d \in Calls \ {c} : loop'[d] = loop[d]
    BY <1>0, <1>1, ReadNextType DEF Start
  <2> QED BY <1>0, <2>1, <2>2 DEF Busy, Reading, Pending
<1>2. ASSUME NEW c \in Calls, Body(c) PROVE Fits'
  <2>1. UNCHANGED call /\ loop[c] \in {"read", "next"}
    BY <1>2 DEF Body
  <2>2. /\ loop'[c] \in {"next", "waiting", "matched", "refused", "broke"}
        /\ \A d \in Calls \ {c} : loop'[d] = loop[d]
    <3>1. CASE ReadNext(c)
      BY <1>0, <3>1, ReadNextType
    <3>2. CASE \/ loop' = [loop EXCEPT ![c] = "broke"]
               \/ loop' = [loop EXCEPT ![c] = "matched"]
               \/ loop' = [loop EXCEPT ![c] = "refused"]
      BY <1>0, <3>2 DEF TypeOK
    <3> QED BY <1>2, <3>1, <3>2 DEF Body
  <2> QED BY <1>0, <2>1, <2>2 DEF Busy, Reading, Pending
<1>3. ASSUME NEW c \in Calls, Leave(c) PROVE Fits'
  <2>1. loop[c] \in Busy /\ \A d \in Calls : loop'[d] = IF d = c THEN "over" ELSE loop[d]
    BY <1>0, <1>3 DEF Leave, TypeOK, Busy
  <2>2. /\ \A d \in Calls \ {c} : call'[d] = call[d]
        /\ call[c] = "active" => call'[c] \in Finals
        /\ call[c] # "active" => call'[c] = call[c]
    BY <1>0, <1>3 DEF Leave, Decide, TypeOK, Finals
  <2> QED BY <1>0, <2>1, <2>2 DEF Busy, Reading, Pending, Finals
<1>4. ASSUME OnOpenOk \/ OpenFails \/ CloseFails \/ RecvStray \/ Close \/ ServerStep \/ ServerClose
      PROVE  Fits'
  <2>1. UNCHANGED <<call, loop>>
    BY <1>4 DEF OnOpenOk, OpenFails, CloseFails, RecvStray, Close, ServerStep, ServerClose, client
  <2> QED BY <1>0, <2>1
<1>5. ASSUME CloseFirst \/ CloseAgain \/ Create \/ \E c \in Ops : Issue(c) PROVE Fits'
  <2>1. UNCHANGED loop /\ \E c \in Calls : call[c] = "idle" /\ call' = [call EXCEPT ![c] = "queued"]
    BY <1>5, CallsDiffer
       DEF CloseFirst, CloseAgain, RequestCloseOf, Create, Issue, Places, Stages
  <2>2. \A c \in Calls : call'[c] = call[c] \/ (call[c] = "idle" /\ call'[c] = "queued")
    BY <1>0, <2>1 DEF TypeOK
  <2> QED BY <1>0, <2>1, <2>2 DEF Pending
<1>6. ASSUME OnCloseOk \/ OnClose PROVE Fits'
  <2>1. UNCHANGED call /\ \A c \in Calls : loop'[c] = IF loop[c] = "waiting" THEN "read" ELSE loop[c]
    BY <1>6 DEF OnCloseOk, OnClose, Destroy
  <2> QED BY <1>0, <2>1 DEF Busy, Reading
<1>7. ASSUME NEW k \in 1 .. Len(s2c), RecvChunk(k) PROVE Fits'
  <2>1. UNCHANGED call
    BY <1>7 DEF RecvChunk
  <2>2. \A c \in Calls : \/ loop'[c] = loop[c]
                         \/ loop[c] = "waiting" /\ loop'[c] = "read"
    BY <1>7 DEF RecvChunk, Readers
  <2> QED BY <1>0, <2>1, <2>2 DEF Busy, Reading
<1>8. ASSUME NEW c \in Calls, Fire(c) PROVE Fits'
  <2>1. UNCHANGED loop /\ \A d \in Calls : \/ call'[d] = call[d]
                                           \/ call[d] = "active" /\ call'[d] = "timeout"
    BY <1>0, <1>8 DEF Fire, Decide, TypeOK
  <2> QED BY <1>0, <2>1 DEF Pending
<1>9. CASE UNCHANGED vars
  <2>1. UNCHANGED <<call, loop>>
    BY <1>9 DEF vars, client
  <2> QED BY <1>0, <2>1
<1> HIDE DEF Fits
<1> QED BY <1>1, <1>2, <1>3, <1>4, <1>5, <1>6, <1>7, <1>8, <1>9 DEF Next, Micro

\* A step keeps each call in its place.
LEMMA PlacesStep == Places /\ [Next]_vars => Places'
  BY TypeStep, StagesStep, HolderStep, LoopsStep DEF Places

\* Every variable has its type in every behaviour, for any calls, methods and classes and
\* however late the server is.
THEOREM RPCTypeCorrect == Spec => []TypeOK
<1>1. Spec => []Places
  BY InitTypes, PlacesStep, PTL DEF Spec
<1> QED BY <1>1, PTL DEF Places

\* Unless a call was given up, one waitFor loop at most reads the stream: the mutex
\* of ChannelRPC.call is only left by who has read his answer, or by the timer.
THEOREM OneReaderHolds == Spec => []OneReader
<1>1. Places => OneReader
  BY DEF Places, OneReader, TimedOut, Loops, Busy, Reading, Holder
<1> QED BY <1>1, InitTypes, PlacesStep, PTL DEF Spec

\* The timers of calls: a class only knows timers of its own calls, what has not begun
\* or was answered has none that runs, and the call that holds the mutex can only have
\* lost its timer to a call of its class that failed.
Timers ==
  /\ \A k \in Classes : timer[k] # Nobody => Class(timer[k]) = k
  /\ \A c \in Calls : call[c] \in {"idle", "queued", "ok"} => c \notin ticking
  /\ \A c \in Calls : call[c] = "active" =>
       \/ timer[Class(c)] = c /\ c \in ticking
       \/ /\ timer[Class(c)] = Nobody /\ c \notin ticking
          /\ \E d \in Calls \ {c} : Class(d) = Class(c) /\ Failed(d)

\* A call that has its result keeps it.
LEMMA FinalStays ==
  ASSUME Places, [Next]_vars, NEW c \in Calls
  PROVE  /\ call[c] \in Finals => call'[c] = call[c]
         /\ Failed(c) => Failed(c)'
<1>1. \/ call'[c] = call[c]
      \/ call[c] = "idle" /\ call'[c] = "queued"
      \/ call[c] = "queued" /\ call'[c] = "active"
      \/ call[c] = "active" /\ call'[c] \in Finals
  BY CallGoesOn
<1> QED BY <1>1 DEF Failed, Finals

\* One call at a time is under way.
LEMMA OneActive ==
  ASSUME Places, NEW c \in Calls, NEW d \in Calls, call[c] = "active", call[d] = "active"
  PROVE  c = d
  BY DEF Places, Holder

\* When a call that is decided, or has failed before, clears the timer of its class, the
\* others keep to Timers.
LEMMA ClearedTimer ==
  ASSUME Places, Timers, NEW e \in Calls, call[e] = "active" \/ Failed(e),
         timer' = [timer EXCEPT ![Class(e)] = Nobody],
         ticking' \subseteq ticking \ {timer[Class(e)]},
         \A d \in ticking : d = timer[Class(e)] \/ d = e \/ d \in ticking',
         \A d \in Calls : d # e => call'[d] = call[d],
         call'[e] \in Finals, call'[e] = "ok" => e \notin ticking',
         \A d \in Calls : Failed(d) => Failed(d)'
  PROVE  Timers'
<1>0. TypeOK /\ Nobody \notin Calls /\ \A c \in Calls : Class(c) \in Classes
  BY CallsDiffer, ClassType DEF Places
<1>1. \A k \in Classes : timer'[k] = IF k = Class(e) THEN Nobody ELSE timer[k]
  BY <1>0 DEF TypeOK
<1>2. \A k \in Classes : timer'[k] # Nobody => Class(timer'[k]) = k
  BY <1>1 DEF Timers
<1>3. \A c \in Calls : call'[c] \in {"idle", "queued", "ok"} => c \notin ticking'
  BY DEF Timers, Finals
<1>4. ASSUME NEW c \in Calls, call'[c] = "active"
      PROVE  \/ timer'[Class(c)] = c /\ c \in ticking'
             \/ /\ timer'[Class(c)] = Nobody /\ c \notin ticking'
                /\ \E d \in Calls \ {c} : Class(d) = Class(c) /\ Failed(d)'
  <2>1. c # e /\ call[c] = "active"
    BY <1>4 DEF Finals
  <2>2. Failed(e) /\ Failed(e)'
    BY <2>1, OneActive
  <2>3. CASE Class(c) = Class(e)
    <3>1. timer'[Class(c)] = Nobody
      BY <1>0, <1>1, <2>3
    <3>2. c \notin ticking'
      BY <2>1, <2>3 DEF Timers
    <3> QED BY <2>1, <2>2, <2>3, <3>1, <3>2
  <2>4. CASE Class(c) # Class(e)
    <3>1. timer'[Class(c)] = timer[Class(c)]
      BY <1>0, <1>1, <2>4
    <3>2. timer[Class(e)] # c
      BY <1>0, <2>4 DEF Timers
    <3>3. CASE timer[Class(c)] = c /\ c \in ticking
      BY <2>1, <3>1, <3>2, <3>3
    <3>4. CASE timer[Class(c)] = Nobody /\ c \notin ticking
      <4>1. PICK d \in Calls \ {c} : Class(d) = Class(c) /\ Failed(d)
        BY <1>0, <2>1, <3>4 DEF Timers
      <4> QED BY <3>1, <3>4, <4>1
    <3> QED BY <2>1, <3>3, <3>4 DEF Timers
  <2> QED BY <2>3, <2>4
<1> QED BY <1>2, <1>3, <1>4 DEF Timers

\* Every step keeps the timers.
LEMMA TimersStep ==
  ASSUME Places, Timers, [Next]_vars
  PROVE  Timers'
<1>0. TypeOK /\ Loops /\ Holder /\ Nobody \notin Calls /\ \A c \in Calls : Class(c) \in Classes
  BY CallsDiffer, ClassType DEF Places
<1>a. \A c \in Calls : \/ call'[c] = call[c]
                       \/ call[c] = "idle" /\ call'[c] = "queued"
                       \/ call[c] = "queued" /\ call'[c] = "active"
                       \/ call[c] = "active" /\ call'[c] \in Finals
  BY CallGoesOn
<1>b. \A c \in Calls : Failed(c) => Failed(c)'
  BY FinalStays
<1>1. ASSUME UNCHANGED <<timer, ticking>>,
             \A c \in Calls : \/ call'[c] = call[c]
                              \/ call'[c] \notin {"active", "ok"} /\ (call'[c] = "queued" => call[c] = "idle")
      PROVE  Timers'
  <2>1. \A c \in Calls : call'[c] \in {"idle", "queued", "ok"} => c \notin ticking
    BY <1>1, <1>a DEF Timers, Finals
  <2>2. \A c \in Calls : call'[c] = "active" => call[c] = "active"
    BY <1>1
  <2> QED BY <1>1, <1>b, <2>1, <2>2 DEF Timers
<1>2. ASSUME NEW c \in Calls, Start(c) PROVE Timers'
  <2>1. c = Head(queue) /\ call[c] = "queued" /\ call' = [call EXCEPT ![c] = "active"]
        /\ timer' = [timer EXCEPT ![Class(c)] = c] /\ ticking' = ticking \union {c}
    BY <1>2 DEF Start, CanStart, Timeout
  <2>2. \A d \in Calls : call'[d] = IF d = c THEN "active" ELSE call[d]
    BY <1>0, <2>1 DEF TypeOK
  <2>3. \A d \in Calls : call'[d] = "active" => d = c
    BY <1>0, <2>1, <2>2 DEF Holder
  <2>4. \A k \in Classes : timer'[k] = IF k = Class(c) THEN c ELSE timer[k]
    BY <1>0, <2>1 DEF TypeOK
  <2> QED BY <1>0, <2>1, <2>2, <2>3, <2>4 DEF Timers
<1>3. ASSUME NEW c \in Calls, Body(c) PROVE Timers'
  BY <1>1, <1>3 DEF Body
<1>4. ASSUME NEW c \in Calls, Leave(c), loop[c] = "matched" PROVE Timers'
  <2>1. /\ timer' = [timer EXCEPT ![Class(c)] = Nobody]
        /\ ticking' = ticking \ {timer[Class(c)]}
        /\ call' = [call EXCEPT ![c] = IF @ = "active" THEN "ok" ELSE @]
    BY <1>4 DEF Leave, Settle, Decide
  <2>2. call[c] = "active" \/ call[c] = "timeout"
    BY <1>0, <1>4 DEF Loops, Busy
  <2>3. \A d \in Calls : call'[d] = IF d = c /\ call[c] = "active" THEN "ok" ELSE call[d]
    BY <1>0, <2>1 DEF TypeOK
  <2>4. call'[c] \in Finals /\ (call'[c] = "ok" => c \notin ticking')
    BY <1>0, <2>1, <2>2, <2>3 DEF Timers, Finals
  <2>5. call[c] = "active" \/ Failed(c)
    BY <2>2 DEF Failed, Finals
  <2> QED BY <1>b, <2>1, <2>3, <2>4, <2>5, ClearedTimer
<1>5. ASSUME NEW c \in Calls, Leave(c), loop[c] # "matched" PROVE Timers'
  <2>1. UNCHANGED <<timer, ticking>>
        /\ \E r \in {"refused", "noResponse"} : call' = [call EXCEPT ![c] = IF @ = "active" THEN r ELSE @]
    BY <1>5 DEF Leave, Decide
  <2>2. \A d \in Calls : call'[d] = call[d] \/ call'[d] \in {"refused", "noResponse"}
    BY <1>0, <2>1 DEF TypeOK
  <2> QED BY <1>1, <2>1, <2>2
<1>6. ASSUME OnOpenOk \/ OpenFails \/ CloseFails \/ OnCloseOk \/ OnClose \/ RecvStray \/ Close
             \/ ServerStep \/ ServerClose
      PROVE  Timers'
  <2>1. UNCHANGED <<call, timer, ticking>>
    BY <1>6 DEF OnOpenOk, OpenFails, CloseFails, OnCloseOk, OnClose, RecvStray, Close, ServerStep,
                ServerClose, client
  <2> QED BY <1>1, <2>1
<1>7. ASSUME CloseFirst \/ CloseAgain \/ Create \/ \E c \in Ops : Issue(c) PROVE Timers'
  <2>1. UNCHANGED <<timer, ticking>>
        /\ \E c \in Calls : call[c] = "idle" /\ call' = [call EXCEPT ![c] = "queued"]
    BY <1>7, CallsDiffer
       DEF CloseFirst, CloseAgain, RequestCloseOf, Create, Issue, Places, Stages
  <2>2. \A c \in Calls : call'[c] = call[c] \/ (call[c] = "idle" /\ call'[c] = "queued")
    BY <1>0, <2>1 DEF TypeOK
  <2> QED BY <1>1, <2>1, <2>2
<1>8. ASSUME NEW k \in 1 .. Len(s2c), RecvChunk(k) PROVE Timers'
  BY <1>1, <1>8 DEF RecvChunk
<1>9. ASSUME NEW c \in Calls, Fire(c) PROVE Timers'
  <2>1. /\ c \in ticking
        /\ timer' = [timer EXCEPT ![Class(c)] = Nobody]
        /\ ticking' = ticking \ {c, timer[Class(c)]}
        /\ call' = [call EXCEPT ![c] = IF @ = "active" THEN "timeout" ELSE @]
    BY <1>9 DEF Fire, Decide
  <2>2. call[c] = "active" \/ Failed(c)
    BY <1>0, <2>1 DEF Timers, TypeOK, Failed, Pending, Finals
  <2>3. \A d \in Calls : call'[d] = IF d = c /\ call[c] = "active" THEN "timeout" ELSE call[d]
    BY <1>0, <2>1 DEF TypeOK
  <2>4. call'[c] \in Finals /\ (call'[c] = "ok" => c \notin ticking')
    BY <2>1, <2>2, <2>3 DEF Failed, Finals
  <2> QED BY <1>b, <2>1, <2>2, <2>3, <2>4, ClearedTimer
<1>10. CASE UNCHANGED vars
  BY <1>1, <1>10 DEF vars, client
<1> QED BY <1>2, <1>3, <1>4, <1>5, <1>6, <1>7, <1>8, <1>9, <1>10 DEF Next, Micro

\* The field settle_timeout is shared by the calls of a class.  Who holds the mutex only
\* loses his timer to an earlier call of his class that failed.
THEOREM HolderHasTimerHolds == Spec => []HolderHasTimer
<1>1. Init => Timers
  BY CallsDiffer DEF Init, Timers
<1>2. Places /\ Timers /\ [Next]_vars => Places' /\ Timers'
  BY PlacesStep, TimersStep
<1>3. Timers => HolderHasTimer
  BY DEF Timers, HolderHasTimer
<1> QED BY <1>1, <1>2, <1>3, InitTypes, PTL DEF Spec

-----------------------------------------------------------------------------
(***************************************************************************)
(* The commands under way.                                                 *)
(***************************************************************************)
\* What the channel has received: commands not read yet, and those in the hands of loops.
Got == {buf[i] : i \in 1 .. Len(buf)} \union {hand[c] : c \in Calls}

\* What a client and a server send: the server closes for nobody, or refuses a call.
FromClient(m) == (m.type = "call" /\ m.of \in Calls) \/ m = Cmd("closeOk", Nobody)
\* The commands of the server.
FromServer(m) ==
  \/ m.type = "close" /\ m.of \in Own \union {Nobody}
  \/ m.type = "reply" /\ m.of \in Calls
  \/ m.type = "empty" /\ m.of \in Ops

\* Every command under way, or in a stream, is one of these.
Forms ==
  /\ \A i \in 1 .. Len(c2s) : FromClient(c2s[i])
  /\ \A i \in 1 .. Len(s2c) : FromServer(s2c[i])
  /\ \A m \in Got : m = End \/ FromServer(m)

\* The commands of a that are about a call are in the order in which the calls began.
Rows(a) ==
  \A i, j \in 1 .. Len(a) :
    i < j /\ a[i].of # Nobody /\ a[j].of # Nobody => Before(a[i].of, a[j].of)

\* So are the replies under way and the requests behind them; and what was received about a
\* call is all there is.
InOrder ==
  /\ \A i \in 1 .. Len(c2s) : c2s[i].of # Nobody => Occurs(c2s[i].of, started)
  /\ \A i \in 1 .. Len(s2c) : s2c[i].of # Nobody => Occurs(s2c[i].of, started)
  /\ \A m \in Got : m.of # Nobody => Occurs(m.of, started)
  /\ Rows(s2c) /\ Rows(c2s)
  /\ \A i \in 1 .. Len(s2c), j \in 1 .. Len(c2s) :
       s2c[i].of # Nobody /\ c2s[j].of # Nobody => Before(s2c[i].of, c2s[j].of)
  /\ \A m \in Got : m.of # Nobody =>
       /\ \A i \in 1 .. Len(c2s) : c2s[i].of # m.of
       /\ \A i \in 1 .. Len(s2c) : s2c[i].of # m.of

\* The calls that began are in a strict order, the last one is the youngest, and the order
\* stays when another begins.
LEMMA BeforeOrders ==
  ASSUME started \in Seq(Calls), Once(started)
  PROVE  /\ \A a, b : Before(a, b) => Occurs(a, started) /\ Occurs(b, started) /\ a # b
         /\ \A a, b : Before(a, b) => ~Before(b, a)
         /\ \A a, b, c : Before(a, b) /\ Before(b, c) => Before(a, c)
         /\ \A a, b : Occurs(a, started) /\ Occurs(b, started) =>
              a = b \/ Before(a, b) \/ Before(b, a)
         /\ started # <<>> => \A b : ~Before(started[Len(started)], b)
<1>0. Len(started) \in Nat
  OBVIOUS
<1>1. \A a, b : Before(a, b) => Occurs(a, started) /\ Occurs(b, started) /\ a # b
  BY <1>0 DEF Before, Occurs, Once
<1>2. \A a, b : Before(a, b) => ~Before(b, a)
  BY <1>0 DEF Before, Once
<1>3. ASSUME NEW a, NEW b, NEW c, Before(a, b), Before(b, c) PROVE Before(a, c)
  BY <1>0, <1>3 DEF Before, Once
<1>4. ASSUME NEW a, NEW b, Occurs(a, started), Occurs(b, started)
      PROVE  a = b \/ Before(a, b) \/ Before(b, a)
  <2>1. PICK i \in 1 .. Len(started), j \in 1 .. Len(started) : started[i] = a /\ started[j] = b
    BY <1>4 DEF Occurs
  <2>2. i = j \/ i < j \/ j < i
    BY <1>0
  <2> QED BY <2>1, <2>2 DEF Before
<1>5. started # <<>> => \A b : ~Before(started[Len(started)], b)
  BY <1>0 DEF Before, Once
<1> QED BY <1>1, <1>2, <1>3, <1>4, <1>5

\* The order in which the calls began is never changed.
LEMMA BeforeStays ==
  ASSUME Places, [Next]_vars
  PROVE  /\ \A a : Occurs(a, started) => Occurs(a, started')
         /\ \A a, b : Before(a, b) => Before(a, b)'
<1>0. started \in Seq(Calls) /\ Len(started) \in Nat
  BY DEF Places, TypeOK
<1>1. \/ UNCHANGED started
      \/ /\ Len(started') = Len(started) + 1
         /\ \A i \in 1 .. Len(started) : started'[i] = started[i]
  <2>1. \/ UNCHANGED started
        \/ \E c \in Calls : started' = Append(started, c)
    BY CallSteps DEF Begins, Queues, Decides
  <2> QED BY <1>0, <2>1, AppendProperties
<1> QED BY <1>0, <1>1 DEF Occurs, Before

\* When c begins, all others have begun before.
LEMMA StartIsLast ==
  ASSUME Places, NEW c \in Calls, Start(c)
  PROVE  /\ started' = Append(started, c) /\ ~Occurs(c, started) /\ Occurs(c, started')
         /\ \A a : Occurs(a, started) => Before(a, c)'
<1>0. started \in Seq(Calls) /\ Len(started) \in Nat
  BY DEF Places, TypeOK
<1>1. started' = Append(started, c) /\ ~Occurs(c, started)
  BY DEF Start, CanStart, Places, Loops, Pending
<1>2. /\ Len(started') = Len(started) + 1
      /\ \A i \in 1 .. Len(started) : started'[i] = started[i]
      /\ started'[Len(started) + 1] = c
  BY <1>0, <1>1, AppendProperties
<1>3. ASSUME NEW a, Occurs(a, started) PROVE Before(a, c)'
  <2>1. PICK i \in 1 .. Len(started) : started[i] = a
    BY <1>3 DEF Occurs
  <2>2. i \in 1 .. Len(started') /\ Len(started) + 1 \in 1 .. Len(started') /\ i < Len(started) + 1
    BY <1>0, <1>2
  <2>3. started'[i] = a /\ started'[Len(started) + 1] = c
    BY <1>2, <2>1
  <2> QED BY <2>2, <2>3 DEF Before
<1> QED BY <1>0, <1>1, <1>2, <1>3 DEF Occurs

\* Head and tail of commands.
LEMMA HeadAndTail ==
  ASSUME NEW a \in Seq(Commands), a # <<>>
  PROVE  /\ Len(a) \in Nat /\ 1 \in 1 .. Len(a) /\ Head(a) = a[1]
         /\ Tail(a) \in Seq(Commands) /\ Len(Tail(a)) = Len(a) - 1
         /\ \A i \in 1 .. Len(Tail(a)) : i + 1 \in 1 .. Len(a) /\ Tail(a)[i] = a[i + 1]
  BY HeadTailProperties

\* What comes in a chunk: the oldest loop that waits reads first, and what nobody reads
\* is left.
LEMMA Chunk ==
  ASSUME Places, NEW k \in 1 .. Len(s2c), RecvChunk(k)
  PROVE  /\ s2c' \in Seq(Commands) /\ Len(s2c') = Len(s2c) - k
         /\ \A i \in 1 .. Len(s2c') : i + k \in 1 .. Len(s2c) /\ s2c'[i] = s2c[i + k]
         /\ \A c \in Calls : \/ loop'[c] = loop[c] /\ hand'[c] = hand[c]
                             \/ /\ loop[c] = "waiting" /\ loop'[c] = "read"
                                /\ \/ \E i \in 1 .. Len(buf) : hand'[c] = buf[i]
                                   \/ \E i \in 1 .. k : hand'[c] = s2c[i]
         /\ \A j \in 1 .. Len(buf') : \/ \E i \in 1 .. Len(buf) : buf'[j] = buf[i]
                                      \/ \E i \in 1 .. k : buf'[j] = s2c[i]
         /\ buf = <<>> =>
              /\ \A c \in Calls : IF c \in Readers /\ Turn(c) <= k
                                  THEN loop'[c] = "read" /\ hand'[c] = s2c[Turn(c)]
                                       /\ Turn(c) \in 1 .. k
                                  ELSE loop'[c] = loop[c] /\ hand'[c] = hand[c]
              /\ \A j \in 1 .. Len(buf') : /\ Cardinality(Readers) + j \in 1 .. k
                                           /\ buf'[j] = s2c[Cardinality(Readers) + j]
<1> DEFINE part == SubSeq(s2c, 1, k)
           all == buf \o part
           n == Cardinality(Readers)
<1>0. TypeOK /\ Loops /\ Len(s2c) \in Nat /\ Len(buf) \in Nat /\ s2c \in Seq(Commands) /\ buf \in Seq(Commands)
  BY DEF Places, TypeOK
<1>1. part \in Seq(Commands) /\ Len(part) = k /\ \A i \in 1 .. k : part[i] = s2c[i]
  <2>1. \A i \in 1 .. k : s2c[i] \in Commands
    BY <1>0
  <2> QED BY <1>0, <2>1, SubSeqProperties
<1>2. /\ all \in Seq(Commands) /\ Len(all) = Len(buf) + k
      /\ \A i \in 1 .. Len(all) : all[i] = IF i <= Len(buf) THEN buf[i] ELSE part[i - Len(buf)]
  <2> HIDE DEF part
  <2>1. /\ all \in Seq(Commands) /\ Len(all) = Len(buf) + Len(part)
        /\ \A i \in 1 .. Len(buf) + Len(part) :
             all[i] = IF i <= Len(buf) THEN buf[i] ELSE part[i - Len(buf)]
    BY <1>0, <1>1, ConcatProperties
  <2> HIDE DEF all
  <2> QED BY <1>1, <2>1
<1>3. \A c \in Readers : Occurs(c, started)
  BY <1>0 DEF Loops, Readers, Pending
<1>4. n \in Nat /\ \A c \in Readers : Turn(c) \in 1 .. n
  BY <1>0, <1>3, TurnType DEF TypeOK, Loops
<1>5. \A c \in Calls : IF c \in Readers /\ Turn(c) <= Len(all)
                       THEN loop'[c] = "read" /\ hand'[c] = all[Turn(c)]
                       ELSE loop'[c] = loop[c] /\ hand'[c] = hand[c]
  <2>1. loop' = [c \in Calls |-> IF c \in Readers /\ Turn(c) <= Len(all) THEN "read" ELSE loop[c]]
    BY DEF RecvChunk
  <2>2. hand' = [c \in Calls |-> IF c \in Readers /\ Turn(c) <= Len(all)
                                 THEN all[Turn(c)] ELSE hand[c]]
    BY DEF RecvChunk
  <2> HIDE DEF all
  <2> QED BY <2>1, <2>2
<1>6. buf' = SubSeq(all, n + 1, Len(all)) /\ s2c' = SubSeq(s2c, k + 1, Len(s2c))
  BY DEF RecvChunk
<1> HIDE DEF all, part, n
<1>7. \A i \in 1 .. Len(all) : \/ i \in 1 .. Len(buf) /\ all[i] = buf[i]
                               \/ i - Len(buf) \in 1 .. k /\ all[i] = s2c[i - Len(buf)]
  BY <1>0, <1>1, <1>2
<1>8. /\ Len(buf') = IF n + 1 <= Len(all) THEN Len(all) - n ELSE 0
      /\ \A j \in 1 .. Len(buf') : n + j \in 1 .. Len(all) /\ buf'[j] = all[n + j]
  <2>1. n + 1 \in Int /\ Len(all) \in Int /\ \A i \in n + 1 .. Len(all) : all[i] \in Commands
    BY <1>2, <1>4
  <2>2. /\ Len(buf') = IF n + 1 <= Len(all) THEN Len(all) - (n + 1) + 1 ELSE 0
        /\ \A j \in 1 .. Len(all) - (n + 1) + 1 : buf'[j] = all[(n + 1) + j - 1]
    BY <1>6, <2>1, SubSeqProperties
  <2>3. \A j \in 1 .. Len(buf') : j \in 1 .. Len(all) - (n + 1) + 1 /\ (n + 1) + j - 1 = n + j
    BY <1>4, <2>1, <2>2
  <2>4. \A j \in 1 .. Len(buf') : n + j \in 1 .. Len(all) /\ buf'[j] = all[n + j]
    BY <1>4, <2>1, <2>2, <2>3
  <2>5. Len(buf') = IF n + 1 <= Len(all) THEN Len(all) - n ELSE 0
    BY <1>4, <2>1, <2>2
  <2> QED BY <2>4, <2>5
<1>9. /\ s2c' \in Seq(Commands) /\ Len(s2c') = Len(s2c) - k
      /\ \A i \in 1 .. Len(s2c') : i + k \in 1 .. Len(s2c) /\ s2c'[i] = s2c[i + k]
  <2>1. \A i \in k + 1 .. Len(s2c) : s2c[i] \in Commands
    BY <1>0
  <2>2. /\ s2c' \in Seq(Commands)
        /\ Len(s2c') = IF k + 1 <= Len(s2c) THEN Len(s2c) - (k + 1) + 1 ELSE 0
        /\ \A i \in 1 .. Len(s2c) - (k + 1) + 1 : s2c'[i] = s2c[(k + 1) + i - 1]
    BY <1>0, <1>6, <2>1, SubSeqProperties
  <2>3. Len(s2c') = Len(s2c) - k
    BY <1>0, <2>2
  <2>4. \A i \in 1 .. Len(s2c') : i \in 1 .. Len(s2c) - (k + 1) + 1 /\ (k + 1) + i - 1 = i + k
                                  /\ i + k \in 1 .. Len(s2c)
    BY <1>0, <2>3
  <2> QED BY <2>2, <2>3, <2>4
<1>10. ASSUME NEW c \in Calls
       PROVE  \/ loop'[c] = loop[c] /\ hand'[c] = hand[c]
              \/ /\ loop[c] = "waiting" /\ loop'[c] = "read"
                 /\ \/ \E i \in 1 .. Len(buf) : hand'[c] = buf[i]
                    \/ \E i \in 1 .. k : hand'[c] = s2c[i]
  <2>1. CASE c \in Readers /\ Turn(c) <= Len(all)
    <3>1. Turn(c) \in 1 .. Len(all)
      BY <1>2, <1>4, <2>1
    <3>2. loop[c] = "waiting" /\ loop'[c] = "read" /\ hand'[c] = all[Turn(c)]
      BY <1>5, <2>1 DEF Readers
    <3> QED BY <1>7, <3>1, <3>2
  <2> QED BY <1>5, <2>1
<1>11. \A j \in 1 .. Len(buf') : \/ \E i \in 1 .. Len(buf) : buf'[j] = buf[i]
                                 \/ \E i \in 1 .. k : buf'[j] = s2c[i]
  BY <1>7, <1>8
<1>12. ASSUME buf = <<>>
       PROVE  /\ \A c \in Calls : IF c \in Readers /\ Turn(c) <= k
                                  THEN loop'[c] = "read" /\ hand'[c] = s2c[Turn(c)]
                                       /\ Turn(c) \in 1 .. k
                                  ELSE loop'[c] = loop[c] /\ hand'[c] = hand[c]
              /\ \A j \in 1 .. Len(buf') : /\ n + j \in 1 .. k
                                           /\ buf'[j] = s2c[n + j]
  <2>1. Len(buf) = 0 /\ Len(all) = k /\ \A i \in 1 .. k : all[i] = s2c[i]
    BY <1>0, <1>2, <1>7, <1>12
  <2>2. ASSUME NEW c \in Calls, c \in Readers, Turn(c) <= k
        PROVE  loop'[c] = "read" /\ hand'[c] = s2c[Turn(c)] /\ Turn(c) \in 1 .. k
    <3>1. Turn(c) \in 1 .. k
      BY <1>4, <2>2
    <3> QED BY <1>5, <2>1, <2>2, <3>1
  <2> QED BY <1>5, <1>8, <2>1, <2>2
<1> QED BY <1>9, <1>10, <1>11, <1>12 DEF n

\* What next() reads was received before.
LEMMA ReadNextGot ==
  ASSUME TypeOK, NEW c \in Calls, ReadNext(c)
  PROVE  /\ \A i \in 1 .. Len(buf') : buf'[i] \in Got
         /\ \A d \in Calls : hand'[d] \in Got \union {End}
<1>0. buf \in Seq(Commands) /\ Len(buf) \in Nat
  BY DEF TypeOK
<1>1. CASE hand' = [hand EXCEPT ![c] = End] /\ UNCHANGED buf
  BY <1>1 DEF TypeOK, Got
<1>2. CASE buf # <<>> /\ hand' = [hand EXCEPT ![c] = Head(buf)] /\ buf' = Tail(buf)
  <2>1. 1 \in 1 .. Len(buf) /\ Head(buf) = buf[1]
        /\ \A i \in 1 .. Len(buf') : i + 1 \in 1 .. Len(buf) /\ buf'[i] = buf[i + 1]
    BY <1>0, <1>2, HeadAndTail
  <2>2. \A d \in Calls : hand'[d] = buf[1] \/ hand'[d] = hand[d]
    BY <1>2, <2>1 DEF TypeOK
  <2> QED BY <2>1, <2>2 DEF Got
<1>3. CASE UNCHANGED <<hand, buf>>
  BY <1>3 DEF Got
<1> QED BY <1>1, <1>2, <1>3 DEF ReadNext

\* Nothing is received but in chunks.
LEMMA GotStep ==
  ASSUME Places, [Next]_vars, NEW m \in Got'
  PROVE  \/ m \in Got \/ m = End
         \/ \E k \in 1 .. Len(s2c) : RecvChunk(k) /\ \E i \in 1 .. k : m = s2c[i]
<1> DEFINE Had(x) == \/ x \in Got \/ x = End
                     \/ \E k \in 1 .. Len(s2c) : RecvChunk(k) /\ \E i \in 1 .. k : x = s2c[i]
<1>0. TypeOK
  BY DEF Places
<1> SUFFICES /\ \A i \in 1 .. Len(buf') : Had(buf'[i])
             /\ \A d \in Calls : Had(hand'[d])
  BY DEF Got
<1>1. ASSUME NEW c \in Calls, ReadNext(c)
      PROVE  (\A i \in 1 .. Len(buf') : Had(buf'[i])) /\ \A d \in Calls : Had(hand'[d])
  BY <1>0, <1>1, ReadNextGot
<1>2. ASSUME UNCHANGED buf, \A d \in Calls : hand'[d] = hand[d] \/ hand'[d] = End
      PROVE  (\A i \in 1 .. Len(buf') : Had(buf'[i])) /\ \A d \in Calls : Had(hand'[d])
  BY <1>2 DEF Got
<1>3. ASSUME NEW k \in 1 .. Len(s2c), RecvChunk(k)
      PROVE  (\A i \in 1 .. Len(buf') : Had(buf'[i])) /\ \A d \in Calls : Had(hand'[d])
  <2>1. \A i \in 1 .. Len(buf') : Had(buf'[i])
    BY <1>3, Chunk DEF Got
  <2>2. \A d \in Calls : Had(hand'[d])
    BY <1>3, Chunk DEF Got
  <2> QED BY <2>1, <2>2
<1> HIDE DEF Had
<1>4. ASSUME NEW c \in Calls, Start(c) \/ Body(c)
      PROVE  (\A i \in 1 .. Len(buf') : Had(buf'[i])) /\ \A d \in Calls : Had(hand'[d])
  <2>1. ReadNext(c) \/ UNCHANGED <<hand, buf>>
    BY <1>4 DEF Start, Body
  <2> QED BY <1>1, <1>2, <2>1
<1>5. ASSUME \/ OnOpenOk \/ OpenFails \/ CloseFirst \/ CloseAgain \/ CloseFails \/ RecvStray \/ Create
             \/ Close \/ ServerStep \/ ServerClose
             \/ \E c \in Ops : Issue(c)
             \/ \E c \in Calls : Leave(c) \/ Fire(c)
      PROVE  (\A i \in 1 .. Len(buf') : Had(buf'[i])) /\ \A d \in Calls : Had(hand'[d])
  <2>1. UNCHANGED <<hand, buf>>
    BY <1>5 DEF OnOpenOk, OpenFails, CloseFirst, CloseAgain, RequestCloseOf, CloseFails, RecvStray,
                Create, Close, ServerStep, ServerClose, Issue, Leave, Fire, client
  <2> QED BY <1>2, <2>1
<1>6. ASSUME OnCloseOk \/ OnClose
      PROVE  (\A i \in 1 .. Len(buf') : Had(buf'[i])) /\ \A d \in Calls : Had(hand'[d])
  <2>1. UNCHANGED buf /\ \A d \in Calls : hand'[d] = hand[d] \/ hand'[d] = End
    BY <1>6 DEF OnCloseOk, OnClose, Destroy
  <2> QED BY <1>2, <2>1
<1>7. CASE UNCHANGED vars
  BY <1>2, <1>7 DEF vars, client
<1> QED BY <1>3, <1>4, <1>5, <1>6, <1>7 DEF Next, Micro

\* What the server answers to the call c: it takes the open, and the operations of an
\* open channel, and it closes.
Answers(c, m, next) ==
  \/ /\ c \in Own /\ m.of = c
     /\ (srv = "none" /\ c = "open") \/ (srv = "open" /\ c \in Ops)
     /\ (m.type \in {"reply", "empty"} /\ next = "open") \/ (m.type = "close" /\ next = "closing")
  \/ /\ c \in Closes /\ m = Cmd("reply", c)
     /\ (srv = "open" /\ next = "none") \/ (srv = "closing" /\ next = "closing")

\* A step of the server on the first request h: it answers, drops it, or finds a fault.
LEMMA ServerEffect ==
  ASSUME Places, Forms, ServerStep
  PROVE  /\ c2s # <<>> /\ c2s' = Tail(c2s) /\ UNCHANGED <<client, stray>>
         /\ FromClient(c2s[1])
         /\ \/ UNCHANGED <<s2c, srv, cause>>
            \/ /\ UNCHANGED <<s2c, cause>> /\ srv = "closing" /\ srv' = "none"
               /\ c2s[1].type = "closeOk"
            \/ /\ UNCHANGED <<s2c, cause>> /\ srv' = "fault"
               /\ c2s[1].type = "call"
               /\ \/ srv = "none" /\ c2s[1].of # "open"
                  \/ srv = "open" /\ c2s[1].of = "open"
                  \/ srv = "fault"
            \/ /\ c2s[1].type = "call" /\ c2s[1].of \in Calls
               /\ \E m \in Commands, next \in {"none", "open", "closing"} :
                    FromServer(m) /\ Answers(c2s[1].of, m, next) /\ ServerSends(m, next)
<1>1. c2s # <<>> /\ c2s' = Tail(c2s) /\ UNCHANGED <<client, stray>>
  BY DEF ServerStep
<1>2. Head(c2s) = c2s[1] /\ 1 \in 1 .. Len(c2s)
  BY <1>1, HeadAndTail DEF Places, TypeOK
<1>3. FromClient(c2s[1])
  BY <1>2 DEF Forms
<1>4. CASE c2s[1].type = "closeOk"
  BY <1>1, <1>2, <1>3, <1>4 DEF ServerStep
<1>5. CASE c2s[1].type = "call"
  <2> DEFINE c == c2s[1].of
  <2>1. ServerTakesCall(c)
    BY <1>2, <1>5 DEF ServerStep
  <2>2. c \in Calls
    BY <1>3, <1>5, CmdType DEF FromClient
  <2> HIDE DEF c
  <2>3. CASE \E m \in Commands, next \in {"none", "open", "closing"} :
                FromServer(m) /\ Answers(c, m, next) /\ ServerSends(m, next)
    BY <1>1, <1>3, <1>5, <2>2, <2>3 DEF c
  <2>4. CASE srv = "none" /\ c = "open" /\ \/ ServerSends(Cmd("reply", c), "open")
                                           \/ ServerSends(Cmd("close", c), "closing")
    <3>1. /\ FromServer(Cmd("reply", c)) /\ Answers(c, Cmd("reply", c), "open")
          /\ FromServer(Cmd("close", c)) /\ Answers(c, Cmd("close", c), "closing")
      BY <2>2, <2>4, CmdType, CallsDiffer DEF FromServer, Answers, Own
    <3> QED BY <2>2, <2>3, <2>4, <3>1, CmdType
  <2>5. CASE srv = "open" /\ c \in Ops /\ \/ ServerSends(Cmd("reply", c), "open")
                                          \/ ServerSends(Cmd("empty", c), "open")
                                          \/ ServerSends(Cmd("close", c), "closing")
    <3>1. /\ FromServer(Cmd("reply", c)) /\ Answers(c, Cmd("reply", c), "open")
          /\ FromServer(Cmd("empty", c)) /\ Answers(c, Cmd("empty", c), "open")
          /\ FromServer(Cmd("close", c)) /\ Answers(c, Cmd("close", c), "closing")
      BY <2>2, <2>5, CmdType, CallsDiffer DEF FromServer, Answers, Own
    <3> QED BY <2>2, <2>3, <2>5, <3>1, CmdType
  <2>6. CASE /\ Method(c) = "close"
             /\ \/ srv = "open" /\ ServerSends(Cmd("reply", c), "none")
                \/ srv = "closing" /\ ServerSends(Cmd("reply", c), "closing")
    <3>1. c \in Closes
      BY <2>2, <2>6, CallsDiffer
    <3>2. /\ FromServer(Cmd("reply", c))
          /\ srv = "open" => Answers(c, Cmd("reply", c), "none")
          /\ srv = "closing" => Answers(c, Cmd("reply", c), "closing")
      BY <2>2, <3>1, CmdType, CallsDiffer DEF FromServer, Answers
    <3> QED BY <2>2, <2>3, <2>6, <3>2, CmdType
  <2>7. CASE UNCHANGED <<s2c, srv, cause>>
    BY <1>1, <1>3, <2>7
  <2>8. CASE /\ \/ srv = "none" /\ c # "open"
                \/ srv = "open" /\ c = "open"
                \/ srv = "fault"
             /\ srv' = "fault" /\ UNCHANGED <<s2c, cause>>
    BY <1>1, <1>3, <1>5, <2>8 DEF c
  <2> QED BY <2>1, <2>4, <2>5, <2>6, <2>7, <2>8 DEF ServerTakesCall
<1> QED BY <1>3, <1>4, <1>5, CmdType DEF FromClient

\* What a step does to the requests: one more, or one less.
LEMMA RequestsStep ==
  ASSUME Places, [Next]_vars
  PROVE  \/ UNCHANGED c2s
         \/ ServerStep
         \/ /\ c2s' = Append(c2s, Cmd("closeOk", Nobody))
            /\ ~destroyed /\ OnClose
         \/ \E c \in Calls :
              Start(c) /\ Allowed(c) /\ ~destroyed /\ c2s' = Append(c2s, Cmd("call", c))
<1>1. ASSUME NEW c \in Calls, Start(c)
      PROVE  \/ UNCHANGED c2s
             \/ Allowed(c) /\ ~destroyed /\ c2s' = Append(c2s, Cmd("call", c))
  BY <1>1 DEF Start
<1>2. ASSUME OnClose
      PROVE  UNCHANGED c2s \/ (c2s' = Append(c2s, Cmd("closeOk", Nobody)) /\ ~destroyed)
  BY <1>2 DEF OnClose, AfterCloseOk
<1>3. ASSUME \/ OnOpenOk \/ OpenFails \/ CloseFirst \/ CloseAgain \/ CloseFails \/ OnCloseOk
             \/ RecvStray \/ Create \/ Close \/ ServerClose
             \/ \E c \in Ops : Issue(c)
             \/ \E c \in Calls : Body(c) \/ Leave(c) \/ Fire(c)
             \/ \E k \in 1 .. Len(s2c) : RecvChunk(k)
      PROVE  UNCHANGED c2s
  BY <1>3 DEF OnOpenOk, OpenFails, CloseFirst, CloseAgain, RequestCloseOf, CloseFails, OnCloseOk,
              RecvStray, Create, Close, ServerClose, Issue, Body, Leave, Fire, RecvChunk
<1>4. CASE UNCHANGED vars
  BY <1>4 DEF vars
<1> QED BY <1>1, <1>2, <1>3, <1>4 DEF Next, Micro

\* And to the replies: some are received, or the server sends one.
LEMMA RepliesStep ==
  ASSUME Places, [Next]_vars
  PROVE  \/ UNCHANGED <<s2c, srv, cause>>
         \/ ServerStep
         \/ ServerClose
         \/ RecvStray
         \/ \E k \in 1 .. Len(s2c) : RecvChunk(k)
<1>1. ASSUME \/ OnOpenOk \/ OpenFails \/ CloseFirst \/ CloseAgain \/ CloseFails \/ OnCloseOk
             \/ OnClose \/ Create \/ Close
             \/ \E c \in Ops : Issue(c)
             \/ \E c \in Calls : Start(c) \/ Body(c) \/ Leave(c) \/ Fire(c)
      PROVE  UNCHANGED <<s2c, srv, cause>>
  BY <1>1 DEF OnOpenOk, OpenFails, CloseFirst, CloseAgain, RequestCloseOf, CloseFails, OnCloseOk,
              OnClose, Create, Close, Issue, Start, Body, Leave, Fire
<1>2. CASE UNCHANGED vars
  BY <1>2 DEF vars
<1> QED BY <1>1, <1>2 DEF Next, Micro

\* Client and server keep to the forms.
LEMMA FormsStep ==
  ASSUME Places, Forms, [Next]_vars
  PROVE  Forms'
<1>0. TypeOK /\ c2s \in Seq(Commands) /\ s2c \in Seq(Commands) /\ Len(c2s) \in Nat /\ Len(s2c) \in Nat
  BY DEF Places, TypeOK
<1>1. \A i \in 1 .. Len(c2s') : FromClient(c2s'[i])
  <2>1. ASSUME NEW m \in Commands, FromClient(m), c2s' = Append(c2s, m)
        PROVE  \A i \in 1 .. Len(c2s') : FromClient(c2s'[i])
    <3>1. /\ Len(c2s') = Len(c2s) + 1 /\ c2s'[Len(c2s) + 1] = m
          /\ \A i \in 1 .. Len(c2s) : c2s'[i] = c2s[i]
      BY <1>0, <2>1, AppendProperties
    <3>2. \A i \in 1 .. Len(c2s') : i \in 1 .. Len(c2s) \/ i = Len(c2s) + 1
      BY <1>0, <3>1
    <3> QED BY <2>1, <3>1, <3>2 DEF Forms
  <2>2. \A c \in Calls : FromClient(Cmd("call", c)) /\ Cmd("call", c) \in Commands
    BY CmdType DEF FromClient
  <2>3. FromClient(Cmd("closeOk", Nobody)) /\ Cmd("closeOk", Nobody) \in Commands
    BY CmdType DEF FromClient
  <2>4. CASE c2s # <<>> /\ c2s' = Tail(c2s)
    BY <1>0, <2>4, HeadAndTail DEF Forms
  <2>5. CASE UNCHANGED c2s
    BY <2>5 DEF Forms
  <2> QED BY <2>1, <2>2, <2>3, <2>4, <2>5, RequestsStep, ServerEffect
<1>2. \A i \in 1 .. Len(s2c') : FromServer(s2c'[i])
  <2>1. ASSUME NEW m \in Commands, NEW next, FromServer(m), ServerSends(m, next)
        PROVE  \A i \in 1 .. Len(s2c') : FromServer(s2c'[i])
    <3>1. /\ Len(s2c') = Len(s2c) + 1 /\ s2c'[Len(s2c) + 1] = m
          /\ \A i \in 1 .. Len(s2c) : s2c'[i] = s2c[i]
      BY <1>0, <2>1, AppendProperties DEF ServerSends
    <3>2. \A i \in 1 .. Len(s2c') : i \in 1 .. Len(s2c) \/ i = Len(s2c) + 1
      BY <1>0, <3>1
    <3> QED BY <2>1, <3>1, <3>2 DEF Forms
  <2>2. CASE ServerClose
    <3>1. FromServer(Cmd("close", Nobody)) /\ Cmd("close", Nobody) \in Commands
      BY CmdType DEF FromServer
    <3> QED BY <2>1, <2>2, <3>1 DEF ServerClose
  <2>3. CASE UNCHANGED s2c
    BY <2>3 DEF Forms
  <2>4. CASE RecvStray
    BY <1>0, <2>4, HeadAndTail DEF RecvStray, Forms
  <2>5. CASE \E k \in 1 .. Len(s2c) : RecvChunk(k)
    BY <2>5, Chunk DEF Forms
  <2>6. CASE ServerStep
    BY <2>1, <2>3, <2>6, ServerEffect
  <2> QED BY <2>2, <2>3, <2>4, <2>5, <2>6, RepliesStep
<1>3. \A m \in Got' : m = End \/ FromServer(m)
  <2>1. ASSUME NEW m \in Got' PROVE m = End \/ FromServer(m)
    <3>1. CASE m \in Got
      BY <3>1 DEF Forms
    <3>2. CASE \E k \in 1 .. Len(s2c) : \E i \in 1 .. k : m = s2c[i]
      BY <1>0, <3>2 DEF Forms
    <3> QED BY <3>1, <3>2, GotStep
  <2> QED BY <2>1
<1> QED BY <1>1, <1>2, <1>3 DEF Forms

\* The requests after a step are those before, without the first if the server has taken it,
\* and at most one new one: a close-ok, or that of the call that begins.
LEMMA RequestsShift ==
  ASSUME Places, Forms, [Next]_vars
  PROVE  \E d \in {0, 1} :
           /\ d = 1 <=> ServerStep /\ c2s # <<>> /\ c2s' = Tail(c2s)
           /\ \A j \in 1 .. Len(c2s') :
                \/ j + d \in 1 .. Len(c2s) /\ c2s'[j] = c2s[j + d]
                \/ /\ d = 0 /\ j = Len(c2s) + 1 /\ j = Len(c2s')
                   /\ ~destroyed
                   /\ \/ c2s'[j] = Cmd("closeOk", Nobody) /\ OnClose
                      \/ \E c \in Calls : Start(c) /\ Allowed(c) /\ c2s'[j] = Cmd("call", c)
<1>0. c2s \in Seq(Commands) /\ Len(c2s) \in Nat
  BY DEF Places, TypeOK
<1> DEFINE New(j) == /\ j = Len(c2s) + 1 /\ j = Len(c2s')
                     /\ ~destroyed
                     /\ \/ c2s'[j] = Cmd("closeOk", Nobody) /\ OnClose
                        \/ \E c \in Calls : Start(c) /\ Allowed(c) /\ c2s'[j] = Cmd("call", c)
           Shift(d) == \A j \in 1 .. Len(c2s') : \/ j + d \in 1 .. Len(c2s) /\ c2s'[j] = c2s[j + d]
                                                 \/ d = 0 /\ New(j)
<1>1. CASE ServerStep
  <2>1. c2s # <<>> /\ c2s' = Tail(c2s)
    BY <1>1 DEF ServerStep
  <2>2. Shift(1)
    BY <1>0, <2>1, HeadAndTail
  <2> QED BY <1>1, <2>1, <2>2
<1>2. CASE UNCHANGED c2s /\ ~ServerStep
  <2>1. Shift(0)
    BY <1>0, <1>2
  <2> QED BY <1>2, <2>1
<1>3. ASSUME NEW m \in Commands, c2s' = Append(c2s, m), ~destroyed,
             \/ m = Cmd("closeOk", Nobody) /\ OnClose
             \/ \E c \in Calls : Start(c) /\ Allowed(c) /\ m = Cmd("call", c)
      PROVE  Shift(0) /\ Len(c2s') = Len(c2s) + 1
  <2>1. /\ Len(c2s') = Len(c2s) + 1 /\ c2s'[Len(c2s) + 1] = m
        /\ \A i \in 1 .. Len(c2s) : c2s'[i] = c2s[i]
    BY <1>0, <1>3, AppendProperties
  <2>2. New(Len(c2s) + 1)
    BY <1>3, <2>1
  <2>3. \A j \in 1 .. Len(c2s') : j = Len(c2s) + 1 \/ (j + 0 \in 1 .. Len(c2s) /\ c2s'[j] = c2s[j + 0])
    BY <1>0, <2>1
  <2> HIDE DEF New
  <2> QED BY <2>1, <2>2, <2>3
<1>4. ASSUME Shift(0), Len(c2s') = Len(c2s) + 1
      PROVE  \E d \in {0, 1} : /\ d = 1 <=> ServerStep /\ c2s # <<>> /\ c2s' = Tail(c2s)
                               /\ Shift(d)
  <2>1. ~(c2s # <<>> /\ c2s' = Tail(c2s))
    BY <1>0, <1>4, HeadAndTail
  <2> HIDE DEF Shift
  <2> QED BY <1>4, <2>1
<1>5. CASE \E c \in Calls : Start(c) /\ Allowed(c) /\ ~destroyed /\ c2s' = Append(c2s, Cmd("call", c))
  <2>1. PICK c \in Calls : Start(c) /\ Allowed(c) /\ ~destroyed /\ c2s' = Append(c2s, Cmd("call", c))
    BY <1>5
  <2>2. Cmd("call", c) \in Commands
    BY CmdType
  <2>3. Shift(0) /\ Len(c2s') = Len(c2s) + 1
    BY <1>3, <2>1, <2>2
  <2> HIDE DEF Shift
  <2> QED BY <1>4, <2>3 DEF Shift
<1>6. CASE c2s' = Append(c2s, Cmd("closeOk", Nobody)) /\ ~destroyed /\ OnClose
  <2>1. Cmd("closeOk", Nobody) \in Commands
    BY CmdType
  <2>2. Shift(0) /\ Len(c2s') = Len(c2s) + 1
    BY <1>3, <1>6, <2>1
  <2> HIDE DEF Shift
  <2> QED BY <1>4, <2>2 DEF Shift
<1> QED BY <1>1, <1>2, <1>5, <1>6, RequestsStep

\* The replies after a step are those before, without what has been received, and at most
\* one new one: a close for no call, or the answer to the first request.
LEMMA RepliesShift ==
  ASSUME Places, Forms, [Next]_vars
  PROVE  \E d \in Nat :
           \A j \in 1 .. Len(s2c') :
             \/ j + d \in 1 .. Len(s2c) /\ s2c'[j] = s2c[j + d]
             \/ /\ d = 0 /\ j = Len(s2c) + 1 /\ j = Len(s2c') /\ UNCHANGED <<client, stray>>
                /\ FromServer(s2c'[j])
                /\ \/ /\ ServerClose /\ s2c'[j] = Cmd("close", Nobody) /\ c2s' = c2s
                      /\ srv = "open" /\ srv' = "closing" /\ cause' = Nobody
                   \/ /\ ServerStep /\ c2s # <<>> /\ c2s' = Tail(c2s)
                      /\ c2s[1].type = "call" /\ c2s[1].of \in Calls
                      /\ Answers(c2s[1].of, s2c'[j], srv')
                      /\ cause' = IF s2c'[j].type = "close" THEN s2c'[j].of ELSE cause
<1>0. s2c \in Seq(Commands) /\ Len(s2c) \in Nat
  BY DEF Places, TypeOK
<1> DEFINE New(j) ==
             /\ j = Len(s2c) + 1 /\ j = Len(s2c') /\ UNCHANGED <<client, stray>>
             /\ FromServer(s2c'[j])
             /\ \/ /\ ServerClose /\ s2c'[j] = Cmd("close", Nobody) /\ c2s' = c2s
                   /\ srv = "open" /\ srv' = "closing" /\ cause' = Nobody
                \/ /\ ServerStep /\ c2s # <<>> /\ c2s' = Tail(c2s)
                   /\ c2s[1].type = "call" /\ c2s[1].of \in Calls
                   /\ Answers(c2s[1].of, s2c'[j], srv')
                   /\ cause' = IF s2c'[j].type = "close" THEN s2c'[j].of ELSE cause
           Shift(d) == \A j \in 1 .. Len(s2c') : \/ j + d \in 1 .. Len(s2c) /\ s2c'[j] = s2c[j + d]
                                                 \/ d = 0 /\ New(j)
<1> SUFFICES \E d \in Nat : Shift(d)
  OBVIOUS
<1>1. CASE UNCHANGED s2c
  <2>1. Shift(0)
    BY <1>0, <1>1
  <2> HIDE DEF Shift
  <2> QED BY <2>1
<1>2. ASSUME NEW m \in Commands, s2c' = Append(s2c, m),
             m = s2c'[Len(s2c')] => New(Len(s2c'))
      PROVE  \E d \in Nat : Shift(d)
  <2>1. /\ Len(s2c') = Len(s2c) + 1 /\ s2c'[Len(s2c) + 1] = m
        /\ \A i \in 1 .. Len(s2c) : s2c'[i] = s2c[i]
    BY <1>0, <1>2, AppendProperties
  <2> HIDE DEF New
  <2>2. New(Len(s2c) + 1)
    BY <1>2, <2>1
  <2>3. \A j \in 1 .. Len(s2c') : j = Len(s2c) + 1 \/ (j + 0 \in 1 .. Len(s2c) /\ s2c'[j] = s2c[j + 0])
    BY <1>0, <2>1
  <2>4. Shift(0)
    BY <2>2, <2>3
  <2> HIDE DEF Shift
  <2> QED BY <2>4
<1>a. ASSUME NEW m \in Commands, s2c' = Append(s2c, m) PROVE Len(s2c') = Len(s2c) + 1
  BY <1>0, <1>a, AppendProperties
<1>3. CASE ServerClose
  <2>1. /\ s2c' = Append(s2c, Cmd("close", Nobody)) /\ srv = "open" /\ srv' = "closing"
        /\ cause' = Nobody /\ c2s' = c2s /\ UNCHANGED <<client, stray>>
        /\ Cmd("close", Nobody) \in Commands /\ FromServer(Cmd("close", Nobody))
    BY <1>3, CmdType DEF ServerClose, ServerSends, FromServer
  <2>2. Len(s2c') = Len(s2c) + 1
    BY <1>a, <2>1
  <2>3. Cmd("close", Nobody) = s2c'[Len(s2c')] => New(Len(s2c'))
    BY <1>3, <2>1, <2>2
  <2> HIDE DEF New, Shift
  <2> QED BY <1>2, <2>1, <2>3
<1>4. CASE RecvStray
  <2>1. Shift(1)
    BY <1>0, <1>4, HeadAndTail DEF RecvStray
  <2> HIDE DEF Shift
  <2> QED BY <2>1
<1>5. CASE \E k \in 1 .. Len(s2c) : RecvChunk(k)
  <2>1. PICK k \in 1 .. Len(s2c) : RecvChunk(k)
    BY <1>5
  <2>2. Shift(k)
    BY <2>1, Chunk
  <2>3. k \in Nat
    BY <1>0
  <2> HIDE DEF Shift
  <2> QED BY <2>2, <2>3
<1>6. CASE ServerStep /\ ~UNCHANGED s2c
  <2>1. PICK m \in Commands, next \in {"none", "open", "closing"} :
              /\ FromServer(m) /\ Answers(c2s[1].of, m, next) /\ ServerSends(m, next)
              /\ c2s[1].type = "call" /\ c2s[1].of \in Calls
    BY <1>6, ServerEffect
  <2>2. c2s # <<>> /\ c2s' = Tail(c2s) /\ UNCHANGED <<client, stray>>
    BY <1>6, ServerEffect
  <2>3. /\ s2c' = Append(s2c, m) /\ srv' = next
        /\ cause' = IF m.type = "close" THEN m.of ELSE cause
    BY <2>1 DEF ServerSends
  <2>4. Len(s2c') = Len(s2c) + 1
    BY <1>a, <2>3
  <2>5. m = s2c'[Len(s2c')] => New(Len(s2c'))
    BY <1>6, <2>1, <2>2, <2>3, <2>4
  <2> HIDE DEF New, Shift
  <2> QED BY <1>2, <2>3, <2>5
<1> HIDE DEF Shift
<1> QED BY <1>1, <1>3, <1>4, <1>5, <1>6, RepliesStep

\* Every step keeps the order.
LEMMA InOrderStep ==
  ASSUME Places, Forms, InOrder, [Next]_vars
  PROVE  InOrder'
<1>0. /\ c2s \in Seq(Commands) /\ Len(c2s) \in Nat /\ s2c \in Seq(Commands) /\ Len(s2c) \in Nat
      /\ started \in Seq(Calls) /\ Once(started)
  BY DEF Places, TypeOK, Loops
<1> DEFINE Later(a, b) ==
             \E i, j \in 1 .. Len(started') : i < j /\ started'[i] = a /\ started'[j] = b
<1>a. \A a : Occurs(a, started) => Occurs(a, started')
  BY BeforeStays
<1>b. \A a, b : Before(a, b) => Later(a, b)
  BY BeforeStays DEF Before
<1>c. \A a, b : Before(a, b) => a # b
  BY <1>0, BeforeOrders
<1>d. End.of = Nobody
  BY DEF End, Cmd
<1>e. \A c \in Calls : Start(c) => /\ ~Occurs(c, started) /\ Occurs(c, started')
                                   /\ \A a : Occurs(a, started) => Later(a, c)
  BY StartIsLast DEF Before
<1> HIDE DEF Later
<1>1. PICK d \in {0, 1} :
           /\ d = 1 <=> ServerStep /\ c2s # <<>> /\ c2s' = Tail(c2s)
           /\ \A j \in 1 .. Len(c2s') :
                \/ j + d \in 1 .. Len(c2s) /\ c2s'[j] = c2s[j + d]
                \/ /\ d = 0 /\ j = Len(c2s) + 1 /\ j = Len(c2s')
                   /\ ~destroyed
                   /\ \/ c2s'[j] = Cmd("closeOk", Nobody) /\ OnClose
                      \/ \E c \in Calls : Start(c) /\ Allowed(c) /\ c2s'[j] = Cmd("call", c)
  BY RequestsShift
<1>2. \A j \in 1 .. Len(c2s') :
        \/ j + d \in 1 .. Len(c2s) /\ c2s'[j] = c2s[j + d]
        \/ j = Len(c2s') /\ c2s'[j].of = Nobody
        \/ /\ d = 0 /\ j = Len(c2s') /\ ~Occurs(c2s'[j].of, started) /\ Occurs(c2s'[j].of, started')
           /\ \A a : Occurs(a, started) => Later(a, c2s'[j].of)
  BY <1>1, <1>e, CmdType
<1>3. PICK k \in Nat :
           \A j \in 1 .. Len(s2c') :
             \/ j + k \in 1 .. Len(s2c) /\ s2c'[j] = s2c[j + k]
             \/ /\ k = 0 /\ j = Len(s2c) + 1 /\ j = Len(s2c') /\ UNCHANGED <<client, stray>>
                /\ FromServer(s2c'[j])
                /\ \/ /\ ServerClose /\ s2c'[j] = Cmd("close", Nobody) /\ c2s' = c2s
                      /\ srv = "open" /\ srv' = "closing" /\ cause' = Nobody
                   \/ /\ ServerStep /\ c2s # <<>> /\ c2s' = Tail(c2s)
                      /\ c2s[1].type = "call" /\ c2s[1].of \in Calls
                      /\ Answers(c2s[1].of, s2c'[j], srv')
                      /\ cause' = IF s2c'[j].type = "close" THEN s2c'[j].of ELSE cause
  BY RepliesShift
<1>4. \A j \in 1 .. Len(s2c') :
        \/ j + k \in 1 .. Len(s2c) /\ s2c'[j] = s2c[j + k]
        \/ j = Len(s2c') /\ s2c'[j].of = Nobody
        \/ j = Len(s2c') /\ d = 1 /\ c2s # <<>> /\ s2c'[j].of = c2s[1].of
  <2>1. \A c, m, n : Answers(c, m, n) => m.of = c
    BY DEF Answers, Cmd
  <2>2. \A j : s2c'[j] = Cmd("close", Nobody) => s2c'[j].of = Nobody
    BY CmdType
  <2>3. ServerStep /\ c2s # <<>> /\ c2s' = Tail(c2s) => d = 1
    BY <1>1
  <2> HIDE DEF Answers
  <2> QED BY <1>3, <2>1, <2>2, <2>3
<1>5. c2s # <<>> => 1 \in 1 .. Len(c2s)
  BY <1>0
<1>6. /\ Len(c2s') \in Nat /\ Len(s2c') \in Nat
  <2>1. TypeOK'
    BY TypeStep DEF Places
  <2> QED BY <2>1 DEF TypeOK
<1> HIDE DEF InOrder
<1>7. \A i \in 1 .. Len(c2s') : c2s'[i].of # Nobody => Occurs(c2s'[i].of, started')
  BY <1>2, <1>a DEF InOrder
<1>8. \A i \in 1 .. Len(s2c') : s2c'[i].of # Nobody => Occurs(s2c'[i].of, started')
  BY <1>4, <1>5, <1>a DEF InOrder
<1>9. \A m \in Got' : m.of # Nobody => Occurs(m.of, started')
  <2>1. ASSUME NEW m \in Got', m.of # Nobody PROVE Occurs(m.of, started')
    <3>1. CASE m \in Got
      BY <1>a, <2>1, <3>1 DEF InOrder
    <3>2. CASE \E n \in 1 .. Len(s2c) : \E i \in 1 .. n : m = s2c[i]
      BY <1>0, <1>a, <2>1, <3>2 DEF InOrder
    <3> QED BY <1>d, <2>1, <3>1, <3>2, GotStep
  <2> QED BY <2>1
<1>10. Rows(s2c)'
  <2> SUFFICES ASSUME NEW i \in 1 .. Len(s2c'), NEW j \in 1 .. Len(s2c'), i < j,
                      s2c'[i].of # Nobody, s2c'[j].of # Nobody
               PROVE  Later(s2c'[i].of, s2c'[j].of)
    BY DEF Rows, Before, Later
  <2>1. i + k \in 1 .. Len(s2c) /\ s2c'[i] = s2c[i + k]
    BY <1>4, <1>6
  <2>2. CASE j + k \in 1 .. Len(s2c) /\ s2c'[j] = s2c[j + k]
    <3>1. Before(s2c[i + k].of, s2c[j + k].of)
      BY <2>1, <2>2 DEF InOrder, Rows
    <3> QED BY <1>b, <2>1, <2>2, <3>1
  <2>3. CASE c2s # <<>> /\ s2c'[j].of = c2s[1].of
    <3>1. Before(s2c[i + k].of, c2s[1].of)
      BY <1>5, <2>1, <2>3 DEF InOrder
    <3> QED BY <1>b, <2>1, <2>3, <3>1
  <2> QED BY <1>4, <2>2, <2>3
<1>11. Rows(c2s)'
  <2> SUFFICES ASSUME NEW i \in 1 .. Len(c2s'), NEW j \in 1 .. Len(c2s'), i < j,
                      c2s'[i].of # Nobody, c2s'[j].of # Nobody
               PROVE  Later(c2s'[i].of, c2s'[j].of)
    BY DEF Rows, Before, Later
  <2>1. i + d \in 1 .. Len(c2s) /\ c2s'[i] = c2s[i + d]
    BY <1>2, <1>6
  <2>2. CASE j + d \in 1 .. Len(c2s) /\ c2s'[j] = c2s[j + d]
    <3>1. Before(c2s[i + d].of, c2s[j + d].of)
      BY <2>1, <2>2 DEF InOrder, Rows
    <3> QED BY <1>b, <2>1, <2>2, <3>1
  <2>3. CASE \A a : Occurs(a, started) => Later(a, c2s'[j].of)
    BY <2>1, <2>3 DEF InOrder
  <2> QED BY <1>2, <2>2, <2>3
<1>12. \A i \in 1 .. Len(s2c'), j \in 1 .. Len(c2s') :
         s2c'[i].of # Nobody /\ c2s'[j].of # Nobody => Later(s2c'[i].of, c2s'[j].of)
  <2> SUFFICES ASSUME NEW i \in 1 .. Len(s2c'), NEW j \in 1 .. Len(c2s'),
                      s2c'[i].of # Nobody, c2s'[j].of # Nobody
               PROVE  Later(s2c'[i].of, c2s'[j].of)
    OBVIOUS
  <2>1. CASE i + k \in 1 .. Len(s2c) /\ s2c'[i] = s2c[i + k]
    <3>1. CASE j + d \in 1 .. Len(c2s) /\ c2s'[j] = c2s[j + d]
      <4>1. Before(s2c[i + k].of, c2s[j + d].of)
        BY <2>1, <3>1 DEF InOrder
      <4> QED BY <1>b, <2>1, <3>1, <4>1
    <3>2. CASE \A a : Occurs(a, started) => Later(a, c2s'[j].of)
      BY <2>1, <3>2 DEF InOrder
    <3> QED BY <1>2, <3>1, <3>2
  <2>2. CASE d = 1 /\ c2s # <<>> /\ s2c'[i].of = c2s[1].of
    <3>1. j + 1 \in 1 .. Len(c2s) /\ c2s'[j] = c2s[j + 1]
      BY <1>2, <2>2
    <3>2. Before(c2s[1].of, c2s[j + 1].of)
      BY <1>5, <2>2, <3>1 DEF InOrder, Rows
    <3> QED BY <1>b, <2>2, <3>1, <3>2
  <2> QED BY <1>4, <2>1, <2>2
<1>13. ASSUME NEW m \in Got', m.of # Nobody
       PROVE  /\ \A i \in 1 .. Len(c2s') : c2s'[i].of # m.of
              /\ \A i \in 1 .. Len(s2c') : s2c'[i].of # m.of
  <2>1. CASE m \in Got
    <3>1. Occurs(m.of, started)
      BY <1>13, <2>1 DEF InOrder
    <3>2. \A i \in 1 .. Len(c2s') : c2s'[i].of # m.of
      BY <1>2, <1>13, <2>1, <3>1 DEF InOrder
    <3>3. \A i \in 1 .. Len(s2c') : s2c'[i].of # m.of
      BY <1>4, <1>5, <1>13, <2>1 DEF InOrder
    <3> QED BY <3>2, <3>3
  <2>2. ASSUME NEW n \in 1 .. Len(s2c), RecvChunk(n), NEW i \in 1 .. n, m = s2c[i]
        PROVE  /\ \A j \in 1 .. Len(c2s') : c2s'[j].of # m.of
               /\ \A j \in 1 .. Len(s2c') : s2c'[j].of # m.of
    <3>0. i \in 1 .. Len(s2c)
      BY <1>0
    <3>1. UNCHANGED c2s
      BY <2>2 DEF RecvChunk
    <3>2. \A j \in 1 .. Len(c2s') : c2s'[j].of # m.of
      BY <1>c, <1>13, <2>2, <3>0, <3>1 DEF InOrder
    <3>3. ASSUME NEW j \in 1 .. Len(s2c') PROVE s2c'[j].of # m.of
      <4>1. j + n \in 1 .. Len(s2c) /\ s2c'[j] = s2c[j + n]
        BY <2>2, Chunk
      <4>2. i < j + n
        BY <1>6
      <4>3. s2c[j + n].of # Nobody => Before(s2c[i].of, s2c[j + n].of)
        BY <1>13, <2>2, <3>0, <4>1, <4>2 DEF InOrder, Rows
      <4> QED BY <1>c, <1>13, <2>2, <4>1, <4>3
    <3> QED BY <3>2, <3>3
  <2> QED BY <1>d, <1>13, <2>1, <2>2, GotStep
<1> QED BY <1>7, <1>8, <1>9, <1>10, <1>11, <1>12, <1>13 DEF InOrder, Before, Later

-----------------------------------------------------------------------------
(***************************************************************************)
(* Which loop reads what.                                                  *)
(***************************************************************************)
\* As long as no call began nothing is under way.
Fresh ==
  started = <<>> =>
    /\ srv = "none" /\ cause = Nobody /\ ~closePending
    /\ c2s = <<>> /\ s2c = <<>> /\ buf = <<>>

\* The open is the first request.
OpenFirst ==
  \A i \in 1 .. Len(c2s) :
    c2s[i].of = "open" => i = 1 /\ srv = "none" /\ s2c = <<>> /\ cause = Nobody

\* Who asked waits for the answer, and there is nothing it would find before it.
Awaited ==
  ~destroyed =>
    /\ \A i \in 1 .. Len(s2c) :
         s2c[i].of \in Own =>
           loop[s2c[i].of] = "waiting" /\ buf = <<>> /\ \A j \in 1 .. i : s2c[j].of \in Own
    /\ srv = "open" =>
         /\ buf = <<>>
         /\ \A i \in 1 .. Len(s2c) : s2c[i].of \in Own
         /\ \A i \in 1 .. Len(c2s) : c2s[i].of \in Own => loop[c2s[i].of] = "waiting"
    /\ \A i \in 1 .. Len(c2s) : c2s[i].of = "open" =>
         /\ buf = <<>>
         /\ \A j \in 1 .. Len(c2s) : c2s[j].of \in Own => loop[c2s[j].of] = "waiting"

\* What a loop has read is for its own call or, if it is for another one, for a later call.
OwnHands ==
  /\ \A i \in 1 .. Len(buf) : buf[i].of \notin Own
  /\ \A c \in Calls :
       loop[c] \in {"read", "next", "matched", "refused"} /\ hand[c].of \in Own =>
         hand[c].of = c \/ Before(c, hand[c].of)
  /\ \A c \in Calls : loop[c] = "matched" => Matches(c, hand[c])

\* What is in the streams and the hands of the calls that wait for a reply.
Received == Fresh /\ OpenFirst /\ Awaited /\ OwnHands

\* As many loops that wait are older than c, so far back is its turn.
LEMMA OlderFirst ==
  ASSUME Places, NEW c \in Readers, NEW n \in Nat, NEW f \in [1 .. n -> Readers],
         \A i \in 1 .. n : Before(f[i], c),
         \A i, j \in 1 .. n : i < j => Before(f[i], f[j])
  PROVE  n < Turn(c) /\ Turn(c) <= Cardinality(Readers)
<1> DEFINE D == {d \in Readers : ~Before(c, d)}
           older == {f[i] : i \in 1 .. n}
<1>0. /\ started \in Seq(Calls) /\ Once(started) /\ IsFiniteSet(Readers)
      /\ Turn(c) \in 1 .. Cardinality(Readers) /\ Cardinality(Readers) \in Nat
  BY TurnType DEF Places, TypeOK, Loops, Readers, Pending
<1>1. \A i, j \in 1 .. n : i # j => f[i] # f[j]
  <2>1. \A i, j \in 1 .. n : i < j => f[i] # f[j]
    BY <1>0, BeforeOrders
  <2>2. \A i, j \in 1 .. n : i # j => i < j \/ j < i
    OBVIOUS
  <2> QED BY <2>1, <2>2
<1>2. older \subseteq D \ {c}
  BY <1>0, BeforeOrders
<1>3. ExistsBijection(1 .. n, older)
  <2>1. f \in [1 .. n -> older] /\ \A t \in older : \E i \in 1 .. n : f[i] = t
    OBVIOUS
  <2>2. \A i, j \in 1 .. n : f[i] = f[j] => i = j
    BY <1>1
  <2> HIDE DEF older
  <2> QED BY <2>1, <2>2 DEF ExistsBijection, Bijection, Injection, IsInjective, Surjection
<1>4. IsFiniteSet(1 .. n) /\ Cardinality(1 .. n) = n
  BY FS_Interval
<1>5. Cardinality(older) = n
  BY <1>3, <1>4, FS_Bijection
<1>6. IsFiniteSet(D) /\ c \in D
  BY <1>0, BeforeOrders, FS_Subset
<1>7. IsFiniteSet(D \ {c}) /\ Cardinality(D \ {c}) = Cardinality(D) - 1
  BY <1>6, FS_RemoveElement
<1>8. n <= Cardinality(D \ {c})
  BY <1>2, <1>5, <1>7, FS_Subset
<1>9. Turn(c) = Cardinality(D)
  BY DEF Turn
<1> HIDE DEF D, older
<1> QED BY <1>0, <1>7, <1>8, <1>9

\* A loop that waits goes on waiting until something comes or the channel goes.
LEMMA WaitsOn ==
  ASSUME Places, [Next]_vars, NEW c \in Calls, loop[c] = "waiting"
  PROVE  \/ loop'[c] = "waiting" \/ destroyed'
         \/ \E k \in 1 .. Len(s2c) : RecvChunk(k)
<1>0. TypeOK
  BY DEF Places
<1>1. ASSUME NEW d \in Calls, Start(d) PROVE loop'[c] = "waiting"
  <2>1. d # c
    BY <1>1 DEF Start, CanStart, Places, Loops, Pending
  <2> QED BY <1>0, <1>1, <2>1, ReadNextType DEF Start
<1>2. ASSUME NEW d \in Calls, Body(d) PROVE loop'[c] = "waiting"
  <2>1. d # c
    BY <1>2 DEF Body
  <2> QED BY <1>0, <1>2, <2>1, ReadNextType DEF Body, TypeOK
<1>3. ASSUME NEW d \in Calls, Leave(d) PROVE loop'[c] = "waiting"
  <2>1. d # c
    BY <1>3 DEF Leave
  <2> QED BY <1>0, <1>3, <2>1 DEF Leave, TypeOK
<1>4. ASSUME OnCloseOk \/ OnClose PROVE destroyed'
  BY <1>4 DEF OnCloseOk, OnClose, Destroy
<1>5. ASSUME \/ OnOpenOk \/ OpenFails \/ CloseFirst \/ CloseAgain \/ CloseFails
             \/ RecvStray \/ Create \/ Close \/ ServerStep \/ ServerClose
             \/ \E d \in Ops : Issue(d)
             \/ \E d \in Calls : Fire(d)
      PROVE  UNCHANGED loop
  BY <1>5 DEF OnOpenOk, OpenFails, CloseFirst, CloseAgain, RequestCloseOf, CloseFails,
              RecvStray, Create, Close, ServerStep, ServerClose, client, Issue, Fire
<1>6. CASE UNCHANGED vars
  BY <1>6 DEF vars, client
<1> QED BY <1>1, <1>2, <1>3, <1>4, <1>5, <1>6 DEF Next, Micro

\* Only a chunk fills an empty stream, and a destroyed channel stays destroyed.
LEMMA BufStep ==
  ASSUME Places, [Next]_vars
  PROVE  /\ buf = <<>> => buf' = <<>> \/ \E k \in 1 .. Len(s2c) : RecvChunk(k)
         /\ destroyed => destroyed'
<1>1. ASSUME NEW d \in Calls, Start(d) \/ Body(d) PROVE (buf = <<>> => buf' = <<>>) /\ UNCHANGED destroyed
  BY <1>1 DEF Start, Body, ReadNext
<1>2. ASSUME \/ OnOpenOk \/ OpenFails \/ CloseFirst \/ CloseAgain \/ CloseFails \/ OnCloseOk
             \/ RecvStray \/ OnClose \/ Create \/ Close \/ ServerStep \/ ServerClose
             \/ \E d \in Ops : Issue(d)
             \/ \E d \in Calls : Leave(d) \/ Fire(d)
      PROVE  UNCHANGED buf /\ (destroyed => destroyed')
  BY <1>2 DEF OnOpenOk, OpenFails, CloseFirst, CloseAgain, RequestCloseOf, CloseFails, OnCloseOk,
              RecvStray, OnClose, Destroy, Create, Close, ServerStep, ServerClose, client, Issue,
              Leave, Fire
<1>3. ASSUME NEW k \in 1 .. Len(s2c), RecvChunk(k) PROVE UNCHANGED destroyed
  BY <1>3 DEF RecvChunk
<1>4. CASE UNCHANGED vars
  BY <1>4 DEF vars, client
<1> QED BY <1>1, <1>2, <1>3, <1>4 DEF Next, Micro

\* The loops that replies under way are meant for come first.
LEMMA QueuedBehind ==
  ASSUME Places, InOrder, Awaited, ~destroyed,
         NEW i \in 1 .. Len(s2c), s2c[i].of \in Own,
         NEW c \in Readers, Before(s2c[i].of, c)
  PROVE  i < Turn(c) /\ Turn(c) <= Cardinality(Readers)
<1> DEFINE f == [j \in 1 .. i |-> s2c[j].of]
<1>0. /\ started \in Seq(Calls) /\ Once(started) /\ Len(s2c) \in Nat
      /\ \A j \in 1 .. i : j \in 1 .. Len(s2c)
  BY DEF Places, TypeOK, Loops
<1>1. \A j \in 1 .. i : /\ s2c[j].of \in Own
                        /\ s2c[j].of \in Calls
                        /\ loop[s2c[j].of] = "waiting"
  BY <1>0, CallsDiffer DEF Awaited, Own
<1>2. f \in [1 .. i -> Readers]
  BY <1>1 DEF Readers
<1>3. \A j \in 1 .. i : s2c[j].of # Nobody
  BY <1>1, CallsDiffer
<1>4. \A j, m \in 1 .. i : j < m => Before(f[j], f[m])
  <2>1. ASSUME NEW j \in 1 .. i, NEW m \in 1 .. i, j < m PROVE Before(s2c[j].of, s2c[m].of)
    BY <1>0, <1>3, <2>1 DEF InOrder, Rows
  <2> QED BY <2>1
<1>5. \A j \in 1 .. i : Before(f[j], c)
  <2>1. ASSUME NEW j \in 1 .. i, j # i PROVE Before(s2c[j].of, s2c[i].of)
    <3>1. j < i /\ i \in 1 .. i
      BY <1>0, <2>1
    <3> QED BY <1>0, <1>3, <3>1 DEF InOrder, Rows
  <2>2. ASSUME NEW j \in 1 .. i PROVE Before(s2c[j].of, c)
    BY <1>0, <2>1, BeforeOrders
  <2> QED BY <2>2
<1>6. i \in Nat
  BY <1>0
<1> HIDE DEF f
<1> QED BY <1>2, <1>4, <1>5, <1>6, OlderFirst

\* So each of them is still to read when the reply is the next to be read, and a loop that
\* gets another one's reply is older.
LEMMA TurnsInOrder ==
  ASSUME Places, InOrder, Awaited, ~destroyed,
         NEW i \in 1 .. Len(s2c), s2c[i].of \in Own
  PROVE  /\ buf = <<>> /\ s2c[i].of \in Readers
         /\ i <= Turn(s2c[i].of) /\ Turn(s2c[i].of) <= Cardinality(Readers)
         /\ \A c \in Readers : Turn(c) = i => s2c[i].of = c \/ Before(c, s2c[i].of)
         /\ Turn(s2c[i].of) \in Nat /\ Cardinality(Readers) \in Nat
<1>0. /\ started \in Seq(Calls) /\ Once(started) /\ Len(s2c) \in Nat
      /\ Cardinality(Readers) \in Nat
      /\ \A c \in Readers : Turn(c) \in 1 .. Cardinality(Readers)
  BY TurnType DEF Places, TypeOK, Loops, Readers, Pending
<1>1. buf = <<>> /\ s2c[i].of \in Readers /\ \A j \in 1 .. i : s2c[j].of \in Own
  BY <1>0, CallsDiffer DEF Awaited, Own, Readers
<1>2. i <= Turn(s2c[i].of)
  <2>1. CASE i = 1
    BY <1>0, <1>1, <2>1
  <2>2. CASE i # 1
    <3>1. i - 1 \in 1 .. Len(s2c) /\ i - 1 \in 1 .. i /\ i - 1 < i
      BY <1>0, <2>2
    <3>2. s2c[i - 1].of \in Own /\ s2c[i - 1].of # Nobody /\ s2c[i].of # Nobody
      BY <1>1, <3>1, CallsDiffer DEF Own
    <3>3. Before(s2c[i - 1].of, s2c[i].of)
      BY <3>1, <3>2 DEF InOrder, Rows
    <3>4. i - 1 < Turn(s2c[i].of)
      BY <1>1, <3>1, <3>2, <3>3, QueuedBehind
    <3> QED BY <1>0, <1>1, <3>4
  <2> QED BY <2>1, <2>2
<1>3. ASSUME NEW c \in Readers, Turn(c) = i PROVE s2c[i].of = c \/ Before(c, s2c[i].of)
  <2>1. ~Before(s2c[i].of, c)
    BY <1>0, <1>3, QueuedBehind
  <2>2. Occurs(c, started) /\ Occurs(s2c[i].of, started)
    BY <1>1 DEF Places, Loops, Readers, Pending
  <2> QED BY <1>0, <2>1, <2>2, BeforeOrders
<1> QED BY <1>0, <1>1, <1>2, <1>3

\* Fresh is kept: what comes first is a call.
LEMMA FreshStep ==
  ASSUME Places, Fresh, [Next]_vars
  PROVE  Fresh'
<1>0. started \in Seq(Calls) /\ s2c \in Seq(Commands) /\ buf \in Seq(Commands) /\ TypeOK
  BY DEF Places, TypeOK
<1> SUFFICES ASSUME started' = <<>>
             PROVE  /\ srv' = "none" /\ cause' = Nobody /\ ~closePending'
                    /\ c2s' = <<>> /\ s2c' = <<>> /\ buf' = <<>>
  BY DEF Fresh
<1>1. started = <<>> /\ \A c \in Calls : ~Start(c)
  <2>1. \A c \in Calls : Append(started, c) # <<>>
    BY <1>0
  <2> QED BY <1>0, <2>1, CallSteps DEF Begins, Queues, Decides, Start
<1>2. /\ srv = "none" /\ cause = Nobody /\ ~closePending
      /\ c2s = <<>> /\ s2c = <<>> /\ buf = <<>>
  BY <1>1 DEF Fresh
<1>3. ~RecvStray /\ ~ServerStep /\ ~ServerClose /\ ~OnClose /\ \A k \in 1 .. Len(s2c) : ~RecvChunk(k)
  BY <1>2 DEF RecvStray, ServerStep, ServerClose, OnClose
<1>4. UNCHANGED <<s2c, srv, cause>>
  BY <1>3, RepliesStep
<1>5. UNCHANGED c2s
  BY <1>1, <1>3, RequestsStep
<1>6. buf' = <<>>
  BY <1>2, <1>3, BufStep
<1>7. \A c \in Calls : call[c] \in Pending
  BY <1>0, <1>1 DEF Places, Loops, Occurs
<1>8. ~closePending'
  <2>1. CASE OpenFails
    BY <1>7, <2>1 DEF OpenFails, Failed, Finals, Pending, Calls
  <2>2. ASSUME \/ OnOpenOk \/ CloseFirst \/ CloseAgain \/ CloseFails \/ OnCloseOk \/ Create \/ Close
               \/ \E c \in Ops : Issue(c)
               \/ \E c \in Calls : Body(c) \/ Leave(c) \/ Fire(c)
        PROVE  UNCHANGED closePending
    BY <2>2 DEF OnOpenOk, CloseFirst, CloseAgain, RequestCloseOf, CloseFails, OnCloseOk, Create,
                Close, Issue, Body, Leave, Fire
  <2>3. CASE UNCHANGED vars
    BY <1>2, <2>3 DEF vars, client
  <2> QED BY <1>1, <1>2, <1>3, <2>1, <2>2, <2>3 DEF Next, Micro
<1> QED BY <1>2, <1>4, <1>5, <1>6, <1>8

\* The open stays the first request.
LEMMA OpenFirstStep ==
  ASSUME Places, Forms, InOrder, Fresh, OpenFirst, [Next]_vars
  PROVE  OpenFirst'
<1>0. c2s \in Seq(Commands) /\ Len(c2s) \in Nat /\ started \in Seq(Calls)
  BY DEF Places, TypeOK
<1>1. PICK d \in {0, 1} :
           /\ d = 1 <=> ServerStep /\ c2s # <<>> /\ c2s' = Tail(c2s)
           /\ \A j \in 1 .. Len(c2s') :
                \/ j + d \in 1 .. Len(c2s) /\ c2s'[j] = c2s[j + d]
                \/ /\ d = 0 /\ j = Len(c2s) + 1 /\ j = Len(c2s')
                   /\ ~destroyed
                   /\ \/ c2s'[j] = Cmd("closeOk", Nobody) /\ OnClose
                      \/ \E c \in Calls : Start(c) /\ Allowed(c) /\ c2s'[j] = Cmd("call", c)
  BY RequestsShift
<1> SUFFICES ASSUME NEW j \in 1 .. Len(c2s'), c2s'[j].of = "open"
             PROVE  j = 1 /\ srv' = "none" /\ s2c' = <<>> /\ cause' = Nobody
  BY DEF OpenFirst
<1>2. CASE j + d \in 1 .. Len(c2s) /\ c2s'[j] = c2s[j + d]
  <2>1. j + d = 1 /\ srv = "none" /\ s2c = <<>> /\ cause = Nobody
    BY <1>2 DEF OpenFirst
  <2>2. ~RecvStray /\ ~ServerClose /\ \A k \in 1 .. Len(s2c) : ~RecvChunk(k)
    BY <2>1 DEF RecvStray, ServerClose
  <2>3. d = 0 /\ j = 1
    BY <2>1
  <2>4. ~ServerStep
    BY <1>1, <2>3 DEF ServerStep
  <2> QED BY <2>1, <2>2, <2>3, <2>4, RepliesStep
<1>3. CASE \E c \in Calls : Start(c) /\ c2s'[j] = Cmd("call", c) /\ j = Len(c2s) + 1
  <2>1. Start("open") /\ j = Len(c2s) + 1
    BY <1>3, CmdType
  <2>2. call["open"] = "queued"
    BY <2>1 DEF Start, CanStart
  <2>3. \A c \in Calls : call[c] \in Pending
    BY <2>2 DEF Places, Holder, Pending
  <2>4. started = <<>>
    <3>1. \A i \in 1 .. Len(started) : started[i] \in Calls
      BY <1>0
    <3>2. \A i \in 1 .. Len(started) : FALSE
      BY <2>3, <3>1 DEF Places, Loops, Occurs
    <3> QED BY <1>0, <3>2
  <2>5. c2s = <<>> /\ srv = "none" /\ s2c = <<>> /\ cause = Nobody
    BY <2>4 DEF Fresh
  <2>6. UNCHANGED <<srv, s2c, cause>>
    BY <2>1 DEF Start
  <2>7. Len(c2s) = 0
    BY <2>5
  <2> QED BY <2>1, <2>5, <2>6, <2>7
<1>4. CASE c2s'[j] = Cmd("closeOk", Nobody)
  BY <1>4, CmdType, CallsDiffer
<1> QED BY <1>1, <1>2, <1>3, <1>4

\* The loop of d goes on to the next command: it begins, or the one in hand is not its own.
GoesOn(d) ==
  \/ loop[d] = "none" /\ Start(d)
  \/ /\ loop[d] \in {"read", "next"} /\ hand[d] # End /\ ~settled[Class(d)]
     /\ ~Matches(d, hand[d]) /\ ~Refuses(d, hand[d])

\* It leaves the for await with the command in hand.
Exits(d, how) ==
  \/ how = "broke" /\ (hand[d] = End \/ settled[Class(d)])
  \/ /\ hand[d] # End /\ ~settled[Class(d)]
     /\ (how = "matched" /\ Matches(d, hand[d])) \/ (how = "refused" /\ Refuses(d, hand[d]))

\* What a step does to a loop.
LEMMA HandStep ==
  ASSUME Places, [Next]_vars, NEW d \in Calls
  PROVE  \/ loop'[d] = loop[d] /\ hand'[d] = hand[d]
         \/ GoesOn(d) /\ loop'[d] = "waiting" /\ hand'[d] = hand[d] /\ ~destroyed /\ buf = <<>>
         \/ GoesOn(d) /\ loop'[d] = "next" /\ destroyed /\ hand'[d] = End
         \/ /\ GoesOn(d) /\ loop'[d] = "next" /\ ~destroyed
            /\ buf # <<>> /\ hand'[d] = Head(buf)
         \/ loop[d] \in {"read", "next"} /\ Exits(d, loop'[d]) /\ hand'[d] = hand[d]
         \/ Leave(d) /\ loop'[d] = "over" /\ hand'[d] = hand[d]
         \/ loop[d] = "waiting" /\ loop'[d] = "read" /\ hand'[d] = End /\ destroyed'
         \/ \E k \in 1 .. Len(s2c) : RecvChunk(k)
<1>0. TypeOK
  BY DEF Places
<1>1. ASSUME NEW c \in Calls, c # d, Start(c) \/ Body(c) \/ Leave(c)
      PROVE  loop'[d] = loop[d] /\ hand'[d] = hand[d]
  <2>1. CASE ReadNext(c)
    BY <1>0, <1>1, <2>1, ReadNextType
  <2>2. CASE Body(c) /\ ~ReadNext(c)
    BY <1>0, <1>1, <2>2 DEF Body, TypeOK
  <2>3. CASE Leave(c)
    BY <1>0, <1>1, <2>3 DEF Leave, TypeOK
  <2> QED BY <1>1, <2>1, <2>2, <2>3 DEF Start
<1>2. ASSUME GoesOn(d), ReadNext(d)
      PROVE  \/ loop'[d] = "waiting" /\ hand'[d] = hand[d] /\ ~destroyed /\ buf = <<>>
             \/ loop'[d] = "next" /\ destroyed /\ hand'[d] = End
             \/ loop'[d] = "next" /\ ~destroyed /\ buf # <<>> /\ hand'[d] = Head(buf)
  BY <1>0, <1>2 DEF ReadNext, TypeOK
<1>3. CASE Start(d)
  <2>1. loop[d] = "none"
    BY <1>3 DEF Start, CanStart, Places, Loops, Pending
  <2> QED BY <1>2, <1>3, <2>1 DEF Start, GoesOn
<1>4. CASE Body(d)
  <2>1. loop[d] \in {"read", "next"}
    BY <1>4 DEF Body
  <2>2. \/ GoesOn(d) /\ ReadNext(d)
        \/ \E how \in {"broke", "matched", "refused"} :
             Exits(d, how) /\ loop' = [loop EXCEPT ![d] = how] /\ UNCHANGED <<hand, buf>>
    BY <1>4, <2>1 DEF Body, GoesOn, Exits
  <2>3. ASSUME NEW how, Exits(d, how), loop' = [loop EXCEPT ![d] = how], UNCHANGED hand
        PROVE  Exits(d, loop'[d]) /\ hand'[d] = hand[d]
    <3>1. loop'[d] = how
      BY <1>0, <2>3 DEF TypeOK
    <3> QED BY <2>3, <3>1
  <2> HIDE DEF Exits
  <2> QED BY <1>2, <2>1, <2>2, <2>3
<1>5. CASE Leave(d)
  BY <1>0, <1>5 DEF Leave, TypeOK
<1>6. CASE OnCloseOk \/ OnClose
  BY <1>6 DEF OnCloseOk, OnClose, Destroy
<1>7. ASSUME \/ OnOpenOk \/ OpenFails \/ CloseFirst \/ CloseAgain \/ CloseFails
             \/ RecvStray \/ Create \/ Close \/ ServerStep \/ ServerClose
             \/ \E c \in Ops : Issue(c)
             \/ \E c \in Calls : Fire(c)
      PROVE  UNCHANGED <<loop, hand>>
  BY <1>7 DEF OnOpenOk, OpenFails, CloseFirst, CloseAgain, RequestCloseOf, CloseFails,
              RecvStray, Create, Close, ServerStep, ServerClose, client, Issue, Fire
<1>8. CASE UNCHANGED vars
  BY <1>8 DEF vars, client
<1> QED BY <1>1, <1>3, <1>4, <1>5, <1>6, <1>7, <1>8 DEF Next, Micro

\* The stream is only filled by chunks.
LEMMA BufMembers ==
  ASSUME Places, [Next]_vars, NEW i \in 1 .. Len(buf')
  PROVE  \/ \E j \in 1 .. Len(buf) : buf'[i] = buf[j]
         \/ \E k \in 1 .. Len(s2c) : RecvChunk(k)
<1>0. buf \in Seq(Commands) /\ Len(buf) \in Nat
  BY DEF Places, TypeOK
<1>1. ASSUME NEW c \in Calls, Start(c) \/ Body(c)
      PROVE  UNCHANGED buf \/ (buf # <<>> /\ buf' = Tail(buf))
  BY <1>1 DEF Start, Body, ReadNext
<1>2. CASE buf # <<>> /\ buf' = Tail(buf)
  BY <1>0, <1>2, HeadAndTail
<1>3. ASSUME \/ OnOpenOk \/ OpenFails \/ CloseFirst \/ CloseAgain \/ CloseFails \/ OnCloseOk
             \/ RecvStray \/ OnClose \/ Create \/ Close \/ ServerStep \/ ServerClose
             \/ \E d \in Ops : Issue(d)
             \/ \E d \in Calls : Leave(d) \/ Fire(d)
      PROVE  UNCHANGED buf
  BY <1>3 DEF OnOpenOk, OpenFails, CloseFirst, CloseAgain, RequestCloseOf, CloseFails, OnCloseOk,
              RecvStray, OnClose, Create, Close, ServerStep, ServerClose, client, Issue,
              Leave, Fire
<1>4. CASE UNCHANGED vars
  BY <1>4 DEF vars, client
<1>5. CASE UNCHANGED buf
  BY <1>5
<1> QED BY <1>1, <1>2, <1>3, <1>4, <1>5 DEF Next, Micro, vars, client

\* Loops read on in order.
LEMMA OwnHandsStep ==
  ASSUME Places, InOrder, Awaited, OwnHands, [Next]_vars
  PROVE  OwnHands'
<1>0. /\ buf \in Seq(Commands) /\ Len(buf) \in Nat /\ Len(s2c) \in Nat
      /\ Cardinality(Readers) \in Nat
      /\ \A c \in Readers : Turn(c) \in 1 .. Cardinality(Readers)
  BY TurnType DEF Places, TypeOK, Loops, Readers, Pending
<1>1. \A a, b : Before(a, b) => Before(a, b)'
  BY BeforeStays
<1>2. End.of \notin Own
  BY CallsDiffer DEF End, Cmd, Own
<1>3. ASSUME NEW k \in 1 .. Len(s2c), RecvChunk(k) PROVE OwnHands'
  <2>0. ~destroyed /\ \A i \in 1 .. k : i \in 1 .. Len(s2c)
    BY <1>0, <1>3 DEF RecvChunk
  <2>1. ASSUME NEW j \in 1 .. Len(buf') PROVE buf'[j].of \notin Own
    <3> SUFFICES ASSUME buf'[j].of \in Own PROVE FALSE
      OBVIOUS
    <3>1. PICK i \in 1 .. k : buf'[j] = s2c[i]
      BY <1>3, Chunk DEF OwnHands
    <3>2. buf = <<>>
      BY <2>0, <3>1, TurnsInOrder
    <3>3. Cardinality(Readers) + j \in 1 .. k /\ buf'[j] = s2c[Cardinality(Readers) + j]
      BY <1>3, <3>2, Chunk
    <3>4. Cardinality(Readers) + j <= Cardinality(Readers)
      BY <1>0, <2>0, <3>3, TurnsInOrder
    <3> QED BY <1>0, <3>4
  <2>2. ASSUME NEW c \in Calls, loop'[c] \in {"read", "next", "matched", "refused"},
               hand'[c].of \in Own
        PROVE  hand'[c].of = c \/ Before(c, hand'[c].of)
    <3>1. CASE loop'[c] = loop[c] /\ hand'[c] = hand[c]
      BY <2>2, <3>1 DEF OwnHands
    <3>2. CASE loop[c] = "waiting" /\ loop'[c] = "read" /\ \E i \in 1 .. k : hand'[c] = s2c[i]
      <4>1. PICK i \in 1 .. k : hand'[c] = s2c[i]
        BY <3>2
      <4>2. buf = <<>>
        BY <2>0, <2>2, <4>1, TurnsInOrder
      <4>3. c \in Readers /\ Turn(c) \in 1 .. k /\ hand'[c] = s2c[Turn(c)]
        BY <1>3, <3>2, <4>2, Chunk
      <4> QED BY <2>0, <2>2, <4>3, TurnsInOrder
    <3>3. CASE \E i \in 1 .. Len(buf) : hand'[c] = buf[i]
      BY <2>2, <3>3 DEF OwnHands
    <3> QED BY <1>3, <3>1, <3>2, <3>3, Chunk
  <2>3. ASSUME NEW c \in Calls, loop'[c] = "matched" PROVE Matches(c, hand'[c])
    <3>1. loop'[c] = loop[c] /\ hand'[c] = hand[c]
      BY <1>3, <2>3, Chunk
    <3> QED BY <2>3, <3>1 DEF OwnHands
  <2>4. UNCHANGED started
    BY <1>3 DEF RecvChunk
  <2> QED BY <2>1, <2>2, <2>3, <2>4 DEF OwnHands, Before, Matches
<1>4. ASSUME \A k \in 1 .. Len(s2c) : ~RecvChunk(k) PROVE OwnHands'
  <2>1. ASSUME NEW j \in 1 .. Len(buf') PROVE buf'[j].of \notin Own
    BY <1>4, BufMembers DEF OwnHands
  <2>2. buf # <<>> => Head(buf).of \notin Own
    BY <1>0, HeadAndTail DEF OwnHands
  <2>3. ASSUME NEW c \in Calls, loop'[c] \in {"read", "next", "matched", "refused"},
               hand'[c].of \in Own
        PROVE  hand'[c].of = c \/ Before(c, hand'[c].of)
    <3>1. hand'[c] = hand[c] /\ loop[c] \in {"read", "next", "matched", "refused"}
      BY <1>2, <1>4, <2>2, <2>3, HandStep
    <3> QED BY <2>3, <3>1 DEF OwnHands
  <2>4. ASSUME NEW c \in Calls, loop'[c] = "matched" PROVE Matches(c, hand'[c])
    <3>1. hand'[c] = hand[c] /\ (loop[c] = "matched" \/ Exits(c, "matched"))
      BY <1>4, <2>4, HandStep
    <3> QED BY <3>1 DEF OwnHands, Exits
  <2> DEFINE Later(a, b) ==
             \E i, j \in 1 .. Len(started') : i < j /\ started'[i] = a /\ started'[j] = b
  <2>5. \A a, b : Before(a, b) => Later(a, b)
    BY <1>1 DEF Before
  <2> HIDE DEF Later
  <2>6. \A c \in Calls : loop'[c] \in {"read", "next", "matched", "refused"} /\ hand'[c].of \in Own =>
                           hand'[c].of = c \/ Later(c, hand'[c].of)
    BY <2>3, <2>5
  <2> QED BY <2>1, <2>4, <2>6 DEF OwnHands, Matches, Before, Later
<1> QED BY <1>3, <1>4

\* When the open begins, nothing has.
LEMMA OpenStarts ==
  ASSUME Places, Start("open")
  PROVE  started = <<>>
<1>0. started \in Seq(Calls)
  BY DEF Places, TypeOK
<1>1. call["open"] = "queued"
  BY DEF Start, CanStart
<1>2. \A c \in Calls : call[c] \in Pending
  BY <1>1 DEF Places, Holder, Pending
<1>3. \A i \in 1 .. Len(started) : started[i] \in Calls
  BY <1>0
<1>4. \A i \in 1 .. Len(started) : FALSE
  BY <1>2, <1>3 DEF Places, Loops, Occurs
<1> QED BY <1>0, <1>4

\* The server opens the channel on the open, and sends replies to calls while it is open.
LEMMA ServerOpens ==
  ASSUME Places, Forms, [Next]_vars, srv' = "open", UNCHANGED srv => srv = "open"
  PROVE  srv = "open" \/ (ServerStep /\ srv = "none" /\ c2s # <<>> /\ c2s[1].of = "open")
<1>1. CASE ServerStep
  BY <1>1, ServerEffect DEF Answers, ServerSends
<1>2. CASE ServerClose
  BY <1>2 DEF ServerClose
<1>3. CASE UNCHANGED srv
  BY <1>3
<1> QED BY <1>1, <1>2, <1>3, RepliesStep DEF RecvStray, RecvChunk

\* What comes in is read by the loops it is for.
LEMMA AwaitedChunk ==
  ASSUME Places, InOrder, OpenFirst, Awaited, NEW k \in 1 .. Len(s2c), RecvChunk(k)
  PROVE  Awaited'
<1>0. /\ TypeOK /\ Len(s2c) \in Nat /\ ~destroyed /\ Cardinality(Readers) \in Nat
      /\ k \in 1 .. Len(s2c) /\ \A i \in 1 .. k : i \in 1 .. Len(s2c)
      /\ \A c \in Readers : Turn(c) \in 1 .. Cardinality(Readers)
  BY TurnType DEF RecvChunk, Places, TypeOK, Loops, Readers, Pending
<1>1. /\ Len(s2c') \in Nat
      /\ \A i \in 1 .. Len(s2c') : i + k \in 1 .. Len(s2c) /\ s2c'[i] = s2c[i + k]
  <2>1. s2c' \in Seq(Commands)
    BY Chunk
  <2>2. Len(s2c') \in Nat
    BY <2>1
  <2> QED BY <2>2, Chunk
<1>2. UNCHANGED <<c2s, srv>> /\ buf' \in Seq(Commands)
  <2>1. TypeOK'
    BY TypeStep DEF Places, Next
  <2> QED BY <2>1 DEF RecvChunk, TypeOK
<1>3. ASSUME buf = <<>>, k <= Cardinality(Readers) PROVE buf' = <<>>
  <2>1. \A j \in 1 .. Len(buf') : Cardinality(Readers) + j \in 1 .. k
    BY <1>3, Chunk
  <2>2. Len(buf') \in Nat /\ \A j \in 1 .. Len(buf') : FALSE
    BY <1>0, <1>2, <1>3, <2>1
  <2> QED BY <1>2, <2>2
<1>4. ASSUME buf = <<>>, NEW c \in Readers, k < Turn(c) PROVE loop'[c] = "waiting"
  <2>1. ~(Turn(c) <= k)
    BY <1>0, <1>4
  <2> QED BY <1>4, <2>1, Chunk DEF Readers
<1>5. ASSUME NEW i \in 1 .. Len(s2c'), s2c'[i].of \in Own
      PROVE  loop'[s2c'[i].of] = "waiting" /\ buf' = <<>> /\ \A j \in 1 .. i : s2c'[j].of \in Own
  <2>1. i + k \in 1 .. Len(s2c) /\ s2c'[i] = s2c[i + k]
    BY <1>1
  <2>2. /\ buf = <<>> /\ s2c'[i].of \in Readers /\ i + k <= Turn(s2c'[i].of)
        /\ Turn(s2c'[i].of) <= Cardinality(Readers)
    BY <1>0, <1>5, <2>1, TurnsInOrder
  <2>3. k < Turn(s2c'[i].of) /\ k <= Cardinality(Readers)
    BY <1>0, <1>1, <2>2
  <2>4. ASSUME NEW j \in 1 .. i PROVE s2c'[j].of \in Own
    <3>1. j \in 1 .. Len(s2c') /\ j + k \in 1 .. i + k
      BY <1>0, <1>1
    <3>2. s2c[j + k].of \in Own
      BY <1>0, <1>5, <2>1, <3>1 DEF Awaited
    <3> QED BY <1>1, <3>1, <3>2
  <2> QED BY <1>3, <1>4, <2>2, <2>3, <2>4
<1>6. ASSUME srv = "open"
      PROVE  /\ buf' = <<>>
             /\ \A i \in 1 .. Len(s2c') : s2c'[i].of \in Own
             /\ \A i \in 1 .. Len(c2s) : c2s[i].of \in Own => loop'[c2s[i].of] = "waiting"
  <2>1. buf = <<>> /\ s2c[k].of \in Own
    BY <1>0, <1>6 DEF Awaited
  <2>2. k <= Turn(s2c[k].of) /\ Turn(s2c[k].of) <= Cardinality(Readers) /\ Turn(s2c[k].of) \in Nat
    BY <1>0, <2>1, TurnsInOrder
  <2>3. k <= Cardinality(Readers)
    BY <1>0, <2>2
  <2>4. ASSUME NEW i \in 1 .. Len(c2s), c2s[i].of \in Own PROVE loop'[c2s[i].of] = "waiting"
    <3>1. c2s[i].of \in Readers
      BY <1>0, <1>6, <2>4, CallsDiffer DEF Awaited, Readers, Own
    <3>2. Before(s2c[k].of, c2s[i].of)
      BY <1>0, <2>1, <2>4, CallsDiffer DEF InOrder, Own
    <3>3. k < Turn(c2s[i].of)
      BY <1>0, <2>1, <3>1, <3>2, QueuedBehind
    <3> QED BY <1>4, <2>1, <3>1, <3>3
  <2>5. \A i \in 1 .. Len(s2c') : s2c'[i].of \in Own
    BY <1>0, <1>1, <1>6 DEF Awaited
  <2> QED BY <1>3, <2>1, <2>3, <2>4, <2>5
<1>7. \A i \in 1 .. Len(c2s) : c2s[i].of # "open"
  BY <1>0 DEF OpenFirst
<1> QED BY <1>2, <1>5, <1>6, <1>7 DEF Awaited

\* Who asks waits.
LEMMA AwaitedStep ==
  ASSUME Places, Forms, InOrder, Fresh, OpenFirst, Awaited, [Next]_vars
  PROVE  Awaited'
<1>1. CASE \E k \in 1 .. Len(s2c) : RecvChunk(k)
  BY <1>1, AwaitedChunk
<1> SUFFICES ASSUME ~destroyed', \A k \in 1 .. Len(s2c) : ~RecvChunk(k)
             PROVE  Awaited'
  BY <1>1 DEF Awaited
<1>0. ~destroyed /\ Len(s2c) \in Nat /\ Len(c2s) \in Nat /\ Len(s2c') \in Nat /\ Len(c2s') \in Nat
  <2>1. TypeOK'
    BY TypeStep DEF Places
  <2> QED BY <2>1, BufStep DEF Places, TypeOK
<1>2. \A c \in Calls : loop[c] = "waiting" => loop'[c] = "waiting"
  BY WaitsOn
<1>3. buf = <<>> => buf' = <<>>
  BY BufStep
<1>4. ASSUME NEW c \in Calls, Start(c), buf = <<>> PROVE loop'[c] = "waiting"
  BY <1>0, <1>4, HandStep DEF Start, ReadNext, Places, TypeOK
<1>5. PICK d \in {0, 1} :
           /\ d = 1 <=> ServerStep /\ c2s # <<>> /\ c2s' = Tail(c2s)
           /\ \A j \in 1 .. Len(c2s') :
                \/ j + d \in 1 .. Len(c2s) /\ c2s'[j] = c2s[j + d]
                \/ /\ d = 0 /\ j = Len(c2s) + 1 /\ j = Len(c2s')
                   /\ ~destroyed
                   /\ \/ c2s'[j] = Cmd("closeOk", Nobody) /\ OnClose
                      \/ \E c \in Calls : Start(c) /\ Allowed(c) /\ c2s'[j] = Cmd("call", c)
  BY RequestsShift
<1>6. \A j \in 1 .. Len(c2s') :
        \/ j + d \in 1 .. Len(c2s) /\ c2s'[j] = c2s[j + d]
        \/ d = 0 /\ c2s'[j].of \notin Own
        \/ d = 0 /\ \E c \in Calls : Start(c) /\ c2s'[j].of = c
  BY <1>5, CmdType, CallsDiffer DEF Own
<1>7. PICK k \in Nat :
           \A j \in 1 .. Len(s2c') :
             \/ j + k \in 1 .. Len(s2c) /\ s2c'[j] = s2c[j + k]
             \/ /\ k = 0 /\ j = Len(s2c) + 1 /\ j = Len(s2c') /\ UNCHANGED <<client, stray>>
                /\ FromServer(s2c'[j])
                /\ \/ /\ ServerClose /\ s2c'[j] = Cmd("close", Nobody) /\ c2s' = c2s
                      /\ srv = "open" /\ srv' = "closing" /\ cause' = Nobody
                   \/ /\ ServerStep /\ c2s # <<>> /\ c2s' = Tail(c2s)
                      /\ c2s[1].type = "call" /\ c2s[1].of \in Calls
                      /\ Answers(c2s[1].of, s2c'[j], srv')
                      /\ cause' = IF s2c'[j].type = "close" THEN s2c'[j].of ELSE cause
  BY RepliesShift
<1>8. \A j \in 1 .. Len(s2c') :
        \/ j + k \in 1 .. Len(s2c) /\ s2c'[j] = s2c[j + k]
        \/ k = 0 /\ j = Len(s2c) + 1 /\ s2c'[j].of \notin Own /\ srv' # "open"
        \/ /\ k = 0 /\ j = Len(s2c) + 1 /\ d = 1 /\ c2s # <<>>
           /\ s2c'[j].of = c2s[1].of /\ c2s[1].of \in Own
           /\ (srv = "none" /\ c2s[1].of = "open") \/ srv = "open"
  <2>1. \A c, m, n : Answers(c, m, n) =>
          \/ m.of \notin Own /\ n # "open"
          \/ m.of = c /\ c \in Own /\ ((srv = "none" /\ c = "open") \/ srv = "open")
    BY CallsDiffer DEF Answers, Own, Closes, Cmd
  <2>2. \A j : s2c'[j] = Cmd("close", Nobody) => s2c'[j].of \notin Own
    BY CmdType, CallsDiffer DEF Own
  <2>3. ServerStep /\ c2s # <<>> /\ c2s' = Tail(c2s) => d = 1
    BY <1>5
  <2> HIDE DEF Answers
  <2> QED BY <1>7, <2>1, <2>2, <2>3
<1>9. c2s # <<>> => 1 \in 1 .. Len(c2s)
  BY <1>0, HeadAndTail DEF Places, TypeOK
<1>10. ASSUME NEW i \in 1 .. Len(s2c'), s2c'[i].of \in Own
       PROVE  loop'[s2c'[i].of] = "waiting" /\ buf' = <<>> /\ \A j \in 1 .. i : s2c'[j].of \in Own
  <2>0. s2c'[i].of \in Calls
    BY <1>10, CallsDiffer DEF Own
  <2>1. CASE i + k \in 1 .. Len(s2c) /\ s2c'[i] = s2c[i + k]
    <3>1. loop[s2c'[i].of] = "waiting" /\ buf = <<>> /\ \A j \in 1 .. i + k : s2c[j].of \in Own
      BY <1>0, <1>10, <2>1 DEF Awaited
    <3>2. ASSUME NEW j \in 1 .. i PROVE s2c'[j].of \in Own
      <4>1. j \in 1 .. Len(s2c') /\ j + k \in 1 .. i + k
        BY <1>0
      <4>2. s2c'[j] = s2c[j + k]
        BY <1>0, <1>8, <2>1, <4>1
      <4> QED BY <3>1, <4>1, <4>2
    <3> QED BY <1>2, <1>3, <2>0, <3>1, <3>2
  <2>2. CASE /\ k = 0 /\ i = Len(s2c) + 1 /\ d = 1 /\ c2s # <<>>
             /\ s2c'[i].of = c2s[1].of /\ c2s[1].of \in Own
             /\ (srv = "none" /\ c2s[1].of = "open") \/ srv = "open"
    <3>1. /\ loop[c2s[1].of] = "waiting" /\ buf = <<>>
          /\ \A j \in 1 .. Len(s2c) : s2c[j].of \in Own
      <4>1. CASE srv = "open"
        BY <1>0, <1>9, <2>2, <4>1 DEF Awaited
      <4>2. CASE c2s[1].of = "open"
        <5>1. s2c = <<>> /\ loop["open"] = "waiting" /\ buf = <<>>
          BY <1>0, <1>9, <2>2, <4>2 DEF Awaited, OpenFirst, Own
        <5>2. Len(s2c) = 0
          BY <5>1
        <5> QED BY <4>2, <5>1, <5>2
      <4> QED BY <2>2, <4>1, <4>2
    <3>2. ASSUME NEW j \in 1 .. i PROVE s2c'[j].of \in Own
      <4>1. j \in 1 .. Len(s2c')
        BY <1>0
      <4>2. CASE j = i
        BY <1>10, <4>2
      <4>3. CASE j # i
        <5>1. j \in 1 .. Len(s2c) /\ j # Len(s2c) + 1 /\ j + k = j
          BY <1>0, <2>2, <4>3
        <5> QED BY <1>8, <3>1, <4>1, <5>1
      <4> QED BY <4>2, <4>3
    <3> QED BY <1>2, <1>3, <2>0, <2>2, <3>1, <3>2
  <2> QED BY <1>8, <1>10, <2>1, <2>2
<1>11. ASSUME srv' = "open"
       PROVE  /\ buf' = <<>>
              /\ \A i \in 1 .. Len(s2c') : s2c'[i].of \in Own
              /\ \A i \in 1 .. Len(c2s') : c2s'[i].of \in Own => loop'[c2s'[i].of] = "waiting"
  <2>1. CASE srv = "open"
    <3>1. /\ buf = <<>> /\ \A i \in 1 .. Len(s2c) : s2c[i].of \in Own
          /\ \A i \in 1 .. Len(c2s) : c2s[i].of \in Own => loop[c2s[i].of] = "waiting"
      BY <1>0, <2>1 DEF Awaited
    <3>2. \A i \in 1 .. Len(s2c') : s2c'[i].of \in Own
      BY <1>8, <1>11, <3>1
    <3>3. ASSUME NEW i \in 1 .. Len(c2s'), c2s'[i].of \in Own PROVE loop'[c2s'[i].of] = "waiting"
      BY <1>2, <1>4, <1>6, <3>1, <3>3, CallsDiffer DEF Own
    <3> QED BY <1>3, <3>1, <3>2, <3>3
  <2>2. CASE ServerStep /\ srv = "none" /\ c2s # <<>> /\ c2s[1].of = "open"
    <3>1. /\ s2c = <<>> /\ buf = <<>>
          /\ \A i \in 1 .. Len(c2s) : c2s[i].of \in Own => loop[c2s[i].of] = "waiting"
      BY <1>0, <1>9, <2>2 DEF Awaited, OpenFirst
    <3>2. Len(s2c) = 0
      BY <3>1
    <3>3. \A i \in 1 .. Len(s2c') : s2c'[i].of \in Own
      BY <1>8, <1>11, <3>2
    <3>7. ASSUME NEW i \in 1 .. Len(c2s'), c2s'[i].of \in Own PROVE loop'[c2s'[i].of] = "waiting"
      BY <1>2, <1>4, <1>6, <3>1, <3>7, CallsDiffer DEF Own
    <3> QED BY <1>3, <3>1, <3>3, <3>7
  <2> QED BY <1>11, <2>1, <2>2, ServerOpens
<1>12. ASSUME NEW i \in 1 .. Len(c2s'), c2s'[i].of = "open"
       PROVE  /\ buf' = <<>>
              /\ \A j \in 1 .. Len(c2s') : c2s'[j].of \in Own => loop'[c2s'[j].of] = "waiting"
  <2>1. /\ buf = <<>>
        /\ \A j \in 1 .. Len(c2s) : c2s[j].of \in Own => loop[c2s[j].of] = "waiting"
    <3>1. CASE i + d \in 1 .. Len(c2s) /\ c2s'[i] = c2s[i + d]
      BY <1>0, <1>12, <3>1 DEF Awaited
    <3>2. CASE Start("open")
      <4>1. buf = <<>> /\ c2s = <<>>
        BY <3>2, OpenStarts DEF Fresh
      <4>2. Len(c2s) = 0
        BY <4>1
      <4> QED BY <4>1, <4>2
    <3> QED BY <1>6, <1>12, <3>1, <3>2 DEF Own
  <2>2. ASSUME NEW j \in 1 .. Len(c2s'), c2s'[j].of \in Own PROVE loop'[c2s'[j].of] = "waiting"
    BY <1>2, <1>4, <1>6, <2>1, <2>2, CallsDiffer DEF Own
  <2> QED BY <1>3, <2>1, <2>2
<1> QED BY <1>10, <1>11, <1>12 DEF Awaited

\* All that is said of the commands under way.
Dialogue == Places /\ Forms /\ InOrder /\ Received

\* The invariant holds at first.
LEMMA InitDialogue == Init => Dialogue
<1> SUFFICES ASSUME Init PROVE Dialogue
  OBVIOUS
<1>1. Places
  BY InitTypes
<1>2. Len(buf) = 0 /\ Len(c2s) = 0 /\ Len(s2c) = 0
  BY DEF Init
<1>3. \A i \in 1 .. 0 : FALSE
  OBVIOUS
<1>4. \A m \in Got : m = End
  BY <1>2, <1>3 DEF Got, Init
<1>5. End.of = Nobody
  BY DEF End, Cmd
<1>6. Forms
  BY <1>2, <1>3, <1>4 DEF Forms
<1>7. InOrder
  BY <1>2, <1>3, <1>4, <1>5 DEF InOrder, Rows
<1>8. Fresh /\ OpenFirst /\ Awaited
  BY <1>2, <1>3 DEF Init, Fresh, OpenFirst, Awaited
<1>9. OwnHands
  BY <1>2, <1>3 DEF Init, OwnHands
<1> QED BY <1>1, <1>6, <1>7, <1>8, <1>9 DEF Dialogue, Received

\* A step keeps the invariant.
LEMMA DialogueStep == Dialogue /\ [Next]_vars => Dialogue'
  BY PlacesStep, FormsStep, InOrderStep, FreshStep, OpenFirstStep, AwaitedStep, OwnHandsStep
     DEF Dialogue, Received

\* A call comes to "ok" only where its loop leaves with a reply; the history notes whose.
LEMMA Accepts ==
  ASSUME Places, [Next]_vars, NEW c \in Calls, call'[c] = "ok"
  PROVE  \/ call[c] = "ok" /\ answer'[c] = answer[c]
         \/ call[c] = "active" /\ loop[c] = "matched" /\ Leave(c) /\ answer'[c] = hand[c].of
<1>0. TypeOK
  BY DEF Places
<1>1. ASSUME NEW d \in Calls, Leave(d)
      PROVE  \/ call[c] = "ok" /\ answer'[c] = answer[c]
             \/ call[c] = "active" /\ loop[c] = "matched" /\ Leave(c) /\ answer'[c] = hand[c].of
  <2>1. CASE d = c
    <3>1. call[c] \in {"active", "timeout"}
      BY <1>1, <2>1 DEF Leave, Places, Loops, Busy, Reading
    <3>2. call[c] = "active" /\ loop[c] = "matched"
      BY <1>0, <1>1, <2>1, <3>1 DEF Leave, Decide, TypeOK
    <3> QED BY <1>0, <1>1, <2>1, <3>2 DEF Leave, TypeOK
  <2>2. CASE d # c
    BY <1>0, <1>1, <2>2 DEF Leave, Decide, TypeOK
  <2> QED BY <2>1, <2>2
<1>2. ASSUME NEW d \in Calls, Fire(d) PROVE call[c] = "ok" /\ answer'[c] = answer[c]
  BY <1>0, <1>2 DEF Fire, Decide, TypeOK
<1>3. ASSUME \/ \E d \in Calls : Start(d)
             \/ \E d \in Ops : Issue(d)
             \/ CloseFirst \/ CloseAgain \/ Create
      PROVE  call[c] = "ok" /\ answer'[c] = answer[c]
  BY <1>0, <1>3, CallsDiffer DEF Start, Issue, CloseFirst, CloseAgain, RequestCloseOf, Create, TypeOK
<1>4. ASSUME \/ OnOpenOk \/ OpenFails \/ CloseFails \/ OnCloseOk \/ OnClose
             \/ RecvStray \/ Close \/ ServerStep \/ ServerClose
             \/ \E d \in Calls : Body(d)
             \/ \E k \in 1 .. Len(s2c) : RecvChunk(k)
      PROVE  call[c] = "ok" /\ answer'[c] = answer[c]
  BY <1>4 DEF OnOpenOk, OpenFails, CloseFails, OnCloseOk, OnClose, RecvStray, Close, ServerStep,
              ServerClose, client, Body, RecvChunk
<1>5. CASE UNCHANGED vars
  BY <1>5 DEF vars, client
<1> QED BY <1>1, <1>2, <1>3, <1>4, <1>5 DEF Next, Micro

\* A call that succeeds under the invariant has its own reply in hand.
LEMMA OwnReplyStep ==
  ASSUME Dialogue, OwnReply, [Next]_vars
  PROVE  OwnReply'
<1> SUFFICES ASSUME NEW c \in Ops, call'[c] = "ok" PROVE answer'[c] = c
  BY DEF OwnReply
<1>0. Places /\ c \in Calls /\ started \in Seq(Calls) /\ Once(started)
  BY CallsDiffer DEF Dialogue, Places, TypeOK, Loops
<1>1. CASE call[c] = "ok" /\ answer'[c] = answer[c]
  BY <1>1 DEF OwnReply
<1>2. CASE call[c] = "active" /\ loop[c] = "matched" /\ answer'[c] = hand[c].of
  <2> DEFINE d == hand[c].of
  <2>1. hand[c].type = "reply" /\ Method(d) = Method(c)
    BY <1>0, <1>2 DEF Dialogue, Received, OwnHands, Matches
  <2>2. d \in Calls
    BY <1>0, <2>1 DEF Dialogue, Forms, Got, FromServer, End, Cmd
  <2>3. d \in Ops
    BY <2>1, <2>2, CallsDiffer DEF Calls, Closes
  <2>4. d = c \/ Before(c, d)
    BY <1>0, <1>2, <2>3 DEF Dialogue, Received, OwnHands, Own
  <2>5. ~Before(c, d)
    BY <1>0, <1>2, BeforeOrders DEF Places, Holder
  <2> QED BY <1>2, <2>4, <2>5
<1> QED BY <1>0, <1>1, <1>2, Accepts

\* An application's call is completed by the server's answer to it, and never by that to an
\* earlier call of the same method that was given up, however late it comes.
THEOREM OwnReplyHolds == Spec => []OwnReply
<1>1. Init => OwnReply
  BY CallsDiffer DEF Init, OwnReply
<1>2. Dialogue /\ OwnReply /\ [Next]_vars => OwnReply'
  BY OwnReplyStep
<1> QED BY <1>1, <1>2, InitDialogue, DialogueStep, PTL DEF Spec

-----------------------------------------------------------------------------
(***************************************************************************)
(* What a step can do to what these proofs are about.                      *)
(***************************************************************************)
\* A call comes to its end in its loop, or by its timer.
LEMMA Resolves ==
  ASSUME Places, [Next]_vars, NEW c \in Calls, call'[c] # call[c], call'[c] \in Finals
  PROVE  /\ call[c] = "active"
         /\ \/ Leave(c) /\ loop[c] = "matched" /\ call'[c] = "ok"
            \/ Leave(c) /\ loop[c] = "refused" /\ call'[c] = "refused"
            \/ Leave(c) /\ loop[c] = "broke" /\ call'[c] = "noResponse"
            \/ Fire(c) /\ call'[c] = "timeout"
<1>0. TypeOK
  BY DEF Places
<1>1. ASSUME NEW d \in Calls, d # c, Leave(d) \/ Fire(d) PROVE FALSE
  BY <1>0, <1>1 DEF Leave, Fire, Decide, TypeOK
<1>2. CASE Leave(c)
  <2>1. /\ call[c] = "active"
        /\ \/ loop[c] = "matched" /\ call'[c] = "ok"
           \/ loop[c] = "refused" /\ call'[c] = "refused"
           \/ loop[c] = "broke" /\ call'[c] = "noResponse"
    BY <1>0, <1>2 DEF Leave, Decide, TypeOK
  <2> QED BY <1>2, <2>1
<1>3. CASE Fire(c)
  <2>1. call[c] = "active" /\ call'[c] = "timeout"
    BY <1>0, <1>3 DEF Fire, Decide, TypeOK
  <2> QED BY <1>3, <2>1
<1>4. ASSUME \/ \E d \in Calls : Start(d)
             \/ \E d \in Ops : Issue(d)
             \/ CloseFirst \/ CloseAgain \/ Create
      PROVE  FALSE
  BY <1>0, <1>4, CallsDiffer
     DEF Start, Issue, CloseFirst, CloseAgain, RequestCloseOf, Create, TypeOK, Finals
<1>5. ASSUME \/ OnOpenOk \/ OpenFails \/ CloseFails \/ OnCloseOk \/ OnClose
             \/ RecvStray \/ Close \/ ServerStep \/ ServerClose
             \/ \E d \in Calls : Body(d)
             \/ \E k \in 1 .. Len(s2c) : RecvChunk(k)
      PROVE  UNCHANGED call
  BY <1>5 DEF OnOpenOk, OpenFails, CloseFails, OnCloseOk, OnClose, RecvStray, Close, ServerStep,
              ServerClose, client, Body, RecvChunk
<1>6. CASE UNCHANGED vars
  BY <1>6 DEF vars, client
<1> QED BY <1>1, <1>2, <1>3, <1>4, <1>5, <1>6 DEF Next, Micro

\* onClose is deferred by a refused open(), or by a close that is heard; the channel goes by
\* onClose or by the close-ok of its close().
LEMMA CloseFlags ==
  ASSUME Places, [Next]_vars
  PROVE  /\ closePending' => \/ closePending
                             \/ OpenFails /\ call["open"] = "refused"
                             \/ \E k \in 1 .. Len(s2c) :
                                  /\ RecvChunk(k)
                                  /\ \E i \in 1 .. k : s2c[i].type = "close"
         /\ destroyed' => \/ destroyed
                          \/ OnClose /\ closePending
                          \/ OnCloseOk /\ \E c \in Closes : call[c] = "ok"
<1>1. CASE OpenFails
  BY <1>1 DEF OpenFails
<1>2. ASSUME NEW k \in 1 .. Len(s2c), RecvChunk(k)
      PROVE  /\ UNCHANGED destroyed
             /\ closePending' => closePending \/ \E i \in 1 .. k : s2c[i].type = "close"
  BY <1>2 DEF RecvChunk
<1>3. CASE OnClose
  BY <1>3 DEF OnClose
<1>4. CASE OnCloseOk
  <2>1. \E c \in Closes : call[c] = "ok"
    BY <1>4 DEF OnCloseOk, CloseAcknowledged, Closes
  <2> QED BY <1>4, <2>1 DEF OnCloseOk
<1>5. ASSUME \/ OnOpenOk \/ CloseFirst \/ CloseAgain \/ CloseFails
             \/ RecvStray \/ Create \/ Close \/ ServerStep \/ ServerClose
             \/ \E d \in Ops : Issue(d)
             \/ \E d \in Calls : Start(d) \/ Body(d) \/ Leave(d) \/ Fire(d)
      PROVE  UNCHANGED <<closePending, destroyed>>
  BY <1>5 DEF OnOpenOk, CloseFirst, CloseAgain, RequestCloseOf, CloseFails,
              RecvStray, Create, Close, ServerStep, ServerClose, client, Issue,
              Start, Body, Leave, Fire
<1>6. CASE UNCHANGED vars
  BY <1>6 DEF vars, client
<1> QED BY <1>1, <1>2, <1>3, <1>4, <1>5, <1>6 DEF Next, Micro

\* A loop that has ended keeps what it read last.
LEMMA HandKept ==
  ASSUME Places, [Next]_vars, NEW c \in Calls, loop[c] \in {"matched", "refused", "broke", "over"}
  PROVE  hand'[c] = hand[c] /\ (loop'[c] = loop[c] \/ (Leave(c) /\ loop'[c] = "over"))
<1>1. ASSUME NEW k \in 1 .. Len(s2c), RecvChunk(k) PROVE loop'[c] = loop[c] /\ hand'[c] = hand[c]
  BY <1>1, Chunk
<1> QED BY <1>1, HandStep DEF GoesOn


-----------------------------------------------------------------------------
(***************************************************************************)
(* The cause of the server's close.                                        *)
(***************************************************************************)
\* A call that is ok or refused has in hand the reply or the close that made it so.
Verdicts ==
  /\ \A c \in Calls : call[c] = "ok" => loop[c] = "over" /\ Matches(c, hand[c])
  /\ \A c \in Calls : call[c] = "refused" => loop[c] = "over" /\ Refuses(c, hand[c])
  /\ \A c \in Calls : loop[c] = "refused" => Refuses(c, hand[c])

\* The server closes the channel for one call at most.
Causes ==
  /\ \A i \in 1 .. Len(s2c) : s2c[i].type = "close" /\ s2c[i].of # Nobody => s2c[i].of = cause
  /\ \A m \in Got : m.type = "close" /\ m.of # Nobody => m.of = cause
  /\ srv = "open" => cause = Nobody
  /\ cause \in Own \union {Nobody}

\* A step keeps Verdicts: the hand of a call that has ended is not changed.
LEMMA VerdictsStep ==
  ASSUME Dialogue, Verdicts, [Next]_vars
  PROVE  Verdicts'
<1>0. Places /\ TypeOK /\ Finals = {"ok", "refused", "timeout", "noResponse"}
  BY DEF Dialogue, Places, Finals
<1>1. ASSUME NEW c \in Calls, call'[c] \in {"ok", "refused"}
      PROVE  /\ loop'[c] = "over"
             /\ call'[c] = "ok" => Matches(c, hand'[c])
             /\ call'[c] = "refused" => Refuses(c, hand'[c])
  <2>1. CASE call'[c] = call[c]
    <3>1. loop[c] = "over"
      BY <1>1, <2>1 DEF Verdicts
    <3>2. loop'[c] = "over" /\ hand'[c] = hand[c]
      BY <1>0, <3>1, HandKept
    <3> QED BY <1>1, <2>1, <3>2 DEF Verdicts
  <2>2. CASE call'[c] # call[c]
    <3>1. \/ Leave(c) /\ loop[c] = "matched" /\ call'[c] = "ok"
          \/ Leave(c) /\ loop[c] = "refused" /\ call'[c] = "refused"
      BY <1>0, <1>1, <2>2, Resolves
    <3>2. loop'[c] = "over" /\ hand'[c] = hand[c]
      BY <1>0, <3>1 DEF Leave, TypeOK
    <3> QED BY <3>1, <3>2 DEF Verdicts, Dialogue, Received, OwnHands
  <2> QED BY <2>1, <2>2
<1>2. ASSUME NEW c \in Calls, loop'[c] = "refused" PROVE Refuses(c, hand'[c])
  <2>1. hand'[c] = hand[c] /\ (loop[c] = "refused" \/ Exits(c, "refused"))
    <3>1. ASSUME NEW k \in 1 .. Len(s2c), RecvChunk(k) PROVE loop'[c] = loop[c] /\ hand'[c] = hand[c]
      BY <1>0, <1>2, <3>1, Chunk
    <3> QED BY <1>0, <1>2, <3>1, HandStep
  <2> QED BY <2>1 DEF Verdicts, Exits
<1> QED BY <1>1, <1>2 DEF Verdicts, Matches, Refuses

\* Only the first close says for which call it is.
LEMMA CauseStep ==
  ASSUME Dialogue, Causes, [Next]_vars
  PROVE  \/ UNCHANGED cause
         \/ /\ cause = Nobody /\ cause' \in Own /\ srv' = "closing"
            /\ ServerStep /\ c2s[1].of = cause' /\ c2s # <<>> /\ ~UNCHANGED srv
            /\ s2c' = Append(s2c, Cmd("close", cause'))
            /\ (srv = "none" /\ cause' = "open") \/ (srv = "open" /\ cause' \in Ops)
<1>0. Places /\ Forms /\ c2s \in Seq(Commands) /\ Len(c2s) \in Nat
  BY DEF Dialogue, Places, TypeOK
<1>1. CASE ServerClose
  BY <1>1, CmdType DEF ServerClose, ServerSends, Causes
<1>2. CASE ServerStep /\ ~UNCHANGED cause
  <2>1. PICK m \in Commands, next \in {"none", "open", "closing"} :
              FromServer(m) /\ Answers(c2s[1].of, m, next) /\ ServerSends(m, next)
    BY <1>0, <1>2, ServerEffect
  <2>2. m.type = "close" /\ cause' = m.of
    BY <1>2, <2>1 DEF ServerSends
  <2>3. /\ c2s[1].of \in Own /\ m.of = c2s[1].of /\ next = "closing"
        /\ (srv = "none" /\ c2s[1].of = "open") \/ (srv = "open" /\ c2s[1].of \in Ops)
    BY <2>1, <2>2, CmdType DEF Answers, Closes, Calls
  <2>4. c2s # <<>> /\ 1 \in 1 .. Len(c2s)
    BY <1>0, <1>2, HeadAndTail DEF ServerStep
  <2>5. cause = Nobody
    BY <2>3, <2>4 DEF Causes, Dialogue, Received, OpenFirst
  <2>6. m = Cmd("close", m.of)
    BY <2>2, CmdType DEF Commands, Cmd
  <2> QED BY <1>2, <2>1, <2>2, <2>3, <2>4, <2>5, <2>6 DEF ServerSends
<1>3. CASE UNCHANGED cause
  BY <1>3
<1> QED BY <1>0, <1>1, <1>2, <1>3, RepliesStep DEF RecvStray, RecvChunk

\* A step keeps Causes: the server closes an open channel only, and then it is shut.
LEMMA CausesStep ==
  ASSUME Dialogue, Causes, [Next]_vars
  PROVE  Causes'
<1>0. Places /\ Forms /\ Len(s2c) \in Nat /\ Nobody \notin Own
  BY CallsDiffer DEF Dialogue, Places, TypeOK, Own
<1>1. cause' = cause \/ cause = Nobody
  BY CauseStep
<1>2. \A i \in 1 .. Len(s2c') :
        s2c'[i].type = "close" /\ s2c'[i].of # Nobody => s2c'[i].of = cause'
  <2> SUFFICES ASSUME NEW i \in 1 .. Len(s2c'), s2c'[i].type = "close", s2c'[i].of # Nobody
               PROVE  s2c'[i].of = cause'
    OBVIOUS
  <2>1. ASSUME NEW j \in 1 .. Len(s2c), s2c'[i] = s2c[j] PROVE s2c'[i].of = cause'
    BY <1>1, <2>1 DEF Causes
  <2>2. \/ \E j \in 1 .. Len(s2c) : s2c'[i] = s2c[j]
        \/ s2c'[i] = Cmd("close", Nobody)
        \/ cause' = IF s2c'[i].type = "close" THEN s2c'[i].of ELSE cause
    BY <1>0, RepliesShift
  <2> QED BY <2>1, <2>2, CmdType
<1>3. ASSUME NEW m \in Got', m.type = "close", m.of # Nobody PROVE m.of = cause'
  <2>1. m \in Got \/ \E j \in 1 .. Len(s2c) : m = s2c[j]
    <3>1. m # End
      BY <1>3, CmdType DEF End, Cmd
    <3>2. \A k \in 1 .. Len(s2c) : \A i \in 1 .. k : i \in 1 .. Len(s2c)
      BY <1>0
    <3> QED BY <1>0, <3>1, <3>2, GotStep
  <2> QED BY <1>1, <1>3, <2>1 DEF Causes
<1>4. ASSUME srv' = "open" PROVE cause' = Nobody
  <2>1. UNCHANGED cause
    BY <1>4, CauseStep
  <2>2. srv = "open" \/ (c2s # <<>> /\ c2s[1].of = "open")
    BY <1>0, <1>4, ServerOpens
  <2>3. c2s # <<>> => 1 \in 1 .. Len(c2s)
    BY HeadAndTail DEF Dialogue, Places, TypeOK
  <2> QED BY <2>1, <2>2, <2>3 DEF Causes, Dialogue, Received, OpenFirst
<1>5. cause' \in Own \union {Nobody}
  BY CauseStep DEF Causes
<1> QED BY <1>2, <1>3, <1>4, <1>5 DEF Causes

\* A call that is refused is the cause.
RefusedIsCause == \A c \in Own : call[c] = "refused" => cause = c

\* A step keeps RefusedIsCause: a close in hand names the cause.
LEMMA RefusedIsCauseStep ==
  ASSUME Dialogue, Causes, Verdicts, RefusedIsCause, [Next]_vars
  PROVE  RefusedIsCause'
<1> SUFFICES ASSUME NEW c \in Own, call'[c] = "refused" PROVE cause' = c
  BY DEF RefusedIsCause
<1>0. /\ Places /\ c \in Calls /\ c # Nobody /\ Method(c) # "close"
      /\ started \in Seq(Calls) /\ Once(started)
  BY CallsDiffer DEF Dialogue, Places, TypeOK, Loops, Own, Closes
<1>1. cause = c
  <2>1. CASE call[c] = "refused"
    BY <2>1 DEF RefusedIsCause
  <2>2. CASE call[c] # "refused"
    <3>1. call[c] = "active" /\ loop[c] = "refused"
      BY <1>0, <2>2, Resolves DEF Finals
    <3>2. hand[c].type = "close" /\ hand[c].of # Nobody /\ Method(hand[c].of) = Method(c)
      BY <1>0, <3>1 DEF Verdicts, Refuses
    <3>3. hand[c].of = cause /\ cause \in Own
      BY <1>0, <3>2 DEF Causes, Got
    <3>4. hand[c].of = c \/ Before(c, hand[c].of)
      BY <1>0, <3>1, <3>3 DEF Dialogue, Received, OwnHands
    <3>5. ~Before(c, hand[c].of)
      BY <1>0, <3>1, BeforeOrders DEF Places, Holder
    <3> QED BY <3>3, <3>4, <3>5
  <2> QED BY <2>1, <2>2
<1> QED BY <1>0, <1>1, CauseStep

-----------------------------------------------------------------------------
(***************************************************************************)
(* Nothing comes back after a close.                                       *)
(***************************************************************************)
\* The channel has been opened or refused, and will not open again.
Shut == /\ srv # "open" /\ started # <<>>
        /\ \A i \in 1 .. Len(c2s) : c2s[i].of # "open"

\* A close of the server, or its reply to that of the client.
Shutting(m) == m.type = "close" \/ m.of \in Closes

\* A close, or the answer to the open or to an operation.
Early(m) == m.type = "close" \/ m.of \in Own

\* When anything says that the channel closes, the server has shut it.
EndInSight ==
  \/ closePending \/ destroyed \/ cause # Nobody
  \/ \E m \in Got : Shutting(m)
  \/ \E i \in 1 .. Len(s2c) : Shutting(s2c[i])
\* ... and it is so when they do.
OnceShut == EndInSight => Shut

\* The server's close, and the answers to operations, come before the reply to the close.
CloseIsLast ==
  \A i \in 1 .. Len(s2c) :
    Early(s2c[i]) =>
      /\ \A j \in 1 .. i - 1 : ~Shutting(s2c[j])
      /\ \A m \in Got : ~Shutting(m)
      /\ ~closePending /\ ~destroyed

\* A channel that is shut stays so.
LEMMA ShutStays ==
  ASSUME Dialogue, Shut, [Next]_vars
  PROVE  Shut'
<1>0. Places /\ Forms /\ c2s \in Seq(Commands) /\ started \in Seq(Calls) /\ Len(started) \in Nat
  BY DEF Dialogue, Places, TypeOK
<1>1. srv' # "open"
  <2>1. c2s # <<>> => 1 \in 1 .. Len(c2s)
    BY <1>0, HeadAndTail
  <2> QED BY <1>0, <2>1, ServerOpens DEF Shut
<1>2. started' # <<>>
  <2>1. \A c \in Calls : Append(started, c) # <<>>
    BY <1>0
  <2> QED BY <1>0, <2>1, CallSteps DEF Begins, Queues, Decides, Shut
<1>3. ASSUME NEW i \in 1 .. Len(c2s') PROVE c2s'[i].of # "open"
  <2>1. \/ \E j \in 1 .. Len(c2s) : c2s'[i] = c2s[j]
        \/ c2s'[i] = Cmd("closeOk", Nobody)
        \/ \E c \in Calls : Start(c) /\ c2s'[i] = Cmd("call", c)
    BY <1>0, RequestsShift
  <2>2. ~Start("open")
    BY <1>0, OpenStarts DEF Shut
  <2> QED BY <2>1, <2>2, CmdType, CallsDiffer DEF Shut
<1> QED BY <1>1, <1>2, <1>3 DEF Shut

\* The call that opened the channel was refused, or a close is acknowledged: then a close or
\* the reply to one was received.
LEMMA HeardOf ==
  ASSUME Dialogue, Verdicts, call["open"] = "refused" \/ \E c \in Closes : call[c] = "ok"
  PROVE  \E m \in Got : Shutting(m)
<1>1. CASE call["open"] = "refused"
  <2>1. hand["open"].type = "close" /\ hand["open"] \in Got
    BY <1>1, CallsDiffer DEF Verdicts, Refuses, Got
  <2> QED BY <2>1 DEF Shutting
<1>2. ASSUME NEW c \in Closes, call[c] = "ok" PROVE \E m \in Got : Shutting(m)
  <2>0. c \in Calls /\ Method(c) = "close"
    BY CallsDiffer DEF Closes
  <2>1. hand[c].type = "reply" /\ Method(hand[c].of) = "close" /\ hand[c] \in Got
    BY <1>2, <2>0 DEF Verdicts, Matches, Got
  <2>2. hand[c].of \in Calls
    BY <2>1, CmdType DEF Dialogue, Forms, FromServer, End, Cmd
  <2>3. hand[c].of \in Closes
    BY <2>1, <2>2, CallsDiffer
  <2> QED BY <2>1, <2>3 DEF Shutting
<1> QED BY <1>1, <1>2

\* A server that sends anything and is not open then has shut the channel.
LEMMA ServerShuts ==
  ASSUME Dialogue, ServerClose \/ ServerStep, ~UNCHANGED s2c, srv' # "open"
  PROVE  Shut'
<1>0. /\ Places /\ Forms /\ c2s \in Seq(Commands) /\ Len(c2s) \in Nat /\ [Next]_vars
      /\ c2s # <<>> => 1 \in 1 .. Len(c2s)
  BY HeadAndTail DEF Dialogue, Places, TypeOK, Next
<1>1. UNCHANGED started
  BY DEF ServerClose, ServerStep, client
<1>2. started # <<>>
  BY DEF Dialogue, Received, Fresh, ServerClose, ServerStep
<1>3. CASE ServerClose
  <2>1. \A i \in 1 .. Len(c2s) : c2s[i].of # "open"
    BY <1>3 DEF ServerClose, Dialogue, Received, OpenFirst
  <2>2. UNCHANGED c2s
    BY <1>3 DEF ServerClose
  <2> QED BY <1>1, <1>2, <2>1, <2>2 DEF Shut
<1>4. CASE ServerStep
  <2>1. c2s # <<>> /\ c2s' = Tail(c2s) /\ (srv \in {"open", "closing"} \/ c2s[1].of = "open")
    BY <1>0, <1>4, ServerEffect DEF Answers
  <2>2. /\ Len(c2s') = Len(c2s) - 1
        /\ \A i \in 1 .. Len(c2s') : i + 1 \in 1 .. Len(c2s) /\ c2s'[i] = c2s[i + 1]
    BY <1>0, <2>1, HeadAndTail
  <2>3. \A i \in 1 .. Len(c2s') : i + 1 # 1
    BY <1>0, <2>2
  <2>4. \A i \in 1 .. Len(c2s') : c2s'[i].of # "open"
    BY <2>2, <2>3 DEF Dialogue, Received, OpenFirst
  <2> QED BY <1>1, <1>2, <2>4 DEF Shut
<1> QED BY <1>3, <1>4

\* What the server sends anew: an answer while the channel is not shut, or the reply to a
\* close.
LEMMA NewReply ==
  ASSUME Dialogue, [Next]_vars
  PROVE  \E k \in Nat :
           \A j \in 1 .. Len(s2c') :
             \/ j + k \in 1 .. Len(s2c) /\ s2c'[j] = s2c[j + k]
             \/ /\ k = 0 /\ j = Len(s2c) + 1 /\ UNCHANGED client
                /\ (ServerClose \/ ServerStep)
                /\ Shutting(s2c'[j]) => Shut'
                /\ Early(s2c'[j]) => ~Shut
<1>0. Places /\ Forms /\ Len(s2c) \in Nat /\ (c2s # <<>> => 1 \in 1 .. Len(c2s))
  BY HeadAndTail DEF Dialogue, Places, TypeOK
<1>1. PICK k \in Nat :
           \A j \in 1 .. Len(s2c') :
             \/ j + k \in 1 .. Len(s2c) /\ s2c'[j] = s2c[j + k]
             \/ /\ k = 0 /\ j = Len(s2c) + 1 /\ j = Len(s2c') /\ UNCHANGED <<client, stray>>
                /\ FromServer(s2c'[j])
                /\ \/ /\ ServerClose /\ s2c'[j] = Cmd("close", Nobody) /\ c2s' = c2s
                      /\ srv = "open" /\ srv' = "closing" /\ cause' = Nobody
                   \/ /\ ServerStep /\ c2s # <<>> /\ c2s' = Tail(c2s)
                      /\ c2s[1].type = "call" /\ c2s[1].of \in Calls
                      /\ Answers(c2s[1].of, s2c'[j], srv')
                      /\ cause' = IF s2c'[j].type = "close" THEN s2c'[j].of ELSE cause
  BY <1>0, RepliesShift
<1>2. ASSUME NEW j \in 1 .. Len(s2c'), j = Len(s2c) + 1, j = Len(s2c'),
             ServerClose, s2c'[j] = Cmd("close", Nobody), srv = "open", srv' = "closing"
      PROVE  (Shutting(s2c'[j]) => Shut') /\ ~Shut
  <2>1. ~UNCHANGED s2c
    BY <1>0, <1>2
  <2> QED BY <1>2, <2>1, ServerShuts DEF Shut
<1>3. ASSUME NEW j \in 1 .. Len(s2c'), j = Len(s2c) + 1, j = Len(s2c'),
             ServerStep, c2s # <<>>, c2s[1].of \in Calls, Answers(c2s[1].of, s2c'[j], srv')
      PROVE  /\ Shutting(s2c'[j]) => Shut'
             /\ Early(s2c'[j]) => ~Shut
  <2>1. ~UNCHANGED s2c
    BY <1>0, <1>3
  <2>2. Shutting(s2c'[j]) => srv' # "open"
    BY <1>3, CallsDiffer DEF Answers, Shutting, Closes, Own
  <2>3. Early(s2c'[j]) => c2s[1].of = "open" \/ srv = "open"
    BY <1>3, CallsDiffer DEF Answers, Early, Closes, Own, Cmd
  <2> QED BY <1>0, <1>3, <2>1, <2>2, <2>3, ServerShuts DEF Shut
<1> QED BY <1>1, <1>2, <1>3

\* A step keeps OnceShut.
LEMMA OnceShutStep ==
  ASSUME Dialogue, Verdicts, Causes, OnceShut, [Next]_vars
  PROVE  OnceShut'
<1>0. Places /\ Len(s2c) \in Nat /\ \A k \in 1 .. Len(s2c) : \A i \in 1 .. k : i \in 1 .. Len(s2c)
  BY DEF Dialogue, Places, TypeOK
<1>1. CASE Shut
  BY <1>1, ShutStays DEF OnceShut
<1>2. CASE ~EndInSight
  <2>1. ~closePending'
    BY <1>0, <1>2, CloseFlags, HeardOf DEF EndInSight, Shutting
  <2>2. ~destroyed'
    BY <1>0, <1>2, CloseFlags, HeardOf DEF EndInSight
  <2>3. ~Shutting(End)
    BY CallsDiffer, CmdType DEF Shutting, End, Cmd, Closes
  <2>4. \A m \in Got' : ~Shutting(m)
    BY <1>0, <1>2, <2>3, GotStep DEF EndInSight
  <2>5. ASSUME NEW i \in 1 .. Len(s2c'), Shutting(s2c'[i]) PROVE Shut'
    BY <1>2, <2>5, NewReply DEF EndInSight
  <2>6. ASSUME cause' # Nobody PROVE Shut'
    <3>1. ServerStep /\ srv' = "closing" /\ s2c' = Append(s2c, Cmd("close", cause'))
          /\ cause' \in Own
      BY <1>2, <2>6, CauseStep DEF EndInSight
    <3>2. Cmd("close", cause') \in Commands
      BY <3>1, CmdType, CallsDiffer DEF Own
    <3>3. Len(s2c') = Len(s2c) + 1
      BY <3>1, <3>2, AppendProperties DEF Dialogue, Places, TypeOK
    <3>4. ~UNCHANGED s2c
      BY <1>0, <3>3
    <3> QED BY <3>1, <3>4, ServerShuts
  <2>7. EndInSight' => \/ closePending' \/ destroyed' \/ cause' # Nobody
                       \/ \E m \in Got' : Shutting(m)
                       \/ \E i \in 1 .. Len(s2c') : Shutting(s2c'[i])
    BY DEF EndInSight, Shutting, Closes
  <2> QED BY <2>1, <2>2, <2>4, <2>5, <2>6, <2>7 DEF OnceShut
<1> QED BY <1>1, <1>2 DEF OnceShut

\* A step keeps CloseIsLast: the server says nothing more on a channel that it has shut.
LEMMA CloseIsLastStep ==
  ASSUME Dialogue, Verdicts, OnceShut, CloseIsLast, [Next]_vars
  PROVE  CloseIsLast'
<1>0. /\ Places /\ Len(s2c) \in Nat /\ Len(s2c') \in Nat
      /\ \A k \in 1 .. Len(s2c) : k \in Nat /\ \A i \in 1 .. k : i \in 1 .. Len(s2c)
  <2>1. TypeOK'
    BY TypeStep DEF Dialogue, Places
  <2> QED BY <2>1 DEF Dialogue, Places, TypeOK
<1>1. ~Shutting(End)
  BY CallsDiffer, CmdType DEF Shutting, End, Cmd, Closes
<1> SUFFICES ASSUME NEW i \in 1 .. Len(s2c'), Early(s2c'[i])
             PROVE  /\ \A j \in 1 .. i - 1 : ~Shutting(s2c'[j])
                    /\ \A m \in Got' : ~Shutting(m)
                    /\ ~closePending' /\ ~destroyed'
  BY DEF CloseIsLast, Early, Shutting, Closes, Own
<1>2. ASSUME NEW k \in 1 .. Len(s2c), RecvChunk(k)
      PROVE  /\ \A j \in 1 .. i - 1 : ~Shutting(s2c'[j])
             /\ \A m \in Got' : ~Shutting(m)
             /\ ~closePending' /\ ~destroyed'
  <2>1. /\ i + k \in 1 .. Len(s2c) /\ s2c'[i] = s2c[i + k]
        /\ \A j \in 1 .. i - 1 : j + k \in 1 .. Len(s2c) /\ s2c'[j] = s2c[j + k]
    <3>1. \A j \in 1 .. i - 1 : j \in 1 .. Len(s2c')
      BY <1>0
    <3> QED BY <1>0, <1>2, <3>1, Chunk
  <2>2. /\ \A j \in 1 .. i - 1 : j + k \in 1 .. i + k - 1
        /\ \A j \in 1 .. k : j \in 1 .. i + k - 1
    BY <1>0
  <2>3. /\ \A j \in 1 .. i + k - 1 : ~Shutting(s2c[j])
        /\ \A m \in Got : ~Shutting(m)
        /\ ~closePending /\ ~destroyed
    BY <2>1 DEF CloseIsLast
  <2>4. \A j \in 1 .. i - 1 : ~Shutting(s2c'[j])
    BY <2>1, <2>2, <2>3
  <2>5. ASSUME NEW j \in 1 .. k PROVE ~Shutting(s2c[j]) /\ s2c[j].type # "close"
    BY <2>2, <2>3 DEF Shutting
  <2>6. \A m \in Got' : m \in Got \/ m = End \/ \E j \in 1 .. k : m = s2c[j]
    <3>1. ASSUME NEW j \in 1 .. Len(buf') PROVE buf'[j] \in Got \/ \E x \in 1 .. k : buf'[j] = s2c[x]
      BY <1>0, <1>2, Chunk DEF Got
    <3>2. ASSUME NEW c \in Calls PROVE hand'[c] \in Got \/ \E x \in 1 .. k : hand'[c] = s2c[x]
      BY <1>0, <1>2, Chunk DEF Got
    <3> QED BY <3>1, <3>2 DEF Got
  <2>7. \A m \in Got' : ~Shutting(m)
    BY <1>1, <2>3, <2>5, <2>6
  <2>8. ~closePending' /\ ~destroyed'
    BY <1>2, <2>3, <2>5 DEF RecvChunk
  <2> QED BY <2>4, <2>7, <2>8
<1>3. ASSUME \A k \in 1 .. Len(s2c) : ~RecvChunk(k), \A m \in Got : ~Shutting(m),
             ~closePending, ~destroyed
      PROVE  (\A m \in Got' : ~Shutting(m)) /\ ~closePending' /\ ~destroyed'
  BY <1>0, <1>1, <1>3, GotStep, CloseFlags, HeardOf
<1>4. ASSUME \A k \in 1 .. Len(s2c) : ~RecvChunk(k)
      PROVE  /\ \A j \in 1 .. i - 1 : ~Shutting(s2c'[j])
             /\ \A m \in Got' : ~Shutting(m)
             /\ ~closePending' /\ ~destroyed'
  <2>1. PICK k \in Nat :
           \A j \in 1 .. Len(s2c') :
             \/ j + k \in 1 .. Len(s2c) /\ s2c'[j] = s2c[j + k]
             \/ /\ k = 0 /\ j = Len(s2c) + 1 /\ UNCHANGED client
                /\ (ServerClose \/ ServerStep)
                /\ Shutting(s2c'[j]) => Shut'
                /\ Early(s2c'[j]) => ~Shut
    BY NewReply
  <2>2. \A j \in 1 .. i - 1 : /\ j \in 1 .. Len(s2c') /\ j + k \in 1 .. i + k - 1
                              /\ j # Len(s2c) + 1 \/ i # Len(s2c) + 1
                              /\ i + k <= Len(s2c) => j + k <= Len(s2c)
    BY <1>0
  <2>3. CASE i + k \in 1 .. Len(s2c) /\ s2c'[i] = s2c[i + k]
    <3>1. /\ \A j \in 1 .. i + k - 1 : ~Shutting(s2c[j])
          /\ \A m \in Got : ~Shutting(m)
          /\ ~closePending /\ ~destroyed
      BY <2>3 DEF CloseIsLast
    <3>2. ASSUME NEW j \in 1 .. i - 1 PROVE ~Shutting(s2c'[j])
      <4>1. j \in 1 .. Len(s2c') /\ j + k \in 1 .. i + k - 1 /\ ~(k = 0 /\ j = Len(s2c) + 1)
        BY <1>0, <2>2, <2>3
      <4>2. s2c'[j] = s2c[j + k]
        BY <2>1, <4>1
      <4> QED BY <3>1, <4>1, <4>2
    <3> QED BY <1>3, <1>4, <3>1, <3>2
  <2>4. CASE k = 0 /\ i = Len(s2c) + 1 /\ ~Shut
    <3>1. ~EndInSight
      BY <2>4 DEF OnceShut
    <3>2. ASSUME NEW j \in 1 .. i - 1 PROVE ~Shutting(s2c'[j])
      <4>1. j \in 1 .. Len(s2c') /\ j + k = j /\ j # Len(s2c) + 1
        BY <1>0, <2>2, <2>4
      <4>2. j \in 1 .. Len(s2c) /\ s2c'[j] = s2c[j]
        BY <2>1, <4>1
      <4> QED BY <3>1, <4>2 DEF EndInSight
    <3> QED BY <1>3, <1>4, <3>1, <3>2 DEF EndInSight
  <2> QED BY <2>1, <2>3, <2>4
<1> QED BY <1>2, <1>4

-----------------------------------------------------------------------------
(***************************************************************************)
(* A refusal reaches its call.                                             *)
(***************************************************************************)
\* No call has failed yet.
Calm == \A e \in Calls : call[e] \in {"idle", "queued", "active", "ok"}

\* Then the class of the call under way is not settled.
UnsettledYet ==
  Calm => \A c \in Calls : call[c] = "active" => ~settled[Class(c)]

\* A loop finds the end of the stream only on a destroyed channel.
EndIsEnd ==
  /\ \A i \in 1 .. Len(buf) : buf[i] # End
  /\ \A c \in Calls : loop[c] \in {"read", "next"} /\ hand[c] = End => destroyed

\* A call gets no response, unless one was given up, only after the channel went or a call
\* was refused.
NoResponseLate ==
  /\ \E e \in Calls : call[e] = "noResponse" \/ (loop[e] = "broke" /\ call[e] = "active")
  /\ ~TimedOut
  => destroyed \/ \E e \in Calls : call[e] = "refused"

\* The call that the server has closed the channel for will find the close, unless a call
\* was given up.
Reported ==
  \A c \in Own :
    cause = c /\ ~TimedOut =>
      \/ call[c] = "refused"
      \/ /\ call[c] = "active" /\ Calm
         /\ \/ \E i \in 1 .. Len(s2c) : s2c[i] = Cmd("close", c)
            \/ hand[c] = Cmd("close", c) /\ loop[c] \in {"read", "next", "refused"}

\* What has failed stays so.
LEMMA CalmBefore ==
  ASSUME Places, [Next]_vars
  PROVE  (Calm' => Calm) /\ (~TimedOut' => ~TimedOut)
<1>1. \A e \in Calls : call[e] \in Finals => call'[e] = call[e]
  BY FinalStays
<1>2. \A e \in Calls : call[e] \in Finals \union {"idle", "queued", "active"}
  BY DEF Places, TypeOK, Pending
<1> QED BY <1>1, <1>2 DEF Calm, TimedOut, Finals

\* A step keeps UnsettledYet: only the timer of a failed call settles a class.
LEMMA UnsettledYetStep ==
  ASSUME Places, Timers, UnsettledYet, [Next]_vars
  PROVE  UnsettledYet'
<1>0. TypeOK /\ \A c \in Calls : Class(c) \in Classes
  BY ClassType DEF Places
<1> SUFFICES ASSUME Calm', NEW c \in Calls, call'[c] = "active" PROVE ~settled'[Class(c)]
  BY DEF UnsettledYet, Class, Method
<1>1. Calm
  BY CalmBefore
<1>2. CASE Start(c)
  BY <1>0, <1>2 DEF Start, TypeOK
<1>3. CASE ~Start(c)
  <2>1. call[c] = "active"
    <3>1. call[c] # "queued"
      BY <1>3, StartsBy
    <3> QED BY <3>1, CallGoesOn DEF Finals
  <2>2. ~settled[Class(c)]
    BY <1>1, <2>1 DEF UnsettledYet
  <2>3. ASSUME NEW d \in Calls, Leave(d) PROVE ~settled'[Class(c)]
    <3>1. CASE loop[d] = "matched"
      <4>1. call[d] = "active"
        BY <1>1, <3>1 DEF Places, Loops, Busy, Calm
      <4>2. d = c
        BY <2>1, <4>1, OneActive
      <4>3. call'[c] = "ok"
        BY <1>0, <2>1, <2>3, <3>1, <4>2 DEF Leave, Decide, TypeOK
      <4> QED BY <4>3
    <3>2. CASE UNCHANGED settled
      BY <2>2, <3>2
    <3> QED BY <2>3, <3>1, <3>2 DEF Leave
  <2>4. ASSUME NEW d \in Calls, Fire(d) PROVE FALSE
    <3>1. d \in ticking
      BY <2>4 DEF Fire
    <3>2. call[d] = "active"
      BY <1>1, <3>1 DEF Timers, Calm
    <3>3. call'[d] = "timeout"
      BY <1>0, <2>4, <3>2 DEF Fire, Decide, TypeOK
    <3> QED BY <3>3 DEF Calm
  <2>5. CASE OnOpenOk
    BY <1>0, <2>2, <2>5 DEF OnOpenOk, TypeOK
  <2>6. ASSUME NEW d \in Calls, Start(d) PROVE FALSE
    BY <2>1, <2>6 DEF Start, CanStart, Places, Holder
  <2>7. ASSUME \/ OpenFails \/ CloseFirst \/ CloseAgain \/ CloseFails \/ OnCloseOk
               \/ RecvStray \/ OnClose \/ Create \/ Close \/ ServerStep \/ ServerClose
               \/ \E d \in Ops : Issue(d)
               \/ \E d \in Calls : Body(d)
               \/ \E k \in 1 .. Len(s2c) : RecvChunk(k)
        PROVE  UNCHANGED settled
    BY <2>7 DEF OpenFails, CloseFirst, CloseAgain, RequestCloseOf, CloseFails, OnCloseOk,
                RecvStray, OnClose, Create, Close, ServerStep, ServerClose, client, Issue,
                Body, RecvChunk
  <2>8. CASE UNCHANGED vars
    BY <2>2, <2>8 DEF vars, client
  <2> QED BY <2>2, <2>3, <2>4, <2>5, <2>6, <2>7, <2>8 DEF Next, Micro
<1> QED BY <1>2, <1>3

\* A step keeps EndIsEnd.
LEMMA EndIsEndStep ==
  ASSUME Dialogue, EndIsEnd, [Next]_vars
  PROVE  EndIsEnd'
<1>0. Places /\ buf \in Seq(Commands) /\ Len(s2c) \in Nat
  BY DEF Dialogue, Places, TypeOK
<1>1. \A i \in 1 .. Len(s2c) : s2c[i] # End
  BY CmdType DEF Dialogue, Forms, FromServer, End, Cmd
<1>2. \A k \in 1 .. Len(s2c) : \A i \in 1 .. k : s2c[i] # End
  BY <1>0, <1>1
<1>3. ASSUME NEW i \in 1 .. Len(buf') PROVE buf'[i] # End
  <2>1. ASSUME NEW k \in 1 .. Len(s2c), RecvChunk(k) PROVE buf'[i] # End
    <3>1. \/ \E j \in 1 .. Len(buf) : buf'[i] = buf[j]
          \/ \E j \in 1 .. k : buf'[i] = s2c[j]
      BY <1>0, <2>1, Chunk
    <3> QED BY <1>2, <3>1 DEF EndIsEnd
  <2> QED BY <1>0, <2>1, BufMembers DEF EndIsEnd
<1>4. ASSUME NEW c \in Calls, loop'[c] \in {"read", "next"}, hand'[c] = End PROVE destroyed'
  <2>1. ASSUME NEW k \in 1 .. Len(s2c), RecvChunk(k) PROVE destroyed'
    <3>1. loop'[c] = loop[c] /\ hand'[c] = hand[c]
      BY <1>0, <1>2, <1>4, <2>1, Chunk DEF EndIsEnd
    <3> QED BY <1>0, <1>4, <3>1, BufStep DEF EndIsEnd
  <2>2. buf # <<>> => Head(buf) # End
    BY <1>0, HeadAndTail DEF EndIsEnd
  <2>3. destroyed => destroyed'
    BY <1>0, BufStep
  <2>4. CASE loop'[c] = loop[c] /\ hand'[c] = hand[c]
    BY <1>4, <2>3, <2>4 DEF EndIsEnd
  <2>5. CASE Exits(c, loop'[c])
    BY <1>4, <2>5 DEF Exits
  <2> QED BY <1>0, <1>4, <2>1, <2>2, <2>3, <2>4, <2>5, HandStep
<1> QED BY <1>3, <1>4 DEF EndIsEnd

\* A step keeps NoResponseLate.
LEMMA NoResponseLateStep ==
  ASSUME Places, UnsettledYet, EndIsEnd, NoResponseLate, [Next]_vars
  PROVE  NoResponseLate'
<1>0. TypeOK /\ \A c \in Calls : call[c] \in {"ok", "refused", "noResponse"} => call'[c] = call[c]
  BY FinalStays DEF Finals, Places
<1> SUFFICES ASSUME NEW e \in Calls, ~TimedOut',
                    call'[e] = "noResponse" \/ (loop'[e] = "broke" /\ call'[e] = "active"),
                    ~destroyed'
             PROVE  \E d \in Calls : call'[d] = "refused"
  BY DEF NoResponseLate
<1>1. ~TimedOut /\ ~destroyed
  BY CalmBefore, BufStep
<1> SUFFICES \E d \in Calls : call[d] = "refused"
  BY <1>0
<1>2. CASE call[e] = "noResponse" \/ (loop[e] = "broke" /\ call[e] = "active")
  BY <1>1, <1>2 DEF NoResponseLate
<1>3. CASE call'[e] = "noResponse" /\ call[e] # "noResponse"
  BY <1>2, <1>3, Resolves DEF Finals
<1>4. CASE loop'[e] = "broke" /\ call'[e] = "active" /\ loop[e] # "broke"
  <2>1. loop[e] \in {"read", "next"} /\ (hand[e] = End \/ settled[Class(e)])
    <3>1. ASSUME NEW k \in 1 .. Len(s2c), RecvChunk(k) PROVE FALSE
      BY <1>4, <3>1, Chunk
    <3> QED BY <1>4, <3>1, HandStep DEF Exits
  <2>2. call[e] = "active"
    <3>1. call[e] # "queued"
      BY <2>1 DEF Places, Loops, Pending
    <3> QED BY <1>4, <3>1, CallGoesOn DEF Finals
  <2>3. settled[Class(e)]
    BY <1>1, <2>1 DEF EndIsEnd
  <2>4. ~Calm
    BY <2>2, <2>3 DEF UnsettledYet
  <2>5. PICK d \in Calls : call[d] \in {"refused", "noResponse"}
    BY <1>0, <1>1, <2>4 DEF Calm, TimedOut, TypeOK, Finals, Pending
  <2> QED BY <1>1, <2>5 DEF NoResponseLate
<1>5. CASE loop'[e] = "broke" /\ call'[e] = "active" /\ loop[e] = "broke" /\ call[e] # "active"
  <2>1. call[e] # "queued"
    BY <1>5 DEF Places, Loops, Pending
  <2> QED BY <1>5, <2>1, CallGoesOn DEF Finals
<1> QED BY <1>2, <1>3, <1>4, <1>5

\* The close in the hand of the loop it is for makes it leave, refused; and in a chunk it is
\* read by that loop.
LEMMA ReportedStep ==
  ASSUME Dialogue, Verdicts, Causes, RefusedIsCause, OnceShut, CloseIsLast, UnsettledYet,
         NoResponseLate, Reported, [Next]_vars
  PROVE  Reported'
<1> SUFFICES ASSUME NEW c \in Own, cause' = c, ~TimedOut'
             PROVE  \/ call'[c] = "refused"
                    \/ /\ call'[c] = "active" /\ Calm'
                       /\ \/ \E i \in 1 .. Len(s2c') : s2c'[i] = Cmd("close", c)
                          \/ hand'[c] = Cmd("close", c) /\ loop'[c] \in {"read", "next", "refused"}
  BY DEF Reported, Own
<1>0. /\ Places /\ TypeOK /\ c \in Calls /\ ~TimedOut /\ Len(s2c) \in Nat /\ s2c \in Seq(Commands)
      /\ Cmd("close", c) \in Commands /\ Cmd("close", c).of = c /\ Cmd("close", c).type = "close"
      /\ Early(Cmd("close", c)) /\ Refuses(c, Cmd("close", c)) /\ Cmd("close", c) # End
      /\ ~Matches(c, Cmd("close", c))
  BY CmdType, CallsDiffer, CalmBefore DEF Dialogue, Places, TypeOK, Own, Early, Refuses, Matches, End, Cmd
<1>a. /\ Finals = {"ok", "refused", "timeout", "noResponse"}
      /\ \A e \in Calls : call[e] \in Finals \union {"idle", "queued", "active"}
  BY <1>0 DEF Finals, TypeOK, Pending
<1>1. CASE cause = c
  <2>1. CASE call[c] = "refused"
    BY <1>0, <2>1, FinalStays DEF Finals
  <2>2. CASE /\ call[c] = "active" /\ Calm
             /\ \/ \E i \in 1 .. Len(s2c) : s2c[i] = Cmd("close", c)
                \/ hand[c] = Cmd("close", c) /\ loop[c] \in {"read", "next", "refused"}
    <3>1. ASSUME NEW i \in 1 .. Len(s2c), s2c[i] = Cmd("close", c)
          PROVE  ~destroyed /\ loop[c] = "waiting"
      BY <1>0, <3>1 DEF CloseIsLast, Dialogue, Received, Awaited
    <3>2. ASSUME NEW e \in Calls, call'[e] \in Finals, call'[e] # call[e]
          PROVE  e = c /\ call'[e] = "refused"
      <4>1. call[e] = "active"
        BY <1>0, <3>2, Resolves
      <4>2. e = c
        BY <1>0, <2>2, <4>1, OneActive
      <4>3. call'[e] # "timeout"
        BY <1>0 DEF TimedOut
      <4>4. loop[c] \in {"waiting", "read", "next", "refused"}
        BY <2>2, <3>1
      <4> QED BY <1>0, <3>2, <4>2, <4>3, <4>4, Resolves
    <3>3. CASE call'[c] = "refused"
      BY <3>3
    <3>4. CASE call'[c] # "refused"
      <4>1. call'[c] = "active"
        BY <1>0, <2>2, <3>2, <3>4, CallGoesOn
      <4>2. Calm'
        <5>1. ASSUME NEW e \in Calls PROVE call'[e] \in {"idle", "queued", "active", "ok"}
          <6>1. call'[e] \in Finals => call'[e] = call[e]
            BY <3>2, <3>4
          <6>2. call'[e] \in Finals \union {"idle", "queued", "active"}
            BY <1>a, CallGoesOn, <1>0
          <6> QED BY <1>a, <2>2, <6>1, <6>2 DEF Calm
        <5> QED BY <5>1 DEF Calm
      <4>3. ASSUME NEW i \in 1 .. Len(s2c), s2c[i] = Cmd("close", c)
            PROVE  \/ \E j \in 1 .. Len(s2c') : s2c'[j] = Cmd("close", c)
                   \/ hand'[c] = Cmd("close", c) /\ loop'[c] \in {"read", "next", "refused"}
        <5>0. ~destroyed /\ loop[c] = "waiting" /\ i \in 1 .. Len(s2c)
          BY <3>1, <4>3
        <5>1. ASSUME NEW k \in 1 .. Len(s2c), RecvChunk(k)
              PROVE  hand'[c] = Cmd("close", c) /\ loop'[c] = "read"
          <6>1. /\ buf = <<>> /\ c \in Readers /\ i <= Turn(c) /\ Turn(c) <= Cardinality(Readers)
                /\ Turn(c) \in Nat /\ Cardinality(Readers) \in Nat
            BY <1>0, <4>3, <5>0, TurnsInOrder DEF Dialogue, Received
          <6>2. Readers = {c}
            <7>1. \A d \in Readers : d = c
              BY <1>0, <6>1 DEF Places, Loops, Holder, Busy, Reading, Readers, TimedOut
            <7> QED BY <6>1, <7>1
          <6>3. Cardinality(Readers) = 1
            BY <6>2, FS_Singleton
          <6>4. Turn(c) = 1 /\ i = 1
            BY <1>0, <6>1, <6>3
          <6>5. Turn(c) <= k
            BY <1>0, <6>4
          <6>6. loop'[c] = "read" /\ hand'[c] = s2c[Turn(c)]
            BY <1>0, <5>1, <6>1, <6>5, Chunk
          <6> QED BY <4>3, <6>4, <6>6
        <5>2. ASSUME NEW m \in Commands, s2c' = Append(s2c, m)
              PROVE  \E j \in 1 .. Len(s2c') : s2c'[j] = Cmd("close", c)
          <6>1. Len(s2c') = Len(s2c) + 1 /\ s2c'[i] = s2c[i]
            BY <1>0, <5>2, AppendProperties
          <6>2. i \in 1 .. Len(s2c')
            BY <1>0, <6>1
          <6> QED BY <4>3, <6>1, <6>2
        <5>3. CASE UNCHANGED s2c
          BY <4>3, <5>3
        <5>4. CASE ServerClose
          BY <5>2, <5>4, CmdType DEF ServerClose, ServerSends
        <5>5. CASE ServerStep
          <6>1. Forms
            BY DEF Dialogue
          <6> QED BY <1>0, <5>2, <5>3, <5>5, <6>1, ServerEffect DEF ServerSends
        <5> QED BY <1>0, <5>0, <5>1, <5>3, <5>4, <5>5, RepliesStep DEF RecvStray
      <4>4. ASSUME hand[c] = Cmd("close", c), loop[c] \in {"read", "next", "refused"}
            PROVE  hand'[c] = Cmd("close", c) /\ loop'[c] \in {"read", "next", "refused"}
        <5>1. ~settled[Class(c)]
          BY <1>0, <2>2 DEF UnsettledYet
        <5>2. ~GoesOn(c)
          BY <1>0, <4>4 DEF GoesOn
        <5>3. Exits(c, loop'[c]) => loop'[c] = "refused"
          BY <1>0, <4>4, <5>1 DEF Exits
        <5>4. ~Leave(c)
          BY <1>0, <2>2, <4>1, <4>4 DEF Leave, Decide, TypeOK
        <5>5. ASSUME NEW k \in 1 .. Len(s2c), RecvChunk(k)
              PROVE  loop'[c] = loop[c] /\ hand'[c] = hand[c]
          BY <1>0, <4>4, <5>5, Chunk
        <5> QED BY <1>0, <4>4, <5>2, <5>3, <5>4, <5>5, HandStep
      <4> QED BY <2>2, <4>1, <4>2, <4>3, <4>4
    <3> QED BY <3>3, <3>4
  <2> QED BY <1>0, <1>1, <2>1, <2>2 DEF Reported
<1>2. CASE cause # c
  <2>1. /\ cause = Nobody /\ ServerStep /\ c2s # <<>> /\ c2s[1].of = c
        /\ s2c' = Append(s2c, Cmd("close", c))
        /\ (srv = "none" /\ c = "open") \/ (srv = "open" /\ c \in Ops)
    BY <1>2, CauseStep
  <2>2. 1 \in 1 .. Len(c2s)
    BY <1>0, <2>1, HeadAndTail DEF TypeOK
  <2>3. ~Shut
    BY <2>1, <2>2 DEF Shut
  <2>4. ~destroyed
    BY <2>3 DEF OnceShut, EndInSight
  <2>5. loop[c] = "waiting"
    BY <2>1, <2>2, <2>4 DEF Dialogue, Received, Awaited, Own
  <2>6. call[c] = "active"
    BY <1>0, <2>5 DEF Places, Loops, Busy, Reading, TimedOut
  <2>7. \A e \in Calls : call[e] # "refused"
    <3>1. \A e \in Own : call[e] # "refused"
      BY <2>1, CallsDiffer DEF RefusedIsCause, Own
    <3>2. ASSUME NEW e \in Closes PROVE call[e] # "refused"
      <4> SUFFICES ASSUME call[e] = "refused" PROVE FALSE
        OBVIOUS
      <4>0. e \in Calls /\ Method(e) = "close"
        BY CallsDiffer DEF Closes
      <4>1. hand[e].type = "close" /\ hand[e].of # Nobody /\ Method(hand[e].of) = "close" /\ hand[e] \in Got
        BY <4>0 DEF Verdicts, Refuses, Got
      <4>2. hand[e].of \in Own
        BY <4>1, CmdType DEF Dialogue, Forms, FromServer, End, Cmd
      <4> QED BY <4>1, <4>2, CallsDiffer DEF Own, Closes
    <3> QED BY <3>1, <3>2, CallsDiffer DEF Own, Closes, Calls
  <2>8. Calm
    BY <1>0, <1>a, <2>4, <2>7 DEF NoResponseLate, Calm, TimedOut
  <2>9. UNCHANGED client
    BY <2>1 DEF ServerStep
  <2>10. call'[c] = "active" /\ Calm'
    BY <2>6, <2>8, <2>9 DEF client, Calm
  <2>11. Len(s2c') = Len(s2c) + 1 /\ s2c'[Len(s2c) + 1] = Cmd("close", c)
    BY <1>0, <2>1, AppendProperties
  <2>12. Len(s2c) + 1 \in 1 .. Len(s2c')
    BY <1>0, <2>11
  <2> QED BY <2>10, <2>11, <2>12
<1> QED BY <1>1, <1>2

\* All that is said of the server's close.
Closing ==
  /\ Dialogue /\ Timers /\ Verdicts
  /\ Causes /\ RefusedIsCause /\ OnceShut /\ CloseIsLast
  /\ UnsettledYet /\ EndIsEnd /\ NoResponseLate /\ Reported

\* The invariant of the close holds at first.
LEMMA InitClosing == Init => Closing
<1> SUFFICES ASSUME Init PROVE Closing
  OBVIOUS
<1>1. Dialogue
  BY InitDialogue
<1>2. Len(buf) = 0 /\ Len(c2s) = 0 /\ Len(s2c) = 0 /\ (\A i \in 1 .. 0 : FALSE)
  BY DEF Init
<1>3. \A m \in Got : m = End
  BY <1>2 DEF Got, Init
<1>4. End.type = "end" /\ End.of = Nobody /\ Nobody \notin Calls /\ Nobody \notin Own
  BY CallsDiffer DEF End, Cmd, Own
<1>5. Timers
  BY DEF Init, Timers
<1>6. Verdicts /\ Causes /\ RefusedIsCause
  BY <1>2, <1>3, <1>4 DEF Init, Verdicts, Causes, RefusedIsCause, Own, Calls
<1>7. OnceShut /\ CloseIsLast
  BY <1>2, <1>3, <1>4, CallsDiffer DEF Init, OnceShut, EndInSight, Shutting, CloseIsLast, Closes
<1>8. UnsettledYet /\ EndIsEnd /\ NoResponseLate /\ Reported
  BY <1>2, <1>4 DEF Init, UnsettledYet, EndIsEnd, NoResponseLate, Reported
<1> QED BY <1>1, <1>5, <1>6, <1>7, <1>8 DEF Closing

\* A step keeps the invariant of the close.
LEMMA ClosingStep == Closing /\ [Next]_vars => Closing'
<1> SUFFICES ASSUME Closing, [Next]_vars PROVE Closing'
  OBVIOUS
<1>0. Places
  BY DEF Closing, Dialogue
<1>1. Dialogue' /\ Timers' /\ Verdicts'
  BY <1>0, DialogueStep, TimersStep, VerdictsStep DEF Closing
<1>2. Causes' /\ RefusedIsCause' /\ OnceShut' /\ CloseIsLast'
  BY CausesStep, RefusedIsCauseStep, OnceShutStep, CloseIsLastStep DEF Closing
<1>3. UnsettledYet' /\ EndIsEnd' /\ NoResponseLate' /\ Reported'
  BY <1>0, UnsettledYetStep, EndIsEndStep, NoResponseLateStep, ReportedStep DEF Closing
<1> QED BY <1>1, <1>2, <1>3 DEF Closing

\* A channel.close of the server that names a call is reported to that call and no other;
\* and, unless a call was given up, never as "No response".
THEOREM RefusalReportedHolds == Spec => []RefusalReported
<1>1. Closing => RefusalReported
  BY DEF Closing, RefusedIsCause, Reported, RefusalReported, Own, Finals
<1> QED BY <1>1, InitClosing, ClosingStep, PTL DEF Spec

-----------------------------------------------------------------------------
(***************************************************************************)
(* The start of the channel, and the attempts to close it.                 *)
(***************************************************************************)
\* Until open() goes on nothing else begins, nothing closes, and nobody listens for a close.
Dawn ==
  stage \in {"unborn", "opening"} =>
    /\ ~destroyed /\ ~closePending /\ ~closeArmed
    /\ \A c \in Calls \ {"open"} : call[c] \in Pending

\* The first attempt to close stands until it has failed, or the channel goes by it.
Attempting ==
  call["close1"] \in {"queued", "active", "ok"} => stage = "first" \/ destroyed

\* The second attempt is only made, unless a call was given up, when the channel went or a
\* call was refused.
SecondAttempt ==
  call["close2"] # "idle" /\ ~TimedOut => destroyed \/ \E e \in Calls : call[e] = "refused"

\* close() queues its second attempt when it goes on without the first.
LEMMA Asks ==
  ASSUME Places, [Next]_vars, call["close2"] = "idle", call'["close2"] # "idle"
  PROVE  CloseAgain
<1>0. TypeOK /\ "close2" \in Calls
  BY CallsDiffer DEF Places
<1>1. ASSUME NEW d \in Calls, Start(d) \/ Leave(d) \/ Fire(d) PROVE FALSE
  BY <1>0, <1>1 DEF Start, CanStart, Leave, Fire, Decide, TypeOK
<1>2. ASSUME (\E d \in Ops : Issue(d)) \/ CloseFirst \/ Create PROVE FALSE
  BY <1>0, <1>2, CallsDiffer DEF Issue, CloseFirst, RequestCloseOf, Create, TypeOK
<1>6. ASSUME \/ OnOpenOk \/ OpenFails \/ CloseFails \/ OnCloseOk \/ OnClose
             \/ RecvStray \/ Close \/ ServerStep \/ ServerClose
             \/ \E d \in Calls : Body(d)
             \/ \E k \in 1 .. Len(s2c) : RecvChunk(k)
      PROVE  FALSE
  BY <1>6 DEF OnOpenOk, OpenFails, CloseFails, OnCloseOk, OnClose, RecvStray, Close, ServerStep,
              ServerClose, client, Body, RecvChunk
<1>7. CASE UNCHANGED vars
  BY <1>7 DEF vars, client
<1> QED BY <1>1, <1>2, <1>6, <1>7 DEF Next, Micro

\* While the open is under way, and until open() goes on, nothing else begins.
LEMMA OpenBeginsFirst ==
  ASSUME Places, stage \in {"unborn", "opening"}, NEW c \in Calls, Start(c)
  PROVE  c = "open"
<1>0. TypeOK /\ Stages /\ Holder /\ "open" \in Calls
  BY CallsDiffer DEF Places
<1>1. queue # <<>> /\ c = Head(queue) /\ call[c] = "queued" /\ ~HasOutcome
  BY DEF Start, CanStart
<1>2. call["open"] \in {"queued", "active"}
  BY <1>0, <1>1 DEF Stages, HasOutcome, TypeOK, Pending
<1> QED BY <1>0, <1>1, <1>2 DEF Holder

\* A step keeps Dawn.
LEMMA DawnStep ==
  ASSUME Dialogue, Dawn, [Next]_vars
  PROVE  Dawn'
<1>0. Places /\ TypeOK
  BY DEF Dialogue, Places
<1> SUFFICES ASSUME stage' \in {"unborn", "opening"}
             PROVE  /\ ~destroyed' /\ ~closePending' /\ ~closeArmed'
                    /\ \A c \in Calls \ {"open"} : call'[c] \in Pending
  BY DEF Dawn
<1>1. stage \in {"unborn", "opening"} /\ ~OpenFails /\ ~OnOpenOk /\ ~OnCloseOk
  BY <1>0 DEF Next, Micro, Start, Body, Leave, OnOpenOk, OpenFails, CloseFirst, CloseAgain,
     RequestCloseOf, CloseFails, OnCloseOk, CloseAcknowledged, RecvChunk, RecvStray, OnClose, Fire,
     Create, Issue, Close, ServerStep, ServerClose, vars, client
<1>2. ~destroyed /\ ~closePending /\ ~closeArmed /\ \A c \in Calls \ {"open"} : call[c] \in Pending
  BY <1>1 DEF Dawn
<1>3. ASSUME NEW c \in Calls \ {"open"} PROVE call'[c] \in Pending
  <2>1. call[c] \in Pending
    BY <1>2, <1>3
  <2>2. CASE call'[c] \notin Pending
    <3>1. call[c] = "queued" /\ call'[c] = "active"
      BY <1>0, <1>3, <2>1, <2>2, CallGoesOn DEF Pending
    <3>2. Start(c)
      BY <1>0, <1>3, <3>1, StartsBy
    <3> QED BY <1>0, <1>1, <1>3, <3>2, OpenBeginsFirst
  <2> QED BY <2>2
<1>4. ~destroyed'
  BY <1>0, <1>1, <1>2, CloseFlags
<1>5. ~closeArmed' /\ ~closePending'
  <2>1. ASSUME NEW k \in 1 .. Len(s2c), RecvChunk(k) PROVE ~closeArmed' /\ ~closePending'
    BY <1>2, <2>1 DEF RecvChunk
  <2>2. ASSUME \/ CloseFirst \/ CloseAgain \/ CloseFails
               \/ RecvStray \/ OnClose \/ Create \/ Close \/ ServerStep \/ ServerClose
               \/ \E d \in Ops : Issue(d)
               \/ \E d \in Calls : Start(d) \/ Body(d) \/ Leave(d) \/ Fire(d)
        PROVE  UNCHANGED closeArmed
    BY <2>2 DEF CloseFirst, CloseAgain, RequestCloseOf, CloseFails, RecvStray, OnClose, Create,
                Close, ServerStep, ServerClose, client, Issue, Start, Body, Leave, Fire
  <2>3. CASE UNCHANGED vars
    BY <1>2, <2>3 DEF vars, client
  <2>4. ~closeArmed'
    BY <1>1, <1>2, <2>1, <2>2, <2>3 DEF Next, Micro
  <2> QED BY <1>0, <1>1, <1>2, <2>1, <2>4, CloseFlags
<1> QED BY <1>3, <1>4, <1>5

\* A step keeps Attempting.
LEMMA AttemptingStep ==
  ASSUME Places, Attempting, [Next]_vars
  PROVE  Attempting'
<1>0. TypeOK /\ Stages /\ "close1" \in Calls /\ (destroyed => destroyed')
  BY CallsDiffer, BufStep DEF Places
<1> SUFFICES ASSUME call'["close1"] \in {"queued", "active", "ok"}, ~destroyed'
             PROVE  stage' = "first"
  BY DEF Attempting
<1>1. CASE CloseFirst
  BY <1>1 DEF CloseFirst, RequestCloseOf
<1>2. CASE ~CloseFirst
  <2>1. call["close1"] # "idle"
    <3>1. ASSUME NEW d \in Calls, Start(d) \/ Leave(d) \/ Fire(d), call["close1"] = "idle"
          PROVE  FALSE
      BY <1>0, <3>1 DEF Start, CanStart, Leave, Fire, Decide, TypeOK
    <3>2. ASSUME (\E d \in Ops : Issue(d)) \/ CloseAgain \/ Create, call["close1"] = "idle"
          PROVE  FALSE
      BY <1>0, <3>2, CallsDiffer DEF Issue, CloseAgain, RequestCloseOf, Create, TypeOK
    <3>3. ASSUME \/ OnOpenOk \/ OpenFails \/ CloseFails \/ OnCloseOk \/ OnClose
                 \/ RecvStray \/ Close \/ ServerStep \/ ServerClose
                 \/ \E d \in Calls : Body(d)
                 \/ \E k \in 1 .. Len(s2c) : RecvChunk(k)
                 \/ UNCHANGED vars
          PROVE  UNCHANGED call
      BY <3>3 DEF OnOpenOk, OpenFails, CloseFails, OnCloseOk, OnClose, RecvStray, Close,
                  ServerStep, ServerClose, client, Body, RecvChunk, vars
    <3> QED BY <1>2, <3>1, <3>2, <3>3 DEF Next, Micro
  <2>2. call["close1"] \in {"queued", "active", "ok"}
    BY <1>0, <2>1, CallGoesOn, FinalStays DEF TypeOK, Pending, Finals
  <2>3. stage = "first"
    BY <1>0, <2>2 DEF Attempting
  <2>4. ~CloseAgain /\ ~OnCloseOk
    BY <1>0, <2>2, <2>3 DEF CloseAgain, Failed, Finals, OnCloseOk, Destroy
  <2>5. ~Close
    BY <1>0, <2>3 DEF Close, Stages
  <2> QED BY <1>2, <2>3, <2>4, <2>5 DEF Next, Micro, Start, Body, Leave, OnOpenOk, OpenFails,
     CloseFails, RecvChunk, RecvStray, OnClose, Fire, Create, Issue, ServerStep, ServerClose,
     vars, client
<1> QED BY <1>1, <1>2

\* A step keeps SecondAttempt.
LEMMA SecondAttemptStep ==
  ASSUME Places, NoResponseLate, SecondAttempt, [Next]_vars
  PROVE  SecondAttempt'
<1>0. /\ TypeOK /\ "close2" \in Calls
      /\ \A c \in Calls : call[c] = "refused" => call'[c] = "refused"
      /\ ~TimedOut' => ~TimedOut
      /\ destroyed => destroyed'
  BY CallsDiffer, CalmBefore, BufStep, FinalStays DEF Places, Finals
<1> SUFFICES ASSUME call'["close2"] # "idle", ~TimedOut'
             PROVE  destroyed \/ \E e \in Calls : call[e] = "refused"
  BY <1>0 DEF SecondAttempt
<1>1. CASE call["close2"] # "idle"
  BY <1>0, <1>1 DEF SecondAttempt
<1>2. CASE CloseAgain
  <2>1. PICK c \in Calls : Failed(c)
    BY <1>0, <1>2, CallsDiffer DEF CloseAgain, TypeOK
  <2>2. call[c] \in {"refused", "noResponse"}
    BY <1>0, <2>1 DEF Failed, Finals, TimedOut
  <2> QED BY <1>0, <2>2 DEF NoResponseLate
<1> QED BY <1>0, <1>1, <1>2, Asks

-----------------------------------------------------------------------------
(***************************************************************************)
(* The connection survives.                                                *)
(***************************************************************************)
\* The client's close-ok is the last it sends.
CloseOkIsLast ==
  \A i \in 1 .. Len(c2s) : c2s[i].type = "closeOk" => i = Len(c2s) /\ destroyed

\* A channel that the server has closed for a call stays so until the client has answered.
StaysClosing ==
  cause # Nobody /\ ~destroyed => srv \in {"closing", "fault"}

\* Unless a call was given up, the client calls where the server has the channel open, or
\* has not been told that it is not.
SentWell ==
  ~TimedOut =>
    /\ srv # "fault"
    /\ \A i \in 1 .. Len(c2s) :
         c2s[i].type = "call" /\ c2s[i].of # "open" => srv \in {"open", "closing"}
    /\ srv = "open" => \A i \in 1 .. Len(c2s) : c2s[i].of \in Closes => i = Len(c2s)
    /\ ~destroyed /\ srv = "none" /\ Shut => call["close1"] \in {"active", "ok"}

\* The calls of close() are not refused: the server refuses an open or an operation.
LEMMA ClosesNotRefused ==
  ASSUME Dialogue, Verdicts, NEW e \in Closes
  PROVE  call[e] # "refused" /\ loop[e] # "refused"
<1> SUFFICES ASSUME call[e] = "refused" \/ loop[e] = "refused" PROVE FALSE
  OBVIOUS
<1>0. e \in Calls /\ Method(e) = "close"
  BY CallsDiffer DEF Closes
<1>1. hand[e].type = "close" /\ hand[e].of # Nobody /\ Method(hand[e].of) = "close" /\ hand[e] \in Got
  BY <1>0 DEF Verdicts, Refuses, Got
<1>2. hand[e].of \in Own
  BY <1>1, CmdType DEF Dialogue, Forms, FromServer, End, Cmd
<1> QED BY <1>1, <1>2, CallsDiffer DEF Own, Closes

\* Unless a call was given up, as long as the server neither closes the channel nor has it
\* gone, the first attempt to close is the only one and does not fail.
LEMMA FirstAttempt ==
  ASSUME Closing, StaysClosing, SecondAttempt, ~TimedOut, ~destroyed, srv \notin {"closing", "fault"}
  PROVE  /\ \A e \in Calls : call[e] # "refused"
         /\ call["close2"] = "idle"
         /\ call["close1"] \in {"idle", "queued", "active", "ok"}
         /\ \A e \in Calls : call[e] # "noResponse" /\ (call[e] = "active" => loop[e] # "broke")
<1>0. /\ Dialogue /\ Verdicts /\ TypeOK /\ "close1" \in Calls /\ "close2" \in Calls
      /\ Nobody \notin Own
  BY CallsDiffer DEF Closing, Dialogue, Places, Own
<1>1. \A e \in Own : call[e] # "refused"
  BY <1>0 DEF Closing, RefusedIsCause, StaysClosing
<1>2. \A e \in Calls : call[e] # "refused"
  BY <1>0, <1>1, ClosesNotRefused, CallsDiffer DEF Own, Closes, Calls
<1>3. call["close2"] = "idle"
  BY <1>2 DEF SecondAttempt
<1>4. \A e \in Calls : call[e] # "noResponse" /\ ~(loop[e] = "broke" /\ call[e] = "active")
  BY <1>2 DEF Closing, NoResponseLate
<1>5. call["close1"] \in {"idle", "queued", "active", "ok"}
  BY <1>0, <1>2, <1>4 DEF TypeOK, Pending, Finals, TimedOut
<1> QED BY <1>2, <1>3, <1>4, <1>5

\* A step keeps CloseOkIsLast: a destroyed channel sends nothing.
LEMMA CloseOkIsLastStep ==
  ASSUME Dialogue, CloseOkIsLast, [Next]_vars
  PROVE  CloseOkIsLast'
<1>0. /\ Places /\ Forms /\ Len(c2s) \in Nat /\ Len(c2s') \in Nat
      /\ destroyed => destroyed'
  <2>1. TypeOK'
    BY TypeStep DEF Dialogue, Places
  <2> QED BY <2>1, BufStep DEF Dialogue, Places, TypeOK
<1>1. PICK d \in {0, 1} :
           /\ d = 1 <=> ServerStep /\ c2s # <<>> /\ c2s' = Tail(c2s)
           /\ \A j \in 1 .. Len(c2s') :
                \/ j + d \in 1 .. Len(c2s) /\ c2s'[j] = c2s[j + d]
                \/ /\ d = 0 /\ j = Len(c2s) + 1 /\ j = Len(c2s')
                   /\ ~destroyed
                   /\ \/ c2s'[j] = Cmd("closeOk", Nobody) /\ OnClose
                      \/ \E c \in Calls : Start(c) /\ Allowed(c) /\ c2s'[j] = Cmd("call", c)
  BY <1>0, RequestsShift
<1> SUFFICES ASSUME NEW i \in 1 .. Len(c2s'), c2s'[i].type = "closeOk"
             PROVE  i = Len(c2s') /\ destroyed'
  BY DEF CloseOkIsLast
<1>2. CASE i + d \in 1 .. Len(c2s) /\ c2s'[i] = c2s[i + d]
  <2>1. i + d = Len(c2s) /\ destroyed
    BY <1>2 DEF CloseOkIsLast
  <2>2. i = Len(c2s')
    <3> SUFFICES ASSUME i + 1 \in 1 .. Len(c2s') PROVE FALSE
      BY <1>0
    <3>1. ~((i + 1) + d \in 1 .. Len(c2s))
      BY <1>0, <2>1
    <3> QED BY <1>1, <2>1, <3>1
  <2> QED BY <1>0, <2>1, <2>2
<1>3. CASE i = Len(c2s') /\ OnClose
  BY <1>3 DEF OnClose, Destroy
<1>4. CASE \E c \in Calls : c2s'[i] = Cmd("call", c)
  BY <1>4, CmdType
<1> QED BY <1>1, <1>2, <1>3, <1>4

\* A step keeps StaysClosing.
LEMMA StaysClosingStep ==
  ASSUME Closing, CloseOkIsLast, StaysClosing, [Next]_vars
  PROVE  StaysClosing'
<1>0. /\ Dialogue /\ Places /\ Forms /\ Causes /\ (c2s # <<>> => 1 \in 1 .. Len(c2s))
      /\ destroyed => destroyed'
  BY BufStep, HeadAndTail DEF Closing, Dialogue, Places, TypeOK
<1> SUFFICES ASSUME cause' # Nobody, ~destroyed' PROVE srv' \in {"closing", "fault"}
  BY DEF StaysClosing
<1>1. CASE UNCHANGED cause
  <2>1. srv \in {"closing", "fault"} /\ ~destroyed
    BY <1>0, <1>1 DEF StaysClosing
  <2>2. CASE ServerStep
    <3>1. c2s # <<>> => c2s[1].type # "closeOk"
      BY <1>0, <2>1 DEF CloseOkIsLast
    <3> QED BY <1>0, <2>1, <2>2, <3>1, ServerEffect DEF Answers, ServerSends
  <2> QED BY <1>0, <2>1, <2>2, RepliesStep DEF ServerClose, RecvStray, RecvChunk
<1>2. CASE ~UNCHANGED cause
  BY <1>0, <1>2, CauseStep
<1> QED BY <1>1, <1>2

\* What the client calls, it calls where the server has the channel open or closing.
LEMMA SentWellStep ==
  ASSUME Closing, Attempting, SecondAttempt, CloseOkIsLast, StaysClosing, SentWell, [Next]_vars
  PROVE  SentWell'
<1> SUFFICES ASSUME ~TimedOut'
             PROVE  /\ srv' # "fault"
                    /\ \A i \in 1 .. Len(c2s') :
                         c2s'[i].type = "call" /\ c2s'[i].of # "open" => srv' \in {"open", "closing"}
                    /\ srv' = "open" =>
                         \A i \in 1 .. Len(c2s') : c2s'[i].of \in Closes => i = Len(c2s')
                    /\ ~destroyed' /\ srv' = "none" /\ Shut' => call'["close1"] \in {"active", "ok"}
  BY DEF SentWell, Closes
<1>0. /\ Dialogue /\ Places /\ Forms /\ TypeOK /\ Verdicts
      /\ c2s \in Seq(Commands) /\ Len(c2s) \in Nat /\ Len(c2s') \in Nat
      /\ c2s # <<>> => 1 \in 1 .. Len(c2s) /\ Head(c2s) = c2s[1]
      /\ destroyed => destroyed'
      /\ "close1" \in Calls /\ "close2" \in Calls /\ "open" \in Calls
  <2>1. TypeOK'
    BY TypeStep DEF Closing, Dialogue, Places
  <2> QED BY <2>1, BufStep, HeadAndTail, CallsDiffer DEF Closing, Dialogue, Places, TypeOK
<1>a. /\ ~TimedOut /\ srv # "fault"
      /\ \A i \in 1 .. Len(c2s) :
           c2s[i].type = "call" /\ c2s[i].of # "open" => srv \in {"open", "closing"}
      /\ srv = "open" => \A i \in 1 .. Len(c2s) : c2s[i].of \in Closes => i = Len(c2s)
      /\ ~destroyed /\ srv = "none" /\ Shut => call["close1"] \in {"active", "ok"}
  BY <1>0, CalmBefore DEF SentWell
<1>b. PICK d \in {0, 1} :
           /\ d = 1 <=> ServerStep /\ c2s # <<>> /\ c2s' = Tail(c2s)
           /\ \A j \in 1 .. Len(c2s') :
                \/ j + d \in 1 .. Len(c2s) /\ c2s'[j] = c2s[j + d]
                \/ /\ d = 0 /\ j = Len(c2s) + 1 /\ j = Len(c2s')
                   /\ ~destroyed
                   /\ \/ c2s'[j] = Cmd("closeOk", Nobody) /\ OnClose
                      \/ \E c \in Calls : Start(c) /\ Allowed(c) /\ c2s'[j] = Cmd("call", c)
  BY <1>0, RequestsShift
<1>c. ASSUME ServerStep PROVE d = 1 /\ c2s # <<>>
  BY <1>b, <1>c DEF ServerStep
<1>d. ASSUME ~destroyed, srv \notin {"closing", "fault"}
      PROVE  /\ call["close2"] = "idle"
             /\ call["close1"] \in {"idle", "queued", "active", "ok"}
             /\ \A e \in Calls : /\ call[e] \notin {"refused", "noResponse"}
                                 /\ call[e] = "active" => loop[e] # "broke"
  BY <1>a, <1>d, FirstAttempt
<1>e. ASSUME NEW i \in 1 .. Len(c2s), c2s[i].of \in Calls PROVE call[c2s[i].of] \notin Pending
  BY <1>0, <1>e, CallsDiffer DEF Dialogue, InOrder, Places, Loops
\* Once close() has begun, with the channel open or gone, nothing else begins.
<1>f. ASSUME NEW c \in Calls, Start(c), ~destroyed, srv \notin {"closing", "fault"}
      PROVE  call["close1"] \in Pending
  <2>1. queue # <<>> /\ c = Head(queue) /\ call[c] = "queued" /\ ~HasOutcome
    BY <1>f DEF Start, CanStart
  <2>2. call["close1"] # "active"
    BY <1>0, <2>1 DEF Places, Holder
  <2>3. call["close1"] # "ok"
    BY <1>f, <2>1 DEF Attempting, HasOutcome, Finals
  <2> QED BY <1>d, <1>f, <2>2, <2>3 DEF Pending
\* No fault.
<1>1. srv' # "fault"
  <2>1. CASE ServerStep
    <3>1. 1 \in 1 .. Len(c2s) /\ (c2s[1].of = "open" => srv = "none")
      BY <1>0, <1>c, <2>1 DEF Dialogue, Received, OpenFirst
    <3> QED BY <1>0, <1>a, <2>1, <3>1, ServerEffect DEF ServerSends
  <2> QED BY <1>0, <1>a, <2>1, RepliesStep DEF ServerClose, ServerSends, RecvStray, RecvChunk
\* Calls find the channel open or closing.
<1>2. ASSUME NEW i \in 1 .. Len(c2s'), c2s'[i].type = "call", c2s'[i].of # "open"
      PROVE  srv' \in {"open", "closing"}
  <2>1. CASE i + d \in 1 .. Len(c2s) /\ c2s'[i] = c2s[i + d]
    <3>1. srv \in {"open", "closing"}
      BY <1>2, <1>a, <2>1
    <3>2. CASE ServerStep
      <4>1. 1 \in 1 .. Len(c2s) /\ 1 # Len(c2s)
        BY <1>0, <1>c, <2>1, <3>2
      <4>2. c2s[1].type # "closeOk"
        BY <4>1 DEF CloseOkIsLast
      <4>3. srv = "open" => c2s[1].of \notin Closes
        BY <1>a, <4>1
      <4> QED BY <1>0, <1>1, <3>1, <3>2, <4>2, <4>3, ServerEffect DEF Answers, ServerSends
    <3> QED BY <1>0, <3>1, <3>2, RepliesStep DEF ServerClose, ServerSends, RecvStray, RecvChunk
  <2>2. ASSUME NEW c \in Calls, Start(c), c2s'[i] = Cmd("call", c), ~destroyed
        PROVE  srv' \in {"open", "closing"}
    <3> SUFFICES ASSUME srv = "none" PROVE FALSE
      BY <1>0, <1>a, <2>2 DEF Start, TypeOK
    <3>1. c # "open" /\ call[c] = "queued"
      BY <1>2, <2>2, CmdType DEF Start, CanStart
    <3>2. call["open"] = "ok"
      <4>1. call["open"] # "idle"
        BY <1>0, <2>2, <3>1 DEF Places, Stages
      <4>2. c = Head(queue)
        BY <2>2 DEF Start, CanStart
      <4>3. call["open"] \notin {"queued", "active"}
        BY <1>0, <3>1, <4>2 DEF Places, Holder
      <4>4. call["open"] \notin {"refused", "noResponse"}
        BY <1>0, <1>d, <2>2
      <4>5. call["open"] # "timeout"
        BY <1>0, <1>a DEF TimedOut
      <4> QED BY <1>0, <4>1, <4>3, <4>4, <4>5 DEF TypeOK, Pending, Finals
    <3>3. Occurs("open", started)
      BY <1>0, <3>2 DEF Places, Loops, Pending
    <3>4. started # <<>>
      BY <3>3 DEF Occurs
    <3>5. loop["open"] = "over"
      BY <1>0, <3>2 DEF Verdicts
    <3>6. Shut
      BY <1>0, <2>2, <3>4, <3>5 DEF Shut, Dialogue, Received, Awaited, Own
    <3>7. call["close1"] \in {"active", "ok"}
      BY <1>a, <2>2, <3>6
    <3> QED BY <1>f, <2>2, <3>7 DEF Pending
  <2>3. c2s'[i] # Cmd("closeOk", Nobody)
    BY <1>2, CmdType
  <2> QED BY <1>b, <2>1, <2>2, <2>3
\* Nothing follows the request to close.
<1>3. ASSUME srv' = "open", NEW i \in 1 .. Len(c2s'), c2s'[i].of \in Closes PROVE i = Len(c2s')
  <2>1. CASE i + d \in 1 .. Len(c2s) /\ c2s'[i] = c2s[i + d]
    <3>0. c2s[i + d].of \in Closes
      BY <1>3, <2>1
    <3>1. c2s[i + d].of \in Calls /\ c2s[i + d].of # "open" /\ c2s[i + d].type = "call"
      BY <1>0, <2>1, <3>0, CallsDiffer, CmdType DEF Forms, FromClient, Closes
    <3>2. srv \in {"open", "closing"}
      BY <1>a, <2>1, <3>1
    <3>3. srv = "open"
      BY <1>0, <1>3, <3>2, ServerOpens
    <3>4. i + d = Len(c2s)
      BY <1>a, <2>1, <3>0, <3>3
    <3> SUFFICES ASSUME i + 1 \in 1 .. Len(c2s') PROVE FALSE
      BY <1>0
    <3>5. ~((i + 1) + d \in 1 .. Len(c2s))
      BY <1>0, <3>4
    <3>6. d = 0 /\ i = Len(c2s) /\ ~destroyed /\ (OnClose \/ \E c \in Calls : Start(c))
      BY <1>0, <1>b, <3>4, <3>5
    <3>7. CASE OnClose
      BY <3>3, <3>7 DEF OnClose, Closing, OnceShut, EndInSight, Shut
    <3>8. CASE \E c \in Calls : Start(c)
      <4>1. call["close1"] \in Pending
        BY <1>f, <3>3, <3>6, <3>8
      <4>2. call["close2"] \in Pending
        BY <1>d, <3>3, <3>6 DEF Pending
      <4>3. call[c2s[i + d].of] \notin Pending
        BY <1>e, <2>1, <3>1
      <4> QED BY <3>0, <4>1, <4>2, <4>3 DEF Closes
    <3> QED BY <3>6, <3>7, <3>8
  <2> QED BY <1>b, <2>1
\* A channel that is gone was closed by close().
<1>4. ASSUME ~destroyed', srv' = "none", Shut' PROVE call'["close1"] \in {"active", "ok"}
  <2>0. ~destroyed
    BY <1>0, <1>4
  <2>1. CASE srv = "none" /\ Shut
    <3>1. call["close1"] \in {"active", "ok"}
      BY <1>a, <2>0, <2>1
    <3>2. loop["close1"] # "refused"
      BY <1>0, ClosesNotRefused DEF Closes
    <3>3. call["close1"] = "active" => loop["close1"] # "broke"
      BY <1>0, <1>d, <2>0, <2>1
    <3>4. call'["close1"] # "timeout"
      BY <1>0 DEF TimedOut
    <3>5. call'["close1"] = call["close1"] \/ call'["close1"] \in Finals
      BY <1>0, <3>1, CallGoesOn
    <3> QED BY <1>0, <3>1, <3>2, <3>3, <3>4, <3>5, Resolves
  <2>2. CASE srv = "none" /\ started = <<>>
    <3>1. call["open"] \in Pending
      <4>1. ~Occurs("open", started)
        BY <2>2 DEF Occurs
      <4> QED BY <1>0, <4>1 DEF Places, Loops
    <3>2. PICK c \in Calls : Start(c)
      <4>1. started' # <<>>
        BY <1>4 DEF Shut
      <4>2. started' # started
        BY <2>2, <4>1
      <4> QED BY <4>2 DEF Next, Micro, Body, Leave, OnOpenOk, OpenFails, CloseFirst, CloseAgain,
            RequestCloseOf, CloseFails, OnCloseOk, RecvChunk, RecvStray, OnClose, Fire, Create,
            Issue, Close, ServerStep, ServerClose, vars, client
    <3>3. c = "open"
      <4>1. call[c] = "queued" /\ c = Head(queue)
        BY <3>2 DEF Start, CanStart
      <4>2. call["open"] = "queued"
        BY <1>0, <3>1, <3>2, <4>1 DEF Places, Stages, Pending
      <4> QED BY <1>0, <4>1, <4>2 DEF Places, Holder
    <3>4. c2s' = Append(c2s, Cmd("call", "open")) /\ Cmd("call", "open") \in Commands
      BY <1>0, <2>0, <3>2, <3>3, ClassType, CmdType DEF Start, Allowed
    <3>5. Len(c2s') = Len(c2s) + 1 /\ c2s'[Len(c2s) + 1].of = "open"
      BY <1>0, <3>4, AppendProperties, CmdType
    <3>6. Len(c2s) + 1 \in 1 .. Len(c2s')
      BY <1>0, <3>5
    <3> QED BY <1>4, <3>5, <3>6 DEF Shut
  <2>3. ASSUME srv = "none", NEW i \in 1 .. Len(c2s), c2s[i].of = "open" PROVE FALSE
    <3>1. i = 1 /\ 1 \in 1 .. Len(c2s) /\ c2s[1].of = "open"
      BY <2>3 DEF Closing, Dialogue, Received, OpenFirst
    <3>2. CASE ServerStep
      <4>1. Head(c2s).of = "open" /\ Head(c2s).type = "call"
        BY <1>0, <1>c, <3>1, <3>2, CmdType, CallsDiffer DEF Forms, FromClient
      <4>2. srv' # "none"
        BY <2>3, <3>2, <4>1 DEF ServerStep, ServerTakesCall, ServerSends
      <4> QED BY <1>4, <4>2
    <3>3. ASSUME NEW m \in Commands, c2s' = Append(c2s, m) PROVE FALSE
      <4>1. 1 \in 1 .. Len(c2s') /\ c2s'[1].of = "open"
        BY <1>0, <3>1, <3>3, AppendProperties
      <4> QED BY <1>4, <4>1 DEF Shut
    <3>4. CASE UNCHANGED c2s
      BY <1>4, <3>1, <3>4 DEF Shut
    <3> QED BY <1>0, <3>2, <3>3, <3>4, RequestsStep, CmdType
  <2>4. CASE srv # "none"
    <3>1. ServerStep
      BY <1>0, <1>4, <2>4, RepliesStep DEF ServerClose, ServerSends, RecvStray, RecvChunk
    <3>2. 1 \in 1 .. Len(c2s)
      BY <1>0, <1>c, <3>1
    <3>3. c2s[1].type # "closeOk"
      BY <2>0, <3>2 DEF CloseOkIsLast
    <3>4. srv = "open" /\ c2s[1].of \in Closes /\ UNCHANGED client
      BY <1>0, <1>4, <2>4, <3>1, <3>3, ServerEffect DEF Answers, ServerSends
    <3>5. call[c2s[1].of] \notin Pending /\ c2s[1].of \in Calls
      BY <1>0, <1>e, <3>2, <3>4 DEF Closes
    <3>6. call["close1"] \in {"active", "ok"}
      BY <1>d, <2>0, <3>4, <3>5 DEF Closes, Pending
    <3> QED BY <3>4, <3>6 DEF client
  <2> QED BY <2>1, <2>2, <2>3, <2>4 DEF Shut
<1> QED BY <1>1, <1>2, <1>3, <1>4

-----------------------------------------------------------------------------
(***************************************************************************)
(* The listener for the server's close, and what comes in too late.        *)
(***************************************************************************)
\* onClose is deferred by the listener for the server's close, which then is gone.
Unarmed == closePending => ~closeArmed

\* A channel that still listens for a close has received none for an operation.
Armed == closeArmed => \A m \in Got : m.type = "close" => m.of \notin Ops

\* A channel that went without a close of the server leaves nothing behind, unless a call was
\* given up.
Quiet ==
  destroyed /\ closeArmed /\ ~TimedOut =>
    s2c = <<>> /\ \A i \in 1 .. Len(c2s) : c2s[i].of \notin Closes

\* Nothing comes in for a channel that is gone unless both sides have closed it, or a call
\* was given up.
StrayIfCrossed ==
  stray => /\ destroyed /\ stage \notin {"unborn", "opening", "open"}
           /\ TimedOut \/ ~closeArmed

\* The listener is installed by open(), and is gone when it has heard a close.
LEMMA ArmedBy ==
  ASSUME Places, [Next]_vars, closeArmed'
  PROVE  /\ closeArmed \/ OnOpenOk
         /\ \A k \in 1 .. Len(s2c) : RecvChunk(k) => \A i \in 1 .. k : s2c[i].type # "close"
<1>1. ASSUME NEW k \in 1 .. Len(s2c), RecvChunk(k)
      PROVE  closeArmed /\ \A i \in 1 .. k : s2c[i].type # "close"
  BY <1>1 DEF RecvChunk, Places, TypeOK
<1>2. ASSUME \/ OpenFails \/ CloseFirst \/ CloseAgain \/ CloseFails \/ OnCloseOk
             \/ RecvStray \/ OnClose \/ Create \/ Close \/ ServerStep \/ ServerClose
             \/ \E d \in Ops : Issue(d)
             \/ \E d \in Calls : Start(d) \/ Body(d) \/ Leave(d) \/ Fire(d)
      PROVE  closeArmed
  BY <1>2 DEF OpenFails, CloseFirst, CloseAgain, RequestCloseOf, CloseFails, OnCloseOk, RecvStray,
              OnClose, Create, Close, ServerStep, ServerClose, client, Issue, Start, Body, Leave, Fire
<1>3. CASE UNCHANGED vars
  BY <1>1, <1>3 DEF vars, client
<1>4. closeArmed \/ OnOpenOk
  BY <1>1, <1>2, <1>3 DEF Next, Micro
<1> QED BY <1>1, <1>4

\* Dawn keeps the listener away from a channel that is gone or going.
LEMMA UnarmedStep ==
  ASSUME Places, Dawn, Unarmed, [Next]_vars
  PROVE  Unarmed'
<1> SUFFICES ASSUME closePending', closeArmed' PROVE FALSE
  BY DEF Unarmed
<1>1. (closeArmed \/ OnOpenOk)
      /\ \A k \in 1 .. Len(s2c) : RecvChunk(k) => \A i \in 1 .. k : s2c[i].type # "close"
  BY ArmedBy
<1>2. closePending => ~closeArmed /\ ~OnOpenOk
  BY DEF Unarmed, Dawn, OnOpenOk
<1>3. CASE OpenFails
  BY <1>3 DEF OpenFails, Dawn
<1> QED BY <1>1, <1>2, <1>3, CloseFlags

\* When the listener is installed no operation has begun.
LEMMA ArmedStep ==
  ASSUME Dialogue, Dawn, Armed, [Next]_vars
  PROVE  Armed'
<1>0. Places
  BY DEF Dialogue
<1> SUFFICES ASSUME closeArmed', NEW m \in Got', m.type = "close" PROVE m.of \notin Ops
  BY DEF Armed
<1>1. CASE OnOpenOk
  <2>1. m \in Got
    BY <1>1 DEF OnOpenOk, Got
  <2>2. \A c \in Calls \ {"open"} : call[c] \in Pending
    BY <1>1 DEF OnOpenOk, Dawn
  <2>3. m.of # Nobody => Occurs(m.of, started)
    BY <2>1 DEF Dialogue, InOrder
  <2> QED BY <1>0, <2>2, <2>3, CallsDiffer DEF Places, Loops, Pending
<1>2. CASE ~OnOpenOk
  <2>1. /\ closeArmed
        /\ \A k \in 1 .. Len(s2c) : RecvChunk(k) => \A i \in 1 .. k : s2c[i].type # "close"
    BY <1>0, <1>2, ArmedBy
  <2>2. m # End
    BY CmdType DEF End, Cmd
  <2>3. m \in Got
    BY <1>0, <2>1, <2>2, GotStep
  <2> QED BY <2>1, <2>3 DEF Armed
<1> QED BY <1>1, <1>2

\* The close-ok that close() waits for is the last command that comes in.
LEMMA QuietStep ==
  ASSUME Closing, Dawn, SecondAttempt, Unarmed, Armed, Quiet, [Next]_vars
  PROVE  Quiet'
<1>0. /\ Dialogue /\ Places /\ Forms /\ TypeOK /\ Verdicts /\ Len(c2s) \in Nat
      /\ Len(s2c) \in Nat /\ Len(s2c') \in Nat /\ s2c \in Seq(Commands) /\ s2c' \in Seq(Commands)
      /\ c2s # <<>> => 1 \in 1 .. Len(c2s)
      /\ "close1" \in Calls /\ "close2" \in Calls /\ "open" \in Calls
  <2>1. TypeOK'
    BY TypeStep DEF Closing, Dialogue, Places
  <2> QED BY <2>1, HeadAndTail, CallsDiffer DEF Closing, Dialogue, Places, TypeOK
<1> SUFFICES ASSUME destroyed', closeArmed', ~TimedOut'
             PROVE  s2c' = <<>> /\ \A i \in 1 .. Len(c2s') : c2s'[i].of \notin Closes
  BY DEF Quiet, Closes
<1>1. ~TimedOut /\ (closeArmed \/ OnOpenOk)
  BY <1>0, CalmBefore, ArmedBy
<1>2. CASE ~destroyed
  <2>1. closeArmed /\ OnCloseOk /\ \E c \in Closes : call[c] = "ok"
    BY <1>0, <1>1, <1>2, CloseFlags DEF Unarmed, OnOpenOk
  <2>2. /\ UNCHANGED <<s2c, c2s>>
        /\ call["open"] = "ok"
    BY <1>0, <2>1 DEF OnCloseOk, CloseAcknowledged, Places, Stages
  <2>3. call["close2"] = "idle"
    <3>1. ASSUME NEW e \in Ops, call[e] = "refused" PROVE FALSE
      <4>0. e \in Calls /\ Method(e) # "open"
        BY CallsDiffer
      <4>1. /\ hand[e].type = "close" /\ hand[e].of # Nobody /\ Method(hand[e].of) # "open"
            /\ hand[e] \in Got
        BY <1>0, <3>1, <4>0 DEF Verdicts, Refuses, Got
      <4>2. hand[e].of \in Own
        BY <1>0, <4>1, CmdType DEF Forms, FromServer, End, Cmd
      <4> QED BY <2>1, <4>1, <4>2, CallsDiffer DEF Own, Armed
    <3>2. \A e \in Calls : call[e] # "refused"
      BY <1>0, <2>2, <3>1, ClosesNotRefused DEF Calls, Closes
    <3> QED BY <1>1, <1>2, <3>2 DEF SecondAttempt
  <2>4. ~Occurs("close2", started)
    BY <1>0, <2>3 DEF Places, Loops, Pending
  <2>5. hand["close1"].of = "close1" /\ hand["close1"] \in Got
    <3>1. call["close1"] = "ok"
      BY <2>1, <2>3 DEF Closes
    <3>2. hand["close1"].type = "reply" /\ Method(hand["close1"].of) = "close" /\ hand["close1"] \in Got
      BY <1>0, <3>1, CallsDiffer DEF Verdicts, Matches, Got, Closes
    <3>3. hand["close1"].of \in Calls
      BY <1>0, <3>2, CmdType DEF Forms, FromServer, End, Cmd
    <3>4. Occurs(hand["close1"].of, started) /\ hand["close1"].of \in Closes
      BY <1>0, <3>2, <3>3, CallsDiffer DEF Dialogue, InOrder
    <3> QED BY <2>4, <3>2, <3>4 DEF Closes
  <2>6. \A i \in 1 .. Len(c2s) : c2s[i].of \notin Closes
    BY <1>0, <2>4, <2>5, CallsDiffer DEF Dialogue, InOrder, Closes
  <2>7. ASSUME NEW i \in 1 .. Len(s2c) PROVE FALSE
    <3>1. ~Early(s2c[i])
      BY <2>5, CallsDiffer DEF Closing, CloseIsLast, Shutting, Closes
    <3>2. s2c[i].of \in Closes
      BY <1>0, <3>1 DEF Forms, FromServer, Early, Own, Closes, Calls
    <3> QED BY <1>0, <2>4, <2>5, <3>2, CallsDiffer DEF Dialogue, InOrder, Closes
  <2>8. s2c = <<>>
    BY <1>0, <2>7, EmptySeq
  <2> QED BY <2>2, <2>6, <2>8
<1>3. CASE destroyed
  <2>1. closeArmed
    BY <1>1, <1>3 DEF Dawn, OnOpenOk
  <2>2. s2c = <<>> /\ \A i \in 1 .. Len(c2s) : c2s[i].of \notin Closes
    BY <1>1, <1>3, <2>1 DEF Quiet
  <2>3. Shut
    BY <1>3 DEF Closing, OnceShut, EndInSight
  <2>4. \A i \in 1 .. Len(c2s') : c2s'[i].of \notin Closes
    BY <1>0, <1>3, <2>2, RequestsShift
  <2>5. ASSUME NEW j \in 1 .. Len(s2c') PROVE FALSE
    <3>1. \/ srv = "open"
          \/ c2s # <<>> /\ Answers(c2s[1].of, s2c'[j], srv')
      BY <1>0, <2>2, RepliesShift
    <3>2. (c2s[1].of \notin Closes /\ c2s[1].of # "open") \/ c2s = <<>>
      BY <1>0, <2>2, <2>3 DEF Shut
    <3> QED BY <2>3, <3>1, <3>2 DEF Answers, Shut
  <2>6. s2c' = <<>>
    BY <1>0, <2>5, EmptySeq
  <2> QED BY <2>4, <2>6
<1> QED BY <1>2, <1>3

\* What comes in for a channel that is gone is the reply to a close.
LEMMA StrayStep ==
  ASSUME Closing, Dawn, Quiet, StrayIfCrossed, [Next]_vars
  PROVE  StrayIfCrossed'
<1>0. /\ Dialogue /\ Places /\ Forms /\ TypeOK /\ (s2c # <<>> => 1 \in 1 .. Len(s2c))
      /\ destroyed => destroyed'
      /\ TimedOut => TimedOut'
  <2>1. ASSUME NEW c \in Calls, call[c] = "timeout" PROVE call'[c] = "timeout"
    BY <2>1, FinalStays DEF Closing, Dialogue, Finals
  <2> QED BY <2>1, BufStep, HeadAndTail DEF Closing, Dialogue, Places, TypeOK, TimedOut
<1> SUFFICES ASSUME stray'
             PROVE  /\ destroyed' /\ stage' \notin {"unborn", "opening", "open"}
                    /\ TimedOut' \/ ~closeArmed'
  BY DEF StrayIfCrossed
<1>1. destroyed /\ stage \notin {"unborn", "opening", "open"} /\ (TimedOut \/ ~closeArmed)
  <2>1. CASE stray
    BY <2>1 DEF StrayIfCrossed
  <2>2. CASE RecvStray
    <3>1. destroyed /\ 1 \in 1 .. Len(s2c)
      BY <1>0, <2>2 DEF RecvStray
    <3>2. ~Early(s2c[1])
      BY <3>1 DEF Closing, CloseIsLast
    <3>3. s2c[1].of \in Closes
      BY <1>0, <3>1, <3>2 DEF Forms, FromServer, Early, Own, Closes, Calls
    <3>4. call[s2c[1].of] \notin Pending
      BY <1>0, <3>1, <3>3, CallsDiffer DEF Dialogue, InOrder, Places, Loops, Closes
    <3>5. stage \notin {"unborn", "opening", "open"}
      BY <1>0, <3>3, <3>4 DEF Places, Stages, Closes, Pending
    <3> QED BY <2>2, <3>1, <3>5 DEF Quiet, RecvStray
  <2>3. CASE ~RecvStray
    <3>1. stray
      BY <2>3 DEF Next, Micro, Start, Body, Leave, OnOpenOk, OpenFails, CloseFirst, CloseAgain,
         RequestCloseOf, CloseFails, OnCloseOk, RecvChunk, OnClose, Fire, Create, Issue, Close,
         ServerStep, ServerClose, vars
    <3> QED BY <2>1, <3>1
  <2> QED BY <2>1, <2>2, <2>3
<1>2. stage' \notin {"unborn", "opening", "open"}
  BY <1>1 DEF Next, Micro, Start, Body, Leave, OnOpenOk, OpenFails, CloseFirst, CloseAgain,
     RequestCloseOf, CloseFails, OnCloseOk, RecvChunk, RecvStray, OnClose, Fire, Create, Issue,
     Close, ServerStep, ServerClose, vars, client
<1>3. closeArmed' => closeArmed
  BY <1>0, <1>1, ArmedBy DEF OnOpenOk
<1> QED BY <1>0, <1>1, <1>2, <1>3

\* All that is said of a channel that closes.
Sparing ==
  /\ Closing
  /\ Attempting /\ Dawn /\ SecondAttempt
  /\ CloseOkIsLast /\ StaysClosing /\ SentWell
  /\ Unarmed /\ Armed /\ Quiet /\ StrayIfCrossed

\* The invariant of SparesConnection holds at first.
LEMMA InitSparing == Init => Sparing
<1> SUFFICES ASSUME Init PROVE Sparing
  OBVIOUS
<1>1. Closing
  BY InitClosing
<1>2. Len(queue) = 0 /\ Len(c2s) = 0 /\ (\A i \in 1 .. 0 : FALSE)
  BY DEF Init
<1>3. "close1" \in Calls /\ "close2" \in Calls /\ \A c \in Calls : call[c] = "idle"
  BY CallsDiffer DEF Init
<1>4. Attempting
  BY <1>3 DEF Attempting
<1>5. Dawn /\ SecondAttempt
  BY <1>3 DEF Init, Dawn, SecondAttempt, Pending
<1>6. CloseOkIsLast /\ StaysClosing /\ SentWell
  BY <1>2 DEF Init, CloseOkIsLast, StaysClosing, SentWell, Shut
<1>7. Unarmed /\ Armed /\ Quiet /\ StrayIfCrossed
  BY DEF Init, Unarmed, Armed, Quiet, StrayIfCrossed
<1> QED BY <1>1, <1>4, <1>5, <1>6, <1>7 DEF Sparing

\* A step keeps the invariant of SparesConnection.
LEMMA SparingStep == Sparing /\ [Next]_vars => Sparing'
<1> SUFFICES ASSUME Sparing, [Next]_vars PROVE Sparing'
  OBVIOUS
<1>0. Closing /\ Dialogue /\ Places /\ NoResponseLate
  BY DEF Sparing, Closing, Dialogue
<1>1. Closing' /\ Attempting' /\ Dawn' /\ SecondAttempt'
  BY <1>0, ClosingStep, AttemptingStep, DawnStep, SecondAttemptStep DEF Sparing
<1>2. CloseOkIsLast' /\ StaysClosing' /\ SentWell'
  BY <1>0, CloseOkIsLastStep, StaysClosingStep, SentWellStep DEF Sparing
<1>3. Unarmed' /\ Armed' /\ Quiet' /\ StrayIfCrossed'
  BY <1>0, UnarmedStep, ArmedStep, QuietStep, StrayStep DEF Sparing
<1> QED BY <1>1, <1>2, <1>3 DEF Sparing

\* A channel does not cost the whole connection, unless a call was given up or the closes of
\* both sides have crossed: the client sends nothing to a channel that the server does not
\* have open, and nothing comes in for a number that is no longer mapped.
THEOREM SparesConnectionHolds == Spec => []SparesConnection
<1>1. Sparing => SparesConnection
  BY DEF Sparing, SentWell, StrayIfCrossed, SparesConnection
<1> QED BY <1>1, InitSparing, SparingStep, PTL DEF Spec

-----------------------------------------------------------------------------
(***************************************************************************)
(* What ChannelManager sees of the channel.                                *)
(***************************************************************************)

\* Where ChannelManager has a channel in its life, from its stage, its state and what is
\* deferred.
LifeOf(sg, gone, st, deferred) ==
  CASE sg = "unborn" -> "unborn"
    [] gone -> "closed"
    [] ~gone /\ sg = "opening" -> "opening"
    [] ~gone /\ sg = "failed" /\ st = "closed" ->
         IF deferred THEN "refused" ELSE "stranded"
    [] OTHER -> st

\* One channel object.
One(x) == [ch \in {"ch"} |-> x]

\* The channel as ChannelManager sees it.
Life == LifeOf(stage, destroyed, state, closePending)
\* It is in no slot of the map, which has one; the numbers that are free and those given out.
Unmapped == stage = "unborn" \/ destroyed
Entry == <<IF stage = "unborn" \/ destroyed THEN Nobody ELSE "ch">>
Free == IF stage = "unborn" \/ destroyed THEN {0} ELSE {}
Numbered == IF stage = "unborn" THEN 0 ELSE 1

\* What a function over one channel returns.
LEMMA Ones ==
  ASSUME NEW x, NEW y
  PROVE  /\ One(x)["ch"] = x
         /\ [One(x) EXCEPT !["ch"] = y] = One(y)
         /\ [ch \in {"ch"} |-> x] = One(x)
BY DEF One

\* What the map of one slot returns.
LEMMA Pairs ==
  ASSUME NEW x, NEW y
  PROVE  /\ <<x>>[1] = x
         /\ [<<x>> EXCEPT ![1] = y] = <<y>>
         /\ <<x>> = [n \in 1 .. 1 |-> x]
OBVIOUS

\* The one number there is.
LEMMA NumbersAre == Lifecycle!Numbers = 1 .. 1 /\ Lifecycle!channelMax = 1
BY DEF Lifecycle!Numbers, Lifecycle!channelMax

\* createChannel() and its first command, as ChannelManager has them.
LEMMA LifeCreates ==
  ASSUME stage = "unborn", stage' = "opening", destroyed = FALSE, destroyed' = FALSE,
         closePending \in BOOLEAN, UNCHANGED <<closeArmed, closePending>>
  PROVE  Lifecycle!CreateAllocated("ch")
<1>1. Life = "unborn" /\ Life' = "opening"
  BY DEF Life, LifeOf
<1>2. Entry = <<Nobody>> /\ Entry' = <<"ch">> /\ Free = {0} /\ Free' = {}
      /\ Numbered = 0 /\ Numbered' = 1
  BY DEF Entry, Free, Numbered
<1>3. One(Life)' = [One(Life) EXCEPT !["ch"] = "opening"] /\ One(Life)["ch"] = "unborn"
  BY <1>1, Ones DEF One
<1>4. Entry' = [Entry EXCEPT ![1] = "ch"]
  BY <1>2, Pairs
<1>5. One(Numbered)' = [One(Numbered) EXCEPT !["ch"] = 1]
  BY <1>2, Ones DEF One
<1>6. One(stage # "unborn" /\ ~destroyed)' = [One(stage # "unborn" /\ ~destroyed) EXCEPT !["ch"] = TRUE]
  BY Ones DEF One
<1>7. UNCHANGED <<One(closeArmed), One(closePending)>>
  BY DEF One
<1>8. Lifecycle!Register("ch", 1)
  BY <1>3, <1>4, <1>5, <1>6, <1>7
     DEF Lifecycle!Register, One, Life, LifeOf, Entry, Numbered
<1>9. Lifecycle!Allocator!Allocate(1)
  BY <1>2 DEF Lifecycle!Allocator!Allocate, Lifecycle!Allocator!IsNextSetBit, Free
<1>10. Lifecycle!Allocator!Reserve(1)'
  BY <1>2 DEF Lifecycle!Allocator!Reserve, Free
<1> QED BY <1>8, <1>9, <1>10, NumbersAre DEF Lifecycle!CreateAllocated

\* Listening for 'channelClose'.
Heard == stage # "unborn" /\ ~destroyed

\* A step that neither creates the channel nor destroys it leaves the map, the allocator and
\* the listener alone.
LEMMA LeavesMapped ==
  ASSUME stage # "unborn", stage' # "unborn", destroyed' = destroyed
  PROVE  UNCHANGED <<Entry, Free, One(Numbered), One(Heard)>>
BY DEF Entry, Free, Numbered, Heard, One

\* A change of the channel is one of the functions over it.
LEMMA Moves ==
  ASSUME NEW x, NEW y, Life = x, Life' = y
  PROVE  /\ One(Life)["ch"] = x
         /\ One(Life)' = [One(Life) EXCEPT !["ch"] = y]
         /\ x = y => One(Life)' = One(Life)
BY Ones DEF One

\* So is one of its flags.
LEMMA Flags ==
  /\ closeArmed' = closeArmed => One(closeArmed)' = One(closeArmed)
  /\ closePending' = closePending => One(closePending)' = One(closePending)
  /\ \A b \in BOOLEAN : closeArmed' = b => One(closeArmed)' = [One(closeArmed) EXCEPT !["ch"] = b]
  /\ \A b \in BOOLEAN :
       closePending' = b => One(closePending)' = [One(closePending) EXCEPT !["ch"] = b]
  /\ One(closeArmed)["ch"] = closeArmed /\ One(closePending)["ch"] = closePending
BY Ones DEF One

\* openOk on a channel that opens is OpenOk of the manager.
LEMMA LifeOpens ==
  ASSUME stage # "unborn", stage' # "unborn", destroyed' = destroyed,
         Life = "opening", Life' = "open", closeArmed' = TRUE, UNCHANGED closePending
  PROVE  Lifecycle!OpenOk("ch")
<1> USE LeavesMapped, Flags
<1>1. One(Life)["ch"] = "opening" /\ One(Life)' = [One(Life) EXCEPT !["ch"] = "open"]
  BY Moves
<1> QED BY <1>1 DEF Lifecycle!OpenOk, One, Life, LifeOf, Entry, Free, Numbered, Heard

\* open() that fails is refused, or it is given up.
LEMMA LifeFails ==
  ASSUME stage # "unborn", stage' # "unborn", destroyed' = destroyed,
         Life = "opening", UNCHANGED closeArmed, closePending = FALSE,
         \/ Life' = "refused" /\ closePending' = TRUE
         \/ Life' = "stranded" /\ UNCHANGED closePending
  PROVE  Lifecycle!OpenRefused("ch") \/ Lifecycle!OpenTimedOut("ch")
<1> USE LeavesMapped, Flags
<1>1. CASE Life' = "refused" /\ closePending' = TRUE
  <2>1. One(Life)["ch"] = "opening" /\ One(Life)' = [One(Life) EXCEPT !["ch"] = "refused"]
    BY <1>1, Moves
  <2> QED BY <1>1, <2>1 DEF Lifecycle!OpenRefused, One, Life, LifeOf, Entry, Free, Numbered, Heard
<1>2. CASE Life' = "stranded" /\ UNCHANGED closePending
  <2>1. One(Life)["ch"] = "opening" /\ One(Life)' = [One(Life) EXCEPT !["ch"] = "stranded"]
    BY <1>2, Moves
  <2> QED BY <1>2, <2>1 DEF Lifecycle!OpenTimedOut, One, Life, LifeOf, Entry, Free, Numbered, Heard
<1> QED BY <1>1, <1>2

\* The first command of close() is Close of the manager.
LEMMA LifeCloses ==
  ASSUME stage # "unborn", stage' # "unborn", destroyed' = destroyed,
         Life = "open", Life' = "closing", UNCHANGED <<closeArmed, closePending>>
  PROVE  Lifecycle!Close("ch")
<1> USE LeavesMapped, Flags
<1>1. One(Life)["ch"] = "open" /\ One(Life)' = [One(Life) EXCEPT !["ch"] = "closing"]
  BY Moves
<1> QED BY <1>1 DEF Lifecycle!Close, One, Life, LifeOf, Entry, Free, Numbered, Heard

\* The close of the server is ServerClose of the manager.
LEMMA LifeIsClosed ==
  ASSUME stage # "unborn", stage' # "unborn", destroyed' = destroyed,
         Life \in {"open", "closing"}, Life' = Life,
         closeArmed = TRUE, closeArmed' = FALSE, closePending' = TRUE
  PROVE  Lifecycle!ServerClose("ch")
<1> USE LeavesMapped, Flags
<1>1. One(Life)["ch"] = Life /\ One(Life)' = One(Life)
  BY Moves
<1> QED BY <1>1 DEF Lifecycle!ServerClose, One, Life, LifeOf, Entry, Free, Numbered, Heard

\* 'channelClose' is heard by the manager if the channel was not gone.
LEMMA LifeEnds ==
  ASSUME stage # "unborn", stage' # "unborn", destroyed \in BOOLEAN, destroyed' = TRUE
  PROVE  Lifecycle!EmitChannelClose("ch") /\ UNCHANGED One(Numbered)
<1>1. Entry' = <<Nobody>> /\ Free' = {0} /\ Numbered = 1 /\ Numbered' = 1 /\ Heard' = FALSE
  BY DEF Entry, Free, Numbered, Heard
<1>2. One(Numbered)["ch"] = 1 /\ UNCHANGED One(Numbered) /\ One(Heard)["ch"] = Heard
  BY <1>1 DEF One
<1>3. CASE destroyed = TRUE
  <2>1. Heard = FALSE /\ UNCHANGED <<One(Heard), Entry, Free>>
    BY <1>3 DEF Heard, Entry, Free, One
  <2> QED BY <1>2, <2>1 DEF Lifecycle!EmitChannelClose, One, Heard, Entry, Free, Numbered
<1>4. CASE destroyed = FALSE
  <2>1. Heard = TRUE /\ One(Heard)' = [One(Heard) EXCEPT !["ch"] = FALSE]
    BY <1>4 DEF Heard, One
  <2>2. Entry = <<"ch">> /\ Entry' = [Entry EXCEPT ![1] = Nobody]
    BY <1>1, <1>4, Pairs DEF Entry
  <2>3. Free = {} /\ Free' = Free \union {1 - 1}
    BY <1>1, <1>4 DEF Free
  <2>4. Lifecycle!ReleaseChannel(1)
    BY <2>2, <2>3 DEF Lifecycle!ReleaseChannel, Lifecycle!Allocator!Free, Entry, Free
  <2> QED BY <1>2, <2>1, <2>4 DEF Lifecycle!EmitChannelClose, One, Heard, Entry, Free, Numbered
<1> QED BY <1>3, <1>4

\* The closeOk of the server is CloseOk of the manager.
LEMMA LifeAcknowledged ==
  ASSUME stage # "unborn", stage' # "unborn", destroyed = FALSE, destroyed' = TRUE,
         Life = "closing", Life' = "closed", UNCHANGED <<closeArmed, closePending>>
  PROVE  Lifecycle!CloseOk("ch")
<1> USE Flags
<1>1. One(Life)["ch"] = "closing" /\ One(Life)' = [One(Life) EXCEPT !["ch"] = "closed"]
  BY Moves
<1> QED BY <1>1, LifeEnds DEF Lifecycle!CloseOk, One, Life, LifeOf, Numbered

\* onClose() is OnClose of the manager.
LEMMA LifeOnClose ==
  ASSUME stage # "unborn", stage' # "unborn", destroyed \in BOOLEAN, destroyed' = TRUE,
         Life' = "closed", closePending = TRUE, closePending' = FALSE, UNCHANGED closeArmed
  PROVE  Lifecycle!OnClose("ch")
<1> USE Flags
<1>1. One(Life)' = [One(Life) EXCEPT !["ch"] = "closed"]
  BY Moves
<1> QED BY <1>1, LifeEnds DEF Lifecycle!OnClose, One, Life, LifeOf, Numbered

\* A channel that was opened is open or closing until it is gone, and only such a one
\* listens for a close; open() is over when it has failed.
Course ==
  /\ destroyed => state = "closed"
  /\ closeArmed => call["open"] = "ok"
  /\ stage = "failed" => call["open"] \in Finals
  /\ ~destroyed /\ stage \notin {"unborn", "opening"} /\ call["open"] = "ok" =>
       state \in {"open", "closing"}

\* A step keeps Course.
LEMMA CourseStep ==
  ASSUME Places, Dawn, Course, [Next]_vars
  PROVE  Course'
<1>0. /\ TypeOK /\ "open" \in Calls
      /\ call["open"] \in Finals => call'["open"] = call["open"]
      /\ destroyed => destroyed'
  BY CallsDiffer, FinalStays, BufStep DEF Places
<1>1. ASSUME closeArmed' PROVE call'["open"] = "ok"
  <2>1. closeArmed \/ OnOpenOk
    BY <1>1, ArmedBy
  <2> QED BY <1>0, <2>1 DEF Course, OnOpenOk, Finals
<1>2. ASSUME stage' = "failed" PROVE call'["open"] \in Finals
  <2>1. stage = "failed" \/ OpenFails \/ CloseFails
    BY <1>2 DEF Next, Micro, Start, Body, Leave, OnOpenOk, CloseFirst, CloseAgain, RequestCloseOf,
       OnCloseOk, RecvChunk, RecvStray, OnClose, Fire, Create, Issue, Close, ServerStep,
       ServerClose, vars, client
  <2>2. call["open"] \in Finals
    BY <2>1 DEF Course, OpenFails, CloseFails, Failed, Places, Stages, Finals
  <2> QED BY <1>0, <2>2
<1>3. CASE UNCHANGED <<state, stage, destroyed>>
  <2>1. destroyed' => state' = "closed"
    BY <1>3 DEF Course
  <2>2. ASSUME ~destroyed', stage' \notin {"unborn", "opening"}, call'["open"] = "ok"
        PROVE  state' \in {"open", "closing"}
    <3>1. stage \in {"open", "draining", "first", "last", "closed", "failed"}
      BY <1>0, <1>3, <2>2 DEF TypeOK
    <3>2. call["open"] \in Finals
      BY <3>1 DEF Course, Places, Stages, Finals
    <3> QED BY <1>0, <1>3, <2>2, <3>2 DEF Course
  <2> QED BY <1>1, <1>2, <2>1, <2>2 DEF Course
<1>4. CASE OnOpenOk
  BY <1>1, <1>2, <1>4 DEF OnOpenOk, Dawn, Course
<1>5. CASE OpenFails
  BY <1>1, <1>2, <1>5 DEF OpenFails, Dawn, Course, Failed
<1>6. CASE Close
  <2>1. stage = "open" /\ ~destroyed
    BY <1>6 DEF Close, Places, Stages, Course
  <2> QED BY <1>1, <1>2, <1>6, <2>1 DEF Close, Course
<1>7. CASE OnClose \/ OnCloseOk
  BY <1>1, <1>2, <1>7 DEF OnClose, OnCloseOk, Destroy, Course
<1>8. CASE CloseFirst \/ CloseAgain \/ CloseFails
  <2>1. /\ stage \in {"draining", "first", "last"} /\ stage' \in {"first", "last", "failed"}
        /\ UNCHANGED <<state, destroyed>>
    BY <1>8 DEF CloseFirst, CloseAgain, CloseFails, RequestCloseOf
  <2>2. call["open"] = "ok" /\ call'["open"] = "ok"
    BY <1>0, <2>1 DEF Places, Stages, Finals
  <2> QED BY <1>1, <1>2, <2>1, <2>2 DEF Course
<1>9. CASE Create
  BY <1>1, <1>2, <1>9 DEF Create, Dawn, Course
<1>10. ASSUME \/ RecvStray \/ ServerStep \/ ServerClose
              \/ \E d \in Ops : Issue(d)
              \/ \E d \in Calls : Start(d) \/ Body(d) \/ Leave(d) \/ Fire(d)
              \/ \E k \in 1 .. Len(s2c) : RecvChunk(k)
              \/ UNCHANGED vars
       PROVE  UNCHANGED <<state, stage, destroyed>>
  BY <1>10 DEF RecvStray, ServerStep, ServerClose, client, Issue, Start, Body, Leave, Fire,
               RecvChunk, vars
<1> QED BY <1>3, <1>4, <1>5, <1>6, <1>7, <1>8, <1>9, <1>10 DEF Next, Micro

\* A step that changes nothing of what ChannelManager sees.
LEMMA LifeStays ==
  ASSUME Life' = Life, UNCHANGED <<closeArmed, closePending>>,
         UNCHANGED <<stage, destroyed>> \/
           (stage # "unborn" /\ stage' # "unborn" /\ UNCHANGED destroyed) \/
           (stage # "unborn" /\ stage' # "unborn" /\ destroyed = TRUE /\ destroyed' = TRUE)
  PROVE  UNCHANGED Lifecycle!vars
<1>1. UNCHANGED <<Entry, Free, One(Numbered), One(Heard)>>
  BY DEF Entry, Free, Numbered, Heard, One
<1>2. UNCHANGED <<One(Life), One(closeArmed), One(closePending)>>
  BY Moves, Flags
<1> QED BY <1>1, <1>2 DEF Lifecycle!vars, One, Life, LifeOf, Entry, Free, Numbered, Heard

\* Every step of the channel is one that ChannelManager knows, or one it does not see.
LEMMA LifeStep ==
  ASSUME Places, Dawn, Course, [Next]_vars
  PROVE  [Lifecycle!Next]_(Lifecycle!vars)
<1>0. /\ TypeOK /\ destroyed \in BOOLEAN /\ closePending \in BOOLEAN /\ closeArmed \in BOOLEAN
      /\ stage = "unborn" => destroyed = FALSE
  BY DEF Places, TypeOK, Dawn
<1>1. CASE Create
  <2>1. Lifecycle!CreateAllocated("ch")
    BY <1>0, <1>1, LifeCreates DEF Create
  <2> QED BY <2>1 DEF Lifecycle!Next
<1>2. CASE OnOpenOk
  <2>1. Life = "opening" /\ Life' = "open"
    BY <1>2 DEF OnOpenOk, Dawn, Life, LifeOf
  <2>2. Lifecycle!OpenOk("ch")
    BY <1>2, <2>1, LifeOpens DEF OnOpenOk, ExpectClose
  <2> QED BY <2>2 DEF Lifecycle!Next
<1>3. CASE OpenFails
  <2>1. /\ stage = "opening" /\ stage' = "failed" /\ destroyed = FALSE /\ destroyed' = FALSE
        /\ state = "closed" /\ state' = "closed" /\ closePending = FALSE /\ closePending' \in BOOLEAN
        /\ UNCHANGED closeArmed
    BY <1>0, <1>3 DEF OpenFails, Dawn, Failed, Places, Stages
  <2>2. Life = "opening" /\ Life' = IF closePending' THEN "refused" ELSE "stranded"
    BY <2>1 DEF Life, LifeOf
  <2>3. Lifecycle!OpenRefused("ch") \/ Lifecycle!OpenTimedOut("ch")
    BY <2>1, <2>2, LifeFails
  <2> QED BY <2>3 DEF Lifecycle!Next
<1>4. CASE Close
  <2>1. stage = "open" /\ destroyed = FALSE
    BY <1>0, <1>4 DEF Close, Places, Stages, Course
  <2>2. Life = "open" /\ Life' = "closing"
    BY <1>4, <2>1 DEF Close, Life, LifeOf
  <2>3. Lifecycle!Close("ch")
    BY <1>4, <2>1, <2>2, LifeCloses DEF Close
  <2> QED BY <2>3 DEF Lifecycle!Next
<1>5. ASSUME NEW k \in 1 .. Len(s2c), RecvChunk(k) PROVE [Lifecycle!Next]_(Lifecycle!vars)
  <2>1. UNCHANGED <<stage, state, destroyed>> /\ destroyed = FALSE
    BY <1>0, <1>5 DEF RecvChunk
  <2>2. CASE UNCHANGED <<closeArmed, closePending>>
    <3>1. Life' = Life
      BY <2>1, <2>2 DEF Life
    <3> QED BY <2>1, <2>2, <3>1, LifeStays
  <2>3. CASE ~UNCHANGED <<closeArmed, closePending>>
    <3>1. closeArmed = TRUE /\ closeArmed' = FALSE /\ closePending' = TRUE
      BY <1>0, <1>5, <2>3 DEF RecvChunk
    <3>2. stage \notin {"unborn", "opening"} /\ state \in {"open", "closing"}
      BY <2>1, <3>1 DEF Dawn, Course
    <3>3. Life = state /\ Life' = state
      BY <2>1, <3>2 DEF Life, LifeOf
    <3>4. Lifecycle!ServerClose("ch")
      BY <2>1, <3>1, <3>2, <3>3, LifeIsClosed
    <3> QED BY <3>4 DEF Lifecycle!Next
  <2> QED BY <2>2, <2>3
<1>6. CASE OnCloseOk
  <2>1. /\ stage \in {"first", "last"} /\ stage' = "closed" /\ destroyed' = TRUE
        /\ UNCHANGED <<closeArmed, closePending>>
    BY <1>6 DEF OnCloseOk, CloseAcknowledged, Destroy
  <2>2. CASE destroyed = FALSE
    <3>1. state = "closing"
      BY <2>1, <2>2 DEF Course, Places, Stages
    <3>2. Life = "closing" /\ Life' = "closed"
      BY <2>1, <2>2, <3>1 DEF Life, LifeOf
    <3>3. Lifecycle!CloseOk("ch")
      BY <2>1, <2>2, <3>2, LifeAcknowledged
    <3> QED BY <3>3 DEF Lifecycle!Next
  <2>3. CASE destroyed = TRUE
    <3>1. Life' = Life
      BY <2>1, <2>3 DEF Life, LifeOf
    <3> QED BY <2>1, <2>3, <3>1, LifeStays
  <2> QED BY <1>0, <2>2, <2>3
<1>7. CASE OnClose
  <2>1. /\ closePending = TRUE /\ closePending' = FALSE /\ destroyed' = TRUE
        /\ UNCHANGED <<stage, closeArmed>>
    BY <1>0, <1>7 DEF OnClose, Destroy
  <2>2. stage # "unborn"
    BY <2>1 DEF Dawn
  <2>3. Life' = "closed"
    BY <2>1, <2>2 DEF Life, LifeOf
  <2>4. Lifecycle!OnClose("ch")
    BY <1>0, <2>1, <2>2, <2>3, LifeOnClose
  <2> QED BY <2>4 DEF Lifecycle!Next
<1>8. CASE CloseFirst \/ CloseAgain \/ CloseFails
  <2>1. /\ stage \in {"draining", "first", "last"} /\ stage' \in {"first", "last", "failed"}
        /\ UNCHANGED <<state, destroyed, closeArmed, closePending>>
    BY <1>8 DEF CloseFirst, CloseAgain, CloseFails, RequestCloseOf
  <2>2. destroyed = FALSE => state = "closing"
    BY <2>1 DEF Course, Places, Stages
  <2>3. Life' = Life
    <3>1. CASE destroyed = FALSE
      BY <2>1, <2>2, <3>1 DEF Life, LifeOf
    <3>2. CASE destroyed = TRUE
      BY <2>1, <3>2 DEF Life, LifeOf
    <3> QED BY <1>0, <3>1, <3>2
  <2> QED BY <2>1, <2>3, LifeStays
<1>9. ASSUME \/ RecvStray \/ ServerStep \/ ServerClose
             \/ \E d \in Ops : Issue(d)
             \/ \E d \in Calls : Start(d) \/ Body(d) \/ Leave(d) \/ Fire(d)
             \/ UNCHANGED vars
      PROVE  [Lifecycle!Next]_(Lifecycle!vars)
  <2>1. UNCHANGED <<state, stage, destroyed, closeArmed, closePending>>
    BY <1>9 DEF RecvStray, ServerStep, ServerClose, client, Issue, Start, Body, Leave, Fire, vars
  <2>2. Life' = Life
    BY <2>1 DEF Life
  <2> QED BY <2>1, <2>2, LifeStays
<1> QED BY <1>1, <1>2, <1>3, <1>4, <1>5, <1>6, <1>7, <1>8, <1>9 DEF Next, Micro

\* A channel behaves as ChannelManager assumes of each of its channels.
THEOREM ChannelLivesAsManaged == Spec => LivesAsManaged
<1>1. Init => Lifecycle!Init
  <2> SUFFICES ASSUME Init PROVE Lifecycle!Init
    OBVIOUS
  <2>1. stage = "unborn" /\ destroyed = FALSE /\ closeArmed = FALSE /\ closePending = FALSE
    BY DEF Init
  <2>2. Life = "unborn" /\ Entry = <<Nobody>> /\ Free = {0} /\ Numbered = 0 /\ Heard = FALSE
    BY <2>1 DEF Life, LifeOf, Entry, Free, Numbered, Heard
  <2>3. Entry = [n \in Lifecycle!Numbers |-> Nobody]
    BY <2>2, Pairs, NumbersAre
  <2>4. Lifecycle!Allocator!AllocatorInit
    BY <2>2, NumbersAre DEF Lifecycle!Allocator!AllocatorInit, Lifecycle!Allocator!numberOfBits, Free
  <2> QED BY <2>1, <2>2, <2>3, <2>4
          DEF Lifecycle!Init, One, Life, LifeOf, Entry, Free, Numbered, Heard
<1>2. Init => Course
  BY DEF Init, Course
<1>3. Sparing => Places /\ Dawn
  BY DEF Sparing, Closing, Dialogue
<1>4. LivesAsManaged <=> Lifecycle!Init /\ [][Lifecycle!Next]_(Lifecycle!vars)
  BY DEF LivesAsManaged, Lifecycle!Spec
<1> QED BY InitSparing, SparingStep, CourseStep, LifeStep, <1>1, <1>2, <1>3, <1>4, PTL DEF Spec
=============================================================================
