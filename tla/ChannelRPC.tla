----------------------------- MODULE ChannelRPC -----------------------------
(***************************************************************************)
(* One channel and its synchronous calls: services/ChannelRPC.ts, the      *)
(* async iterator it reads the channel with, classes/Channel.ts and the    *)
(* open and close protocols of classes/ChannelN.ts, against an AMQP server.*)
(*                                                                         *)
(* Node runs one event loop.  A MACRO step (a chunk from the socket, an    *)
(* immediate, a timer) starts only when no MICRO step is left: the         *)
(* iterators' promises, the loop bodies and the continuations of await.    *)
(* The micro steps of one turn may run in any order here, except that the  *)
(* loops an event has woken run their bodies before anything goes on.      *)
(*                                                                         *)
(* The transport below the channel is reliable and ordered; the stream is  *)
(* never full (backpressure is not modelled here).                         *)
(***************************************************************************)
EXTENDS Naturals, Sequences, FiniteSets

CONSTANTS
  Ops,              \* calls of the application on queues, exchanges, consumers
                    \* and flow()
  OpMethod,         \* the method of each (two calls may use the same)
  ClassOfMethod,    \* the class of each method
  EmptyGets,        \* the basic.get among them that find an empty queue
  Nobody,
  Prompt            \* the server answers within the 20 s of a timer

ASSUME ChannelRPCAssumption ==
  /\ Ops \intersect {"open", "close1", "close2"} = {}
  /\ OpMethod \in [Ops -> DOMAIN ClassOfMethod \ {"open", "close"}]
  /\ {"open", "close"} \subseteq DOMAIN ClassOfMethod
  /\ ClassOfMethod["open"] = "channel" /\ ClassOfMethod["close"] = "channel"
  /\ EmptyGets \subseteq Ops
  /\ Nobody \notin Ops \union {"open", "close1", "close2"}
  /\ Prompt \in BOOLEAN

VARIABLES
  state,        \* _channelState
  destroyed,    \* the Duplex is destroyed and the manager has unmapped it
  closeArmed,   \* once('method:20:40') of open() is installed
  closePending, \* an onClose(reason) waits in the immediates queue
  buf,          \* commands pushed to the stream and not read
  queue,        \* the mutex: its head holds it or is about to, the rest wait
  call,         \* how far each call is
  started,      \* calls in the order of their doCall: the age of their iterator
  loop, hand,   \* the waitFor loop of each call, and the command it has just read
  settled,      \* ChannelRPC.settled, per class
  timer,        \* ChannelRPC.settle_timeout, per class: whose timer it is
  ticking,      \* the timers that have neither fired nor been cleared
  active,       \* ChannelRPC._activePromise, per class: whose promise it is
  stage,        \* what the coroutine of open() or close() awaits
  drain,        \* the promises that close() awaits first
  answer,       \* (history) the call that the reply c accepted was meant for
  c2s, s2c,     \* commands on their way
  srv,          \* the server's side of the channel
  cause,        \* (history) the call that the server closed the channel for
  stray         \* a command came in for the number of the destroyed channel

client == <<state, destroyed, closeArmed, closePending, buf, queue, call, started,
            loop, hand, settled, timer, ticking, active, stage, drain, answer>>
vars == <<client, c2s, s2c, srv, cause, stray>>

-----------------------------------------------------------------------------
Calls == Ops \union {"open", "close1", "close2"}

Method(c) == IF c = "open" THEN "open"
             ELSE IF c \in {"close1", "close2"} THEN "close" ELSE OpMethod[c]
Class(c) == ClassOfMethod[Method(c)]
Classes == {"channel"} \union {ClassOfMethod[m] : m \in DOMAIN ClassOfMethod}

\* A command: "of" is the call it makes or answers, or the one that a "close"
\* gives as its cause.
Cmd(type, of) == [type |-> type, of |-> of]
Commands == [type : {"call", "reply", "empty", "close", "closeOk", "end"},
             of   : Calls \union {Nobody}]
End == Cmd("end", Nobody)      \* what next() yields on a destroyed stream

Finals == {"ok", "refused", "timeout", "noResponse"}

Init ==
  /\ state = "closed" /\ destroyed = FALSE
  /\ closeArmed = FALSE /\ closePending = FALSE
  /\ buf = <<>> /\ c2s = <<>> /\ s2c = <<>>
  /\ queue = <<>>
  /\ call = [c \in Calls |-> "idle"]
  /\ started = <<>>
  /\ loop = [c \in Calls |-> "none"]
  /\ hand = [c \in Calls |-> End]
  /\ settled = [k \in Classes |-> FALSE]
  /\ timer = [k \in Classes |-> Nobody]
  /\ active = [k \in Classes |-> Nobody]
  /\ ticking = {}
  /\ stage = "unborn" /\ drain = {}
  /\ answer = [c \in Calls |-> Nobody]
  /\ srv = "none" /\ cause = Nobody
  /\ stray = FALSE

-----------------------------------------------------------------------------
(***************************************************************************)
(* Micro steps.                                                            *)
(***************************************************************************)
\* Mutant: any call that waits for the mutex may start.
CanStartUnlocked(c) == call[c] = "queued"

\* mutex.acquire() resolves for the call that has become the first of the queue.
CanStart(c) == queue # <<>> /\ c = Head(queue) /\ call[c] = "queued"

Failed(c) == call[c] \in Finals \ {"ok"}

\* open(), or an attempt of close(), has the outcome of its call.
HasOutcome ==
  \/ stage = "opening" /\ call["open"] \in Finals
  \/ stage = "first" /\ call["close1"] \in Finals
  \/ stage = "last" /\ call["close2"] \in Finals

\* A coroutine of ChannelN has what it awaits.
CanResume ==
  \/ HasOutcome
  \/ stage = "draining" /\ \/ \A c \in drain : call[c] = "ok"
                           \/ \E c \in drain : Failed(c)

MicroIdle ==
  /\ \A c \in Calls : loop[c] \in {"none", "waiting", "over"} /\ ~CanStart(c)
  /\ ~CanResume

\* The iterators that one event has resolved have their bodies run first: the
\* continuations of these bodies come later in the microtask queue.
NoneWoken == \A c \in Calls : loop[c] # "read"

\* Mutant: a closing channel lets nothing through.
AllowedUnlessClosing(c) == state = "open" \/ Method(c) = "open"

\* allowCommand: a closing channel only lets class channel through, a closed one
\* too (its other clauses, methods 41 and 10, are of no request made then).
Allowed(c) == state = "open" \/ Class(c) = "channel"

\* iterator.next(): the head of the stream if there is one, else wait for it.
ReadNext(c) ==
  \/ /\ destroyed
     /\ loop' = [loop EXCEPT ![c] = "next"]
     /\ hand' = [hand EXCEPT ![c] = End]
     /\ UNCHANGED buf
  \/ /\ ~destroyed /\ buf # <<>>
     /\ loop' = [loop EXCEPT ![c] = "next"]
     /\ hand' = [hand EXCEPT ![c] = Head(buf)]
     /\ buf' = Tail(buf)
  \/ /\ ~destroyed /\ buf = <<>>
     /\ loop' = [loop EXCEPT ![c] = "waiting"]
     /\ UNCHANGED <<hand, buf>>

\* Mutant: the field is set, the timer is not.
TimeoutUnset(c) ==
  /\ timer' = [timer EXCEPT ![Class(c)] = c]
  /\ UNCHANGED ticking

\* timeout(): the timer of c starts, and is the one its class knows.
Timeout(c) ==
  /\ timer' = [timer EXCEPT ![Class(c)] = c]
  /\ ticking' = ticking \union {c}

\* call() has the mutex: its timer is set, doCall writes the request (to nowhere
\* if it is not allowed or the stream is gone) and the loop of waitFor begins.  The mutex
\* passes on a microtask later than the outcome: open() and close() go on before that.
Start(c) ==
  /\ CanStart(c) /\ NoneWoken /\ ~HasOutcome
  /\ call' = [call EXCEPT ![c] = "active"]
  /\ started' = Append(started, c)
  /\ Timeout(c)
  /\ settled' = [settled EXCEPT ![Class(c)] = FALSE]
  /\ active' = [active EXCEPT ![Class(c)] = c]
  /\ c2s' = IF Allowed(c) /\ ~destroyed THEN Append(c2s, Cmd("call", c)) ELSE c2s
  /\ ReadNext(c)
  /\ UNCHANGED <<state, destroyed, closeArmed, closePending, queue, stage, drain,
                 answer, s2c, srv, cause, stray>>

Matches(c, m) == m.type = "reply" /\ Method(m.of) = Method(c)

\* Mutant: any channel.close is taken for the refusal of the call.
RefusesAnyClose(c, m) == m.type = "close"

Refuses(c, m) == m.type = "close" /\ m.of # Nobody /\ Method(m.of) = Method(c)

\* The body of the for await loop, on the command in hand.
Body(c) ==
  /\ loop[c] \in {"read", "next"}
  /\ LET Exit(how) == loop' = [loop EXCEPT ![c] = how] /\ UNCHANGED <<hand, buf>>
         over == hand[c] = End \/ settled[Class(c)]
     IN  \/ over /\ Exit("broke")
         \/ ~over /\ Matches(c, hand[c]) /\ Exit("matched")
         \/ ~over /\ Refuses(c, hand[c]) /\ Exit("refused")
         \/ ~over /\ ~Matches(c, hand[c]) /\ ~Refuses(c, hand[c]) /\ ReadNext(c)
  /\ UNCHANGED <<state, destroyed, closeArmed, closePending, queue, call, started,
                 settled, timer, ticking, active, stage, drain, answer, c2s, s2c,
                 srv, cause, stray>>

\* Mutant: one timer field for all classes.
SettleAnyClass(k) ==
  /\ ticking' = {}
  /\ settled' = [settled EXCEPT ![k] = TRUE]
  /\ timer' = [timer EXCEPT ![k] = Nobody]

\* settle() of class k: it acts on whatever timer is in the field.
Settle(k) ==
  /\ ticking' = ticking \ {timer[k]}
  /\ settled' = [settled EXCEPT ![k] = @ \/ timer[k] # Nobody]
  /\ timer' = [timer EXCEPT ![k] = Nobody]

\* The race of call() is decided, if it was not: the mutex is released.
Decide(c, result) ==
  /\ call' = [call EXCEPT ![c] = IF @ = "active" THEN result ELSE @]
  /\ queue' = IF call[c] = "active" THEN Tail(queue) ELSE queue

\* waitFor has left its loop and doCall goes on; only a match settles.
Leave(c) ==
  /\ NoneWoken
  /\ \/ /\ loop[c] = "matched"
        /\ Settle(Class(c))
        /\ Decide(c, "ok")
        /\ answer' = [answer EXCEPT ![c] = hand[c].of]
     \/ /\ loop[c] \in {"refused", "broke"}
        /\ Decide(c, IF loop[c] = "refused" THEN "refused" ELSE "noResponse")
        /\ UNCHANGED <<ticking, settled, timer, answer>>
  /\ loop' = [loop EXCEPT ![c] = "over"]
  /\ UNCHANGED <<state, destroyed, closeArmed, closePending, buf, started, hand,
                 active, stage, drain, c2s, s2c, srv, cause, stray>>

-----------------------------------------------------------------------------
\* expectCommand(CHANNEL_CLOSE, ...)
ExpectClose == closeArmed' = TRUE

\* open() goes on: onOpenOk, reset() and the listener for the server's close.
OnOpenOk ==
  /\ stage = "opening" /\ call["open"] = "ok"
  /\ stage' = "open"
  /\ state' = "open"
  /\ settled' = [settled EXCEPT !["channel"] = FALSE]
  /\ ExpectClose
  /\ UNCHANGED <<destroyed, closePending, buf, queue, call, started, loop, hand,
                 timer, ticking, active, drain, answer, c2s, s2c, srv, cause, stray>>

\* open() rejects; it defers onClose if the server refused the channel.
OpenFails ==
  /\ stage = "opening" /\ Failed("open")
  /\ stage' = "failed"
  /\ closePending' = (call["open"] = "refused")
  /\ UNCHANGED <<state, destroyed, closeArmed, buf, queue, call, started, loop, hand,
                 settled, timer, ticking, active, drain, answer, c2s, s2c, srv, cause, stray>>

\* close() calls its inner close(): after the awaited promises, once more when
\* one of them or the first attempt failed.
RequestCloseOf(c, next) ==
  /\ queue' = Append(queue, c)
  /\ call' = [call EXCEPT ![c] = "queued"]
  /\ stage' = next
  /\ UNCHANGED <<state, destroyed, closeArmed, closePending, buf, started, loop, hand,
                 settled, timer, ticking, active, drain, answer, c2s, s2c, srv, cause, stray>>

CloseFirst ==
  /\ stage = "draining" /\ \A c \in drain : call[c] = "ok"
  /\ RequestCloseOf("close1", "first")

CloseAgain ==
  /\ \/ stage = "draining" /\ \E c \in drain : Failed(c)
     \/ stage = "first" /\ Failed("close1")
  /\ RequestCloseOf("close2", "last")

CloseFails ==
  /\ stage = "last" /\ Failed("close2")
  /\ stage' = "failed"
  /\ UNCHANGED <<state, destroyed, closeArmed, closePending, buf, queue, call, started,
                 loop, hand, settled, timer, ticking, active, drain, answer, c2s, s2c,
                 srv, cause, stray>>

\* The inner close() has the server's close-ok.
CloseAcknowledged ==
  \/ stage = "first" /\ call["close1"] = "ok"
  \/ stage = "last" /\ call["close2"] = "ok"

\* Mutant: the channel is closed, its stream is not destroyed.
KeepStream == state' = "closed" /\ UNCHANGED <<destroyed, loop, hand>>

\* destroy() ends the streams of the iterators that wait, and 'channelClose'
\* makes the manager forget the channel.
Destroy ==
  /\ state' = "closed"
  /\ destroyed' = TRUE
  /\ loop' = [c \in Calls |-> IF loop[c] = "waiting" THEN "read" ELSE loop[c]]
  /\ hand' = [c \in Calls |-> IF loop[c] = "waiting" THEN End ELSE hand[c]]

OnCloseOk ==
  /\ CloseAcknowledged
  /\ stage' = "closed"
  /\ Destroy
  /\ UNCHANGED <<closeArmed, closePending, buf, queue, call, started, settled, timer,
                 ticking, active, drain, answer, c2s, s2c, srv, cause, stray>>

Micro ==
  \/ \E c \in Calls : Start(c) \/ Body(c) \/ Leave(c)
  \/ OnOpenOk \/ OpenFails
  \/ CloseFirst \/ CloseAgain \/ CloseFails \/ OnCloseOk

-----------------------------------------------------------------------------
(***************************************************************************)
(* Macro steps of the client, and the application.                         *)
(***************************************************************************)
Before(c, d) ==
  \E i, j \in 1 .. Len(started) : i < j /\ started[i] = c /\ started[j] = d

\* The iterators that wait on the stream's 'readable'.
Readers == {c \in Calls : loop[c] = "waiting"}

\* Mutant: the youngest iterator reads first.
TurnYoungestFirst(c) == Cardinality({d \in Readers : ~Before(d, c)})

\* The place of c among them: they hear 'readable' in the order they subscribed.
Turn(c) == Cardinality({d \in Readers : ~Before(c, d)})

\* The first k commands under way come in one turn: each is pushed and heard by
\* the event listeners, and then every waiting iterator, the oldest first, reads
\* one.
RecvChunk(k) ==
  /\ MicroIdle /\ ~destroyed
  /\ k \in 1 .. Len(s2c)
  /\ LET all == buf \o SubSeq(s2c, 1, k)
         served == {c \in Readers : Turn(c) <= Len(all)}
     IN  /\ loop' = [c \in Calls |-> IF c \in served THEN "read" ELSE loop[c]]
         /\ hand' = [c \in Calls |-> IF c \in served THEN all[Turn(c)] ELSE hand[c]]
         /\ buf' = SubSeq(all, Cardinality(Readers) + 1, Len(all))
  /\ LET heard == closeArmed /\ \E i \in 1 .. k : s2c[i].type = "close"
     IN  /\ closeArmed' = (closeArmed /\ ~heard)
         /\ closePending' = (closePending \/ heard)
  /\ s2c' = SubSeq(s2c, k + 1, Len(s2c))
  /\ UNCHANGED <<state, destroyed, queue, call, started, settled, timer, ticking,
                 active, stage, drain, answer, c2s, srv, cause, stray>>

\* A command for a channel number that is no longer mapped: getChannel throws
\* UnknownChannelError into CommandReader, which fails and takes the connection with it.
RecvStray ==
  /\ MicroIdle /\ destroyed
  /\ s2c # <<>>
  /\ s2c' = Tail(s2c)
  /\ stray' = TRUE
  /\ UNCHANGED <<client, c2s, srv, cause>>

\* Mutant: without the transition to closing, allowCommand drops the close-ok.
AfterCloseOkStillOpen ==
  IF destroyed \/ state = "open" THEN c2s ELSE Append(c2s, Cmd("closeOk", Nobody))

\* The close-ok of onClose is written in state closing, which allows it, and goes
\* nowhere on a destroyed channel.
AfterCloseOk == IF destroyed THEN c2s ELSE Append(c2s, Cmd("closeOk", Nobody))

\* The deferred onClose(reason): answer, then destroy the channel.
OnClose ==
  /\ MicroIdle
  /\ closePending
  /\ closePending' = FALSE
  /\ c2s' = AfterCloseOk
  /\ Destroy
  /\ UNCHANGED <<closeArmed, buf, queue, call, started, settled, timer, ticking, active,
                 stage, drain, answer, s2c, srv, cause, stray>>

\* The timer of c goes off, 20 s after Start(c): settle(), then the race rejects.
Fire(c) ==
  /\ MicroIdle
  /\ c \in ticking /\ \A d \in ticking : ~Before(d, c)
  /\ Prompt => c2s = <<>> /\ s2c = <<>> /\ ~closePending
  /\ ticking' = ticking \ {c, timer[Class(c)]}
  /\ settled' = [settled EXCEPT ![Class(c)] = @ \/ timer[Class(c)] # Nobody]
  /\ timer' = [timer EXCEPT ![Class(c)] = Nobody]
  /\ Decide(c, "timeout")
  /\ UNCHANGED <<state, destroyed, closeArmed, closePending, buf, started, loop, hand,
                 active, stage, drain, answer, c2s, s2c, srv, cause, stray>>

\* createChannel(): the object is mapped, and open() queues its call.
Create ==
  /\ stage = "unborn"
  /\ stage' = "opening"
  /\ call' = [call EXCEPT !["open"] = "queued"]
  /\ queue' = <<"open">>
  /\ UNCHANGED <<state, destroyed, closeArmed, closePending, buf, started, loop, hand,
                 settled, timer, ticking, active, drain, answer, c2s, s2c, srv, cause,
                 stray>>

\* flow() does not look at the state of the channel.
Unchecked(c) == Method(c) = "flow"

\* A call of the application: the methods of queues, exchanges and consumers throw
\* unless the channel is open, and mutex.acquire() queues the call.
Issue(c) ==
  /\ state = "open" \/ (Unchecked(c) /\ stage # "unborn")
  /\ call[c] = "idle"
  /\ call' = [call EXCEPT ![c] = "queued"]
  /\ queue' = Append(queue, c)
  /\ UNCHANGED <<state, destroyed, closeArmed, closePending, buf, started, loop, hand,
                 settled, timer, ticking, active, stage, drain, answer, c2s, s2c, srv,
                 cause, stray>>

\* Mutant: close() leaves the channel open.
CloseStaysOpen ==
  /\ state = "open" /\ stage = "open"
  /\ stage' = "draining"
  /\ drain' = {active[k] : k \in Classes} \ {Nobody}
  /\ UNCHANGED <<state, destroyed, closeArmed, closePending, buf, queue, call, started,
                 loop, hand, settled, timer, ticking, active, answer, c2s, s2c, srv,
                 cause, stray>>

\* close() by the application, up to its first await.
Close ==
  /\ state = "open"
  /\ state' = "closing"
  /\ stage' = "draining"
  /\ drain' = {active[k] : k \in Classes} \ {Nobody}
  /\ UNCHANGED <<destroyed, closeArmed, closePending, buf, queue, call, started, loop,
                 hand, settled, timer, ticking, active, answer, c2s, s2c, srv, cause, stray>>

-----------------------------------------------------------------------------
(***************************************************************************)
(* The server (external): the peer that AMQP 0-9-1 prescribes.  It answers *)
(* in order; after it has sent channel.close it discards everything but    *)
(* close and close-ok.  A method on a channel it does not have open is a   *)
(* fault of the client, which costs the connection.                        *)
(***************************************************************************)
ServerSends(m, next) ==
  /\ s2c' = Append(s2c, m)
  /\ srv' = next
  /\ cause' = IF m.type = "close" THEN m.of ELSE cause

ServerTakesCall(c) ==
  \/ /\ srv = "none" /\ c = "open"
     /\ \/ ServerSends(Cmd("reply", c), "open")
        \/ ServerSends(Cmd("close", c), "closing")
  \/ /\ srv = "open" /\ c \in Ops
     /\ \/ c \notin EmptyGets /\ ServerSends(Cmd("reply", c), "open")
        \/ c \in EmptyGets /\ ServerSends(Cmd("empty", c), "open")
        \/ ServerSends(Cmd("close", c), "closing")
  \/ /\ srv = "open" /\ Method(c) = "close"
     /\ ServerSends(Cmd("reply", c), "none")
  \/ /\ srv = "closing" /\ Method(c) = "close"
     /\ ServerSends(Cmd("reply", c), "closing")
  \/ /\ srv = "closing" /\ Method(c) # "close"
     /\ UNCHANGED <<s2c, srv, cause>>
  \/ /\ \/ srv = "none" /\ c # "open"
        \/ srv = "open" /\ c = "open"
        \/ srv = "fault"
     /\ srv' = "fault"
     /\ UNCHANGED <<s2c, cause>>

ServerStep ==
  /\ c2s # <<>>
  /\ c2s' = Tail(c2s)
  /\ \/ Head(c2s).type = "call" /\ ServerTakesCall(Head(c2s).of)
     \/ /\ Head(c2s).type = "closeOk"
        /\ srv' = IF srv = "closing" THEN "none" ELSE srv
        /\ UNCHANGED <<s2c, cause>>
  /\ UNCHANGED <<client, stray>>

ServerClose ==
  /\ srv = "open"
  /\ ServerSends(Cmd("close", Nobody), "closing")
  /\ UNCHANGED <<client, c2s, stray>>

Next ==
  \/ Micro
  \/ \E k \in 1 .. Len(s2c) : RecvChunk(k)
  \/ RecvStray
  \/ OnClose
  \/ \E c \in Calls : Fire(c)
  \/ Create
  \/ \E c \in Ops : Issue(c)
  \/ Close
  \/ ServerStep
  \/ ServerClose

Spec == Init /\ [][Next]_vars

\* The event loop runs what is ready, the transport delivers, the server reads
\* and answers, and time passes.  Nothing obliges the application or the server
\* to call, to refuse or to close.
Fairness ==
  /\ WF_vars(Micro)
  /\ WF_vars(\E k \in 1 .. Len(s2c) : RecvChunk(k))
  /\ WF_vars(RecvStray)
  /\ WF_vars(OnClose)
  /\ WF_vars(\E c \in Calls : Fire(c))
  /\ WF_vars(ServerStep)

FairSpec == Spec /\ Fairness

-----------------------------------------------------------------------------
\* Some call has been given up after 20 s.
TimedOut == \E c \in Calls : call[c] = "timeout"

\* Replies carry no correlation: waitFor takes any reply of the right method.  Yet
\* a call of the application is only ever completed by the server's answer to that
\* very call, even when an earlier call of the same method was given up and its
\* answer comes late.
OwnReply ==
  \A c \in Ops : call[c] = "ok" => answer[c] = c

\* Unless a call was given up, a channel does not cost the whole connection: the client
\* sends no method to a channel that the server does not have open, and no command comes in
\* for the number of a destroyed channel (which makes the command reader fail), except when
\* the closes of both sides have crossed.
SparesConnection ==
  \/ TimedOut
  \/ /\ srv # "fault"
     /\ stray => ~closeArmed /\ stage \notin {"opening", "open"}

\* Unless a call was given up, at most one waitFor loop reads the stream, so that
\* no command meant for one call is consumed by the loop of another.
OneReader ==
  TimedOut \/ \A c, d \in Calls :
    {loop[c], loop[d]} \subseteq {"waiting", "read", "next"} => c = d

\* The server's channel.close that names a call as its cause is reported to that
\* call, as a CloseReason: to no other one, and (unless a call was given up) not
\* as "No response", since onClose waits until the loop has seen the command.
RefusalReported ==
  \A c \in Ops \union {"open"} :
    /\ call[c] = "refused" => cause = c
    /\ cause = c /\ call[c] \in Finals => call[c] = "refused" \/ TimedOut

\* A call that holds the mutex has a running timer, or it could wait for ever.  The
\* field settle_timeout is shared: it loses the timer only to the late answer, or
\* to the timer that still runs, of an earlier call of its class that failed.
HolderHasTimer ==
  \A c \in Calls :
    call[c] = "active" =>
      c \in ticking \/ \E d \in Calls \ {c} : Class(d) = Class(c) /\ Failed(d)

\* What ChannelManager takes a channel for, here with one channel and one number: the
\* channel "closes" once, and only along the paths of ChannelManager.
Lifecycle ==
  INSTANCE ChannelManager WITH
    Chans <- {"ch"}, NoChannel <- Nobody, TunedMax <- 1, ExplicitNumbers <- {},
    channels <- <<IF stage = "unborn" \/ destroyed THEN Nobody ELSE "ch">>,
    freeSet <- IF stage = "unborn" \/ destroyed THEN {0} ELSE {},
    lastIndex <- 0,
    phase <- [ch \in {"ch"} |->
                CASE stage = "unborn" -> "unborn"
                  [] destroyed -> "closed"
                  [] ~destroyed /\ stage = "opening" -> "opening"
                  [] ~destroyed /\ stage = "failed" /\ state = "closed" ->
                       IF closePending THEN "refused" ELSE "stranded"
                  [] OTHER -> state],
    number <- [ch \in {"ch"} |-> IF stage = "unborn" THEN 0 ELSE 1],
    listening <- [ch \in {"ch"} |-> stage # "unborn" /\ ~destroyed],
    closeArmed <- [ch \in {"ch"} |-> closeArmed],
    closePending <- [ch \in {"ch"} |-> closePending]

\* A channel behaves as ChannelManager assumes of each of its channels: whatever the
\* server, the timers and the stale loops do, it opens, fails, closes and emits
\* 'channelClose' (createChannel's listener) only along the paths modelled there.
LivesAsManaged == Lifecycle!Spec

\* Every call the application makes comes to an end, in whatever state of the channel.  The
\* exception: a flow() behind the second attempt of close(), when the stale loop of the
\* first one (given up) takes the answer to the second and clears its timer.
CallsSettle ==
  \A c \in Ops : call[c] = "queued" ~>
    call[c] \in Finals \/ (Unchecked(c) /\ call["close1"] = "timeout")

\* close() comes to an end, and the channel with it, unless a call was given up: one
\* that waited for the mutex when close() was called is never written, and its stale
\* loop may take the close-ok.
CloseCompletes ==
  stage = "draining" ~> destroyed \/ \E c \in Ops : call[c] = "timeout"

\* A close of the server that refuses a call, or that the client has heard, is answered
\* if the application does not close too: also when the channel goes while calls wait.  (A
\* close for no call that comes with open-ok is not heard, and lost.)
CloseAnswered ==
  srv = "closing" /\ (cause # Nobody \/ closePending) ~>
    srv # "closing" \/ stage \in {"draining", "first", "last", "closed"}
=============================================================================
