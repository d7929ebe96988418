----------------------------- MODULE Consumers ------------------------------
(***************************************************************************)
(* The consumers of one open channel: basicConsume, basicCancel and the    *)
(* handlers of asynchronous commands of classes/ChannelN.ts, with          *)
(* classes/Consumer.ts, against a server that delivers and cancels.        *)
(*                                                                         *)
(* A turn of the event loop is: a chunk from the socket (all of its        *)
(* commands, one by one), then the promises it has resolved, then the      *)
(* immediates it has scheduled.  Calls go through ChannelRPC, one at a     *)
(* time; here each gets its answer (ChannelRPC shows what happens else).   *)
(***************************************************************************)
EXTENDS Naturals, Sequences, FiniteSets

CONSTANTS
  Subs,             \* calls of basicConsume, and the Consumer each one makes
  Tags,             \* consumer tags; one can be used again after its consumer ended
  NoSub, NoTag,
  MaxDeliveries     \* (bound) deliveries to each subscription

ASSUME ConsumersAssumption ==
  /\ NoSub \notin Subs /\ NoTag \notin Tags
  /\ MaxDeliveries \in Nat

VARIABLES
  consumers,    \* _consumers, a total map: NoSub if absent
  stream,       \* the Readable of each Consumer
  tag,          \* the tag each subscription was asked with
  got,          \* the deliveries pushed to each Consumer
  dropped,      \* (history) the deliveries for which no consumer was found
  cancelled,    \* the consumers the application has cancelled
  detached,     \* those of them whose tag it gave to basicCancel() itself
  calls,        \* the calls in the mutex's order; the head is on its way
  reading,      \* the current turn has not read all of its chunk
  resolved,     \* the call whose answer the current turn has read
  immediates,   \* the handlers in the immediates queue: their commands
  crashed,      \* handleCancel has thrown out of an immediate
  c2s, s2c,     \* the transport
  srv, sent     \* the server's subscriptions, and how much it has sent to each

client == <<consumers, stream, tag, got, dropped, cancelled, detached, calls, reading,
            resolved, immediates, crashed>>
vars == <<client, c2s, s2c, srv, sent>>

NoCall == [kind |-> "none", sub |-> NoSub]

\* A command of the server.  "sub" and "n" identify a delivery for the properties;
\* the client only looks at the type and the tag.
Command(type, s, n) == [type |-> type, tag |-> tag[s], sub |-> s, n |-> n]

Init ==
  /\ consumers = [t \in Tags |-> NoSub]
  /\ stream = [s \in Subs |-> "unborn"]
  /\ tag = [s \in Subs |-> NoTag]
  /\ got = [s \in Subs |-> <<>>]
  /\ dropped = {} /\ cancelled = {} /\ detached = {}
  /\ calls = <<>> /\ reading = FALSE /\ resolved = NoCall
  /\ immediates = <<>> /\ crashed = FALSE
  /\ c2s = <<>> /\ s2c = <<>>
  /\ srv = [t \in Tags |-> NoSub]
  /\ sent = [s \in Subs |-> 0]

\* A consumer that the channel no longer knows: its stream is destroyed, or (left) still
\* open, and no delivery can reach it.
Over == {"left", "destroyed"}

-----------------------------------------------------------------------------
\* rpc.call(): written at once if no other call holds the mutex.
Submit(c) ==
  /\ calls' = Append(calls, c)
  /\ c2s' = IF calls = <<>> THEN Append(c2s, c) ELSE c2s

\* basicConsume(queue, t) by the application, which does not ask for a tag it
\* knows to be in use (the server would close the connection).
Consume(s, t) ==
  /\ ~reading
  /\ tag[s] = NoTag
  /\ \A u \in Subs : tag[u] = t => stream[u] \in Over
  /\ tag' = [tag EXCEPT ![s] = t]
  /\ Submit([kind |-> "consume", sub |-> s])
  /\ UNCHANGED <<consumers, stream, got, dropped, cancelled, detached, reading, resolved,
                 immediates, crashed, s2c, srv, sent>>

\* The check and the call of basicCancel(tag), for a consumer the application has not seen
\* end; it throws if the tag is not in the map.
CallCancel(s) ==
  /\ ~reading
  /\ stream[s] = "live" /\ s \notin cancelled
  /\ consumers[tag[s]] # NoSub
  /\ cancelled' = cancelled \union {s}
  /\ Submit([kind |-> "cancel", sub |-> s])
  /\ UNCHANGED <<consumers, stream, tag, got, dropped, reading, resolved, immediates, crashed,
                 s2c, srv, sent>>

\* consumer.cancel() by the application.
Cancel(s) == CallCancel(s) /\ UNCHANGED detached

\* channel.basicCancel(consumer.tag) by the application: the Consumer is not told.
BasicCancel(s) == CallCancel(s) /\ detached' = detached \union {s}

-----------------------------------------------------------------------------
\* handleAsyncCommands: the handler of such a command goes to the immediates queue.
HandleAsyncCommands(m) ==
  /\ m.type \in {"deliver", "cancel"}
  /\ immediates' = Append(immediates, m)
  /\ UNCHANGED resolved

\* Any other one is an answer.  Calls are serial: it is for the call that holds the mutex.
Answered(m) ==
  /\ m.type = "ok"
  /\ resolved' = Head(calls)
  /\ UNCHANGED immediates

\* The microtasks of this turn have run.
TurnOver == ~reading /\ resolved = NoCall

\* The next command of a chunk, and whether the chunk has more: these are read in the same
\* turn, before anything else of the client.
RecvCommand(more) ==
  /\ reading \/ (immediates = <<>> /\ TurnOver)
  /\ s2c # <<>>
  /\ more => Len(s2c) > 1
  /\ reading' = more
  /\ s2c' = Tail(s2c)
  /\ HandleAsyncCommands(Head(s2c)) \/ Answered(Head(s2c))
  /\ UNCHANGED <<consumers, stream, tag, got, dropped, cancelled, detached, calls, crashed, c2s,
                 srv, sent>>

\* this._consumers.set(_tag, consumer)
Register(t, s) == consumers' = [consumers EXCEPT ![t] = s]

\* Mutant: the tag stays in the map.
KeepTag(t) == UNCHANGED consumers

\* this._consumers.delete(consumer_tag)
Unregister(t) == consumers' = [consumers EXCEPT ![t] = NoSub]

\* Mutant: the event is emitted, but the stream does not end.
OnlyEmit(s) == UNCHANGED stream

\* Consumer.handleCancel: the 'cancel' event, and the stream is destroyed.
EndStream(s) == stream' = [stream EXCEPT ![s] = "destroyed"]

\* What the end of basicCancel(tag) leaves of a consumer that was cancelled by its tag: the
\* stream stays as it is, but an open one is out of the map.
Leave(s) == stream' = [stream EXCEPT ![s] = IF @ = "live" THEN "left" ELSE @]

\* The promise of the call is resolved: basicConsume, or basicCancel and then (if it has
\* made the call) Consumer.cancel, go on, and the mutex passes to the next call.
Continue ==
  /\ ~reading /\ resolved # NoCall
  /\ LET s == resolved.sub
     IN  \/ /\ resolved.kind = "consume"
            /\ Register(tag[s], s)
            /\ stream' = [stream EXCEPT ![s] = "live"]
         \/ /\ resolved.kind = "cancel"
            /\ Unregister(tag[s])
            /\ IF s \in detached THEN Leave(s) ELSE EndStream(s)
  /\ resolved' = NoCall
  /\ calls' = Tail(calls)
  /\ c2s' = IF Len(calls) > 1 THEN Append(c2s, calls[2]) ELSE c2s
  /\ UNCHANGED <<tag, got, dropped, cancelled, detached, reading, immediates, crashed, s2c, srv,
                 sent>>

\* handleDelivery: to the consumer that the tag has NOW, or to nobody.
HandleDelivery(m) ==
  /\ m.type = "deliver"
  /\ LET s == consumers[m.tag]
     IN  \/ /\ s # NoSub
            /\ got' = [got EXCEPT ![s] = Append(@, <<m.sub, m.n>>)]
            /\ UNCHANGED dropped
         \/ /\ s = NoSub
            /\ dropped' = dropped \union {m}
            /\ UNCHANGED got
  /\ UNCHANGED <<consumers, stream, crashed>>

\* handleCancel, on the server's basic.cancel.
HandleCancel(m) ==
  /\ m.type = "cancel"
  /\ LET s == consumers[m.tag]
     IN  \/ /\ s # NoSub
            /\ EndStream(s)
            /\ Unregister(m.tag)
            /\ UNCHANGED crashed
         \/ /\ s = NoSub
            /\ crashed' = TRUE
            /\ UNCHANGED <<stream, consumers>>
  /\ UNCHANGED <<got, dropped>>

\* Mutant: the immediates are a stack.
Newest == Len(immediates)

\* Immediates run in the order they were scheduled.
Oldest == 1

RunImmediate ==
  /\ TurnOver
  /\ immediates # <<>>
  /\ HandleDelivery(immediates[Oldest]) \/ HandleCancel(immediates[Oldest])
  /\ immediates' = SubSeq(immediates, 1, Oldest - 1) \o
                     SubSeq(immediates, Oldest + 1, Len(immediates))
  /\ UNCHANGED <<tag, cancelled, detached, calls, reading, resolved, c2s, s2c, srv, sent>>

-----------------------------------------------------------------------------
(***************************************************************************)
(* The server (external): it answers the calls, delivers to its            *)
(* subscriptions in order and may end one at any time (a deleted queue).   *)
(***************************************************************************)
ServerStep ==
  /\ c2s # <<>>
  /\ c2s' = Tail(c2s)
  /\ LET c == Head(c2s)
     IN  /\ srv' = [srv EXCEPT ![tag[c.sub]] = IF c.kind = "consume" THEN c.sub ELSE NoSub]
         /\ s2c' = Append(s2c, Command("ok", c.sub, 0))
  /\ UNCHANGED <<client, sent>>

ServerDelivers(t) ==
  /\ srv[t] # NoSub
  /\ sent[srv[t]] < MaxDeliveries
  /\ sent' = [sent EXCEPT ![srv[t]] = @ + 1]
  /\ s2c' = Append(s2c, Command("deliver", srv[t], sent[srv[t]] + 1))
  /\ UNCHANGED <<client, c2s, srv>>

ServerCancels(t) ==
  /\ srv[t] # NoSub
  /\ s2c' = Append(s2c, Command("cancel", srv[t], 0))
  /\ srv' = [srv EXCEPT ![t] = NoSub]
  /\ UNCHANGED <<client, c2s, sent>>

\* An exception thrown out of an immediate ends the process.
Next ==
  /\ ~crashed
  /\ \/ \E s \in Subs, t \in Tags : Consume(s, t)
     \/ \E s \in Subs : Cancel(s) \/ BasicCancel(s)
     \/ \E more \in BOOLEAN : RecvCommand(more)
     \/ Continue
     \/ RunImmediate
     \/ ServerStep
     \/ \E t \in Tags : ServerDelivers(t) \/ ServerCancels(t)

Spec == Init /\ [][Next]_vars

\* The event loop runs what is ready, the transport delivers, the server answers.
FairSpec ==
  /\ Spec
  /\ WF_vars(~crashed /\ \E more \in BOOLEAN : RecvCommand(more))
  /\ WF_vars(~crashed /\ Continue)
  /\ WF_vars(~crashed /\ RunImmediate)
  /\ WF_vars(~crashed /\ ServerStep)

-----------------------------------------------------------------------------
\* What a Consumer gets are the deliveries of its own subscription, from the first
\* on, in order and without a gap, although ChannelN finds the consumer by its tag,
\* a turn later, and a tag may have belonged to another one before.  A delivery is only
\* dropped ("No consumer found!") when the application has cancelled its consumer: one that
\* comes right behind the consume-ok, before basicConsume has registered the consumer, is
\* not lost.
OwnDeliveriesInOrder ==
  /\ \A s \in Subs : \A i \in 1 .. Len(got[s]) : got[s][i] = <<s, i>>
  /\ \A m \in dropped : m.sub \in cancelled

Quiet == c2s = <<>> /\ s2c = <<>> /\ calls = <<>> /\ immediates = <<>> /\ ~crashed

\* When nothing is under way, the channel and the server agree on the consumers, and the
\* streams of these are open, also when both sides have cancelled one of two that had the
\* same tag.  Besides them only a stream is open whose tag the application gave to
\* basicCancel() itself, which does not tell the Consumer (that one waits for ever): no
\* other consumer is left waiting for deliveries that cannot come.
AgreeAtRest ==
  Quiet =>
    /\ consumers = srv
    /\ \A s \in Subs : stream[s] = "live" <=> \E t \in Tags : consumers[t] = s
    /\ \A s \in Subs : stream[s] = "left" => s \in detached

\* A consumer that the server cancels ends, unless the process does.
CancelEndsStream ==
  \A s \in Subs :
    (\E i \in 1 .. Len(s2c) : s2c[i].type = "cancel" /\ s2c[i].sub = s)
      ~> stream[s] = "destroyed" \/ crashed

\* ChannelN.ts:227: 'ChannelN::handleCancel: No consumer found!' is thrown if a
\* basic.cancel is for no consumer, which no correct server sends.
CancelFindsConsumer == ~crashed
=============================================================================
