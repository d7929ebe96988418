------------------------------- MODULE Calls --------------------------------
(***************************************************************************)
(* The arguments with which classes/Queue.ts, Exchange.ts, Basic.ts,       *)
(* ChannelN.ts and Channel0.ts send each method.  Parameters are texts,    *)
(* Booleans, JavaScript values and tables (sequences of keys and values).  *)
(***************************************************************************)
EXTENDS BufferWriter

None == Number(0)
No == Bool(FALSE)
Ascii(octets) == [i \in 1 .. Len(octets) |-> <<octets[i]>>]

\* validate(name): no name begins with "amq.".
Reserved == Ascii(<<97, 109, 113, 46>>)
Valid(name) == SubSeq(name, 1, LesserOf(4, Len(name))) # Reserved

-----------------------------------------------------------------------------
\* The arguments of a queue keep their values under other keys.
QueueDeclare(q, passive) ==
  [reserved1 |-> None, queue |-> Text(q.name), passive |-> Bool(passive),
   durable |-> Bool(q.durable), exclusive |-> Bool(q.exclusive),
   auto_delete |-> Bool(q.auto_delete), no_wait |-> No, arguments |-> Table(q.arguments)]

Bind(b) ==
  [reserved1 |-> None, queue |-> Text(b.queue), exchange |-> Text(b.exchange),
   routing_key |-> Text(b.routing_key), no_wait |-> No, arguments |-> Table(<<>>)]

Unbind(b) ==
  [reserved1 |-> None, queue |-> Text(b.queue), exchange |-> Text(b.exchange),
   routing_key |-> Text(b.routing_key), arguments |-> Table(<<>>)]

Purge(queue) == [reserved1 |-> None, queue |-> Text(queue), no_wait |-> No]

QueueDelete(queue, if_unused, if_empty) ==
  [reserved1 |-> None, queue |-> Text(queue), if_unused |-> Bool(if_unused),
   if_empty |-> Bool(if_empty), no_wait |-> No]

\* The only argument of an exchange that is passed on is its alternate.
ExchangeDeclare(e, passive) ==
  [reserved1 |-> None, exchange |-> Text(e.name), type |-> Text(e.type),
   passive |-> Bool(passive), durable |-> Bool(e.durable), reserved2 |-> No,
   reserved3 |-> No, no_wait |-> No,
   arguments |-> Table(IF e.alternate = <<>> THEN <<>>
                       ELSE <<<<Ascii(<<120>>), Text(e.alternate)>>>>)]

ExchangeDelete(name, if_unused) ==
  [reserved1 |-> None, exchange |-> Text(name), if_unused |-> Bool(if_unused), no_wait |-> No]

-----------------------------------------------------------------------------
Qos(prefetch_count, global) ==
  [prefetch_size |-> None, prefetch_count |-> prefetch_count, global |-> Bool(global)]

\* basicConsume() leaves the flags and the arguments at their defaults.
Consume(queue, consumer_tag) ==
  [reserved1 |-> None, queue |-> Text(queue), consumer_tag |-> Text(consumer_tag),
   no_local |-> No, no_ack |-> No, exclusive |-> No, no_wait |-> No,
   arguments |-> Table(<<>>)]

Cancel(consumer_tag) == [consumer_tag |-> Text(consumer_tag), no_wait |-> No]

Get(queue) == [reserved1 |-> None, queue |-> Text(queue), no_ack |-> Bool(TRUE)]

Publish(exchange_name, routing_key, mandatory, immediate) ==
  [reserved1 |-> None, exchange_name |-> Text(exchange_name),
   routing_key |-> Text(routing_key), mandatory |-> Bool(mandatory),
   immediate |-> Bool(immediate)]

Ack(tag, multiple) == [delivery_tag |-> tag, multiple |-> Bool(multiple)]
Nack(tag, multiple, requeue) ==
  [delivery_tag |-> tag, multiple |-> Bool(multiple), requeue |-> Bool(requeue)]
Reject(tag, requeue) == [delivery_tag |-> tag, requeue |-> Bool(requeue)]
Recover(requeue) == [requeue |-> Bool(requeue)]

-----------------------------------------------------------------------------
OpenChannel == [reserved1 |-> Text(<<>>)]
Flow(active) == [active |-> Bool(active)]
\* onFlow is given the arguments of the method, an object and so true, for the flag.
FlowOk == [active |-> Bool(TRUE)]

CloseReason(text) ==
  [reply_code |-> Number(200), reply_text |-> Text(text), class_id |-> None,
   method_id |-> None]

\* The response joins an empty text, the user's name and the password by zeros.
StartOk(username, password, locale) ==
  LET capability(key) == <<Ascii(<<key>>), Bool(TRUE)>>
  IN  [client_properties |->
         Table(<<<<Ascii(<<110>>), Text(Ascii(<<116>>))>>,
                 <<Ascii(<<99>>), Table(<<capability(98), capability(112)>>)>>>>),
       mechanism |-> Text(Ascii(<<80>>)),
       response |-> Text(<<<<0>>>> \o username \o <<<<0>>>> \o password),
       locale |-> Text(locale)]

\* The server's proposal is sent back.
TuneOk(channel_max, frame_max, heartbeat) ==
  [channel_max |-> channel_max, frame_max |-> frame_max, heartbeat |-> heartbeat]

OpenConnection(virtualhost) ==
  [virtualhost |-> Text(virtualhost), reserved1 |-> Text(<<>>), reserved2 |-> No]
=============================================================================
