------------------------------ MODULE Protocol ------------------------------
(***************************************************************************)
(* protocol/: the templates of the methods that are sent or read, with the *)
(* numbers of class and method; and the tags of field values.              *)
(***************************************************************************)
EXTENDS TLC

\* The integers among the tags: octets, sign and what they are in JavaScript.
IntegerTags ==
  LET Type(size, signed, kind) == [size |-> size, signed |-> signed, kind |-> kind]
  IN  [b |-> Type(1, TRUE, "number"), B |-> Type(1, FALSE, "number"),
       U |-> Type(2, TRUE, "number"), u |-> Type(2, FALSE, "number"),
       I |-> Type(4, TRUE, "number"), i |-> Type(4, FALSE, "number"),
       L |-> Type(8, TRUE, "bigint"), l |-> Type(8, FALSE, "bigint"),
       T |-> Type(8, FALSE, "date")]

\* The octet that announces each in a table.
TagOctet ==
  [t |-> 116, b |-> 98, B |-> 66, u |-> 117, U |-> 85, i |-> 105, I |-> 73, l |-> 108,
   L |-> 76, f |-> 102, d |-> 100, D |-> 68, T |-> 84, S |-> 83, A |-> 65, F |-> 70,
   V |-> 86, x |-> 120]

Method(class, number, fields, tags) ==
  [id |-> <<0, class, 0, number>>, fields |-> fields, tags |-> tags]

Reason == <<"reply_code", "reply_text", "class_id", "method_id">>
ReasonTags == <<"u", "s", "u", "u">>
Binding == <<"reserved1", "queue", "exchange", "routing_key", "no_wait", "arguments">>
BindingTags == <<"u", "s", "s", "s", "P", "F">>
Tune == <<"channel_max", "frame_max", "heartbeat">>

ConnectionMethods ==
  [start |-> Method(10, 10, <<"version_major", "version_minor", "server_properties",
                              "mechanisms", "locales">>, <<"B", "B", "F", "S", "S">>),
   start_ok |-> Method(10, 11, <<"client_properties", "mechanism", "response", "locale">>,
                       <<"F", "s", "S", "s">>),
   tune |-> Method(10, 30, Tune, <<"u", "i", "u">>),
   tune_ok |-> Method(10, 31, Tune, <<"u", "i", "u">>),
   connection_open |-> Method(10, 40, <<"virtualhost", "reserved1", "reserved2">>,
                              <<"s", "s", "P">>),
   connection_open_ok |-> Method(10, 41, <<"reserved">>, <<"s">>),
   connection_close |-> Method(10, 50, Reason, ReasonTags),
   connection_close_ok |-> Method(10, 51, <<>>, <<>>)]

ChannelMethods ==
  [channel_open |-> Method(20, 10, <<"reserved1">>, <<"s">>),
   channel_open_ok |-> Method(20, 11, <<"reserved1">>, <<"s">>),
   flow |-> Method(20, 20, <<"active">>, <<"t">>),
   flow_ok |-> Method(20, 21, <<"active">>, <<"t">>),
   channel_close |-> Method(20, 40, Reason, ReasonTags),
   channel_close_ok |-> Method(20, 41, <<>>, <<>>)]

ExchangeMethods ==
  [exchange_declare |-> Method(40, 10, <<"reserved1", "exchange", "type", "passive", "durable",
     "reserved2", "reserved3", "no_wait", "arguments">>,
     <<"u", "s", "s", "P", "P", "P", "P", "P", "F">>),
   exchange_declare_ok |-> Method(40, 11, <<>>, <<>>),
   exchange_delete |-> Method(40, 20, <<"reserved1", "exchange", "if_unused", "no_wait">>,
                              <<"u", "s", "P", "P">>),
   exchange_delete_ok |-> Method(40, 21, <<>>, <<>>)]

QueueMethods ==
  [queue_declare |-> Method(50, 10, <<"reserved1", "queue", "passive", "durable", "exclusive",
     "auto_delete", "no_wait", "arguments">>, <<"u", "s", "P", "P", "P", "P", "P", "F">>),
   queue_declare_ok |-> Method(50, 11, <<"queue", "message_count", "consumer_count">>,
                               <<"s", "i", "i">>),
   bind |-> Method(50, 20, Binding, BindingTags),
   bind_ok |-> Method(50, 21, <<>>, <<>>),
   unbind |-> Method(50, 50, Binding, BindingTags),
   unbind_ok |-> Method(50, 51, <<>>, <<>>),
   purge |-> Method(50, 30, <<"reserved1", "queue", "no_wait">>, <<"u", "s", "P">>),
   purge_ok |-> Method(50, 31, <<"message_count">>, <<"i">>),
   queue_delete |-> Method(50, 40, <<"reserved1", "queue", "if_unused", "if_empty", "no_wait">>,
                           <<"u", "s", "P", "P", "P">>),
   queue_delete_ok |-> Method(50, 41, <<"message_count">>, <<"i">>)]

BasicMethods ==
  [qos |-> Method(60, 10, <<"prefetch_size", "prefetch_count", "global">>, <<"i", "u", "P">>),
   qos_ok |-> Method(60, 11, <<>>, <<>>),
   consume |-> Method(60, 20, <<"reserved1", "queue", "consumer_tag", "no_local", "no_ack",
     "exclusive", "no_wait", "arguments">>, <<"u", "s", "s", "P", "P", "P", "P", "F">>),
   consume_ok |-> Method(60, 21, <<"consumer_tag">>, <<"s">>),
   cancel |-> Method(60, 30, <<"consumer_tag", "no_wait">>, <<"s", "P">>),
   cancel_ok |-> Method(60, 31, <<"consumer_tag">>, <<"s">>),
   publish |-> Method(60, 40, <<"reserved1", "exchange_name", "routing_key", "mandatory",
                                "immediate">>, <<"u", "s", "s", "P", "P">>),
   return |-> Method(60, 50, <<"reply_code", "reply_text", "exchange_name", "routing_key">>,
                     <<"u", "s", "s", "s">>),
   deliver |-> Method(60, 60, <<"consumer_tag", "delivery_tag", "redelivered",
                                "exchange_name", "routing_key">>, <<"s", "l", "P", "s", "s">>),
   get |-> Method(60, 70, <<"reserved1", "queue", "no_ack">>, <<"u", "s", "P">>),
   get_ok |-> Method(60, 71, <<"delivery_tag", "redelivered", "exchange_name", "routing_key",
                               "message_count">>, <<"l", "P", "s", "s", "i">>),
   get_empty |-> Method(60, 72, <<"reserved1">>, <<"s">>),
   ack |-> Method(60, 80, <<"delivery_tag", "multiple">>, <<"l", "P">>),
   reject |-> Method(60, 90, <<"delivery_tag", "requeue">>, <<"l", "P">>),
   recover |-> Method(60, 110, <<"requeue">>, <<"P">>),
   recover_ok |-> Method(60, 111, <<>>, <<>>),
   nack |-> Method(60, 120, <<"delivery_tag", "multiple", "requeue">>, <<"l", "P", "P">>)]

Template ==
  ConnectionMethods @@ ChannelMethods @@ ExchangeMethods @@ QueueMethods @@ BasicMethods
=============================================================================
