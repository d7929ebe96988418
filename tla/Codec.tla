------------------------------- MODULE Codec --------------------------------
(***************************************************************************)
(* Methods and content headers on the wire: frames/Method.ts and           *)
(* frames/ContentHeader.ts over BufferWriter and BufferReader, with what   *)
(* the calls of the library send and what a server sends.                  *)
(*                                                                         *)
(* One payload is written and then read, a field at a time, by the other   *)
(* side.  The client writes with BufferWriter and reads by its templates;  *)
(* the server (external) writes and reads by the protocol's types.         *)
(***************************************************************************)
EXTENDS Calls, BufferReader

CONSTANTS
  Texts,            \* the texts and numbers that occur
  Numbers,
  Tables,           \* and the tables, as sequences
  ServerTables      \* those of the server: <<key, tag, value>>

VARIABLES
  message,          \* what is sent: [from, what, args]
  fields,           \* the fields that are left to write or to read: <<name, tag>>
  w,                \* the writer
  payload,
  r,                \* the reader
  got,              \* the fields it has read
  phase

vars == <<message, fields, w, payload, r, got, phase>>

\* The properties of a message and their flags, in ContentHeader.ts.
Properties ==
  <<<<"contentType", "s", 15>>, <<"contentEncoding", "s", 14>>, <<"headers", "F", 13>>,
    <<"deliveryMode", "B", 12>>, <<"priority", "B", 11>>, <<"correlationId", "s", 10>>,
    <<"replyTo", "s", 9>>, <<"expiration", "s", 8>>, <<"messageId", "s", 7>>,
    <<"timestamp", "T", 6>>, <<"userId", "s", 5>>, <<"appId", "s", 4>>,
    <<"clusterId", "s", 3>>>>

-----------------------------------------------------------------------------
(***************************************************************************)
(* AMQP 0-9-1 (external): the types of the fields, by the tag of the value *)
(* that they are written like, and the octets of each.                     *)
(***************************************************************************)
AMQP ==
  [start |-> <<"B", "B", "F", "S", "S">>, start_ok |-> <<"F", "s", "S", "s">>,
   tune |-> <<"u", "i", "u">>, tune_ok |-> <<"u", "i", "u">>,
   connection_open |-> <<"s", "s", "P">>, connection_open_ok |-> <<"s">>,
   connection_close |-> <<"u", "s", "u", "u">>, connection_close_ok |-> <<>>,
   channel_open |-> <<"s">>, channel_open_ok |-> <<"S">>, flow |-> <<"P">>,
   flow_ok |-> <<"P">>, channel_close |-> <<"u", "s", "u", "u">>, channel_close_ok |-> <<>>,
   exchange_declare |-> <<"u", "s", "s", "P", "P", "P", "P", "P", "F">>,
   exchange_declare_ok |-> <<>>, exchange_delete |-> <<"u", "s", "P", "P">>,
   exchange_delete_ok |-> <<>>,
   queue_declare |-> <<"u", "s", "P", "P", "P", "P", "P", "F">>,
   queue_declare_ok |-> <<"s", "i", "i">>, bind |-> <<"u", "s", "s", "s", "P", "F">>,
   bind_ok |-> <<>>, unbind |-> <<"u", "s", "s", "s", "F">>, unbind_ok |-> <<>>,
   purge |-> <<"u", "s", "P">>, purge_ok |-> <<"i">>,
   queue_delete |-> <<"u", "s", "P", "P", "P">>, queue_delete_ok |-> <<"i">>,
   qos |-> <<"i", "u", "P">>, qos_ok |-> <<>>,
   consume |-> <<"u", "s", "s", "P", "P", "P", "P", "F">>, consume_ok |-> <<"s">>,
   cancel |-> <<"s", "P">>, cancel_ok |-> <<"s">>, publish |-> <<"u", "s", "s", "P", "P">>,
   return |-> <<"u", "s", "s", "s">>, deliver |-> <<"s", "l", "P", "s", "s">>,
   get |-> <<"u", "s", "P">>, get_ok |-> <<"l", "P", "s", "s", "i">>, get_empty |-> <<"s">>,
   ack |-> <<"l", "P">>, reject |-> <<"l", "P">>, recover |-> <<"P">>, recover_ok |-> <<>>,
   nack |-> <<"l", "P", "P">>]

\* They have a property "type" between timestamp and user-id.
AMQPProperties ==
  SubSeq(Properties, 1, 10) \o
    <<<<"type", "s", 5>>, <<"userId", "s", 4>>, <<"appId", "s", 3>>, <<"clusterId", "s", 2>>>>

\* Values of a table are <<key, value>> and tagged as the client does it, or
\* <<key, tag, value>> (of a list, the key is not written).
TagIn(e) == IF Len(e) = 2 THEN Tag(e[2]) ELSE e[2]

Last4(n) == SubSeq(OctetsOf(n), 5, 8)
Lengthened(octets) == Last4(Len(octets)) \o octets
ShortText(s) == <<Len(Utf8(s))>> \o Utf8(s)

RECURSIVE Octets(_, _)
Octets(tag, x) ==
  CASE tag = "t" -> <<IF x.v THEN 1 ELSE 0>>
    [] tag \in DOMAIN IntegerTags -> SubSeq(x.v.octets, 9 - IntegerTags[tag].size, 8)
    [] tag = "s" -> ShortText(x.v)
    [] tag = "S" -> Lengthened(Utf8(x.v))
    [] tag \in {"F", "A"} ->
         Lengthened(FoldLeft(LAMBDA out, e : out \o (IF tag = "F" THEN ShortText(e[1]) ELSE <<>>)
                                                 \o <<TagOctet[TagIn(e)]>>
                                                 \o Octets(TagIn(e), e[Len(e)]), <<>>, x.v))
    [] tag = "V" -> <<>>
    [] tag = "x" -> Lengthened(x.v)
    [] OTHER -> x.v

\* The values of fields <<name, tag>>; bits that follow each other share octets.
Encoding(list, args) ==
  LET Add(out, f) ==
        LET bit == IF f[2] = "P" /\ args[f[1]].v THEN 1 ELSE 0
        IN  IF f[2] # "P" THEN [octets |-> out.octets \o Octets(f[2], args[f[1]]), bits |-> 0]
            ELSE IF out.bits % 8 = 0
            THEN [octets |-> Append(out.octets, bit), bits |-> 1]
            ELSE [octets |-> [out.octets EXCEPT ![Len(out.octets)] = @ + bit * 2 ^ out.bits],
                  bits |-> out.bits + 1]
  IN  FoldLeft(Add, [octets |-> <<>>, bits |-> 0], list).octets

-----------------------------------------------------------------------------
Init ==
  /\ message = [from |-> "nobody"]
  /\ fields = <<>> /\ w = FreshWriter /\ payload = <<>>
  /\ r = Reader(<<>>) /\ got = <<>>
  /\ phase = "idle"

Named(what, args) == SelectSeq(Template[what].fields, LAMBDA name : name \in DOMAIN args)

\* if (this.properties.x): no empty text and no zero
Truthy(x) == x.t \in {"object", "date"} \/ (x.t = "string" /\ x.v # <<>>)
             \/ (x.t = "number" /\ x.v # None.v)
Present(args, properties) ==
  SelectSeq(properties, LAMBDA p : p[1] \in DOMAIN args /\ Truthy(args[p[1]]))

TwoOctets(n) == <<n \div 256, n % 256>>
FlagsOf(properties) == TwoOctets(FoldLeft(LAMBDA n, p : n + 2 ^ p[3], 0, properties))
\* Class 60, no weight, and a body of one octet.
HeaderPrefix == <<0, 60, 0, 0>> \o OctetsOf(1)

\* What is written: the template's fields that the arguments have, the properties that are set.
FieldsOf(what, args) ==
  IF what = "header" THEN Present(args, Properties)
  ELSE SelectSeq(Zip(Template[what].fields, Template[what].tags),
                 LAMBDA f : f[1] \in DOMAIN args)

\* Method.toFrame, and ContentHeader.toFrame, with no flags at first.
Send(what, args) ==
  /\ message' = [from |-> "client", what |-> what, args |-> args]
  /\ fields' = FieldsOf(what, args)
  /\ w' = Put(FreshWriter, IF what = "header" THEN HeaderPrefix \o <<0, 0>>
                           ELSE Template[what].id)

Calling == phase = "idle" /\ phase' = "writing" /\ UNCHANGED <<payload, r, got>>

\* The calls of the library, and what they send.
CallDeclare ==
  /\ Calling
  /\ \E s, u \in Texts, b, c \in BOOLEAN, i \in 1 .. Len(Tables) :
       /\ Valid(s)
       /\ \/ Send("queue_declare",
                  QueueDeclare([name |-> s, durable |-> c, exclusive |-> ~c, auto_delete |-> b,
                                arguments |-> Tables[i]], b))
          \/ /\ i = 1
             /\ Send("exchange_declare",
                     ExchangeDeclare([name |-> s, type |-> s, durable |-> c, alternate |-> u], b))

CallNamed ==
  /\ Calling
  /\ \E s, u \in Texts, b, c \in BOOLEAN :
       \/ LET binding == [queue |-> s, exchange |-> u, routing_key |-> s]
          IN  Send("bind", Bind(binding)) \/ Send("unbind", Unbind(binding))
       \/ Send("purge", Purge(s)) \/ Send("queue_delete", QueueDelete(s, b, c))
       \/ Send("exchange_delete", ExchangeDelete(s, b))
       \/ Send("consume", Consume(s, u)) \/ Send("cancel", Cancel(s)) \/ Send("get", Get(s))
       \/ Send("publish", Publish(s, u, b, c)) \/ Send("recover", Recover(b))

CallNumbered ==
  /\ Calling
  /\ \E n \in Numbers, b, c \in BOOLEAN :
       \/ n.t = "number" /\ Send("qos", Qos(n, b))
       \/ /\ n.t = "bigint"
          /\ \/ Send("ack", Ack(n, b)) \/ Send("nack", Nack(n, b, c))
             \/ Send("reject", Reject(n, b))

\* What the library sends on its own.
Internal ==
  /\ Calling
  /\ \/ \E s, u \in Texts :
          \/ Send("start_ok", StartOk(s, u, s)) \/ Send("connection_open", OpenConnection(s))
          \/ Send("channel_close", CloseReason(s)) \/ Send("connection_close", CloseReason(s))
     \/ \E n \in Numbers : n.t = "number" /\ Send("tune_ok", TuneOk(n, n, n))
     \/ \E b \in BOOLEAN : Send("flow", Flow(b))
     \/ Send("flow_ok", FlowOk) \/ Send("channel_open", OpenChannel)
     \/ Send("channel_close_ok", <<>>) \/ Send("connection_close_ok", <<>>)

\* The properties that a message may have, up to two of them or all; each text that is not
\* empty ends in a letter of its own.
PropertyValue(p, letter, s, n, table) ==
  CASE p[2] = "s" -> Text(IF s = <<>> THEN s ELSE Append(s, <<letter>>))
    [] p[2] = "F" -> Table(table)
    [] p[2] = "B" -> n
    [] OTHER -> Integer("date", FALSE, n.v.octets, n.v.whole)
PropertySets(s, n, table) ==
  LET all == 1 .. Len(AMQPProperties)
      Given(chosen) == [name \in {AMQPProperties[i][1] : i \in chosen} |->
                          LET i == CHOOSE i \in chosen : AMQPProperties[i][1] = name
                          IN  PropertyValue(AMQPProperties[i], 96 + i, s, n, table)]
  IN  {Given({i, j}) : i, j \in all} \union {Given(all), Given(all \ {11}), Given({})}

CallPublish ==
  /\ Calling
  /\ \E s \in Texts, i \in 1 .. Len(Tables) :
       \E args \in PropertySets(s, Number(i % 3), Tables[i]) : Send("header", args)

\* writeToBuffer and the ifs of ContentHeader: the next field.
WriteNext ==
  /\ phase = "writing" /\ fields # <<>>
  /\ w' = WriteField(w, Head(fields)[2], message.args[Head(fields)[1]])
  /\ fields' = Tail(fields)
  /\ phase' = IF w'.thrown THEN "threw" ELSE "writing"
  /\ UNCHANGED <<message, payload, r, got>>

\* The flags of a header are written last, at offset 12.
Flush ==
  /\ phase = "writing" /\ fields = <<>>
  /\ payload' = IF message.what # "header" THEN Written(w)
                ELSE Written([w EXCEPT !.buf =
                                Overlay(@, 12, FlagsOf(Present(message.args, Properties)))])
  /\ phase' = "sent"
  /\ UNCHANGED <<message, fields, w, r, got>>

-----------------------------------------------------------------------------
\* What the server sends in a field: any values of their type.
ServerArg(name, s, u, n, b, table) ==
  CASE name \in {"queue", "routing_key", "locales"} -> Text(u)
    [] name \in {"consumer_tag", "exchange_name", "reply_text", "mechanisms"} -> Text(s)
    [] name \in {"reserved", "reserved1"} -> Text(<<>>)
    [] name \in {"redelivered", "active", "no_wait"} -> Bool(b)
    [] name = "delivery_tag" -> Integer("bigint", FALSE, n.v.octets, TRUE)
    [] name = "server_properties" -> Table(table)
    [] OTHER -> Number(7)

FromServer ==
  {"start", "tune", "connection_open_ok", "connection_close", "connection_close_ok",
   "channel_open_ok", "flow", "flow_ok", "channel_close", "channel_close_ok",
   "exchange_declare_ok", "exchange_delete_ok", "queue_declare_ok", "bind_ok", "unbind_ok",
   "purge_ok", "queue_delete_ok", "qos_ok", "consume_ok", "cancel", "cancel_ok", "return",
   "deliver", "get_ok", "get_empty", "recover_ok"}

\* Message m as the protocol has it; a server sends empty texts and zeros too.
Reference(m) ==
  LET args == m.args
      present == SelectSeq(AMQPProperties,
                           LAMBDA p : p[1] \in DOMAIN args
                                        /\ (m.from = "server" \/ Truthy(args[p[1]])))
  IN  IF m.what = "header"
      THEN HeaderPrefix \o FlagsOf(present) \o Encoding(present, args)
      ELSE Template[m.what].id \o Encoding(Zip(Named(m.what, args), AMQP[m.what]), args)

Serving == phase = "idle" /\ phase' = "sent" /\ UNCHANGED <<fields, w, r, got>>

ServerSends(what, args) ==
  LET m == [from |-> "server", what |-> what, args |-> args]
  IN  message' = m /\ payload' = Reference(m)

ServerCommands ==
  /\ Serving
  /\ \E what \in FromServer, s, u \in Texts, n \in Numbers, b \in BOOLEAN,
        i \in 1 .. Len(ServerTables) :
       /\ what = "start" \/ i = 1
       /\ what \in {"deliver", "get_ok"} \/ n.t = "date"
       /\ ServerSends(what, [name \in Range(Template[what].fields) |->
                               ServerArg(name, s, u, n, b, ServerTables[i])])

ServerHeaders ==
  /\ Serving
  /\ \E s \in Texts, i \in 1 .. Len(ServerTables) :
       \E args \in PropertySets(s, Number(i % 3), ServerTables[i]) : ServerSends("header", args)

-----------------------------------------------------------------------------
MethodWith(id) == CHOOSE what \in DOMAIN Template : Template[what].id = id

FlagSet(octets, bit) == ((octets[1] * 256 + octets[2]) \div 2 ^ bit) % 2 = 1
ByFlags(properties, octets) == SelectSeq(properties, LAMBDA p : FlagSet(octets, p[3]))

\* Method.fromFrame and ContentHeader.fromFrame: the class, the method and the flags
\* say what to read; the server reads by the protocol's types.
Receive ==
  /\ phase = "sent"
  /\ LET server == message.from = "client"
         flags == SubSeq(payload, 13, 14)
         what == MethodWith(SubSeq(payload, 1, 4))
     IN  IF message.what = "header"
         THEN /\ r' = [Reader(payload) EXCEPT !.offset = 14]
              /\ fields' = ByFlags(IF server THEN AMQPProperties ELSE Properties, flags)
         ELSE /\ r' = [Reader(payload) EXCEPT !.offset = 4]
              /\ fields' = IF server THEN Zip(Named(what, message.args), AMQP[what])
                           ELSE Zip(Template[what].fields, Template[what].tags)
  /\ phase' = "reading"
  /\ UNCHANGED <<message, w, payload, got>>

\* readTableFromTemplate and the ifs of ContentHeader: the next field.
ReadNext ==
  /\ phase = "reading" /\ fields # <<>>
  /\ r' = ReadField(r, Head(fields)[2])
  /\ got' = (Head(fields)[1] :> r'.v) @@ got
  /\ fields' = Tail(fields)
  /\ phase' = IF r'.thrown THEN "misread" ELSE "reading"
  /\ UNCHANGED <<message, w, payload>>

Done ==
  /\ phase = "reading" /\ fields = <<>>
  /\ phase' = "read"
  /\ UNCHANGED <<message, fields, w, payload, r, got>>

Next ==
  \/ CallDeclare \/ CallNamed \/ CallNumbered \/ CallPublish \/ Internal
  \/ WriteNext \/ Flush
  \/ ServerCommands \/ ServerHeaders \/ Receive \/ ReadNext \/ Done

Spec == Init /\ [][Next]_vars

-----------------------------------------------------------------------------
\* What the server can be told exactly: octets for characters, integers, whole seconds,
\* and in tables no null, no list and nothing that has no tag.
RECURSIVE Plain(_)
Plain(x) ==
  CASE x.t = "string" -> \A i \in 1 .. Len(x.v) : Len(x.v[i]) = 1
    [] x.t \in {"number", "date", "bigint"} -> x.v.whole
    [] x.t = "object" -> \A i \in 1 .. Len(x.v) :
                           /\ Plain(Text(x.v[i][1])) /\ Plain(x.v[i][2])
                           /\ Tag(x.v[i][2]) # "skip"
    [] OTHER -> TRUE

\* y is what has been read for x; for no octets, the rest of the buffer is read, and a time
\* that no Date can hold is an Invalid Date.
RECURSIVE Same(_, _)
Same(x, y) ==
  /\ x.t = y.t
  /\ CASE x.t = "string" -> y.v = Utf8(x.v)
       [] x.t \in {"object", "array"} ->
            /\ Len(x.v) = Len(y.v)
            /\ \A i \in 1 .. Len(x.v) :
                 LET e == x.v[i]
                 IN  IF x.t = "array" THEN Same(e[Len(e)], y.v[i])
                     ELSE y.v[i][1] = Utf8(e[1]) /\ Same(e[Len(e)], y.v[i][2])
       [] x.t = "null" \/ (x.t = "bytes" /\ x.v = <<>>) -> TRUE
       [] x.t = "date" -> y.v = IF BeyondDate(x.v.octets) THEN InvalidDate ELSE x.v
       [] OTHER -> x.v = y.v

Largest == <<0, 0, 0, 0, 255, 255, 255, 255>>

\* AMQP has a form for x in a field of this type; a table takes integers of 64 bits with or
\* without a sign, other numbers, null and lists.
RECURSIVE Fit(_, _)
Fit(tag, x) ==
  CASE tag = "s" -> Len(Utf8(x.v)) <= MaxShort
    [] tag \in DOMAIN IntegerTags -> x.v.whole /\ Fits(x.v, IntegerTags[tag])
    [] tag = "F" -> \A i \in 1 .. Len(x.v) :
                      /\ Fit("s", Text(x.v[i][1]))
                      /\ x.v[i][2].t \in {"date", "object"} => Fit(Tag(x.v[i][2]), x.v[i][2])
    [] OTHER -> TRUE

\* A value in a table that BufferWriter has no form for, though AMQP has.
RECURSIVE Unsupported(_)
Unsupported(x) ==
  CASE x.t = "number" -> IF x.v.neg THEN ~Signed(x.v, 4)
                         ELSE ~Unsigned(x.v, 4) \/ x.v.octets = Largest
    [] x.t = "bigint" -> x.v.neg
    [] x.t = "array" -> x.v # <<>>
    [] x.t = "object" -> \E i \in 1 .. Len(x.v) : Unsupported(x.v[i][2])
    [] OTHER -> x.t = "null"

HasDecimal(x) == x.t = "object" /\ \E i \in 1 .. Len(x.v) : x.v[i][2] = "D"

\* The flags of these properties are not the protocol's.
Unset == {"type", "userId", "appId", "clusterId"}

\* A text ran beyond the end of the buffer, or a number or another text might.
Cut == w.offset > Capacity
Crowded == w.offset + MaxShort + 9 > Capacity

\* What the library sends is, octet by octet, what AMQP prescribes for the arguments of
\* the call: the packed bits, the lengths and the flags in front of it included (the
\* writers keep a packing mode and sizes that they compute beforehand).
WireIsAMQP ==
  phase = "sent" /\ message.from = "client" /\ ~Cut
    /\ (\A name \in DOMAIN message.args : Plain(message.args[name]))
    /\ DOMAIN message.args \intersect Unset = {}
  => payload = Reference(message)

\* Whatever texts, numbers and values the application gives (characters of more than
\* one octet included), the server does not lose its place in what is sent: it reads to
\* the end, and what has no such character is right.  Two exceptions: the values of user-id,
\* app-id and cluster-id, which the library sends under the flags of other texts, and what
\* has run beyond the end of the buffer, where the octets cut off are missing.
InStep ==
  phase \in {"read", "misread"} /\ message.from = "client" /\ ~Cut =>
    /\ phase = "read" /\ r.offset = Len(payload)
    /\ \A name \in DOMAIN got \ Unset :
         name \in DOMAIN message.args /\ Plain(message.args[name])
           => Same(message.args[name], got[name])

\* What the server sends is read to its end and as it was sent, but for a decimal, which
\* has no form here, and an empty byte array, which spoils only itself: no field behind
\* it.  (The reserved text of channel.open-ok is not read to its end.)  Nothing is said of
\* headers with type, user-id, app-id or cluster-id, whose flags the library takes for others.
ServerUnderstood ==
  phase \in {"read", "misread"} /\ message.from = "server" =>
    \/ /\ phase = "misread"
       /\ \E name \in DOMAIN message.args : HasDecimal(message.args[name])
    \/ DOMAIN message.args \intersect Unset # {}
    \/ /\ phase = "read"
       /\ r.offset = Len(payload) \/ message.what = "channel_open_ok"
       /\ \A name \in DOMAIN message.args : Same(message.args[name], got[name])

\* A call fails for a value that AMQP has no form for in its field, for one in a table that
\* BufferWriter has none for (a number from 0xFFFFFFFF or below -2^31, a negative bigint,
\* null, a list), or for want of room, and for nothing else.  And nothing that AMQP has no
\* form for is sent, but that fractions are cut off, and texts are measured by their
\* characters and not by their octets.
RefusesTheUnfit ==
  LET given == {<<f[2], message.args[f[1]]>> : f \in Range(FieldsOf(message.what, message.args))}
      fit == \A g \in given : Fit(g[1], g[2])
  IN  /\ phase = "threw" =>
           Crowded \/ ~fit \/ \E g \in given : g[1] = "F" /\ Unsupported(g[2])
      /\ phase = "sent" /\ message.from = "client" /\ (\A g \in given : Plain(g[2])) => fit
=============================================================================
