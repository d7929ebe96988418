# Formal verification of ts-amqp

TLA+ models of the AMQP 0-9-1 client `ts-amqp`, the TLC configurations that check
them on small instances, and proofs checked by TLAPS. Paths below are relative to the
repository (`src/...` here is the library's own `src` directory).

## 1. The system

`ts-amqp` runs on Node's single event loop. There are no threads; what makes the code
hard is that a turn of the loop is cut at every `await`, `once`, `setImmediate`, timer and
stream callback, and that a server on the other side of the socket acts at the same time.

| Component | State | Operations | Talks to |
|---|---|---|---|
| `classes/Connection.ts`, `classes/Channel0.ts`, `services/Heartbeat.ts` | connection state, attempts, retry timer, socket, `start()` promise, `once` listeners, heartbeat interval | `start`, `close`, `channel`, handlers of socket events and of the class-10 methods | socket, `ChannelManager`, reader, writer |
| `services/ChannelManager.ts`, `utils/IntAllocator.ts`, `utils/bitset.js` | map number → channel, free bits, last index | `createChannel`, `getChannel`, `closeAll`, release on `channelClose` | `Connection`, `ChannelN` |
| `classes/Channel.ts`, `classes/ChannelN.ts`, `services/ChannelRPC.ts`, `utils/streams/async_iterator.js` | channel state, stream buffer, mutex, per class: `settled`, timer, active promise | `open`, `close`, server close, the calls of queue/exchange/basic/channel class | `Connection`, server |
| `ChannelN` and `classes/Consumer.ts` | map tag → consumer, streams of the consumers | `basicConsume`, `basicCancel`, `Consumer.cancel`, deliveries and cancels of the server | `ChannelRPC`, application |
| `classes/ChannelPool.ts` | idle channels, waiting requests, acquisitions and their resolvers | `open`, `close`, `acquire`, `release`, `acquireAndRun`, replacement of closed channels, clean-ups | `Connection`, `ChannelN` |
| `services/CommandReader.ts`, `utils/FrameDecoder.ts` | rest of a cut frame; command under construction | `_transform` of a chunk | socket, `Connection.onCommand` |
| `services/CommandWriter.ts`, `utils/CommandEncoder.ts`, `utils/FrameEncoder.ts`, `Channel._write` | the encode buffer, the generator in progress, stream buffers, channels that wait for `drain` | `write`, `_transform`, `drain` | channels, socket |
| `classes/JsonPublisher.ts`, the writable side of `ChannelN` | message in its immediate, stream buffers, what is allowed in the channel's state | `write`, `basicPublish`, `drain`, flow and close of the server, `close` | `Connection.sendCommand` |
| `classes/Queue.ts`, `Exchange.ts`, `Basic.ts` | none but their `ChannelRPC` | argument building around `rpc.call` | `ChannelRPC` |
| `utils/BufferReader.ts`, `BufferWriter.ts`, `frames/*`, `protocol/*` | offset, bit packing mode | codecs over a buffer, driven by the templates of the methods | reader, writer |

What must hold, and is hard to get right:

* **Routing** – a command for channel *n* reaches the object the server means by *n*, through
  closes that cross and emit `channelClose` twice; numbers are neither leaked nor given twice.
* **Calls** – answers carry no correlation id: an answer must complete its own call, although
  loops of calls that timed out still read the same stream and share a flag and a timer.
* **Closing** – close of either side, or both, ends: answered once, nothing on dead channels.
* **Pool** – a channel has one user at a time, who asks first is served first, the pool never
  exceeds its size, no request waits beside an idle channel, `close()` closes all.
* **Consumers** – deliveries in order to the consumer they are for, none lost around
  `consume-ok`; both sides agree which consumers exist.
* **Framing** – however the socket cuts or stalls, commands come in and go out whole, in order.
* **Codec** – what the library sends is what AMQP prescribes, neither side loses its place in
  a payload, and a value without a form is refused and not sent as another one.
* **Streams** – a pause, a full connection or a close never reorders publishes or leaves a hole.
* **Connection** – `start()` and `close()` settle, heartbeats run exactly as long as their
  socket, the server's close is answered before the stream ends unless the answer is held up.

The complete list of hazards, each with its line and the properties that watch it, is in
`PROJECT.json` ("hazards"); those without a property say why there.

## 2. Modules

| Module | Models | Composes | Runs |
|---|---|---|---|
| `IntAllocator` | allocate / free / reserve as operators over `freeSet`, `lastIndex` | | |
| `ChannelManager` | who owns which channel number | `INSTANCE IntAllocator` | `manager` |
| `ChannelManagerProofs` | its theorems | `ChannelManager` | (TLAPS) |
| `ChannelRPC` | one channel: mutex, `waitFor` loops, timers, open and close, server | `INSTANCE ChannelManager` (as what it implements) | `rpc_prompt`, `rpc_late` |
| `ChannelRPCProofs` | its theorems: the calls; the end of the channel | `ChannelRPC` | (TLAPS) |
| `ChannelStream` | one channel's writable side: `ch.json`, `basicPublish`, flow, close, backpressure | | `stream` |
| `ChannelStreamProofs` | its theorems | `ChannelStream` | (TLAPS) |
| `Consumers` | consumers of one channel | | `consumers`, `consumers_crossing` |
| `ConsumersProofs` | its theorems | `Consumers` | (TLAPS) |
| `Leases` | what a pool promises: an allocator of exclusive resources, first come first served | | |
| `ChannelPool` | the pool | `INSTANCE Leases` (as what it implements) | `pool` |
| `ChannelPoolProofs` | its theorems | `ChannelPool` | (TLAPS) |
| `FrameDecoder` | frames out of chunks, as operators | | |
| `CommandReader` | commands out of frames | `INSTANCE FrameDecoder` | `reader` |
| `CommandReaderProofs` | its theorems | `CommandReader` | (TLAPS) |
| `CommandWriter` | commands to frames to the kernel, backpressure | | `writer`, `writer_shared` |
| `CommandWriterProofs` | its theorems | `CommandWriter` | (TLAPS) |
| `Protocol` | the templates of the methods | | |
| `BufferWriter` | integers, packed bits, texts and tables into a buffer, as operators | `Protocol` | |
| `BufferReader` | the same out of a buffer | | |
| `Calls` | the arguments of each call | `BufferWriter` | |
| `Codec` | one message, written by one side and read by the other | `Calls`, `BufferReader` | `codec` |
| `Connection` | connection, channel 0, heartbeats | | |
| `Session` | a connection with its channels, `closeAll()` | `Connection` | `connection` |
| `ConnectionProofs` | the theorems of both | `Session` | (TLAPS) |

`MC*` modules only give the constants values. Variables and actions have the names of the
fields and methods they stand for, and `PROJECT.json` ("map") gives the lines of each.
A definition marked "Mutant" is a plausible mistake in the definition it precedes; replacing
the one by the other makes the run find the property violated that "mutants" names.

### How state and actions correspond to the code

* **Turns.** In `ChannelManager`, `ChannelPool` and `Connection` an action is one turn of the
  event loop, up to the next `await` or callback. In `ChannelRPC`, `Consumers` and
  `CommandWriter` the turn itself matters (`await` continuations, `setImmediate`, the order in
  which iterators are woken), so a *macro* step (chunk, timer, immediate, application) needs
  all *micro* steps (promises, loop bodies, stream callbacks) to be done. Micro steps of one
  turn interleave freely unless the code relies on their order; where it does, the guard says so
  (`NoneWoken`, `TurnOver`, `Returned`).
* **Promises** are values of a variable ("pending", "resolved", ...), coroutines are the stage
  they await (`stage`, `closer`), `once` listeners are sets or flags of what is installed.
* **ChannelManager.** `phase` is the life of a `ChannelN`; `EmitChannelClose` is
  `emit('channelClose')` with the listener of `createChannel`. `Reserve` keeps the inversion of
  `IntAllocator.reserve`.
* **ChannelRPC.** `loop[c]`/`hand[c]` is the `for await` loop of call *c* and what it has just
  read; `started` orders the iterators as they subscribed to `readable`, so the reader whose
  `Turn` is *k* gets the *k*-th command that is there; `settled`, `timer`,
  `active` are per class as in the code, so a late answer or a left-over timer of one call acts
  on the next. A stale loop keeps reading: it is not removed when the race is decided. `flow()`
  does not look at the channel's state (`Unchecked`), so it may be called while the channel opens
  or closes, or afterwards. The mutex passes to the next call after the caller of the last one
  has gone on (`HasOutcome` in `Start`): `async-mutex` releases it a microtask later.
* **ChannelPool.** `replacing` holds the suspended `onChannelClose` with the index it computed
  before the `await`; a channel is "adrift" when `openChannel()` has rejected after its listener
  was installed; `Splice` has JavaScript's negative index; the loop of `close()` keeps a
  cursor into the live array. A `ch.close()` in it may reject (`ChannelCloseFails`), and then
  `close()` of the pool does.
* **Consumers.** A chunk is read command by command; `reading` keeps everything else of the client
  waiting until its turn has read it all, wherever the chunk ends. `Cancel` is `Consumer.cancel()`,
  which ends the Consumer's stream; `BasicCancel` is `ChannelN.basicCancel(tag)` called by the
  application, which only takes the entry out of the map (`detached`, and the stream is "left").
* **Connection.** Commands of channel 0 pass a stream, the command writer and a pipe on
  their way to the socket: `pipe` tells whether these pass them on ("flowing"), wait for the
  socket ("stalled") or never will again ("stuck", after an exception of the encoder), and
  `queued` what they hold. `socket.end()` does not go that way, so `fin` may get ahead of
  `queued`. `heldUp` is history: the answer to the server's close was written when the way
  was not flowing.
* **Leases** has no code of its own: a request, numbered in the order of `acquire()`, waits in the
  set `asking` until it has a `lease`. `ChannelPool` maps the waiting requests to `asking`, and
  what each request holds to `lease`.
* **ChannelStream.** `WriteTo`, `Drain`, `WriteNext` and `AnswerAndDestroy` follow Node's
  `Writable`: what is allowed goes to `sendCommand()` until that returns false, and the rest
  is buffered. A 'drain' writes the buffer command by command; `draining` keeps all else
  waiting, as that is one turn. Publishes are counted by their origin, so that a hole or a
  change of order shows.
* **FrameDecoder.** An octet is the frame it belongs to and its place in it, so a decoder that
  loses its place is seen to read garbage.
* **CommandReader.** `Script` has the commands of each channel with the sizes of their body frames;
  `next` is the place (command, frame) at which the server is in each. A frame carries its
  place, its size and, as a header, the sum of the body's sizes, which is what `remaining`
  counts down from. `order` and `sent` are history: the commands in the order the server
  finished them, and all frames with what was finished, or had been mixed, at each.
* **Codec.** A character is the sequence of its UTF-8 octets (one of four octets is two UTF-16
  units), an integer its sign and its octets, so that writer and reader work on real octets.
  `WriteNext` and `ReadNext` take one field each, with the offset and the packing mode between
  them; the server (external) reads and writes as AMQP has it: `Reference` builds a payload
  from the same arguments field by field, with the lengths of what it has built. Every text
  property of a message has a text of its own. A key read again is assigned again (`Assigned`), and a
  timestamp beyond what a `Date` holds is read as an invalid one (`BeyondDate`).
* **CommandWriter.** `buf` is the one encode buffer; a view in a buffer or in the kernel is only
  the frame it was made for, and the wire records both that and what `buf` held when the octets
  were copied. Sizes are in octets. A command stands for one `write()`, so it occurs once in all
  programs, and frames tell by their command and index where they belong (`InTurn`).
* **Session.** Each channel only has its `phase` of `ChannelManager`; `awaited` and `thrown` are
  the promises of `closeAll()`. Every step is one of `Connection` or leaves it alone
  (`SessionImplementsConnection`), so what is proved of `Connection` holds here.
* **External.** The server follows AMQP 0-9-1 (answers in order; after `channel.close` it
  discards all but close and close-ok); the transport is reliable and ordered. Node's streams
  (high water marks, `drain`, `pipe`) behave as in Node 14, the version `package.json` asks for.

## 3. What the runs check

`manager` and `connection` also check the type invariant `TypeOK` of the modules that
theorems are about. All runs say `CHECK_DEADLOCK FALSE`: when the application has made its calls
and the server sends nothing, the program rightly does nothing.

| Run | Instance | Shows |
|---|---|---|
| `manager` | 4 channel objects, 2 allocated numbers and one beyond the range | `RoutedToLive`, `FreeIffUnmapped` in every order of creation, refusal, timeout, crossing closes |
| `rpc_prompt` | 3 calls in any order and overlap (a `flow()` in whatever state of the channel), `close()` and server close at any moment, refusals, answers within 20 s | `SparesConnection`, `OneReader`, `RefusalReported`, `CallsSettle`, `CloseCompletes`, `CloseAnswered` |
| `rpc_late` | answers may come after 20 s or never (empty get) | `OwnReply`, `HolderHasTimer`, and the refinement `LivesAsManaged` |
| `stream` | 3 messages to `ch.json`, 2 direct publishes, 2 flows, a connection that may be full at any command, close of either side at any moment | `SentIsPrefix`, `AnsweredUnlessBlocked`, `GoesOut` |
| `pool` | size 2, with and without a prefetch count, on a connection open or not yet; either 3 requests and no failure, or 2 requests, up to 2 replacements and every failure | `ExclusiveUse`, `KeepsItsSize`, the refinement `LeasesInOrder`; without failures `RequestsServed`, `CloseEnds` |
| `consumers` | 2 consumers, 2 tags (re-used), 2 deliveries each, cancels of both sides, `basicCancel(tag)` without the Consumer | `OwnDeliveriesInOrder`, `AgreeAtRest`, `CancelEndsStream` |
| `reader` | 7 frames of 2 channels and a heartbeat, chunks cut at any octet | `WholeAndInOrder`, `FailsOnlyIfMixed`, `AllArrive` |
| `writer` | 2 channels, 2 messages and 2 methods (one too long), a kernel that blocks at any write | `WholeAndInOrder`, `IntactUntilBackedUp`, `AllSent` |
| `codec` | every call of the library and every answer it reads, with texts, numbers, tables and message properties at their bounds | `WireIsAMQP`, `InStep`, `ServerUnderstood`, `RefusesTheUnfit` |
| `connection` | 3 connects, 2 channels; a connect may be refused or fail otherwise, the server may refuse the login, close or vanish, the reader fail, the socket time out, what the channels write hold up the way to it or make the encoder throw, the application close at any time | `HeartbeatFollowsSocket`, `StateFollowsSocket`, `AnsweredBeforeEnd`, `StartSettles`, `CloseCompletes`, `ServerCloseEndsSocket` |

Runs that TLC must find violated show that the code does not do what it, its comments or its
documentation say:

| Run | What it shows |
|---|---|
| `consumers_crossing` | the server's `basic.cancel` and the `cancel-ok` of the application in one chunk: `handleCancel` throws out of an immediate |
| `writer_shared` | two messages published in one turn overwrite each other in the one encode buffer once a frame is as long as the socket's high water mark |

The models reproduce further deviations, which no property states. They are listed for the
reader of a model who wonders whether a line of it is a slip:

* `Reserve` (`IntAllocator.ts:65`) is true when the number is *taken*, the opposite of its doc
  comment; `CreateAllocated` lives on that, and `conn.channel(n)` with a free *n* of the range
  throws. Only numbers beyond `channel_max` are granted, and when such a channel closes,
  `Free` (line 53) lets `allocate()` hand its number out (`Numbers` is the range with those).
* `CloseLoop` of `ChannelPool` (line 107) skips every second channel, because `OnChannelClose`
  splices the closed one out of the array under the cursor; `OnChannelClose` of an acquired
  channel (line 159) has index -1, and `Splice(-1, ...)` evicts an idle channel instead.
* In `ChannelRPC` a call may end as "noResponse" while its own answer is in `hand`: the late
  answer of an earlier call has set `settled`, which the class shares. Likewise a loop that was
  given up may take the close-ok of `close()`, whose second attempt then reaches a channel that
  the server has closed: the exception in `CloseCompletes`. That loop then clears the timer of
  the second attempt, so a `flow()` behind it waits for ever: the exception in `CallsSettle`.
* `Consumers`: `basicCancel(tag)` (`ChannelN.ts:353`) is public and does not tell the Consumer, whose
  stream then waits for deliveries for ever.
* `ChannelStream`: a close loses what was written to `ch.json` in the same turn, which is what the
  README's first example does, and what the channel's stream still buffers; the answer to the
  server's close is lost in the same way when the stream waits for a `drain`. `onFlow`
  (`ChannelN.ts:120`) gets the arguments and not the flag, so that `flow-ok` always says active; only
  the first `flow` is answered, and that also after `channel.close`, as it is of class channel.
* `Connection`: a connect that fails otherwise than refused (`onSockError`,
  `Connection.ts:149`) is neither tried again nor reported: `start()` stays pending
  (`ConnectFails`, "unreachable" in `upset`). `_closeConnection` (line 275) ends the socket
  itself, so that a close-ok held up by the writer or its pipe comes too late or never: the
  exception in `AnsweredBeforeEnd`. `close()` before the connection is open only sets the
  state, which the next event of the handshake sets again; while a retry is due it removes
  the timer and leaves `start()` pending and the state "closing" ("abandoned" in `upset`).
  The socket's timeout rejects `start()` while the handshake goes on. After the command
  reader has failed nobody reads the socket. `close()` rejects, and the state stays
  "closing", when a channel of the map is opening, stranded or closing (`CloseFails`).
* `BufferWriter`: the length of a text is its number of UTF-16 units, and so is the number
  of octets it is moved on by: a text with other than ASCII characters arrives cut, and a
  short one may have more than 255 octets. A text that is too long for the buffer of 10000
  octets (`Method.ts:24`) is cut without an error when it comes last; the properties of what
  is sent leave that out (`Cut`). In a table, numbers from 0xFFFFFFFF on (line 340 has `<`
  for what the tag `i` still holds), `null` (line 343 looks at its prototype before line 345
  at itself), and arrays that are not empty throw (`Unsupported`); fractions are cut off.
  `RefusesTheUnfit` measures by AMQP's limits, and names fractions and the UTF-16 length as
  its exceptions. More than eight packed bits in a row would be lost, which no template has.
* `ContentHeader` puts `userId`, `appId` and `clusterId` at the flags 5, 4 and 3, where AMQP has
  `type`, `userId` and `appId`; it never sends `type`. With the properties of
  `test/frames.test.ts:132` a server would read the cluster-id '101' as the app-id. `WireIsAMQP`,
  `InStep` and `ServerUnderstood` leave the values of these four out (`Unset`).
* `BufferReader` throws for a decimal in a table (`_transform` of the command reader has no
  handler for it) and reads the reserved text of `channel.open-ok` as a short one.
* An exception of the encoder leaves the command writer busy for ever
  (`AllSent` of the run `writer` ends there).

### Bounds

* `manager`: three numbers suffice for reuse, exhaustion, wrap-around of the search and the
  out-of-range number; four objects for two successors on one number. The theorems remove the
  bound.
* `rpc_prompt`, `rpc_late`: three calls – a `flow()`, of the class of open and close and in
  any state, and two gets of one method, of which one finds its queue empty, so that the
  answer to the other may be taken for its own; `close1`/`close2` are the only two attempts
  the code makes.
* `pool`: size two is the least at which `splice(-1, ...)` and the skipping loop hit another
  channel; three requests make one wait. With failures two requests, as each failure also adds
  the replacement's turns; four channels give both of them one replacement. With a
  prefetch count (`MaxLimited` = 3) there is one replacement, whose opening has a turn more.
* `stream`: three messages fill the transform's two buffers with one in between; two direct
  publishes enter around them; the limits 1 and 2 stand for 16.
* `codec`: `Capacity` = 60 octets in place of 10000 and `MaxShort` = 6 units in place of 255, so
  that texts of 0, 1, `MaxShort` and `MaxShort` + 1 units and tables just beyond the buffer
  occur; characters of one, two and four octets; numbers and dates on both sides of the bounds of
  each type and tag.
* `consumers`: two tags and two consumers allow reuse of a tag and two independent ones;
  `MaxDeliveries` = 2 shows order.
* `reader`: `Window` = 10, the longest frame, lets the server send while a whole other frame is
  under way, so that a chunk may end inside, at the end of, or anywhere behind a frame, in the
  next header or its payload; `MaxBeats` = 1. The theorems remove these bounds.
* `writer`: `FrameMax` = 28 and sizes around it give bodies of one and two frames and one
  method that overflows; `WriterLimit` = 2 in place of 16, `HighWater` = 30 or 20 in place
  of 16384 (above or below the longest frame).
* `connection`: `maxRetries` = 3 gives a first, a middle and a last attempt; two channels let
  `closeAll()` find one open and the other in any phase. The theorems remove both bounds. All of
  `MayRefuse`, ..., `MayMiss` (a connect fails otherwise), `MayStall` and `MayWedge` are TRUE; they
  are constants so that a smaller run can leave one out.

### Fairness

Weak fairness everywhere, on what Node and the transport do by themselves: micro steps,
immediates, timers, reading the socket, a kernel that takes data again (`Unstall` of the
connection; a writer that is "stuck" stays so); and on the server's answers (an AMQP server
answers each method). Nothing obliges the application to call or close, or the server to
close, refuse or deliver. `RequestsServed` and `CloseEnds` assume that who holds a channel
of the pool releases it – the contract of `release`; these two, and the fairness of
`ChannelPool`, only speak of pools without failures (`healthy`). `Prompt` is not fairness
but a restriction of a run: a timer only fires when nothing is under way.

`CallsSettle` needs `Prompt`: with late answers a call may wait for ever, as the late answer
of an earlier one clears its timer (`HolderHasTimer` states how far it goes wrong). The
liveness properties of the connection carry their exceptions in the formula. `StartSettles`:
a connect that fails otherwise than refused, a refused login, a close or loss of the
connection in the handshake, a failed reader, or `close()` while a retry is due leave the
promise pending. `CloseCompletes`: `closeAll()` rejects for a channel that is not open or
that the server closes meanwhile, the encoder may have thrown in the writer, and a
`close-ok` may never be read when the server or the network ends the connection too.

## 4. What is proved

Every theorem holds for all values of the constants that the assumption of its module admits
(`ChannelManagerAssumption`, `ChannelRPCAssumption`, ...): any number of channels, calls,
consumers, requests, retries. The assumptions only say what the constants are (disjoint
names, positive sizes) and are evaluated by the runs. All proofs have one structure: an
inductive invariant made of named parts, lemmas for the operators and for what several actions
share, `Init`, one lemma per part with a step per action (or one per action with a step per
part), and the temporal step by `PTL`. TLC checked each invariant on a small instance before it
was proved.

### Numbers of channels (`ChannelManagerProofs`)

`TypeCorrect` (`TypeOK`), `Routing` (`RoutedToLive`), `NoDoubleAllocationNoLeak`
(`FreeIffUnmapped`). The inductive invariant `IInv` is the conjunction of the three with
`ListensWhileLive`: the `once('channelClose')` listener is installed exactly while the channel is
live. Without it the step `OnClose` of a channel that is already closed could unmap its number's
next owner; with it the second `channelClose` finds no listener. `FreeIffUnmapped` needs
`RoutedToLive` (a release frees a number that was mapped to this channel) and the other way
round (a number just allocated was not mapped), so they are proved together.

### Calls of a channel (`ChannelRPCProofs`)

For any operations, methods, classes and empty gets, whether the server is in time or not
(`Prompt` is left open):

* `OneReaderHolds` (`OneReader`): from `Places`, which says where each call is: `Holder`
  (who holds the mutex heads the queue and began last, and `open()` is the first to do so:
  `OpenHolds`), `Loops` (a loop that still reads belongs to the call under way or to one
  given up) and `Stages` (what `open()` and `close()` have called).
* `HolderHasTimerHolds` (`HolderHasTimer`): the shared fields need `Timers` as well:
  whatever cleared the timer of the call under way was the answer or the timer of a failed
  call of the class.
* `OwnReplyHolds` (`OwnReply`): answers carry no correlation, so this rests on order alone.
  `InOrder` says that requests and replies under way are in the order in which their
  calls began; `Received`, that the loop of a call that waits for its answer is in line when the
  answer comes in, behind the loops of older calls and with nothing in the stream that it would
  find first. So an answer can only come into the hands of its own loop or of one that is older
  (`OwnHands`), and an older loop that still reads belongs to a call that was given up.
  `Dialogue` joins the parts.

### The end of a channel (`ChannelRPCProofs`)

* `RefusalReportedHolds` (`RefusalReported`): the invariant `Closing` follows the server's close from
  its cause to the loop of the call (`Causes`, `CloseIsLast`, `Reported`), and shows that the
  deferred `onClose` does not end the stream before that (`EndIsEnd`, `NoResponseLate`).
* `SparesConnectionHolds` (`SparesConnection`): as a `flow()` may be called behind
  `close()`, nothing is said of who is last in the queue. `Sparing` adds instead that the
  first attempt of `close()` stands until it has failed or the channel goes (`Attempting`),
  that nothing else begins before `open()` goes on (`Dawn`), that the second attempt is only made after
  a failure (`SecondAttempt`), what the server still takes (`SentWell`), and that a channel
  that goes without having heard a close leaves nothing under way (`Quiet`), so what strays
  in came from crossing closes.
* `ChannelLivesAsManaged` (`LivesAsManaged`): every step is, under the mapping of
  `Lifecycle`, a step of `ChannelManager` with one channel, or a stutter; `Course` says
  which flags fit which stage. What `ChannelManager` takes for granted of its channels is
  thus a theorem about them.

### What a channel writes (`ChannelStreamProofs`)

For any number of messages, publishes and flows and any `highWaterMark`:

* `PublishesInOrder` (`SentIsPrefix`): a publish passes through the transform, its
  immediate, its readable buffer and the channel's buffer, and what the connection has got
  says nothing of those. `Inv` joins them: while the channel is open, what the connection
  got with what the channel buffers (`Line`) has each publish exactly once and in order
  (`Complete`, with `Numbered`), the transform has exactly the messages after that (`Rest`),
  and nothing lies in the buffer of a stream that can write (`Waits`). A close drops
  whatever waits, and `allowCommand` lets no publish pass after it, so what was sent remains
  the beginning.
* `CloseAnswered` (`AnsweredUnlessBlocked`), directly from `onClose`'s step.

### Consumers (`ConsumersProofs`)

* `OwnDeliveriesHold` (`OwnDeliveriesInOrder`) and `AgreeAtRestHolds` (`AgreeAtRest`), for any
  consumers, tags and number of deliveries.

A handler runs a turn after its command was read and finds the consumer by a tag that can be
used again. The invariant therefore says what a tag means at each time: one call is under
way (`Serial`), a tag has one consumer that has not ended (`Sole`), map and server have
those that live (`Mapped`, `Subscribed`, `Known`), nothing is under way for a consumer
before its consume-ok (`Announced`) or behind its end (`Ended`), a stream is left open
without an entry only when the application gave its tag to `basicCancel()` (`Forgotten`), a
handler's tag has not got another live consumer meanwhile (`Fresh`), commands for one
consumer are in order (`InOrder`), and what was sent is either under way or has arrived
(`Delivered`). The last part of `OwnDeliveriesInOrder` rests on `Fresh`: only a consumer
that the application has cancelled can be gone when a delivery's immediate runs.

### The pool (`ChannelPoolProofs`)

For every size, any number of channels and requests, with any failure:

* `ExclusiveUseHolds` (`ExclusiveUse`): not inductive, since a channel that joins the pool
  must come from `openChannel()` alone: `Underway` says that `open()` waits for one channel,
  each replacement for another, and that nobody has these yet. `Exclusive` is about
  the whole of a dispatch, by lemmas on `Splice` and on what the loop of `dispatch` hands out.
* `PoolKeepsItsSize` (`KeepsItsSize`): `Room` counts the channels alive with those that `open()` has
  still to ask for; `Lossless` says that without failures none gets lost.
* `PoolImplementsLeases` (`LeasesInOrder`): every step is one of `Leases` or a stutter, where a
  dispatch serves several requests at once; `InLine` (the array is in the order of `acquire()`, and
  has every request that waits) is what makes it first come, first served.

### The connection (`ConnectionProofs`)

For any number of retries and any behaviour of server and network:

* `ConnectionTypeCorrect` (`TypeOK`; among others: one `start()` never connects more than
  `maxRetries` times), `HeartbeatBound` (`HeartbeatFollowsSocket`), `StateBound`
  (`StateFollowsSocket`). The invariant adds `Untouched` (nothing has happened before
  `start()`), `Phases` (which states fit which socket, with `close()` possible at any time, and a
  retry is only due after a refused connect that was not the last), `Listeners` (tune is heard
  once and before open-ok, so an open connection is beating) and `Calm` (as long as nothing went
  wrong and nobody closed, only commands of the handshake are under way, so no stream ends
  unannounced: without it the step `RecvEnd` could leave an open state with a dead socket and no
  cause).
* `CloseIsAnswered` (`AnsweredBeforeEnd`), from the invariant `Answering`: nothing is left
  of an old socket (`Silent`), `Channel0` listens for a close as soon as the server can send
  one (`HearsClose`), a server that has closed is answered or its close is still under way
  (`CloseUnderWay`), it answers the client's close only behind its own (`CloseFirst`), and
  the client's end of the stream follows its close-ok (`EndIsLast`). `Answering` is
  inductive as long as no answer was held up, and `heldUp` stays (`HeldUpStays`). While the
  way flows, the close-ok is on the wire when `socket.end()` is called, and it stays so when
  the way is stalled or stuck later.
* `SessionImplementsConnection` – `SessionSpec => Spec`: whatever the channels do, for any
  set of them, a behaviour of the composition is one of `Connection`; hence
  `SessionTypeCorrect`, `SessionHeartbeat`, `SessionState`, `SessionAnswers` for what the
  run `connection` checks.

### Commands in (`CommandReaderProofs`)

For any channels, commands, body sizes and cuts of the socket's octets, any number of
heartbeats, and a server that mixes the frames of its channels as it likes:

* `CommandsWhole` (`WholeAndInOrder`) and `OnlyMixingFails` (`FailsOnlyIfMixed`), from `Inv`. It takes
  what the decoder keeps (`Held`), the rest of the chunk and the socket as one sequence, `Stream`,
  and says of it (`Aligned`) that it is the octets of the last frames of `sent`, frame after
  frame and without a gap. A step of the decoder moves the cut between the parts and
  leaves the sequence alone, or takes one whole frame off its front; `WriterFits` (what it keeps is
  less than a frame) tells which, and excludes that it reads anything but a header as one.
* Where `Stream` begins says which frames are over (`Over`), and `ReaderInStep` that the reader's
  `state`, `command`, `remaining` and `pushed` are what the last of them leaves behind. It
  holds until the reader meets the first frame the server has mixed in, which is
  always a method inside a command, so that the reader fails there and pushes nothing wrong.
* `SentInOrder` (each entry of the history follows from the one before) and `NextPlaces` say
  what the next frame may be. That the last body frame and no other brings `remaining` to 0
  is a lemma about the sums of positive sizes.

### Commands out (`CommandWriterProofs`)

For any programs of any channels, any sizes and any high water marks:

* `CommandsWholeAndInOrder` (`WholeAndInOrder`): what the wire has is the front of a pipe that goes
  through the kernel, the socket and the writer's readable buffer (`Pipe`). `Order` says that all
  frames of the pipe are in their turn (`PipeInOrder`), that the command in `_transform` has exactly
  the frames before `left` in it, at its end (`JobInOrder`; without one the pipe ends with a whole
  command, `LastIsLast`), and that the commands before it have not overtaken each other:
  what a channel has buffered are its last writes (`BufferedLast`), the writer has each channel's in
  order (`PendingInOrder`), and every write is in one of these places (`NoneLost`). Frames
  that are too long never enter the pipe, as `Throw` ends the loop for ever.
* `BufferIntact` (`IntactUntilBackedUp`), from `Unharmed`: as long as the kernel has taken every
  write at once and no frame is as long as the high water mark, nothing waits in the
  socket or in `out`, so every view is copied in the step that encodes it. The second proviso is
  the code's: a frame as long makes the pipe pause after a successful write, and the next
  frame, with the same buffer, waits behind it. `writer_shared` shows what then happens.

## 5. What is only model-checked, and what is not modelled

* Liveness, as `WF` and `ENABLED` are beyond the prover: `CallsSettle`, `CloseCompletes` and
  `CloseAnswered` of a channel, `GoesOut`, `RequestsServed` and `CloseEnds` of the pool,
  `CancelEndsStream`, `AllArrive`, `AllSent`, and `StartSettles`, `CloseCompletes` and
  `ServerCloseEndsSocket` of the connection.
* The codec: `WireIsAMQP`, `InStep`, `ServerUnderstood` and `RefusesTheUnfit`. Tables are nested, so
  writer, reader and reference are recursive operators, which the prover cannot take. Every other
  invariant that a run checks is a theorem.
* Induction over data only where it can be stated about a set (`Induct` of
  `CommandReaderProofs`): sums of sizes and counts of octets.
* Not modelled:
  * a second `start()` of one connection, or one that overlaps: the listeners of the first are
    still installed, and the end of its socket has ended the command reader;
  * `ChannelPool.mapOver` and the async generator, which are applications of `acquire`; a second
    `open()` or `close()` of one pool;
  * the bit set's words, and its operations without a caller in `src`: `IntAllocator` has the
    set of its bits;
  * the values of method numbers, types, re-exports, examples: no behaviour;
  * the composition of `ChannelRPC` with `ChannelStream` (a channel whose calls wait behind
    buffered publishes): each of the two takes the other as a source of commands.
* A frame_max of 0 (no limit) would make the encode buffer empty; `CommandWriterAssumption`
  excludes it.

## 6. State of the work

All components above are modelled, and every safety property that a run checks is proved, but
for those of the codec. What would extend the project, in the order of what it would say about
the code:

1. a second `start()` of one `Connection`, with the listeners and the reader left by the first
   (the hazard without a property in `PROJECT.json`);
2. a channel whose calls wait behind its buffered publishes: `ChannelRPC` over `ChannelStream`;
3. the words of `utils/bitset.js` as a refinement of the set of `IntAllocator`.
