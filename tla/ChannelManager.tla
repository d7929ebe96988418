--------------------------- MODULE ChannelManager ---------------------------
(***************************************************************************)
(* services/ChannelManager.ts with the part of classes/ChannelN.ts and     *)
(* classes/Connection.ts that drives it: which channel object owns which   *)
(* channel number from its creation to its 'channelClose' event.           *)
(*                                                                         *)
(* Chans are the channel objects created during the life of a connection.  *)
(* The conversation of one channel with the server, which decides when     *)
(* these steps happen, is the subject of ChannelRPC; here any outcome of   *)
(* it is possible at any time.                                             *)
(***************************************************************************)
EXTENDS Integers

CONSTANTS
  Chans,            \* channel objects
  NoChannel,        \* "no entry in the map"
  TunedMax,         \* the channel_max of connection.tune
  ExplicitNumbers   \* numbers the application asks for by conn.channel(n)

ASSUME ChannelManagerAssumption ==
  /\ NoChannel \notin Chans
  /\ TunedMax \in Nat
  /\ ExplicitNumbers \subseteq Nat \ {0}

VARIABLES
  channels,         \* ChannelManager.channels, a total map: NoChannel if absent
  freeSet,          \* the two fields of channelNumberAllocator
  lastIndex,
  phase,            \* where each channel object is in its life
  number,           \* its channelNumber (0 before it is created)
  listening,        \* its once('channelClose') listener is still installed
  closeArmed,       \* its once('method:20:40') listener is still installed
  closePending      \* an onClose(reason) of it waits in the immediates queue

vars == <<channels, freeSet, lastIndex, phase, number, listening, closeArmed,
          closePending>>

-----------------------------------------------------------------------------
channelMax == IF TunedMax = 0 THEN 65535 ELSE TunedMax

Numbers == 1 .. channelMax \union ExplicitNumbers

Allocator == INSTANCE IntAllocator WITH loRange <- 1, top <- channelMax

(***************************************************************************)
(* "opening":  constructed, channel.open not answered yet                  *)
(* "refused":  the server closed it instead; its onClose is pending        *)
(* "stranded": open() gave up (20 s timeout): nothing will ever close it   *)
(***************************************************************************)
Phases == {"unborn", "opening", "refused", "stranded", "open", "closing", "closed"}

Live(ch) == phase[ch] \notin {"unborn", "closed"}

Mapped(n) == channels[n] # NoChannel

-----------------------------------------------------------------------------
Init ==
  /\ channels = [n \in Numbers |-> NoChannel]
  /\ Allocator!AllocatorInit
  /\ phase = [ch \in Chans |-> "unborn"]
  /\ number = [ch \in Chans |-> 0]
  /\ listening = [ch \in Chans |-> FALSE]
  /\ closeArmed = [ch \in Chans |-> FALSE]
  /\ closePending = [ch \in Chans |-> FALSE]

\* The tail of createChannel, from `new ChannelN` to the call of open().
Register(ch, n) ==
  /\ phase[ch] = "unborn"
  /\ phase' = [phase EXCEPT ![ch] = "opening"]
  /\ number' = [number EXCEPT ![ch] = n]
  /\ channels' = [channels EXCEPT ![n] = ch]
  /\ listening' = [listening EXCEPT ![ch] = TRUE]
  /\ UNCHANGED <<closeArmed, closePending>>

\* conn.channel(): the allocator picks the number, and reserve() is then asked
\* about the number just taken.  When Exhausted the call throws.
CreateAllocated(ch) ==
  \E n \in Numbers :
    /\ Allocator!Allocate(n)
    /\ Allocator!Reserve(n)'
    /\ Register(ch, n)

\* conn.channel(n): an existing channel is returned as it is (no step); for an
\* unmapped number the channel is created if reserve(n) says so, else it throws.
CreateNumbered(ch, n) ==
  /\ ~Mapped(n)
  /\ Allocator!Reserve(n)
  /\ Register(ch, n)
  /\ UNCHANGED <<freeSet, lastIndex>>

-----------------------------------------------------------------------------
\* channel.open-ok: open() installs the listener for the server's channel.close.
OpenOk(ch) ==
  /\ phase[ch] = "opening"
  /\ phase' = [phase EXCEPT ![ch] = "open"]
  /\ closeArmed' = [closeArmed EXCEPT ![ch] = TRUE]
  /\ UNCHANGED <<channels, freeSet, lastIndex, number, listening, closePending>>

\* open() catches the server's CloseReason and defers onClose.
OpenRefused(ch) ==
  /\ phase[ch] = "opening"
  /\ phase' = [phase EXCEPT ![ch] = "refused"]
  /\ closePending' = [closePending EXCEPT ![ch] = TRUE]
  /\ UNCHANGED <<channels, freeSet, lastIndex, number, listening, closeArmed>>

\* open() rethrows any other error: the object stays in the map.
OpenTimedOut(ch) ==
  /\ phase[ch] = "opening"
  /\ phase' = [phase EXCEPT ![ch] = "stranded"]
  /\ UNCHANGED <<channels, freeSet, lastIndex, number, listening, closeArmed,
                 closePending>>

\* close() by the application, which throws unless the channel is open.
Close(ch) ==
  /\ phase[ch] = "open"
  /\ phase' = [phase EXCEPT ![ch] = "closing"]
  /\ UNCHANGED <<channels, freeSet, lastIndex, number, listening, closeArmed,
                 closePending>>

\* closeAll(): close() on every channel of the map, in one turn.
CloseAll ==
  /\ \E ch \in Chans : phase[ch] = "open"
  /\ phase' = [ch \in Chans |->
                 IF phase[ch] = "open" /\ \E n \in Numbers : channels[n] = ch
                 THEN "closing" ELSE phase[ch]]
  /\ UNCHANGED <<channels, freeSet, lastIndex, number, listening, closeArmed,
                 closePending>>

\* The server's channel.close reaches the listener, which defers onClose.
ServerClose(ch) ==
  /\ closeArmed[ch]
  /\ phase[ch] \in {"open", "closing"}
  /\ closeArmed' = [closeArmed EXCEPT ![ch] = FALSE]
  /\ closePending' = [closePending EXCEPT ![ch] = TRUE]
  /\ UNCHANGED <<channels, freeSet, lastIndex, phase, number, listening>>

-----------------------------------------------------------------------------
\* Mutant: the number is never given back.
ReleaseLeaks(n) ==
  /\ channels' = [channels EXCEPT ![n] = NoChannel]
  /\ UNCHANGED <<freeSet, lastIndex>>

\* releaseChannel(n)
ReleaseChannel(n) ==
  /\ channels' = [channels EXCEPT ![n] = NoChannel]
  /\ Allocator!Free(n)

\* Mutant: the manager listens with on().
EmitHeardTwice(ch) ==
  /\ ReleaseChannel(number[ch])
  /\ UNCHANGED listening

\* ch.emit('channelClose'), heard by the manager through once().
EmitChannelClose(ch) ==
  \/ /\ listening[ch]
     /\ listening' = [listening EXCEPT ![ch] = FALSE]
     /\ ReleaseChannel(number[ch])
  \/ /\ ~listening[ch]
     /\ UNCHANGED <<listening, channels, freeSet, lastIndex>>

\* channel.close-ok answers close(): onCloseOk.
CloseOk(ch) ==
  /\ phase[ch] = "closing"
  /\ phase' = [phase EXCEPT ![ch] = "closed"]
  /\ EmitChannelClose(ch)
  /\ UNCHANGED <<number, closeArmed, closePending>>

\* The deferred onClose(reason) runs, also on a channel that CloseOk has closed
\* in the meantime: then 'channelClose' is emitted a second time.
OnClose(ch) ==
  /\ closePending[ch]
  /\ closePending' = [closePending EXCEPT ![ch] = FALSE]
  /\ phase' = [phase EXCEPT ![ch] = "closed"]
  /\ EmitChannelClose(ch)
  /\ UNCHANGED <<number, closeArmed>>

-----------------------------------------------------------------------------
Next ==
  \/ CloseAll
  \/ \E ch \in Chans :
       \/ CreateAllocated(ch)
       \/ \E n \in ExplicitNumbers : CreateNumbered(ch, n)
       \/ OpenOk(ch)
       \/ OpenRefused(ch)
       \/ OpenTimedOut(ch)
       \/ Close(ch)
       \/ ServerClose(ch)
       \/ CloseOk(ch)
       \/ OnClose(ch)

Spec == Init /\ [][Next]_vars

-----------------------------------------------------------------------------
\* Every variable has its type: the allocator only ever holds bits of numbers
\* a channel can have (IntAllocator.freeSet), the map only channel objects.
TypeOK ==
  /\ channels \in [Numbers -> Chans \union {NoChannel}]
  /\ freeSet \subseteq {n - 1 : n \in Numbers}
  /\ lastIndex \in Nat
  /\ phase \in [Chans -> Phases]
  /\ number \in [Chans -> Numbers \union {0}]
  /\ listening \in [Chans -> BOOLEAN]
  /\ closeArmed \in [Chans -> BOOLEAN]
  /\ closePending \in [Chans -> BOOLEAN]

\* Connection.onCommand routes by number: getChannel(n) must find the channel
\* that the server knows under n.  So every live channel is the one its number
\* maps to (two live channels never share a number, and a second 'channelClose'
\* of a dead channel never unmaps its successor), and only live ones are mapped.
RoutedToLive ==
  /\ \A ch \in Chans : Live(ch) => channels[number[ch]] = ch
  /\ \A n \in Numbers : Mapped(n) => Live(channels[n]) /\ number[channels[n]] = n

\* The allocator and the map never disagree: a free bit is never the number of a
\* mapped channel (no double allocation), and every unmapped number of the range
\* is free again (closing a channel never leaks its number).
FreeIffUnmapped ==
  /\ \A n \in Numbers : n - 1 \in freeSet => ~Mapped(n)
  /\ \A n \in 1 .. channelMax : ~Mapped(n) => n - 1 \in freeSet
=============================================================================
