------------------------ MODULE ChannelManagerProofs ------------------------
(***************************************************************************)
(* The invariants of ChannelManager for every set of channel objects, every*)
(* channel_max and every set of explicitly requested numbers.              *)
(*                                                                         *)
(* RoutedToLive and FreeIffUnmapped are not inductive: they must know that *)
(* the release of a number happens once per channel.  The strengthening is *)
(* ListensWhileLive, which is where the once() of createChannel enters.    *)
(***************************************************************************)
EXTENDS ChannelManager, TLAPS

\* The listener is installed exactly while the channel is live; an object has a
\* number once it is created, and no pending event before.
ListensWhileLive ==
  \A ch \in Chans :
    /\ listening[ch] <=> Live(ch)
    /\ closePending[ch] \/ closeArmed[ch] => phase[ch] # "unborn"
    /\ phase[ch] # "unborn" => number[ch] \in Numbers

IInv == TypeOK /\ RoutedToLive /\ FreeIffUnmapped /\ ListensWhileLive

USE DEF Allocator!numberOfBits, Allocator!AllocatorInit, Allocator!Allocate,
        Allocator!Free, Allocator!Reserve, Allocator!IsNextSetBit

\* The range of the allocator is never empty and lies within Numbers.
LEMMA NumbersType ==
  /\ channelMax \in Nat \ {0}
  /\ Numbers \subseteq Nat \ {0}
  /\ 1 .. channelMax \subseteq Numbers
  /\ 0 .. (channelMax + 1 - 1) - 1 = {n - 1 : n \in 1 .. channelMax}
BY ChannelManagerAssumption DEF channelMax, Numbers

\* The constructors establish the inductive invariant.
LEMMA InitIInv == Init => IInv
BY NumbersType, ChannelManagerAssumption
   DEF Init, IInv, TypeOK, RoutedToLive, FreeIffUnmapped, ListensWhileLive,
       Live, Mapped, Phases

\* createChannel keeps it when it registers a channel under an unmapped number
\* n whose bit, if it was free, has just been taken.
LEMMA RegisterIInv ==
  ASSUME IInv, NEW ch \in Chans, NEW n \in Numbers, ~Mapped(n), Register(ch, n),
         freeSet' = freeSet \ {n - 1}, lastIndex' \in Nat
  PROVE  IInv'
<1> USE NumbersType, ChannelManagerAssumption
<1>1. TypeOK'
  BY DEF IInv, TypeOK, Register, Phases
<1>2. RoutedToLive'
  BY DEF IInv, TypeOK, RoutedToLive, Register, Live, Mapped
<1>3. FreeIffUnmapped'
  <2>1. ASSUME NEW m \in Numbers, m - 1 \in freeSet'
        PROVE  ~Mapped(m)'
    <3>1. m # n /\ m - 1 \in freeSet
      BY <2>1
    <3> QED BY <3>1 DEF IInv, TypeOK, FreeIffUnmapped, Register, Mapped
  <2>2. ASSUME NEW m \in 1 .. channelMax, ~Mapped(m)'
        PROVE  m - 1 \in freeSet'
    <3>1. m # n /\ ~Mapped(m)
      BY <2>2 DEF IInv, TypeOK, Register, Mapped
    <3>2. m - 1 # n - 1
      BY <3>1
    <3> QED BY <3>1, <3>2 DEF IInv, FreeIffUnmapped
  <2> QED BY <2>1, <2>2 DEF FreeIffUnmapped
<1>4. ListensWhileLive'
  BY DEF IInv, TypeOK, ListensWhileLive, Register, Live
<1> QED BY <1>1, <1>2, <1>3, <1>4 DEF IInv

\* The end of a channel that was created keeps it, the first time (its number is
\* released) and the second (nothing happens).
LEMMA EmitIInv ==
  ASSUME IInv, NEW ch \in Chans, phase[ch] # "unborn", EmitChannelClose(ch),
         phase' = [phase EXCEPT ![ch] = "closed"], UNCHANGED <<number, closeArmed>>,
         closePending' \in [Chans -> BOOLEAN],
         \A c \in Chans : closePending'[c] => closePending[c]
  PROVE  IInv'
<1> USE NumbersType, ChannelManagerAssumption
<1>1. CASE ~listening[ch]
  <2>1. phase[ch] = "closed" /\ UNCHANGED <<channels, freeSet, lastIndex, listening>>
    BY <1>1 DEF IInv, TypeOK, ListensWhileLive, Live, Phases, EmitChannelClose
  <2>2. phase' = phase
    BY <2>1 DEF IInv, TypeOK
  <2>3. TypeOK'
    BY <2>1, <2>2 DEF IInv, TypeOK
  <2>4. RoutedToLive'
    BY <2>1, <2>2 DEF IInv, RoutedToLive, Live, Mapped
  <2>5. FreeIffUnmapped'
    BY <2>1 DEF IInv, FreeIffUnmapped, Mapped
  <2>6. ListensWhileLive'
    BY <2>1, <2>2 DEF IInv, ListensWhileLive, Live
  <2> QED BY <2>3, <2>4, <2>5, <2>6 DEF IInv
<1>2. CASE listening[ch]
  <2> DEFINE n == number[ch]
  <2>1. n \in Numbers /\ channels[n] = ch
    BY <1>2 DEF IInv, ListensWhileLive, RoutedToLive
  <2>0. n \in Nat
    BY <2>1
  <2>2. /\ channels' = [channels EXCEPT ![n] = NoChannel]
        /\ freeSet' = freeSet \union {n - 1}
        /\ lastIndex' = lastIndex
        /\ listening' = [listening EXCEPT ![ch] = FALSE]
    BY <1>2 DEF EmitChannelClose, ReleaseChannel
  <2>3. TypeOK'
    BY <2>1, <2>2 DEF IInv, TypeOK, Phases
  <2>4. RoutedToLive'
    BY <2>1, <2>2 DEF IInv, TypeOK, RoutedToLive, Live, Mapped
  <2>5. FreeIffUnmapped'
    <3>1. ASSUME NEW m \in Numbers, m - 1 \in freeSet'
          PROVE  ~Mapped(m)'
      <4>1. CASE m = n
        BY <4>1, <2>1, <2>2 DEF IInv, TypeOK, Mapped
      <4>2. CASE m # n
        <5>1. m - 1 # n - 1
          <6>1. m \in Nat
            OBVIOUS
          <6> QED BY <6>1, <4>2, <2>0
        <5>2. m - 1 \in freeSet
          BY <3>1, <5>1, <2>2
        <5> QED BY <4>2, <5>2, <2>1, <2>2 DEF IInv, TypeOK, FreeIffUnmapped, Mapped
      <4> QED BY <4>1, <4>2
    <3>2. ASSUME NEW m \in 1 .. channelMax, ~Mapped(m)'
          PROVE  m - 1 \in freeSet'
      BY <3>2, <2>1, <2>2 DEF IInv, TypeOK, FreeIffUnmapped, Mapped
    <3> QED BY <3>1, <3>2 DEF FreeIffUnmapped
  <2>6. ListensWhileLive'
    BY <2>1, <2>2 DEF IInv, TypeOK, ListensWhileLive, Live
  <2> QED BY <2>3, <2>4, <2>5, <2>6 DEF IInv
<1> QED BY <1>1, <1>2

\* A step that moves a channel between two live phases, or only its listeners,
\* keeps it.
LEMMA QuietIInv ==
  ASSUME IInv, UNCHANGED <<channels, freeSet, lastIndex, number, listening>>,
         phase' \in [Chans -> Phases],
         closeArmed' \in [Chans -> BOOLEAN], closePending' \in [Chans -> BOOLEAN],
         \A ch \in Chans :
           /\ phase'[ch] = "unborn" <=> phase[ch] = "unborn"
           /\ phase'[ch] = "closed" <=> phase[ch] = "closed"
           /\ closePending'[ch] \/ closeArmed'[ch] => phase[ch] # "unborn"
  PROVE  IInv'
<1> USE NumbersType, ChannelManagerAssumption
<1>1. TypeOK'
  BY DEF IInv, TypeOK
<1>2. RoutedToLive'
  BY DEF IInv, TypeOK, RoutedToLive, Live, Mapped
<1>3. FreeIffUnmapped'
  BY DEF IInv, FreeIffUnmapped, Mapped
<1>4. ListensWhileLive'
  BY DEF IInv, ListensWhileLive, Live
<1> QED BY <1>1, <1>2, <1>3, <1>4 DEF IInv

\* Every step keeps the inductive invariant.
LEMMA NextIInv == IInv /\ [Next]_vars => IInv'
<1> SUFFICES ASSUME IInv, [Next]_vars PROVE IInv'
  OBVIOUS
<1> USE NumbersType, ChannelManagerAssumption
<1>1. ASSUME NEW ch \in Chans, CreateAllocated(ch) PROVE IInv'
  <2>1. PICK n \in Numbers : Allocator!Allocate(n) /\ Register(ch, n)
    BY <1>1 DEF CreateAllocated
  <2>2. n - 1 \in freeSet /\ freeSet' = freeSet \ {n - 1} /\ lastIndex' \in Nat
    BY <2>1 DEF IInv, TypeOK
  <2>3. ~Mapped(n)
    BY <2>2 DEF IInv, FreeIffUnmapped
  <2> QED BY <2>1, <2>2, <2>3, RegisterIInv
<1>2. ASSUME NEW ch \in Chans, NEW n \in ExplicitNumbers, CreateNumbered(ch, n)
      PROVE  IInv'
  <2>1. n \in Numbers /\ ~Mapped(n) /\ Register(ch, n)
    BY <1>2 DEF CreateNumbered, Numbers
  <2>2. freeSet' = freeSet \ {n - 1} /\ lastIndex' \in Nat
    BY <1>2 DEF CreateNumbered, IInv, TypeOK
  <2> QED BY <2>1, <2>2, RegisterIInv
<1>3. ASSUME NEW ch \in Chans, OpenOk(ch) PROVE IInv'
  BY <1>3, QuietIInv DEF OpenOk, IInv, TypeOK, Phases, ListensWhileLive
<1>4. ASSUME NEW ch \in Chans, OpenRefused(ch) PROVE IInv'
  BY <1>4, QuietIInv DEF OpenRefused, IInv, TypeOK, Phases, ListensWhileLive
<1>5. ASSUME NEW ch \in Chans, OpenTimedOut(ch) PROVE IInv'
  BY <1>5, QuietIInv DEF OpenTimedOut, IInv, TypeOK, Phases, ListensWhileLive
<1>6. ASSUME NEW ch \in Chans, Close(ch) PROVE IInv'
  BY <1>6, QuietIInv DEF Close, IInv, TypeOK, Phases, ListensWhileLive
<1>7. CASE CloseAll
  BY <1>7, QuietIInv DEF CloseAll, IInv, TypeOK, Phases, ListensWhileLive
<1>8. ASSUME NEW ch \in Chans, ServerClose(ch) PROVE IInv'
  BY <1>8, QuietIInv DEF ServerClose, IInv, TypeOK, Phases, ListensWhileLive
<1>9. ASSUME NEW ch \in Chans, CloseOk(ch) PROVE IInv'
  BY <1>9, EmitIInv DEF CloseOk, IInv, TypeOK
<1>10. ASSUME NEW ch \in Chans, OnClose(ch) PROVE IInv'
  BY <1>10, EmitIInv DEF OnClose, IInv, TypeOK, ListensWhileLive
<1>11. CASE UNCHANGED vars
  BY <1>11, QuietIInv DEF vars, IInv, TypeOK, ListensWhileLive
<1> QED
  BY <1>1, <1>2, <1>3, <1>4, <1>5, <1>6, <1>7, <1>8, <1>9, <1>10, <1>11 DEF Next

-----------------------------------------------------------------------------
\* The inductive invariant holds in every behaviour.
THEOREM SpecIInv == Spec => []IInv
BY InitIInv, NextIInv, PTL DEF Spec

\* The allocator's bits are always bits of numbers a channel can have, and the
\* map only holds channel objects (ChannelManager's fields).
THEOREM TypeCorrect == Spec => []TypeOK
<1>1. IInv => TypeOK
  BY DEF IInv
<1> QED BY <1>1, SpecIInv, PTL

\* getChannel(n) finds the live channel that was registered under n: no two live
\* channels share a number, and no late 'channelClose' unmaps another channel.
THEOREM Routing == Spec => []RoutedToLive
<1>1. IInv => RoutedToLive
  BY DEF IInv
<1> QED BY <1>1, SpecIInv, PTL

\* allocate() never hands out a mapped number, and a number that is no longer
\* mapped can always be allocated again.
THEOREM NoDoubleAllocationNoLeak == Spec => []FreeIffUnmapped
<1>1. IInv => FreeIffUnmapped
  BY DEF IInv
<1> QED BY <1>1, SpecIInv, PTL
=============================================================================
