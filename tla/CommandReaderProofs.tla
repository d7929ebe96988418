------------------------ MODULE CommandReaderProofs ------------------------
(***************************************************************************)
(* However the octets are cut and whatever the server sends, CommandReader *)
(* hands over the commands that the server has finished, and fails only if *)
(* the frames of two channels were mixed.                                  *)
(***************************************************************************)
EXTENDS CommandReader, TLAPS, WellFoundedInduction

Entries == [frame : Frames \union {None}, place : Places \union {None}, done : Nat,
            mixed : BOOLEAN]

TypeOK ==
  /\ writer \in {None} \union [length : Nat, bytes : Seq(Bytes)]
  /\ chunk \in {None} \union Seq(Bytes)
  /\ state \in {"EXPECTING_METHOD", "EXPECTING_HEADER", "EXPECTING_BODY"}
  /\ pushed \in Seq(Seq(Places))
  /\ failed \in BOOLEAN
  /\ next \in [Channels -> Places]
  /\ beats \in Nat
  /\ s2c \in Seq(Bytes)
  /\ order \in Seq(Channels \X Nat)
  /\ sent \in Seq(Entries) /\ sent # <<>>

-----------------------------------------------------------------------------
(***************************************************************************)
(* The octets.                                                             *)
(***************************************************************************)
\* The octets that the decoder has kept, and with them all that are under way.
Held == IF writer = None THEN <<>> ELSE writer.bytes
Arrived == Held \o IF chunk = None THEN <<>> ELSE chunk
Stream == Arrived \o s2c

Length(f) == f.size + 8

\* Octets s are those of the last frames of the entries q, frame after frame.
Aligned(s, q) ==
  /\ \A i \in DOMAIN s :
       LET f == s[i].frame
       IN  /\ f.no \in 2 .. Len(q) /\ f = q[f.no].frame /\ s[i].at < Length(f)
           /\ s[i].at > 0 => i > 1 /\ s[i - 1].frame = f /\ s[i - 1].at = s[i].at - 1
           /\ s[i].at = 0 /\ i > 1 =>
                s[i - 1].at = Length(s[i - 1].frame) - 1 /\ f.no = s[i - 1].frame.no + 1
  /\ s # <<>> =>
       LET f == s[Len(s)].frame
       IN  f.no = Len(q) /\ s[Len(s)].at = Length(f) - 1

\* How many entries are over: those whose frames are not in the octets any more.
Over(s, q) == IF s = <<>> THEN Len(q) ELSE s[1].frame.no - 1

\* What the decoder keeps is less than a frame.
WriterFits ==
  writer # None =>
    IF writer.length < 7 THEN Len(writer.bytes) = writer.length
    ELSE /\ Len(writer.bytes) >= 7 /\ Len(writer.bytes) < writer.length
         /\ writer.length = Length(writer.bytes[1].frame)

-----------------------------------------------------------------------------
(***************************************************************************)
(* The server.                                                             *)
(***************************************************************************)
\* p is a place inside a command, behind which more frames of it follow.
Inside(p) == p # None /\ ~IsLast(p)

ValidPlace(p) ==
  /\ p \in Places /\ p.cmd \in DOMAIN Script[p.channel]
  /\ p.frame \in 1 .. Count(CommandAt(p))

\* Entry e comes behind entry d, at index i: a heartbeat or the next frame of a command.
Follows(d, e, i, o) ==
  \/ e.frame = Heartbeat(i) /\ e.place = d.place /\ e.done = d.done /\ e.mixed = d.mixed
  \/ /\ ValidPlace(e.place) /\ e.frame = FrameAt(e.place, i)
     /\ IF IsLast(e.place)
        THEN e.done = d.done + 1 /\ o[e.done] = <<e.place.channel, e.place.cmd>>
        ELSE e.done = d.done
     /\ ~e.mixed => ~d.mixed /\ IF Inside(d.place) THEN e.place = After(d.place)
                                ELSE e.place.frame = 1
     /\ e.mixed /\ ~d.mixed => Inside(d.place) /\ e.place.frame = 1

SentInOrder ==
  /\ sent[1] = Sent(None, None, 0, FALSE)
  /\ \A i \in 2 .. Len(sent) : Follows(sent[i - 1], sent[i], i, order)
  /\ \A i \in DOMAIN sent : /\ sent[i].done <= Len(order) /\ (sent[i].mixed => LastSent.mixed)
                            /\ sent[i].place = None \/ ValidPlace(sent[i].place)
  /\ LastSent.done = Len(order)

\* Where the channels are in their commands.
NextPlaces ==
  \A ch \in Channels :
    /\ next[ch].channel = ch
    /\ \/ ValidPlace(next[ch])
       \/ next[ch].cmd = Len(Script[ch]) + 1 /\ next[ch].frame = 1
    /\ ~LastSent.mixed =>
         IF Inside(LastSent.place) /\ LastSent.place.channel = ch
         THEN next[ch] = After(LastSent.place)
         ELSE next[ch].frame = 1

-----------------------------------------------------------------------------
(***************************************************************************)
(* The reader.                                                             *)
(***************************************************************************)
\* The frames of the command of p up to p, in order.
FramesTo(p) == [i \in 1 .. p.frame |-> Place(p.channel, p.cmd, i)]

\* What the reader is to have after entry e.
Reads(e) ==
  /\ ~e.mixed
  /\ Len(pushed) = e.done
  /\ IF Inside(e.place)
     THEN /\ command = FramesTo(e.place)
          /\ state = IF e.place.frame = 1 THEN "EXPECTING_HEADER" ELSE "EXPECTING_BODY"
          /\ e.place.frame > 1 =>
               LET body == CommandAt(e.place).body
               IN  remaining = Sum(body) - UpTo(body)[e.place.frame - 2]
     ELSE state = "EXPECTING_METHOD"

ReaderInStep == IF failed THEN LastSent.mixed ELSE Reads(sent[Over(Stream, sent)])

Decodes == Aligned(Stream, sent) /\ WriterFits

Inv == Decodes /\ SentInOrder /\ NextPlaces /\ ReaderInStep /\ WholeAndInOrder

-----------------------------------------------------------------------------
(***************************************************************************)
(* Induction over the natural numbers, for the operators on sequences.     *)
(***************************************************************************)
LEMMA NatMin ==
  ASSUME NEW T, T \subseteq Nat, T # {}
  PROVE  \E x \in T : \A y \in T : ~(y < x)
<1> DEFINE R == OpToRel(<, Nat)
<1>1. IsWellFoundedOn(R, Nat)
  BY NatLessThanWellFounded, Zenon
<1>2. \A x, y \in Nat : y < x => <<y, x>> \in R
  BY DEF OpToRel
<1> HIDE DEF R
<1>3. \E x \in T : \A y \in T : <<y, x>> \notin R
  BY <1>1, WFMin
<1> QED  BY <1>2, <1>3

LEMMA Induct ==
  ASSUME NEW S, 0 \in S, \A n \in Nat : n \in S => n + 1 \in S
  PROVE  Nat \subseteq S
<1> DEFINE T == {n \in Nat : n \notin S}
<1>1. ASSUME T # {}
      PROVE  FALSE
  <2>1. PICK x \in T : \A y \in T : ~(y < x)
    BY <1>1, NatMin
  <2>2. x \in Nat /\ x \notin S /\ x # 0
    BY <2>1
  <2>3. x - 1 \in Nat /\ x - 1 < x /\ (x - 1) + 1 = x
    BY <2>2
  <2>4. x - 1 \in S
    BY <2>1, <2>3
  <2> QED  BY <2>2, <2>3, <2>4
<1> QED  BY <1>1

\* The sizes of the first i parts of a body.
LEMMA UpToValues ==
  ASSUME NEW b \in Seq(Nat \ {0})
  PROVE  /\ UpTo(b)[0] = 0
         /\ \A i \in 1 .. Len(b) : UpTo(b)[i] = UpTo(b)[i - 1] + b[i]
<1> DEFINE Step(g, n) == [i \in 0 .. n |-> IF i = 0 THEN 0 ELSE g[i - 1] + b[i]]
           S == {n \in Nat : \E g : g = Step(g, n)}
<1>1. 0 \in S
  <2> DEFINE g == [i \in 0 .. 0 |-> 0]
  <2>1. \A i \in 0 .. 0 : i = 0
    OBVIOUS
  <2>2. g = Step(g, 0)
    BY <2>1
  <2> QED  BY <2>2
<1>2. ASSUME NEW n \in Nat, n \in S
      PROVE  n + 1 \in S
  <2>1. PICK g : g = Step(g, n)
    BY <1>2
  <2> DEFINE h == [i \in 0 .. n + 1 |-> IF i <= n THEN g[i] ELSE g[n] + b[n + 1]]
  <2>2. \A i \in 0 .. n + 1 : h[i] = IF i = 0 THEN 0 ELSE h[i - 1] + b[i]
    <3> TAKE i \in 0 .. n + 1
    <3>1. CASE i = 0
      BY <2>1, <3>1
    <3>2. CASE i \in 1 .. n
      <4>1. h[i] = g[i] /\ h[i - 1] = g[i - 1]
        BY <3>2
      <4>2. g[i] = g[i - 1] + b[i]
        BY <2>1, <3>2
      <4> QED  BY <3>2, <4>1, <4>2
    <3>3. CASE i = n + 1
      <4>1. h[i] = g[n] + b[n + 1] /\ h[i - 1] = g[n] /\ i # 0
        BY <3>3
      <4> QED  BY <3>3, <4>1
    <3> QED  BY <3>1, <3>2, <3>3
  <2>3. h = Step(h, n + 1)
    <3>1. h = [i \in 0 .. n + 1 |-> h[i]]
      OBVIOUS
    <3> HIDE DEF h
    <3>2. [i \in 0 .. n + 1 |-> h[i]] = Step(h, n + 1)
      BY <2>2
    <3> QED  BY <3>1, <3>2
  <2> HIDE DEF h
  <2>4. n + 1 \in Nat
    OBVIOUS
  <2> QED  BY <2>3, <2>4
<1>3. Len(b) \in S
  <2> HIDE DEF S
  <2>1. Nat \subseteq S
    BY <1>1, <1>2, Induct
  <2> QED  BY <2>1
<1>4. UpTo(b) = Step(UpTo(b), Len(b))
  <2>1. UpTo(b) = CHOOSE g : g = Step(g, Len(b))
    BY DEF UpTo
  <2>2. \E g : g = Step(g, Len(b))
    BY <1>3
  <2> HIDE DEF Step
  <2> QED  BY <2>1, <2>2
<1>5. PICK u : u = UpTo(b)
  OBVIOUS
<1>6. u = Step(u, Len(b))
  BY <1>4, <1>5
<1>7. Len(b) \in Nat
  OBVIOUS
<1> HIDE DEF S
<1>8. u[0] = 0 /\ \A i \in 1 .. Len(b) : u[i] = u[i - 1] + b[i]
  BY <1>6, <1>7
<1> QED  BY <1>5, <1>8

\* They add up, and to less than the whole body until the last one.
LEMMA Sums ==
  ASSUME NEW b \in Seq(Nat \ {0})
  PROVE  /\ Sum(b) \in Nat /\ (Len(b) = 0 => Sum(b) = 0)
         /\ UpTo(b)[0] = 0
         /\ \A i \in 0 .. Len(b) : UpTo(b)[i] \in Nat /\ (i < Len(b) => UpTo(b)[i] < Sum(b))
         /\ \A i \in 1 .. Len(b) : UpTo(b)[i] = UpTo(b)[i - 1] + b[i]
<1>1. /\ UpTo(b)[0] = 0
      /\ \A i \in 1 .. Len(b) : UpTo(b)[i] = UpTo(b)[i - 1] + b[i]
  BY UpToValues
<1>2. Len(b) \in Nat /\ \A i \in 1 .. Len(b) : b[i] \in Nat /\ b[i] > 0
  OBVIOUS
<1> DEFINE U == UpTo(b)
<1> HIDE DEF U
<1>3. U[0] = 0 /\ \A i \in 1 .. Len(b) : U[i] = U[i - 1] + b[i]
  BY <1>1 DEF U
<1> DEFINE S == {n \in Nat : n <= Len(b) =>
                    \A i \in 0 .. n : U[i] \in Nat /\ (i < n => U[i] < U[n])}
<1>4. 0 \in S
  BY <1>2, <1>3
<1>5. ASSUME NEW n \in Nat, n \in S
      PROVE  n + 1 \in S
  <2> SUFFICES ASSUME n + 1 <= Len(b), NEW i \in 0 .. n + 1
               PROVE  U[i] \in Nat /\ (i < n + 1 => U[i] < U[n + 1])
    OBVIOUS
  <2>1. \A j \in 0 .. n : U[j] \in Nat /\ (j < n => U[j] < U[n])
    BY <1>2, <1>5
  <2>2. n + 1 \in 1 .. Len(b) /\ (n + 1) - 1 = n /\ n \in 0 .. n
    BY <1>2
  <2>3. U[n + 1] = U[n] + b[n + 1] /\ b[n + 1] \in Nat /\ b[n + 1] > 0 /\ U[n] \in Nat
    BY <1>2, <1>3, <2>1, <2>2
  <2>4. U[n + 1] \in Nat /\ U[n] < U[n + 1]
    BY <2>3
  <2>5. CASE i = n + 1
    BY <2>4, <2>5
  <2>6. CASE i = n
    BY <2>3, <2>4, <2>6
  <2>7. CASE i \in 0 .. n /\ i < n
    <3>1. U[i] \in Nat /\ U[i] < U[n]
      BY <2>1, <2>7
    <3> QED  BY <2>3, <2>4, <3>1
  <2>8. i = n + 1 \/ i = n \/ (i \in 0 .. n /\ i < n)
    OBVIOUS
  <2> QED  BY <2>5, <2>6, <2>7, <2>8
<1> HIDE DEF S
<1>6. Nat \subseteq S
  BY <1>4, <1>5, Induct
<1>7. \A i \in 0 .. Len(b) : U[i] \in Nat /\ (i < Len(b) => U[i] < U[Len(b)])
  BY <1>2, <1>6 DEF S
<1>8. Sum(b) = U[Len(b)]
  BY DEF Sum, U
<1>9. Len(b) \in 0 .. Len(b)
  BY <1>2
<1> QED  BY <1>2, <1>3, <1>7, <1>8, <1>9 DEF U

-----------------------------------------------------------------------------
(***************************************************************************)
(* The octets: a stream of whole frames, taken from the front.             *)
(***************************************************************************)
LEMMA Joined ==
  ASSUME NEW S, NEW s \in Seq(S), NEW t \in Seq(S)
  PROVE  /\ s \o t \in Seq(S) /\ Len(s \o t) = Len(s) + Len(t)
         /\ \A i \in 1 .. Len(s) : (s \o t)[i] = s[i]
         /\ \A i \in 1 .. Len(t) : (s \o t)[Len(s) + i] = t[i]
OBVIOUS

LEMMA Cut ==
  ASSUME NEW S, NEW s \in Seq(S), NEW n \in 0 .. Len(s)
  PROVE  /\ SubSeq(s, n + 1, Len(s)) \in Seq(S) /\ Len(SubSeq(s, n + 1, Len(s))) = Len(s) - n
         /\ \A i \in 1 .. Len(s) - n : SubSeq(s, n + 1, Len(s))[i] = s[n + i]
         /\ SubSeq(s, 1, n) \in Seq(S) /\ Len(SubSeq(s, 1, n)) = n
         /\ \A i \in 1 .. n : SubSeq(s, 1, n)[i] = s[i]
OBVIOUS

LEMMA SameSeq ==
  ASSUME NEW S, NEW s \in Seq(S), NEW t \in Seq(S), Len(s) = Len(t),
         \A i \in 1 .. Len(s) : s[i] = t[i]
  PROVE  s = t
OBVIOUS

\* The two parts of a cut sequence.
LEMMA Rejoined ==
  ASSUME NEW S, NEW s \in Seq(S), NEW n \in 0 .. Len(s)
  PROVE  SubSeq(s, 1, n) \o SubSeq(s, n + 1, Len(s)) = s
<1> DEFINE a == SubSeq(s, 1, n)
           b == SubSeq(s, n + 1, Len(s))
<1>1. /\ a \in Seq(S) /\ Len(a) = n /\ \A i \in 1 .. n : a[i] = s[i]
      /\ b \in Seq(S) /\ Len(b) = Len(s) - n /\ \A i \in 1 .. Len(s) - n : b[i] = s[n + i]
      /\ Len(s) \in Nat /\ n \in Nat
  BY Cut
<1> HIDE DEF a, b
<1> DEFINE c == a \o b
<1>2. /\ c \in Seq(S) /\ Len(c) = Len(a) + Len(b)
      /\ \A i \in 1 .. Len(a) : c[i] = a[i]
      /\ \A i \in 1 .. Len(b) : c[Len(a) + i] = b[i]
  <2>1. a \in Seq(S) /\ b \in Seq(S)
    BY <1>1
  <2> QED  BY <2>1, Joined DEF c
<1> HIDE DEF c
<1>3. \A i \in 1 .. Len(c) : c[i] = s[i]
  <2> TAKE i \in 1 .. Len(c)
  <2>0. Len(c) = Len(s) /\ i \in 1 .. Len(s) /\ Len(s) \in Nat /\ n \in Nat
    BY <1>1, <1>2
  <2>1. CASE i \in 1 .. n
    BY <1>1, <1>2, <2>1
  <2>2. CASE i > n
    <3>1. PICK k : k = i - n
      OBVIOUS
    <3>2. k \in 1 .. Len(s) - n /\ n + k = i
      BY <2>0, <2>2, <3>1
    <3>3. c[n + k] = b[k] /\ b[k] = s[n + k]
      BY <1>1, <1>2, <3>2
    <3> QED  BY <3>2, <3>3
  <2>3. i \in 1 .. n \/ i > n
    BY <2>0
  <2> QED  BY <2>1, <2>2, <2>3
<1>4. c = s
  BY <1>1, <1>2, <1>3, SameSeq
<1> QED  BY <1>4 DEF a, b, c

\* The first octets are those of one frame.
LEMMA FirstFrame ==
  ASSUME NEW s \in Seq(Bytes), NEW q, Aligned(s, q), s # <<>>
  PROVE  LET f == s[1].frame
         IN  /\ f \in Frames /\ Length(f) \in Nat /\ Length(f) >= 8 /\ Length(f) <= Len(s)
             /\ \A i \in 1 .. Length(f) : s[i].frame = f /\ s[i].at = i - 1
<1> DEFINE f == s[1].frame
<1>1. Len(s) \in Nat /\ Len(s) >= 1 /\ DOMAIN s = 1 .. Len(s)
  OBVIOUS
<1>2. \A i \in 1 .. Len(s) : s[i].frame \in Frames /\ s[i].at \in Nat
  <2>1. \A i \in 1 .. Len(s) : s[i] \in Bytes
    OBVIOUS
  <2> QED  BY <2>1 DEF Bytes
<1>3. f \in Frames
  BY <1>1, <1>2
<1> HIDE DEF f
<1>4. Length(f) \in Nat /\ Length(f) >= 8
  BY <1>3 DEF Frames, Length
<1> DEFINE S == {n \in Nat : n < Length(f) =>
                    n + 1 <= Len(s) /\ s[n + 1].frame = f /\ s[n + 1].at = n}
<1>5. 0 \in S
  <2>1. ~(s[1].at > 0)
    BY <1>1 DEF Aligned
  <2>2. s[1].at = 0
    BY <1>1, <1>2, <2>1
  <2> QED  BY <1>1, <2>2 DEF f
<1>6. ASSUME NEW n \in Nat, n \in S
      PROVE  n + 1 \in S
  <2> SUFFICES ASSUME n + 1 < Length(f)
               PROVE  (n + 1) + 1 <= Len(s) /\ s[(n + 1) + 1].frame = f /\ s[(n + 1) + 1].at = n + 1
    OBVIOUS
  <2> DEFINE m == n + 1
  <2>1. m <= Len(s) /\ s[m].frame = f /\ s[m].at = n /\ m \in Nat /\ m - 1 = n /\ m >= 1
    BY <1>4, <1>6
  <2> HIDE DEF m
  <2>2. n # Length(f) - 1
    BY <1>4
  <2>3. m # Len(s)
    BY <1>1, <2>1, <2>2 DEF Aligned
  <2>4. m + 1 \in 1 .. Len(s) /\ (m + 1) - 1 = m /\ m + 1 > 1
    <3>1. Len(s) \in Nat /\ m \in Nat /\ m <= Len(s) /\ m >= 1
      BY <1>1, <2>1
    <3> QED  BY <2>3, <3>1
  <2>5. PICK k : k = m + 1
    OBVIOUS
  <2>6. k \in DOMAIN s /\ k - 1 = m /\ k > 1 /\ k \in 1 .. Len(s)
    BY <1>1, <2>4, <2>5
  <2>7. s[k].at # 0
    BY <2>1, <2>2, <2>6 DEF Aligned
  <2>8. s[k].at > 0 /\ s[k].at \in Nat
    BY <1>2, <2>6, <2>7
  <2>9. s[m].frame = s[k].frame /\ s[m].at = s[k].at - 1
    BY <2>6, <2>8 DEF Aligned
  <2>10. s[k].at = n + 1
    BY <2>1, <2>8, <2>9
  <2> QED  BY <1>1, <2>1, <2>5, <2>6, <2>9, <2>10 DEF m
<1> HIDE DEF S
<1>7. Nat \subseteq S
  BY <1>5, <1>6, Induct
<1>8. \A i \in 1 .. Length(f) : i <= Len(s) /\ s[i].frame = f /\ s[i].at = i - 1
  <2> TAKE i \in 1 .. Length(f)
  <2>1. i - 1 \in Nat /\ i - 1 < Length(f) /\ (i - 1) + 1 = i
    BY <1>4
  <2> QED  BY <1>7, <2>1 DEF S
<1>9. Length(f) \in 1 .. Length(f)
  BY <1>4
<1> QED  BY <1>3, <1>4, <1>8, <1>9 DEF f

\* When the first frame is taken, its entry is over.
LEMMA FrameTaken ==
  ASSUME NEW s \in Seq(Bytes), NEW q, Aligned(s, q), s # <<>>, NEW n, n = Length(s[1].frame),
         NEW t, t = SubSeq(s, n + 1, Len(s))
  PROVE  /\ Aligned(t, q) /\ t \in Seq(Bytes)
         /\ s[1].frame.no \in 2 .. Len(q) /\ s[1].frame = q[s[1].frame.no].frame
         /\ Over(s, q) = s[1].frame.no - 1 /\ Over(t, q) = s[1].frame.no
<1>1. PICK f : f = s[1].frame
  OBVIOUS
<1>2. /\ f \in Frames /\ n = Length(f) /\ n \in Nat /\ n >= 8 /\ n <= Len(s)
      /\ \A i \in 1 .. n : s[i].frame = f /\ s[i].at = i - 1
  BY <1>1, FirstFrame
<1>3. Len(s) \in Nat /\ n \in 0 .. Len(s) /\ DOMAIN s = 1 .. Len(s)
  BY <1>2
<1>4. /\ t \in Seq(Bytes) /\ Len(t) = Len(s) - n /\ DOMAIN t = 1 .. Len(s) - n
      /\ \A i \in 1 .. Len(s) - n : t[i] = s[n + i]
  <2>1. /\ t \in Seq(Bytes) /\ Len(t) = Len(s) - n
        /\ \A i \in 1 .. Len(s) - n : t[i] = s[n + i]
    BY <1>3, Cut
  <2> QED  BY <2>1
<1>5. f.no \in 2 .. Len(q) /\ f = q[f.no].frame
  <2>1. 1 \in DOMAIN s
    BY <1>2, <1>3
  <2> QED  BY <1>1, <2>1 DEF Aligned
<1>6. Over(s, q) = f.no - 1
  BY <1>1 DEF Over
<1>7. s[n].frame = f /\ s[n].at = n - 1
  BY <1>2
<1>8. ASSUME n + 1 <= Len(s)
      PROVE  s[n + 1].at = 0 /\ s[n + 1].frame.no = f.no + 1
  <2>1. n + 1 \in DOMAIN s /\ (n + 1) - 1 = n /\ n + 1 > 1
    BY <1>2, <1>3, <1>8
  <2>2. PICK k : k = n + 1
    OBVIOUS
  <2>3. s[k] \in Bytes
    BY <2>1, <2>2
  <2>4. s[k].at \in Nat /\ s[k].frame \in Frames
    BY <2>3 DEF Bytes
  <2>5. ASSUME s[k].at > 0
        PROVE  FALSE
    <3>1. s[n].frame = s[k].frame /\ s[n].at = s[k].at - 1 /\ s[k].at < Length(s[k].frame)
      BY <2>1, <2>2, <2>5 DEF Aligned
    <3> QED  BY <1>2, <1>7, <2>4, <3>1
  <2>6. s[k].at = 0
    BY <2>4, <2>5
  <2>7. s[k].frame.no = s[n].frame.no + 1
    BY <2>1, <2>2, <2>6 DEF Aligned
  <2> QED  BY <1>7, <2>2, <2>6, <2>7
<1>9. ASSUME NEW i \in 1 .. Len(s) - n
      PROVE  LET g == t[i].frame
             IN  /\ g.no \in 2 .. Len(q) /\ g = q[g.no].frame /\ t[i].at < Length(g)
                 /\ t[i].at > 0 => i > 1 /\ t[i - 1].frame = g /\ t[i - 1].at = t[i].at - 1
                 /\ t[i].at = 0 /\ i > 1 =>
                      t[i - 1].at = Length(t[i - 1].frame) - 1 /\ g.no = t[i - 1].frame.no + 1
  <2>1. PICK k : k = n + i
    OBVIOUS
  <2>2. k \in DOMAIN s /\ k > 1 /\ t[i] = s[k]
    <3>1. k \in 1 .. Len(s) /\ k > 1
      BY <1>2, <1>3, <2>1
    <3> QED  BY <1>3, <1>4, <2>1, <3>1
  <2>3. i > 1 => t[i - 1] = s[k - 1]
    <3>1. i > 1 => i - 1 \in 1 .. Len(s) - n /\ n + (i - 1) = k - 1
      BY <1>2, <1>3, <2>1
    <3> QED  BY <1>4, <3>1
  <2>4. i = 1 => s[k].at = 0
    BY <1>2, <1>3, <1>8, <2>1
  <2>5. /\ s[k].frame.no \in 2 .. Len(q) /\ s[k].frame = q[s[k].frame.no].frame
        /\ s[k].at < Length(s[k].frame)
        /\ s[k].at > 0 => s[k - 1].frame = s[k].frame /\ s[k - 1].at = s[k].at - 1
        /\ s[k].at = 0 => s[k - 1].at = Length(s[k - 1].frame) - 1
                          /\ s[k].frame.no = s[k - 1].frame.no + 1
    BY <2>2 DEF Aligned
  <2>6. CASE i = 1
    <3>1. ~(i > 1) /\ ~(s[k].at > 0)
      BY <2>4, <2>6
    <3> QED  BY <2>2, <2>5, <3>1
  <2>7. CASE i > 1
    <3>1. t[i] = s[k] /\ t[i - 1] = s[k - 1]
      BY <2>2, <2>3, <2>7
    <3>2. PICK a : a = t[i]
      OBVIOUS
    <3>3. PICK b : b = t[i - 1]
      OBVIOUS
    <3>4. /\ a.frame.no \in 2 .. Len(q) /\ a.frame = q[a.frame.no].frame
          /\ a.at < Length(a.frame)
          /\ a.at > 0 => b.frame = a.frame /\ b.at = a.at - 1
          /\ a.at = 0 => b.at = Length(b.frame) - 1 /\ a.frame.no = b.frame.no + 1
      BY <2>5, <3>1, <3>2, <3>3
    <3> QED  BY <2>7, <3>2, <3>3, <3>4
  <2>8. i = 1 \/ i > 1
    OBVIOUS
  <2> QED  BY <2>6, <2>7, <2>8
<1>10. CASE Len(s) = n
  <2>1. t = <<>> /\ f.no = Len(q)
    <3>1. s[Len(s)].frame.no = Len(q)
      BY DEF Aligned
    <3>2. Len(t) = 0
      BY <1>2, <1>4, <1>10
    <3> QED  BY <1>4, <1>7, <1>10, <3>1, <3>2
  <2>2. DOMAIN t = {}
    BY <1>4, <1>10, <1>2
  <2>3. Over(t, q) = f.no /\ Aligned(t, q)
    BY <2>1, <2>2 DEF Over, Aligned
  <2> QED  BY <1>1, <1>4, <1>5, <1>6, <2>3
<1>11. CASE Len(s) # n
  <2>1. n + 1 <= Len(s) /\ 1 \in 1 .. Len(s) - n /\ Len(t) \in 1 .. Len(s) - n
    BY <1>2, <1>3, <1>4, <1>11
  <2>2. t # <<>> /\ t[1] = s[n + 1]
    BY <1>4, <2>1
  <2>3. t[Len(t)] = s[Len(s)]
    <3>1. n + Len(t) = Len(s)
      BY <1>2, <1>3, <1>4
    <3> QED  BY <1>4, <2>1, <3>1
  <2>4. Over(t, q) = f.no
    <3>1. t[1].frame.no = f.no + 1 /\ f.no \in Nat
      BY <1>2, <1>8, <2>1, <2>2 DEF Frames
    <3>2. Over(t, q) = t[1].frame.no - 1
      BY <2>2 DEF Over
    <3>3. (f.no + 1) - 1 = f.no
      BY <3>1
    <3> QED  BY <3>1, <3>2, <3>3, Zenon
  <2>5. t[Len(t)].frame.no = Len(q) /\ t[Len(t)].at = Length(t[Len(t)].frame) - 1
    BY <2>3 DEF Aligned
  <2>6. Aligned(t, q)
    BY <1>4, <1>9, <2>5 DEF Aligned
  <2> QED  BY <1>1, <1>4, <1>5, <1>6, <2>4, <2>6
<1> QED  BY <1>10, <1>11

\* A frame's octets.
LEMMA BytesOfFrame ==
  ASSUME NEW f \in Frames
  PROVE  /\ Decoder!BytesOf(f) \in Seq(Bytes) /\ Len(Decoder!BytesOf(f)) = Length(f)
         /\ Length(f) \in Nat /\ Length(f) >= 8
         /\ \A i \in 1 .. Length(f) : /\ Decoder!BytesOf(f)[i].frame = f
                                     /\ Decoder!BytesOf(f)[i].at = i - 1
<1>1. Length(f) \in Nat /\ Length(f) >= 8 /\ Length(f) = f.size + 8
  BY DEF Frames, Length
<1>2. \A i \in 1 .. Length(f) : [frame |-> f, at |-> i - 1] \in Bytes
  BY <1>1 DEF Bytes
<1>3. PICK m : m = Length(f)
  OBVIOUS
<1>4. Decoder!BytesOf(f) = [i \in 1 .. m |-> [frame |-> f, at |-> i - 1]]
  BY <1>1, <1>3 DEF Decoder!BytesOf
<1> QED  BY <1>1, <1>2, <1>3, <1>4

\* A frame is put behind the others, with its entry.
LEMMA FrameAdded ==
  ASSUME NEW s \in Seq(Bytes), NEW q \in Seq(Entries), Aligned(s, q), NEW e \in Entries,
         NEW f \in Frames, e.frame = f, f.no = Len(q) + 1, Len(q) >= 1,
         NEW u, u = s \o Decoder!BytesOf(f)
  PROVE  /\ Aligned(u, Append(q, e)) /\ u \in Seq(Bytes)
         /\ Over(u, Append(q, e)) = Over(s, q)
<1> DEFINE b == Decoder!BytesOf(f)
           r == Append(q, e)
<1>1. /\ b \in Seq(Bytes) /\ Len(b) = Length(f) /\ Length(f) \in Nat /\ Length(f) >= 8
      /\ \A i \in 1 .. Length(f) : b[i].frame = f /\ b[i].at = i - 1
  BY BytesOfFrame
<1>2. PICK m : m = Length(f)
  OBVIOUS
<1>3. PICK n : n = Len(s)
  OBVIOUS
<1>4. PICK l : l = Len(q)
  OBVIOUS
<1>5. /\ m \in Nat /\ m >= 8 /\ n \in Nat /\ l \in Nat /\ l >= 1 /\ f.no = l + 1
      /\ DOMAIN s = 1 .. n
  BY <1>1, <1>2, <1>3, <1>4
<1>6. Len(r) = l + 1 /\ (\A i \in 1 .. l : r[i] = q[i]) /\ r[l + 1] = e
  BY <1>4
<1> HIDE DEF b, r
<1>7. /\ u \in Seq(Bytes) /\ Len(u) = n + m /\ (\A i \in 1 .. n : u[i] = s[i])
      /\ \A i \in 1 .. m : u[n + i].frame = f /\ u[n + i].at = i - 1
  <2>1. /\ s \o b \in Seq(Bytes) /\ Len(s \o b) = Len(s) + Len(b)
        /\ \A i \in 1 .. Len(s) : (s \o b)[i] = s[i]
        /\ \A i \in 1 .. Len(b) : (s \o b)[Len(s) + i] = b[i]
    <3>1. b \in Seq(Bytes)
      BY <1>1
    <3> QED  BY <3>1, Joined
  <2>2. u = s \o b
    BY DEF b
  <2>3. Len(b) = m /\ \A i \in 1 .. m : u[n + i] = b[i]
    BY <1>1, <1>2, <1>3, <2>1, <2>2
  <2> QED  BY <1>1, <1>2, <1>3, <2>1, <2>2, <2>3
<1>8. DOMAIN u = 1 .. n + m
  BY <1>7
<1>9. ASSUME NEW i \in 1 .. n
      PROVE  /\ u[i] = s[i] /\ u[i].frame.no \in 2 .. Len(r) /\ u[i].frame = r[u[i].frame.no].frame
             /\ u[i].at < Length(u[i].frame)
             /\ u[i].at > 0 => i > 1 /\ u[i - 1].frame = u[i].frame /\ u[i - 1].at = u[i].at - 1
             /\ u[i].at = 0 /\ i > 1 => /\ u[i - 1].at = Length(u[i - 1].frame) - 1
                                        /\ u[i].frame.no = u[i - 1].frame.no + 1
  <2>1. PICK a : a = s[i]
    OBVIOUS
  <2>2. PICK c : c = s[i - 1]
    OBVIOUS
  <2>3. /\ a.frame.no \in 2 .. l /\ a.frame = q[a.frame.no].frame /\ a.at < Length(a.frame)
        /\ a.at > 0 => i > 1 /\ c.frame = a.frame /\ c.at = a.at - 1
        /\ a.at = 0 /\ i > 1 => c.at = Length(c.frame) - 1 /\ a.frame.no = c.frame.no + 1
    BY <1>4, <1>5, <2>1, <2>2 DEF Aligned
  <2>4. u[i] = a
    BY <1>7, <2>1
  <2>5. i > 1 => u[i - 1] = c
    <3>1. i > 1 => i - 1 \in 1 .. n
      BY <1>5
    <3> QED  BY <1>7, <2>2, <3>1
  <2>6. a.frame.no \in 2 .. Len(r) /\ r[a.frame.no] = q[a.frame.no]
    <3>1. a.frame.no \in 1 .. l /\ a.frame.no \in 2 .. l + 1
      BY <1>5, <2>3
    <3> QED  BY <1>6, <3>1
  <2> QED  BY <2>1, <2>3, <2>4, <2>5, <2>6
<1>10. n > 0 => s[n].frame.no = l /\ s[n].at = Length(s[n].frame) - 1
  <2>1. ASSUME n > 0
        PROVE  s # <<>>
    BY <1>3, <2>1
  <2> QED  BY <1>3, <1>4, <2>1 DEF Aligned
<1>11. r[f.no].frame = f /\ f.no \in 2 .. Len(r)
  BY <1>5, <1>6
<1>12. ASSUME NEW i \in 1 .. m
       PROVE  LET k == n + i
              IN  /\ u[k].frame = f /\ u[k].at = i - 1
                  /\ u[k].at > 0 => k > 1 /\ u[k - 1].frame = f /\ u[k - 1].at = u[k].at - 1
                  /\ u[k].at = 0 /\ k > 1 => /\ u[k - 1].at = Length(u[k - 1].frame) - 1
                                             /\ f.no = u[k - 1].frame.no + 1
  <2>1. PICK k : k = n + i
    OBVIOUS
  <2>2. u[k].frame = f /\ u[k].at = i - 1
    BY <1>7, <2>1
  <2>3. CASE i = 1
    <3>1. ~(u[k].at > 0) /\ k - 1 = n /\ (k > 1 => n > 0)
      BY <1>5, <2>1, <2>2, <2>3
    <3>2. n > 0 => u[n] = s[n]
      BY <1>5, <1>7
    <3>3. k > 1 => u[k - 1].at = Length(u[k - 1].frame) - 1 /\ f.no = u[k - 1].frame.no + 1
      BY <1>5, <1>10, <3>1, <3>2
    <3> QED  BY <2>1, <2>2, <3>1, <3>3
  <2>4. CASE i > 1
    <3>1. PICK j : j = i - 1
      OBVIOUS
    <3>2. j \in 1 .. m /\ n + j = k - 1 /\ k > 1 /\ j > 0
      BY <1>5, <2>1, <2>4, <3>1
    <3>3. u[k - 1].frame = f /\ u[k - 1].at = j - 1
      BY <1>7, <3>2
    <3>4. u[k].at = j
      BY <2>2, <3>1
    <3>5. u[k].at # 0
      BY <3>2, <3>4
    <3> QED  BY <2>1, <2>2, <3>1, <3>2, <3>3, <3>4, <3>5
  <2>5. i = 1 \/ i > 1
    OBVIOUS
  <2> QED  BY <2>3, <2>4, <2>5
<1>13. ASSUME NEW i \in 1 .. n + m
       PROVE  /\ u[i].frame.no \in 2 .. Len(r) /\ u[i].frame = r[u[i].frame.no].frame
              /\ u[i].at < Length(u[i].frame)
              /\ u[i].at > 0 => i > 1 /\ u[i - 1].frame = u[i].frame /\ u[i - 1].at = u[i].at - 1
              /\ u[i].at = 0 /\ i > 1 => /\ u[i - 1].at = Length(u[i - 1].frame) - 1
                                         /\ u[i].frame.no = u[i - 1].frame.no + 1
  <2>1. CASE i <= n
    <3>1. i \in 1 .. n
      BY <2>1, <1>5
    <3> QED  BY <1>9, <3>1
  <2>2. CASE i > n
    <3>1. PICK j : j = i - n
      OBVIOUS
    <3>2. j \in 1 .. m /\ n + j = i
      BY <1>5, <2>2, <3>1
    <3>3. /\ u[i].frame = f /\ u[i].at = j - 1
          /\ u[i].at > 0 => i > 1 /\ u[i - 1].frame = f /\ u[i - 1].at = u[i].at - 1
          /\ u[i].at = 0 /\ i > 1 => /\ u[i - 1].at = Length(u[i - 1].frame) - 1
                                     /\ f.no = u[i - 1].frame.no + 1
      BY <1>12, <3>2
    <3>4. u[i].at < Length(f)
      BY <1>2, <1>5, <3>2, <3>3
    <3> QED  BY <1>11, <3>3, <3>4
  <2>3. i <= n \/ i > n
    BY <1>5
  <2> QED  BY <2>1, <2>2, <2>3
<1>14. u[Len(u)].frame = f /\ u[Len(u)].at = Length(f) - 1 /\ f.no = Len(r) /\ u # <<>>
  <2>1. m \in 1 .. m /\ Len(u) = n + m /\ Len(u) > 0
    BY <1>5, <1>7
  <2>2. u[n + m].frame = f /\ u[n + m].at = m - 1
    BY <1>7, <2>1
  <2>3. f.no = Len(r)
    BY <1>5, <1>6
  <2>4. u # <<>>
    BY <2>1
  <2> QED  BY <1>2, <2>1, <2>2, <2>3, <2>4
<1>15. Aligned(u, r)
  BY <1>8, <1>13, <1>14 DEF Aligned
<1>16. Over(u, r) = Over(s, q)
  <2>1. Over(u, r) = u[1].frame.no - 1
    BY <1>14 DEF Over
  <2>2. CASE n = 0
    <3>1. s = <<>>
      <4>1. Len(s) = 0
        BY <1>3, <2>2
      <4> QED  BY <4>1
    <3>2. u[1].frame = f
      <4>1. 1 \in 1 .. m /\ n + 1 = 1
        BY <1>5, <2>2
      <4> QED  BY <1>12, <4>1
    <3>3. f.no - 1 = l
      BY <1>5
    <3> QED  BY <1>4, <2>1, <3>1, <3>2, <3>3 DEF Over
  <2>3. CASE n > 0
    <3>1. s # <<>>
      BY <1>3, <2>3
    <3>2. u[1] = s[1]
      BY <1>5, <1>7, <2>3
    <3> QED  BY <2>1, <3>1, <3>2 DEF Over
  <2> QED  BY <1>5, <2>2, <2>3
<1> QED  BY <1>7, <1>15, <1>16 DEF r

\* What is behind the front part of a sequence.
LEMMA Behind ==
  ASSUME NEW S, NEW a \in Seq(S), NEW b \in Seq(S), NEW s, s = a \o b
  PROVE  b = SubSeq(s, Len(a) + 1, Len(s))
<1> DEFINE c == SubSeq(s, Len(a) + 1, Len(s))
<1>1. /\ s \in Seq(S) /\ Len(s) = Len(a) + Len(b) /\ Len(a) \in Nat /\ Len(b) \in Nat
      /\ \A i \in 1 .. Len(b) : s[Len(a) + i] = b[i]
  BY Joined
<1>2. Len(a) \in 0 .. Len(s) /\ Len(s) - Len(a) = Len(b)
  BY <1>1
<1>3. /\ c \in Seq(S) /\ Len(c) = Len(s) - Len(a)
      /\ \A i \in 1 .. Len(s) - Len(a) : c[i] = s[Len(a) + i]
  BY <1>1, <1>2, Cut
<1> HIDE DEF c
<1>4. b = c
  BY <1>1, <1>2, <1>3, SameSeq
<1> QED  BY <1>4 DEF c

LEMMA Associative ==
  ASSUME NEW S, NEW a \in Seq(S), NEW b \in Seq(S), NEW c \in Seq(S)
  PROVE  (a \o b) \o c = a \o (b \o c)
<1>1. PICK p : p = a \o b
  OBVIOUS
<1>2. PICK q : q = b \o c
  OBVIOUS
<1>3. PICK l : l = p \o c
  OBVIOUS
<1>4. PICK r : r = a \o q
  OBVIOUS
<1>5. /\ p \in Seq(S) /\ Len(p) = Len(a) + Len(b) /\ (\A i \in 1 .. Len(a) : p[i] = a[i])
      /\ \A i \in 1 .. Len(b) : p[Len(a) + i] = b[i]
  BY <1>1, Joined
<1>6. /\ q \in Seq(S) /\ Len(q) = Len(b) + Len(c) /\ (\A i \in 1 .. Len(b) : q[i] = b[i])
      /\ \A i \in 1 .. Len(c) : q[Len(b) + i] = c[i]
  BY <1>2, Joined
<1>7. /\ l \in Seq(S) /\ Len(l) = Len(p) + Len(c) /\ (\A i \in 1 .. Len(p) : l[i] = p[i])
      /\ \A i \in 1 .. Len(c) : l[Len(p) + i] = c[i]
  <2>1. p \in Seq(S)
    BY <1>5
  <2> QED  BY <1>3, <2>1, Joined
<1>8. /\ r \in Seq(S) /\ Len(r) = Len(a) + Len(q) /\ (\A i \in 1 .. Len(a) : r[i] = a[i])
      /\ \A i \in 1 .. Len(q) : r[Len(a) + i] = q[i]
  <2>1. q \in Seq(S)
    BY <1>6
  <2> QED  BY <1>4, <2>1, Joined
<1>9. PICK x, y, z : x = Len(a) /\ y = Len(b) /\ z = Len(c)
  OBVIOUS
<1>10. x \in Nat /\ y \in Nat /\ z \in Nat /\ Len(p) = x + y /\ Len(q) = y + z
  <2>1. Len(a) \in Nat /\ Len(b) \in Nat /\ Len(c) \in Nat
    OBVIOUS
  <2>2. Len(p) = Len(a) + Len(b) /\ Len(q) = Len(b) + Len(c)
    BY <1>5, <1>6
  <2> QED  BY <1>9, <2>1, <2>2
<1>11. Len(l) = x + y + z /\ Len(r) = x + y + z
  BY <1>7, <1>8, <1>9, <1>10
<1>12. \A i \in 1 .. Len(l) : l[i] = r[i]
  <2> TAKE i \in 1 .. Len(l)
  <2>1. CASE i \in 1 .. x
    <3>1. i \in 1 .. Len(p)
      BY <1>10, <2>1
    <3> QED  BY <1>5, <1>7, <1>8, <1>9, <2>1, <3>1
  <2>2. CASE i > x /\ i <= x + y
    <3>1. PICK k : k = i - x
      OBVIOUS
    <3>2. k \in 1 .. y /\ i = x + k /\ i \in 1 .. Len(p) /\ k \in 1 .. Len(q)
      BY <1>10, <2>2, <3>1
    <3>3. l[x + k] = b[k]
      BY <1>5, <1>7, <1>9, <3>2
    <3>4. r[x + k] = b[k]
      BY <1>6, <1>8, <1>9, <3>2
    <3> QED  BY <3>2, <3>3, <3>4
  <2>3. CASE i > x + y
    <3>1. PICK k : k = i - (x + y)
      OBVIOUS
    <3>2. PICK j : j = y + k
      OBVIOUS
    <3>3. k \in 1 .. z /\ i = (x + y) + k /\ i = x + j /\ j \in 1 .. Len(q)
      BY <1>10, <1>11, <2>3, <3>1, <3>2
    <3>4. l[(x + y) + k] = c[k]
      BY <1>7, <1>9, <1>10, <3>3
    <3>5. r[x + j] = c[k]
      BY <1>6, <1>8, <1>9, <3>2, <3>3
    <3> QED  BY <3>3, <3>4, <3>5
  <2>4. i \in 1 .. x \/ (i > x /\ i <= x + y) \/ i > x + y
    BY <1>10
  <2> QED  BY <2>1, <2>2, <2>3, <2>4
<1>13. l = r
  BY <1>7, <1>8, <1>11, <1>12, SameSeq
<1> QED  BY <1>1, <1>2, <1>3, <1>4, <1>13

LEMMA OctetsAssociate ==
  \A a, b, c \in Seq(Bytes) : (a \o b) \o c = a \o (b \o c)
<1> TAKE a, b, c \in Seq(Bytes)
<1> QED  BY Associative

\* The first octets of the stream are no garbage.
LEMMA NotGarbage ==
  ASSUME NEW s \in Seq(Bytes), NEW q, Aligned(s, q), NEW p \in Seq(Bytes), Len(p) >= 7,
         Len(p) <= Len(s), \A i \in 1 .. Len(p) : p[i] = s[i]
  PROVE  ~Decoder!Garbage(p) /\ Decoder!Announced(p) = s[1].frame /\ p[1] = s[1]
<1>1. PICK f : f = s[1].frame
  OBVIOUS
<1>2. s # <<>> /\ Len(s) \in Nat /\ Len(p) \in Nat
  OBVIOUS
<1>3. /\ f \in Frames /\ Length(f) \in Nat /\ Length(f) >= 8 /\ Length(f) <= Len(s)
      /\ \A i \in 1 .. Length(f) : s[i].frame = f /\ s[i].at = i - 1
  BY <1>1, <1>2, FirstFrame
<1>4. p[1] = s[1] /\ Decoder!Announced(p) = f
  BY <1>1, <1>2 DEF Decoder!Announced
<1>5. ASSUME NEW i \in 1 .. Len(p), i <= Length(f)
      PROVE  p[i] = [frame |-> f, at |-> i - 1]
  <2>1. p[i] \in Bytes
    OBVIOUS
  <2>2. p[i] = [frame |-> p[i].frame, at |-> p[i].at]
    BY <2>1 DEF Bytes
  <2>3. p[i].frame = f /\ p[i].at = i - 1
    <3>1. i \in 1 .. Length(f) /\ p[i] = s[i]
      BY <1>3, <1>5
    <3> QED  BY <1>3, <3>1
  <2> QED  BY <2>2, <2>3
<1>6. \A i \in 1 .. 7 : p[i] = [frame |-> f, at |-> i - 1]
  <2>1. \A i \in 1 .. 7 : i \in 1 .. Len(p) /\ i <= Length(f)
    BY <1>2, <1>3
  <2> QED  BY <1>5, <2>1
<1>7. Decoder!FrameLength(f) = Length(f)
  BY DEF Decoder!FrameLength, Length
<1>8. ASSUME Len(p) >= Length(f)
      PROVE  SubSeq(p, 1, Length(f)) = Decoder!BytesOf(f)
  <2>1. PICK a : a = SubSeq(p, 1, Length(f))
    OBVIOUS
  <2>2. PICK b : b = Decoder!BytesOf(f)
    OBVIOUS
  <2>3. Length(f) \in 0 .. Len(p)
    BY <1>2, <1>3, <1>8
  <2>4. a \in Seq(Bytes) /\ Len(a) = Length(f) /\ \A i \in 1 .. Length(f) : a[i] = p[i]
    BY <2>1, <2>3, Cut
  <2>5. b = [i \in 1 .. Length(f) |-> [frame |-> f, at |-> i - 1]]
    BY <2>2 DEF Decoder!BytesOf, Length
  <2>6. b \in Seq(Bytes) /\ Len(b) = Length(f)
    BY <1>3, <2>2, BytesOfFrame
  <2>7. \A i \in 1 .. Length(f) : a[i] = b[i]
    <3>1. \A i \in 1 .. Length(f) : i \in 1 .. Len(p) /\ i <= Length(f)
      BY <1>2, <1>3, <2>3
    <3> QED  BY <1>5, <2>4, <2>5, <3>1
  <2>8. a = b
    BY <2>4, <2>6, <2>7, SameSeq
  <2> QED  BY <2>1, <2>2, <2>8
<1> QED  BY <1>1, <1>4, <1>6, <1>7, <1>8 DEF Decoder!Garbage

-----------------------------------------------------------------------------
(***************************************************************************)
(* The decoder.                                                            *)
(***************************************************************************)
LEMMA Octets ==
  ASSUME TypeOK
  PROVE  /\ (chunk # None => chunk \in Seq(Bytes)) /\ s2c \in Seq(Bytes)
         /\ (writer # None => writer.bytes \in Seq(Bytes) /\ writer.length \in Nat
                              /\ writer = [length |-> writer.length, bytes |-> writer.bytes])
         /\ Held \in Seq(Bytes) /\ Arrived \in Seq(Bytes) /\ Stream \in Seq(Bytes)
         /\ None \notin Seq(Bytes) /\ <<>> \in Seq(Bytes)
         /\ \A l \in Nat, b \in Seq(Bytes) : [length |-> l, bytes |-> b] # None
<1>1. None \notin Seq(Bytes) /\ None \notin [length : Nat, bytes : Seq(Bytes)]
  BY CommandReaderAssumption
<1>2. (chunk # None => chunk \in Seq(Bytes)) /\ s2c \in Seq(Bytes)
  BY DEF TypeOK
<1>3. writer # None => writer.bytes \in Seq(Bytes) /\ writer.length \in Nat
                       /\ writer = [length |-> writer.length, bytes |-> writer.bytes]
  BY DEF TypeOK
<1>4. <<>> \in Seq(Bytes)
  OBVIOUS
<1>5. Held \in Seq(Bytes)
  BY <1>3, <1>4 DEF Held
<1>6. Arrived \in Seq(Bytes)
  <2>1. PICK c : c = IF chunk = None THEN <<>> ELSE chunk
    OBVIOUS
  <2>2. c \in Seq(Bytes)
    BY <1>2, <1>4, <2>1
  <2>3. Arrived = Held \o c
    BY <2>1 DEF Arrived
  <2> QED  BY <1>5, <2>2, <2>3, Joined
<1>7. Stream \in Seq(Bytes)
  BY <1>2, <1>6, Joined DEF Stream
<1> QED  BY <1>1, <1>2, <1>3, <1>4, <1>5, <1>6, <1>7

LEMMA EmptyEnds ==
  ASSUME NEW S, NEW s \in Seq(S)
  PROVE  <<>> \o s = s /\ s \o <<>> = s
OBVIOUS

\* With nothing kept, the stream begins with the chunk.
LEMMA FreshStream ==
  ASSUME TypeOK, Decodes, Decoder!Fresh
  PROVE  /\ chunk \in Seq(Bytes) /\ Stream = chunk \o s2c
         /\ Len(chunk) >= 7 => /\ ~Decoder!Garbage(chunk) /\ Stream # <<>>
                               /\ Decoder!Announced(chunk) = Stream[1].frame
                               /\ chunk[1] = Stream[1]
<1>1. chunk \in Seq(Bytes) /\ s2c \in Seq(Bytes) /\ Stream \in Seq(Bytes)
  BY Octets DEF Decoder!Fresh
<1>2. Stream = chunk \o s2c
  <2>1. <<>> \o chunk = chunk
    BY <1>1, EmptyEnds
  <2> QED  BY <2>1 DEF Stream, Arrived, Held, Decoder!Fresh
<1>3. Len(Stream) = Len(chunk) + Len(s2c) /\ \A i \in 1 .. Len(chunk) : Stream[i] = chunk[i]
  BY <1>1, <1>2, Joined
<1>4. Len(chunk) \in Nat /\ Len(s2c) \in Nat
  BY <1>1
<1>5. PICK s : s = Stream
  OBVIOUS
<1>6. Aligned(s, sent)
  BY <1>5 DEF Decodes
<1>7. ASSUME Len(chunk) >= 7
      PROVE  /\ ~Decoder!Garbage(chunk) /\ Stream # <<>>
             /\ Decoder!Announced(chunk) = Stream[1].frame /\ chunk[1] = Stream[1]
  <2>1. Len(chunk) <= Len(s) /\ s # <<>> /\ s \in Seq(Bytes)
    BY <1>1, <1>3, <1>4, <1>5, <1>7
  <2>2. \A i \in 1 .. Len(chunk) : chunk[i] = s[i]
    BY <1>3, <1>5
  <2>3. ~Decoder!Garbage(chunk) /\ Decoder!Announced(chunk) = s[1].frame /\ chunk[1] = s[1]
    BY <1>1, <1>6, <1>7, <2>1, <2>2, NotGarbage
  <2> QED  BY <1>5, <2>1, <2>3
<1> QED  BY <1>1, <1>2, <1>7

\* The writer is filled from the chunk.
LEMMA FillingStream ==
  ASSUME TypeOK, Decodes, Decoder!Filling
  PROVE  /\ chunk \in Seq(Bytes) /\ writer.bytes \in Seq(Bytes) /\ Decoder!Filled \in Seq(Bytes)
         /\ Decoder!Copied \in 0 .. Len(chunk)
         /\ Len(Decoder!Filled) = Len(writer.bytes) + Decoder!Copied
         /\ Len(Decoder!Filled) <= writer.length /\ Len(Decoder!Filled) >= 7
         /\ Len(Decoder!Filled) < writer.length => Decoder!Copied = Len(chunk)
         /\ Stream = Decoder!Filled \o (SubSeq(chunk, Decoder!Copied + 1, Len(chunk)) \o s2c)
         /\ Stream # <<>> /\ writer.length = Length(Stream[1].frame)
         /\ ~Decoder!Garbage(Decoder!Filled)
         /\ Decoder!Announced(Decoder!Filled) = Stream[1].frame
         /\ Decoder!Filled[1] = writer.bytes[1]
<1>1. /\ chunk \in Seq(Bytes) /\ s2c \in Seq(Bytes) /\ Stream \in Seq(Bytes)
      /\ writer.bytes \in Seq(Bytes) /\ writer.length \in Nat
  BY Octets DEF Decoder!Filling
<1>2. /\ Len(writer.bytes) >= 7 /\ Len(writer.bytes) < writer.length
      /\ writer.length = Length(writer.bytes[1].frame)
  BY <1>1 DEF Decodes, WriterFits, Decoder!Filling
<1>3. PICK w : w = writer.bytes
  OBVIOUS
<1>4. PICK c : c = Decoder!Copied
  OBVIOUS
<1>5. Len(chunk) \in Nat /\ Len(w) \in Nat /\ w \in Seq(Bytes)
  BY <1>1, <1>3
<1>6. /\ c \in 0 .. Len(chunk) /\ Len(w) + c <= writer.length
      /\ Len(w) + c < writer.length => c = Len(chunk)
  BY <1>1, <1>2, <1>3, <1>4, <1>5 DEF Decoder!Copied
<1>7. PICK a : a = SubSeq(chunk, 1, c)
  OBVIOUS
<1>8. PICK b : b = SubSeq(chunk, c + 1, Len(chunk))
  OBVIOUS
<1>9. a \in Seq(Bytes) /\ Len(a) = c /\ b \in Seq(Bytes)
  BY <1>1, <1>6, <1>7, <1>8, Cut
<1>10. a \o b = chunk
  BY <1>1, <1>6, <1>7, <1>8, Rejoined
<1>11. PICK f : f = Decoder!Filled
  OBVIOUS
<1>12. f = w \o a
  BY <1>3, <1>4, <1>7, <1>11 DEF Decoder!Filled
<1>13. f \in Seq(Bytes) /\ Len(f) = Len(w) + c /\ \A i \in 1 .. Len(w) : f[i] = w[i]
  BY <1>5, <1>9, <1>12, Joined
<1>14. Stream = (w \o chunk) \o s2c
  BY <1>3 DEF Stream, Arrived, Held, Decoder!Filling
<1>15. Stream = f \o (b \o s2c)
  <2>1. w \in Seq(Bytes) /\ a \in Seq(Bytes) /\ b \in Seq(Bytes) /\ f \in Seq(Bytes)
    BY <1>5, <1>9, <1>13
  <2>2. (w \o a) \o b = w \o (a \o b)
    BY <2>1, OctetsAssociate, Zenon
  <2>3. s2c \in Seq(Bytes)
    BY <1>1
  <2>4. (f \o b) \o s2c = f \o (b \o s2c)
    BY <2>1, <2>3, OctetsAssociate, Zenon
  <2>5. w \o chunk = f \o b
    BY <1>10, <1>12, <2>2
  <2> QED  BY <1>14, <2>4, <2>5
<1>16. PICK s : s = Stream
  OBVIOUS
<1>17. b \o s2c \in Seq(Bytes)
  BY <1>1, <1>9, Joined
<1>18. PICK z : z = b \o s2c
  OBVIOUS
<1>19. s \in Seq(Bytes) /\ Len(s) = Len(f) + Len(z) /\ \A i \in 1 .. Len(f) : s[i] = f[i]
  <2>1. s = f \o z /\ z \in Seq(Bytes)
    BY <1>15, <1>16, <1>17, <1>18
  <2> QED  BY <1>13, <2>1, Joined
<1>20. Len(f) \in Nat /\ Len(z) \in Nat /\ Len(f) >= 7 /\ Len(f) <= Len(s)
  <2>1. f \in Seq(Bytes) /\ z \in Seq(Bytes)
    BY <1>13, <1>17, <1>18
  <2>2. Len(f) \in Nat /\ Len(z) \in Nat
    BY <2>1
  <2>3. Len(w) >= 7 /\ c >= 0 /\ c \in Int
    BY <1>2, <1>3, <1>6
  <2>4. Len(w) + c >= 7
    BY <1>5, <2>3
  <2>5. Len(f) = Len(w) + c /\ Len(s) = Len(f) + Len(z)
    BY <1>13, <1>19
  <2> QED  BY <2>2, <2>4, <2>5
<1>21. Aligned(s, sent)
  BY <1>16 DEF Decodes
<1>22. ~Decoder!Garbage(f) /\ Decoder!Announced(f) = s[1].frame /\ f[1] = s[1]
  <2>1. \A i \in 1 .. Len(f) : f[i] = s[i]
    BY <1>19
  <2> QED  BY <1>13, <1>19, <1>20, <1>21, <2>1, NotGarbage
<1>23. f[1] = w[1]
  <2>1. 1 \in 1 .. Len(w)
    BY <1>2, <1>3, <1>5
  <2> QED  BY <1>13, <2>1
<1>24. s # <<>>
  BY <1>19, <1>20
<1> QED
  BY <1>1, <1>2, <1>3, <1>4, <1>6, <1>8, <1>11, <1>13, <1>15, <1>16, <1>20, <1>22, <1>23, <1>24

\* What the decoder has kept, or goes on with, is the front of the stream.
LEMMA KeptNext ==
  ASSUME TypeOK, NEW l \in Nat, NEW b \in Seq(Bytes),
         writer' = [length |-> l, bytes |-> b], chunk' = None
  PROVE  /\ Stream' = b \o s2c' /\ writer' # None /\ writer'.length = l /\ writer'.bytes = b
         /\ writer' \in {None} \union [length : Nat, bytes : Seq(Bytes)]
         /\ chunk' \in {None} \union Seq(Bytes)
<1>1. writer' # None
  BY Octets
<1>2. writer'.length = l /\ writer'.bytes = b
  OBVIOUS
<1>3. Held' = b
  BY <1>1, <1>2 DEF Held
<1>4. Arrived' = Held' \o <<>>
  BY DEF Arrived
<1>5. b \o <<>> = b
  BY EmptyEnds
<1>6. Stream' = b \o s2c'
  BY <1>3, <1>4, <1>5 DEF Stream
<1> QED  BY <1>1, <1>2, <1>6

LEMMA ChunkNext ==
  ASSUME TypeOK, writer' = None, chunk' \in Seq(Bytes)
  PROVE  /\ Stream' = chunk' \o s2c'
         /\ writer' \in {None} \union [length : Nat, bytes : Seq(Bytes)]
         /\ chunk' \in {None} \union Seq(Bytes)
         /\ WriterFits'
<1>1. chunk' # None
  BY Octets
<1>2. Held' = <<>>
  BY DEF Held
<1>3. Arrived' = Held' \o chunk'
  BY <1>1 DEF Arrived
<1>4. <<>> \o chunk' = chunk'
  BY EmptyEnds
<1>5. Stream' = chunk' \o s2c'
  BY <1>2, <1>3, <1>4 DEF Stream
<1>6. WriterFits'
  BY DEF WriterFits
<1> QED  BY <1>5, <1>6

\* Between two frames the decoder loses nothing.
LEMMA DecoderKeeps ==
  ASSUME TypeOK, Decodes, Decoder!Extract, s2c' = s2c
  PROVE  /\ Stream' = Stream /\ WriterFits'
         /\ writer' \in {None} \union [length : Nat, bytes : Seq(Bytes)]
         /\ chunk' \in {None} \union Seq(Bytes)
<1>1. CASE Decoder!KeepShort
  <2>1. /\ chunk \in Seq(Bytes) /\ Stream = chunk \o s2c /\ Len(chunk) < 7
        /\ writer' = [length |-> Len(chunk), bytes |-> chunk] /\ chunk' = None
    BY <1>1, FreshStream DEF Decoder!KeepShort
  <2>2. Len(chunk) \in Nat
    BY <2>1
  <2>3. /\ Stream' = chunk \o s2c' /\ writer' # None /\ writer'.length = Len(chunk)
        /\ writer'.bytes = chunk
        /\ writer' \in {None} \union [length : Nat, bytes : Seq(Bytes)]
        /\ chunk' \in {None} \union Seq(Bytes)
    BY <2>1, <2>2, KeptNext
  <2>4. WriterFits'
    BY <2>1, <2>3 DEF WriterFits
  <2> QED  BY <2>1, <2>3, <2>4
<1>2. CASE Decoder!KeepPart
  <2> DEFINE l == Decoder!FrameLength(Decoder!Announced(chunk))
  <2>1. Decoder!Fresh /\ Len(chunk) >= 7 /\ Len(chunk) < l
        /\ writer' = [length |-> l, bytes |-> chunk] /\ chunk' = None
    BY <1>2 DEF Decoder!KeepPart
  <2>2. chunk \in Seq(Bytes) /\ Stream = chunk \o s2c
    BY <2>1, FreshStream
  <2>3. Len(chunk) \in Nat /\ l = Length(chunk[1].frame)
    BY <2>2 DEF Length, Decoder!FrameLength, Decoder!Announced
  <2>4. chunk[1].frame \in Frames
    <3>1. chunk[1] \in Bytes
      BY <2>1, <2>2, <2>3
    <3> QED  BY <3>1 DEF Bytes
  <2>5. l \in Nat
    BY <2>3, <2>4, BytesOfFrame
  <2> HIDE DEF l
  <2>6. /\ Stream' = chunk \o s2c' /\ writer' # None /\ writer'.length = l
        /\ writer'.bytes = chunk
        /\ writer' \in {None} \union [length : Nat, bytes : Seq(Bytes)]
        /\ chunk' \in {None} \union Seq(Bytes)
    BY <2>1, <2>2, <2>5, KeptNext
  <2>7. ~(l < 7)
    BY <2>1, <2>3, <2>5
  <2>8. WriterFits'
    BY <2>1, <2>3, <2>6, <2>7 DEF WriterFits
  <2> QED  BY <2>2, <2>6, <2>8
<1>3. CASE Decoder!Join
  <2>1. chunk # None /\ writer # None /\ chunk' = writer.bytes \o chunk /\ writer' = None
    BY <1>3 DEF Decoder!Join, Decoder!Joining
  <2>2. chunk \in Seq(Bytes) /\ writer.bytes \in Seq(Bytes)
    BY <2>1, Octets
  <2>3. chunk' \in Seq(Bytes)
    BY <2>1, <2>2, Joined
  <2>4. Stream = (writer.bytes \o chunk) \o s2c
    BY <2>1 DEF Stream, Arrived, Held
  <2> QED  BY <2>1, <2>3, <2>4, ChunkNext
<1>4. CASE Decoder!Fill
  <2>1. /\ Decoder!Filling /\ Len(Decoder!Filled) < writer.length
        /\ writer' = [writer EXCEPT !.bytes = Decoder!Filled] /\ chunk' = None
    BY <1>4 DEF Decoder!Fill
  <2>2. PICK b : b = Decoder!Filled
    OBVIOUS
  <2>3. PICK l : l = writer.length
    OBVIOUS
  <2>4. /\ chunk \in Seq(Bytes) /\ s2c \in Seq(Bytes) /\ l \in Nat
        /\ writer = [length |-> l, bytes |-> writer.bytes]
    BY <2>1, <2>3, Octets DEF Decoder!Filling
  <2>5. /\ b \in Seq(Bytes) /\ Decoder!Copied = Len(chunk) /\ Len(b) >= 7 /\ Len(b) < l
        /\ Stream = b \o (SubSeq(chunk, Decoder!Copied + 1, Len(chunk)) \o s2c)
        /\ b[1] = writer.bytes[1] /\ l >= 7
    BY <2>1, <2>2, <2>3, FillingStream DEF Decoder!Filling
  <2>6. SubSeq(chunk, Len(chunk) + 1, Len(chunk)) = <<>>
    BY <2>4
  <2>7. Stream = b \o s2c
    BY <2>4, <2>5, <2>6, EmptyEnds
  <2>8. writer' = [length |-> l, bytes |-> b]
    BY <2>1, <2>2, <2>4
  <2>9. /\ Stream' = b \o s2c' /\ writer' # None /\ writer'.length = l /\ writer'.bytes = b
        /\ writer' \in {None} \union [length : Nat, bytes : Seq(Bytes)]
        /\ chunk' \in {None} \union Seq(Bytes)
    BY <2>1, <2>4, <2>5, <2>8, KeptNext
  <2>10. l = Length(b[1].frame) /\ ~(l < 7)
    <3>1. l = Length(writer.bytes[1].frame) /\ ~(l < 7)
      BY <2>1, <2>3, <2>4, <2>5 DEF Decodes, WriterFits, Decoder!Filling
    <3> QED  BY <2>5, <3>1
  <2>11. WriterFits'
    BY <2>5, <2>9, <2>10 DEF WriterFits
  <2> QED  BY <2>7, <2>9, <2>11
<1> QED  BY <1>1, <1>2, <1>3, <1>4 DEF Decoder!Extract

\* A frame that is yielded is the first of the stream, which goes on behind it.
LEMMA DecoderYields ==
  ASSUME TypeOK, Decodes, Decoder!YieldWhole \/ Decoder!YieldFilled, s2c' = s2c
  PROVE  /\ Stream # <<>> /\ Decoder!Yielded = Stream[1].frame
         /\ Stream' = SubSeq(Stream, Length(Stream[1].frame) + 1, Len(Stream))
         /\ WriterFits'
         /\ writer' \in {None} \union [length : Nat, bytes : Seq(Bytes)]
         /\ chunk' \in {None} \union Seq(Bytes)
<1>1. s2c \in Seq(Bytes)
  BY Octets
<1>2. CASE Decoder!YieldWhole
  <2>1. /\ Decoder!Fresh /\ Len(chunk) >= 7 /\ Len(chunk) >= Decoder!FrameLength(Decoder!Yielded)
        /\ chunk' = SubSeq(chunk, Decoder!FrameLength(Decoder!Yielded) + 1, Len(chunk))
        /\ writer = None /\ writer' = None
    BY <1>2 DEF Decoder!YieldWhole, Decoder!Fresh
  <2>2. PICK f : f = Stream[1].frame
    OBVIOUS
  <2>3. /\ chunk \in Seq(Bytes) /\ Stream = chunk \o s2c /\ Stream # <<>>
        /\ Decoder!Announced(chunk) = f /\ chunk[1].frame = f
    BY <2>1, <2>2, FreshStream
  <2>4. Decoder!Yielded = f
    BY <2>1, <2>3 DEF Decoder!Yielded
  <2>5. PICK n : n = Length(f)
    OBVIOUS
  <2>6. Decoder!FrameLength(f) = n
    BY <2>5 DEF Decoder!FrameLength, Length
  <2>7. f \in Frames
    <3>1. chunk[1] \in Bytes
      BY <2>1, <2>3
    <3> QED  BY <2>3, <3>1 DEF Bytes
  <2>8. n \in 0 .. Len(chunk)
    <3>1. n \in Nat /\ Len(chunk) >= n
      BY <2>1, <2>4, <2>5, <2>6, <2>7, BytesOfFrame
    <3> QED  BY <2>3, <3>1
  <2>9. PICK a : a = SubSeq(chunk, 1, n)
    OBVIOUS
  <2>10. PICK b : b = SubSeq(chunk, n + 1, Len(chunk))
    OBVIOUS
  <2>11. chunk' = b
    BY <2>1, <2>4, <2>6, <2>10
  <2>12. a \in Seq(Bytes) /\ Len(a) = n /\ b \in Seq(Bytes)
    BY <2>3, <2>8, <2>9, <2>10, Cut
  <2>13. a \o b = chunk
    BY <2>3, <2>8, <2>9, <2>10, Rejoined
  <2>14. /\ Stream' = b \o s2c /\ WriterFits'
         /\ writer' \in {None} \union [length : Nat, bytes : Seq(Bytes)]
         /\ chunk' \in {None} \union Seq(Bytes)
    BY <2>1, <2>11, <2>12, ChunkNext
  <2>15. PICK r : r = b \o s2c
    OBVIOUS
  <2>16. r \in Seq(Bytes)
    <3>1. b \in Seq(Bytes)
      BY <2>12
    <3> QED  BY <1>1, <2>15, <3>1, Joined
  <2>17. Stream = a \o r
    <3>1. a \in Seq(Bytes) /\ b \in Seq(Bytes)
      BY <2>12
    <3>2. (a \o b) \o s2c = a \o (b \o s2c)
      BY <1>1, <3>1, OctetsAssociate, Zenon
    <3> QED  BY <2>3, <2>13, <2>15, <3>2
  <2>18. r = SubSeq(Stream, Len(a) + 1, Len(Stream))
    <3>1. a \in Seq(Bytes)
      BY <2>12
    <3> QED  BY <2>16, <2>17, <3>1, Behind
  <2> QED  BY <2>2, <2>3, <2>4, <2>5, <2>12, <2>14, <2>15, <2>18
<1>3. CASE Decoder!YieldFilled
  <2>1. /\ Decoder!Filling /\ Len(Decoder!Filled) = writer.length /\ writer # None
        /\ chunk' = SubSeq(chunk, Decoder!Copied + 1, Len(chunk)) /\ writer' = None
    BY <1>3 DEF Decoder!YieldFilled, Decoder!Filling, Decoder!Rest
  <2>2. PICK a : a = Decoder!Filled
    OBVIOUS
  <2>3. PICK b : b = SubSeq(chunk, Decoder!Copied + 1, Len(chunk))
    OBVIOUS
  <2>4. /\ chunk \in Seq(Bytes) /\ Decoder!Copied \in 0 .. Len(chunk) /\ a \in Seq(Bytes)
        /\ Stream = a \o (b \o s2c) /\ Stream # <<>> /\ Len(a) = Length(Stream[1].frame)
        /\ Decoder!Announced(a) = Stream[1].frame
    BY <2>1, <2>2, <2>3, FillingStream
  <2>5. Decoder!Yielded = Stream[1].frame
    BY <2>1, <2>2, <2>4 DEF Decoder!Yielded
  <2>6. b \in Seq(Bytes)
    BY <2>3, <2>4, Cut
  <2>7. chunk' = b
    BY <2>1, <2>3
  <2>8. /\ Stream' = b \o s2c /\ WriterFits'
        /\ writer' \in {None} \union [length : Nat, bytes : Seq(Bytes)]
        /\ chunk' \in {None} \union Seq(Bytes)
    BY <2>1, <2>6, <2>7, ChunkNext
  <2>9. b \o s2c \in Seq(Bytes)
    BY <1>1, <2>6, Joined
  <2>10. PICK r : r = b \o s2c
    OBVIOUS
  <2>11. PICK s : s = Stream
    OBVIOUS
  <2>12. a \in Seq(Bytes) /\ r \in Seq(Bytes) /\ s = a \o r
    BY <2>4, <2>9, <2>10, <2>11
  <2>13. r = SubSeq(s, Len(a) + 1, Len(s))
    BY <2>12, Behind
  <2>14. Stream' = SubSeq(Stream, Length(Stream[1].frame) + 1, Len(Stream))
    <3>1. Len(a) = Length(Stream[1].frame)
      BY <2>4
    <3>2. Stream' = r
      BY <2>8, <2>10
    <3> QED  BY <2>11, <2>13, <3>1, <3>2
  <2>15. Stream # <<>>
    BY <2>4
  <2> QED  BY <2>5, <2>8, <2>14, <2>15
<1> QED  BY <1>2, <1>3

\* The decoder reads no garbage.
LEMMA NotMisread ==
  ASSUME TypeOK, Decodes
  PROVE  ~Decoder!Misread
BY FreshStream, FillingStream DEF Decoder!Misread

-----------------------------------------------------------------------------
(***************************************************************************)
(* Places in the script.                                                   *)
(***************************************************************************)
LEMMA Element ==
  ASSUME NEW S, NEW s \in Seq(S), NEW i \in DOMAIN s
  PROVE  s[i] \in S
OBVIOUS

LEMMA PlaceFacts ==
  ASSUME NEW p, ValidPlace(p)
  PROVE  /\ p \in Places /\ p # None /\ p = Place(p.channel, p.cmd, p.frame)
         /\ p.channel \in Channels /\ p.cmd \in Nat /\ p.cmd >= 1
         /\ p.cmd <= Len(Script[p.channel])
         /\ p.frame \in Nat /\ p.frame >= 1 /\ p.frame <= Count(CommandAt(p))
         /\ CommandAt(p) = Script[p.channel][p.cmd]
         /\ CommandAt(p).content \in BOOLEAN /\ CommandAt(p).body \in Seq(Nat \ {0})
         /\ Count(CommandAt(p)) \in Nat /\ Count(CommandAt(p)) >= 1
         /\ IF CommandAt(p).content
            THEN Count(CommandAt(p)) = 2 + Len(CommandAt(p).body)
            ELSE Count(CommandAt(p)) = 1
<1>1. p \in Places /\ p # None /\ p = Place(p.channel, p.cmd, p.frame)
      /\ p.channel \in Channels /\ p.cmd \in Nat /\ p.frame \in Nat
  BY CommandReaderAssumption DEF ValidPlace, Places, Place
<1>2. PICK s : s = Script[p.channel]
  OBVIOUS
<1>3. s \in Seq([content : BOOLEAN, body : Seq(Nat \ {0})])
  BY <1>1, <1>2, CommandReaderAssumption
<1>4. p.cmd \in DOMAIN s
  BY <1>2 DEF ValidPlace
<1>5. p.cmd >= 1 /\ p.cmd <= Len(s)
  BY <1>3, <1>4
<1>6. PICK c : c = CommandAt(p)
  OBVIOUS
<1>7. c = s[p.cmd] /\ c \in [content : BOOLEAN, body : Seq(Nat \ {0})]
  <2>1. c = s[p.cmd]
    BY <1>2, <1>6 DEF CommandAt
  <2> QED  BY <1>3, <1>4, <2>1, Element, Zenon
<1>8. c.content \in BOOLEAN /\ c.body \in Seq(Nat \ {0})
  BY <1>7
<1>9. Len(c.body) \in Nat
  BY <1>8
<1>10. IF c.content THEN Count(c) = 2 + Len(c.body) ELSE Count(c) = 1
  BY <1>8 DEF Count
<1>11. Count(c) \in Nat /\ Count(c) >= 1
  BY <1>8, <1>9, <1>10
<1>12. p.frame >= 1 /\ p.frame <= Count(c)
  <2>1. p.frame \in 1 .. Count(c)
    BY <1>6 DEF ValidPlace
  <2> QED  BY <1>11, <2>1
<1> QED  BY <1>1, <1>2, <1>5, <1>6, <1>7, <1>8, <1>10, <1>11, <1>12

\* The next place of a channel is one of the script, or behind its end.
LEMMA AfterPlace ==
  ASSUME NEW p, ValidPlace(p)
  PROVE  /\ After(p).channel = p.channel /\ After(p) \in Places
         /\ \/ ValidPlace(After(p))
            \/ After(p).cmd = Len(Script[p.channel]) + 1 /\ After(p).frame = 1
         /\ IF IsLast(p) THEN After(p).frame = 1
            ELSE /\ ValidPlace(After(p)) /\ After(p) = Place(p.channel, p.cmd, p.frame + 1)
                 /\ After(p).channel = p.channel /\ After(p).cmd = p.cmd
                 /\ After(p).frame = p.frame + 1
                 /\ CommandAt(After(p)) = CommandAt(p)
<1>1. /\ p.channel \in Channels /\ p.cmd \in Nat /\ p.cmd >= 1 /\ p.cmd <= Len(Script[p.channel])
      /\ p.frame \in Nat /\ p.frame >= 1 /\ p.frame <= Count(CommandAt(p))
      /\ Count(CommandAt(p)) \in Nat
  BY PlaceFacts
<1>2. PICK a : a = After(p)
  OBVIOUS
<1>3. PICK l : l = Len(Script[p.channel])
  OBVIOUS
<1>4. l \in Nat /\ DOMAIN Script[p.channel] = 1 .. l
  <2>1. Script[p.channel] \in Seq([content : BOOLEAN, body : Seq(Nat \ {0})])
    BY <1>1, CommandReaderAssumption
  <2> QED  BY <1>3, <2>1
<1>5. CASE IsLast(p)
  <2>1. a = Place(p.channel, p.cmd + 1, 1)
    BY <1>2, <1>5 DEF After
  <2>2. a.channel = p.channel /\ a.cmd = p.cmd + 1 /\ a.frame = 1
    BY <2>1 DEF Place
  <2>3. a \in Places
    BY <1>1, <2>1 DEF Place, Places
  <2>4. CASE p.cmd = l
    BY <1>2, <1>3, <1>5, <2>2, <2>3, <2>4
  <2>5. CASE p.cmd < l
    <3>1. p.cmd + 1 \in DOMAIN Script[p.channel] /\ p.cmd + 1 \in Nat
      BY <1>1, <1>4, <2>5
    <3>2. PICK s : s = Script[p.channel]
      OBVIOUS
    <3>3. s \in Seq([content : BOOLEAN, body : Seq(Nat \ {0})])
      BY <1>1, <3>2, CommandReaderAssumption
    <3>4. PICK c : c = s[a.cmd]
      OBVIOUS
    <3>5. c \in [content : BOOLEAN, body : Seq(Nat \ {0})]
      <4>1. s[a.cmd] \in [content : BOOLEAN, body : Seq(Nat \ {0})]
        BY <2>2, <3>1, <3>2, <3>3, Element, Zenon
      <4> QED  BY <3>4, <4>1
    <3>6. Len(c.body) \in Nat
      BY <3>5
    <3>7. 1 \in 1 .. Count(c)
      <4>1. Count(c) = 1 \/ Count(c) = 2 + Len(c.body)
        BY DEF Count
      <4> QED  BY <3>6, <4>1
    <3>8. CommandAt(a) = c
      BY <2>2, <3>2, <3>4 DEF CommandAt
    <3>9. ValidPlace(a)
      BY <2>2, <2>3, <3>1, <3>7, <3>8 DEF ValidPlace
    <3> QED  BY <1>2, <1>5, <2>2, <2>3, <3>9
  <2> QED  BY <1>1, <1>3, <1>4, <2>4, <2>5
<1>6. CASE ~IsLast(p)
  <2>1. a = Place(p.channel, p.cmd, p.frame + 1)
    BY <1>2, <1>6 DEF After
  <2>2. a.channel = p.channel /\ a.cmd = p.cmd /\ a.frame = p.frame + 1
    BY <2>1 DEF Place
  <2>3. a \in Places
    BY <1>1, <2>1 DEF Place, Places
  <2>4. CommandAt(a) = CommandAt(p)
    BY <2>2 DEF CommandAt
  <2>5. p.frame + 1 \in 1 .. Count(CommandAt(p))
    <3>1. p.frame # Count(CommandAt(p))
      BY <1>6 DEF IsLast
    <3> QED  BY <1>1, <3>1
  <2>6. ValidPlace(a)
    BY <2>2, <2>3, <2>4, <2>5 DEF ValidPlace
  <2> QED  BY <1>2, <1>6, <2>1, <2>2, <2>3, <2>4, <2>6
<1> QED  BY <1>5, <1>6

\* The frames of the script.
LEMMA FrameFacts ==
  ASSUME NEW p, ValidPlace(p), NEW no \in Nat
  PROVE  LET f == FrameAt(p, no)
             body == CommandAt(p).body
         IN  /\ f \in Frames /\ f.place = p /\ f.no = no /\ f.content = CommandAt(p).content
             /\ f.type # "heartbeat"
             /\ (f.type = "method" <=> p.frame = 1) /\ (f.type = "header" <=> p.frame = 2)
             /\ (f.type = "body" <=> p.frame > 2)
             /\ p.frame = 2 => f.body_size = Sum(body)
             /\ p.frame > 2 => p.frame - 2 \in 1 .. Len(body) /\ f.size = body[p.frame - 2]
             /\ p.frame > 1 => CommandAt(p).content
<1>1. PICK f : f = FrameAt(p, no)
  OBVIOUS
<1>2. PICK body : body = CommandAt(p).body
  OBVIOUS
<1>3. /\ p \in Places /\ p.frame \in Nat /\ p.frame >= 1 /\ CommandAt(p).content \in BOOLEAN
      /\ body \in Seq(Nat \ {0}) /\ p.frame <= Count(CommandAt(p))
      /\ IF CommandAt(p).content THEN Count(CommandAt(p)) = 2 + Len(body)
         ELSE Count(CommandAt(p)) = 1
  BY <1>2, PlaceFacts
<1>4. Sum(body) \in Nat
  BY <1>3, Sums
<1>5. Len(body) \in Nat /\ \A i \in 1 .. Len(body) : body[i] \in Nat
  BY <1>3
<1>6. p.frame > 1 => CommandAt(p).content
  BY <1>3
<1>7. p.frame > 2 => p.frame - 2 \in 1 .. Len(body)
  BY <1>3, <1>5
<1>8. f = [type |-> IF p.frame = 1 THEN "method" ELSE IF p.frame = 2 THEN "header" ELSE "body",
           place |-> p,
           size |-> IF p.frame <= 2 THEN 1 ELSE body[p.frame - 2],
           body_size |-> IF p.frame = 2 THEN Sum(body) ELSE 0,
           content |-> CommandAt(p).content, no |-> no]
  BY <1>1, <1>2 DEF FrameAt
<1>9. f.place = p /\ f.no = no /\ f.content = CommandAt(p).content
      /\ f.type = (IF p.frame = 1 THEN "method" ELSE IF p.frame = 2 THEN "header" ELSE "body")
      /\ f.size = (IF p.frame <= 2 THEN 1 ELSE body[p.frame - 2])
      /\ f.body_size = IF p.frame = 2 THEN Sum(body) ELSE 0
  BY <1>8
<1>10. CASE p.frame = 1
  <2>1. p.frame <= 2 /\ p.frame # 2 /\ ~(p.frame > 2) /\ ~(p.frame > 1)
    BY <1>10
  <2>2. f = [type |-> "method", place |-> p, size |-> 1, body_size |-> 0,
             content |-> CommandAt(p).content, no |-> no]
    BY <1>8, <1>10, <2>1
  <2>3. f \in Frames
    BY <1>3, <2>2 DEF Frames
  <2> QED  BY <1>1, <1>2, <1>9, <1>10, <2>1, <2>3
<1>11. CASE p.frame = 2
  <2>1. p.frame <= 2 /\ p.frame # 1 /\ ~(p.frame > 2)
    BY <1>11
  <2>2. f = [type |-> "header", place |-> p, size |-> 1, body_size |-> Sum(body),
             content |-> CommandAt(p).content, no |-> no]
    BY <1>8, <1>11, <2>1
  <2>3. f \in Frames
    BY <1>3, <1>4, <2>2 DEF Frames
  <2> QED  BY <1>1, <1>2, <1>6, <1>9, <1>11, <2>1, <2>3
<1>12. CASE p.frame > 2
  <2>1. ~(p.frame <= 2) /\ p.frame # 1 /\ p.frame # 2
    BY <1>3, <1>12
  <2>2. PICK z : z = body[p.frame - 2]
    OBVIOUS
  <2>3. z \in Nat
    BY <1>5, <1>7, <1>12, <2>2
  <2>4. f = [type |-> "body", place |-> p, size |-> z, body_size |-> 0,
             content |-> CommandAt(p).content, no |-> no]
    BY <1>8, <2>1, <2>2
  <2>5. f \in Frames
    BY <1>3, <2>3, <2>4 DEF Frames
  <2>6. f.size = body[p.frame - 2]
    BY <1>9, <2>1
  <2> QED  BY <1>1, <1>2, <1>6, <1>7, <1>9, <1>12, <2>1, <2>5, <2>6
<1>13. p.frame = 1 \/ p.frame = 2 \/ p.frame > 2
  BY <1>3
<1> QED  BY <1>10, <1>11, <1>12, <1>13

\* The frames of a command up to a place.
LEMMA FramesSoFar ==
  ASSUME NEW p, ValidPlace(p)
  PROVE  /\ FramesTo(p) \in Seq(Places) /\ (p.frame = 1 => FramesTo(p) = <<p>>)
         /\ IsLast(p) => FramesTo(p) = Whole(p.channel, p.cmd)
         /\ ~IsLast(p) => Append(FramesTo(p), After(p)) = FramesTo(After(p))
<1>1. /\ p.channel \in Channels /\ p.cmd \in Nat /\ p.frame \in Nat /\ p.frame >= 1
      /\ p = Place(p.channel, p.cmd, p.frame)
      /\ CommandAt(p) = Script[p.channel][p.cmd]
  BY PlaceFacts
<1>2. PICK n : n = p.frame
  OBVIOUS
<1>3. PICK c, j : c = p.channel /\ j = p.cmd
  OBVIOUS
<1>4. \A i \in 1 .. n + 1 : Place(c, j, i) \in Places
  <2>1. \A i \in 1 .. n + 1 : i \in Nat
    BY <1>1, <1>2
  <2> QED  BY <1>1, <1>3, <2>1 DEF Place, Places
<1>5. PICK s : s = FramesTo(p)
  OBVIOUS
<1>6. s = [i \in 1 .. n |-> Place(c, j, i)] /\ n \in Nat
  BY <1>1, <1>2, <1>3, <1>5 DEF FramesTo
<1>7. \A i \in 1 .. n : i \in 1 .. n + 1
  BY <1>6
<1>8. s \in Seq(Places) /\ Len(s) = n
  BY <1>4, <1>6, <1>7
<1>9. ASSUME p.frame = 1
      PROVE  s = <<p>>
  <2>1. s \in Seq(Places) /\ Len(s) = 1 /\ s[1] = p
    BY <1>1, <1>2, <1>3, <1>6, <1>8, <1>9
  <2>2. <<p>> \in Seq(Places) /\ Len(<<p>>) = 1 /\ <<p>>[1] = p
    BY PlaceFacts
  <2>3. \A i \in 1 .. Len(s) : s[i] = <<p>>[i]
    BY <2>1, <2>2
  <2> QED  BY <2>1, <2>2, <2>3, SameSeq
<1>10. ASSUME IsLast(p)
       PROVE  s = Whole(p.channel, p.cmd)
  BY <1>1, <1>2, <1>3, <1>6, <1>10 DEF IsLast, Whole
<1>11. ASSUME ~IsLast(p)
       PROVE  Append(s, After(p)) = FramesTo(After(p))
  <2>1. PICK a : a = After(p)
    OBVIOUS
  <2>2. a = Place(c, j, n + 1)
    BY <1>2, <1>3, <1>11, <2>1 DEF After
  <2>3. a.channel = c /\ a.cmd = j /\ a.frame = n + 1
    BY <2>2 DEF Place
  <2>4. PICK t : t = FramesTo(a)
    OBVIOUS
  <2>5. t = [i \in 1 .. n + 1 |-> Place(c, j, i)]
    BY <2>3, <2>4 DEF FramesTo
  <2>6. t \in Seq(Places) /\ Len(t) = n + 1
    BY <1>4, <1>6, <2>5
  <2>7. PICK u : u = Append(s, a)
    OBVIOUS
  <2>8. a \in Places
    BY <2>1, AfterPlace
  <2>9. u \in Seq(Places) /\ Len(u) = n + 1 /\ u[n + 1] = a /\ \A i \in 1 .. n : u[i] = s[i]
    BY <1>8, <2>7, <2>8
  <2>10. \A i \in 1 .. Len(u) : u[i] = t[i]
    <3>1. \A i \in 1 .. n + 1 : i = n + 1 \/ i \in 1 .. n
      BY <1>6
    <3>2. n + 1 \in 1 .. n + 1
      BY <1>6
    <3>3. u[n + 1] = t[n + 1]
      BY <2>2, <2>5, <2>9, <3>2
    <3>4. \A i \in 1 .. n : u[i] = t[i]
      BY <1>6, <1>7, <2>5, <2>9
    <3> QED  BY <2>9, <3>1, <3>3, <3>4
  <2>11. u = t
    BY <2>6, <2>9, <2>10, SameSeq
  <2> QED  BY <2>1, <2>4, <2>7, <2>11
<1> QED  BY <1>5, <1>8, <1>9, <1>10, <1>11

\* The reader goes on from entry d to entry e, or finds that commands have been mixed.
LEMMA ReadsOn ==
  ASSUME NEW d, NEW e, NEW k \in Nat, NEW o, Follows(d, e, k, o),
         d.place = None \/ ValidPlace(d.place), e.mixed \in BOOLEAN,
         Reads(d), e.frame.type # "heartbeat", ProcessFrame(e.frame)
  PROVE  \/ e.mixed /\ failed' = TRUE /\ UNCHANGED <<state, pushed>>
         \/ /\ ~e.mixed /\ failed' = failed /\ ValidPlace(e.place)
            /\ IF IsLast(e.place)
               THEN /\ state' = "EXPECTING_METHOD" /\ e.done = d.done + 1
                    /\ o[e.done] = <<e.place.channel, e.place.cmd>>
                    /\ pushed' = Append(pushed, Whole(e.place.channel, e.place.cmd))
               ELSE /\ e.done = d.done /\ pushed' = pushed
                    /\ command' = FramesTo(e.place)
                    /\ state' = IF e.place.frame = 1 THEN "EXPECTING_HEADER"
                                ELSE "EXPECTING_BODY"
                    /\ e.place.frame > 1 =>
                         remaining' = Sum(CommandAt(e.place).body)
                                        - UpTo(CommandAt(e.place).body)[e.place.frame - 2]
<1>1. PICK p : p = e.place
  OBVIOUS
<1>2. PICK f : f = e.frame
  OBVIOUS
<1>3. PICK body : body = CommandAt(p).body
  OBVIOUS
<1>4. e.frame # Heartbeat(k)
  BY DEF Heartbeat
<1>5. /\ ValidPlace(p) /\ f = FrameAt(p, k)
      /\ IF IsLast(p) THEN e.done = d.done + 1 /\ o[e.done] = <<p.channel, p.cmd>>
         ELSE e.done = d.done
      /\ ~e.mixed => ~d.mixed /\ IF Inside(d.place) THEN p = After(d.place) ELSE p.frame = 1
      /\ e.mixed /\ ~d.mixed => Inside(d.place) /\ p.frame = 1
  BY <1>1, <1>2, <1>4 DEF Follows
<1>6. /\ f.place = p /\ f.content = CommandAt(p).content
      /\ (f.type = "method" <=> p.frame = 1) /\ (f.type = "header" <=> p.frame = 2)
      /\ (f.type = "body" <=> p.frame > 2)
      /\ p.frame = 2 => f.body_size = Sum(body)
      /\ p.frame > 2 => p.frame - 2 \in 1 .. Len(body) /\ f.size = body[p.frame - 2]
      /\ p.frame > 1 => CommandAt(p).content
  BY <1>3, <1>5, FrameFacts
<1>7. /\ p.frame \in Nat /\ p.frame >= 1 /\ p.frame <= Count(CommandAt(p))
      /\ body \in Seq(Nat \ {0}) /\ CommandAt(p).content \in BOOLEAN
      /\ IF CommandAt(p).content THEN Count(CommandAt(p)) = 2 + Len(body)
         ELSE Count(CommandAt(p)) = 1
  BY <1>3, <1>5, PlaceFacts
<1>8. /\ ~d.mixed
      /\ IF Inside(d.place)
         THEN /\ command = FramesTo(d.place)
              /\ state = IF d.place.frame = 1 THEN "EXPECTING_HEADER" ELSE "EXPECTING_BODY"
              /\ d.place.frame > 1 =>
                   remaining = Sum(CommandAt(d.place).body)
                                 - UpTo(CommandAt(d.place).body)[d.place.frame - 2]
         ELSE state = "EXPECTING_METHOD"
  BY DEF Reads
<1>9. ASSUME Inside(d.place)
      PROVE  /\ state # "EXPECTING_METHOD" /\ ValidPlace(d.place) /\ ~IsLast(d.place)
             /\ d.place.frame \in Nat /\ d.place.frame >= 1
  BY <1>8, <1>9, PlaceFacts DEF Inside
<1>10. ProcessFrame(f)
  BY <1>2
<1>11. IsLast(p) <=> p.frame = Count(CommandAt(p))
  BY DEF IsLast
<1>12. CASE e.mixed
  <2>1. f.type = "method" /\ state # "EXPECTING_METHOD"
    BY <1>5, <1>6, <1>8, <1>9, <1>12
  <2>2. Throws
    BY <1>10, <2>1 DEF ProcessFrame, ConsumeMethodFrame, ConsumeHeaderFrame, ConsumeBodyFrame
  <2> QED  BY <1>12, <2>2 DEF Throws
<1>13. CASE ~e.mixed
  <2>1. CASE Inside(d.place)
    <3>1. /\ p = After(d.place) /\ p.frame = d.place.frame + 1
          /\ CommandAt(p) = CommandAt(d.place) /\ p.frame > 1 /\ p.frame # 1
          /\ Append(FramesTo(d.place), p) = FramesTo(p)
      <4>1. p = After(d.place)
        BY <1>5, <1>13, <2>1
      <4>2. p.frame = d.place.frame + 1 /\ CommandAt(p) = CommandAt(d.place)
        BY <1>9, <2>1, <4>1, AfterPlace
      <4>3. Append(FramesTo(d.place), p) = FramesTo(p)
        BY <1>9, <2>1, <4>1, FramesSoFar
      <4> QED  BY <1>9, <2>1, <4>1, <4>2, <4>3
    <3>2. CommandAt(p).content = TRUE /\ Count(CommandAt(p)) = 2 + Len(body) /\ Len(body) \in Nat
      BY <1>6, <1>7, <3>1
    <3>3. CASE d.place.frame = 1
      <4>1. state = "EXPECTING_HEADER" /\ p.frame = 2 /\ f.type = "header" /\ f.body_size = Sum(body)
        BY <1>6, <1>8, <2>1, <3>1, <3>3
      <4>2. ConsumeHeaderFrame(f)
        BY <1>10, <4>1 DEF ProcessFrame, ConsumeMethodFrame, ConsumeBodyFrame, Expected
      <4>3. command' = FramesTo(p) /\ failed' = failed
        BY <1>6, <1>8, <2>1, <3>1, <4>2 DEF ConsumeHeaderFrame
      <4>4. /\ Sum(body) \in Nat /\ (Len(body) = 0 => Sum(body) = 0) /\ UpTo(body)[0] = 0
            /\ \A i \in 0 .. Len(body) : i < Len(body) => UpTo(body)[i] < Sum(body)
        BY <1>7, Sums
      <4>5. CASE Sum(body) = 0
        <5>1. 0 \in 0 .. Len(body) /\ ~(0 < Len(body))
          BY <3>2, <4>4, <4>5
        <5>2. IsLast(p)
          BY <1>11, <3>2, <4>1, <5>1
        <5>3. pushed' = Append(pushed, command') /\ state' = "EXPECTING_METHOD"
          BY <4>1, <4>2, <4>5 DEF ConsumeHeaderFrame, Ready
        <5>4. command' = Whole(p.channel, p.cmd)
          BY <1>5, <4>3, <5>2, FramesSoFar
        <5> QED  BY <1>1, <1>5, <1>13, <4>3, <5>2, <5>3, <5>4
      <4>6. CASE Sum(body) > 0
        <5>1. Len(body) # 0
          BY <4>4, <4>6
        <5>2. ~IsLast(p)
          BY <1>11, <3>2, <4>1, <5>1
        <5>3. remaining' = Sum(body) /\ state' = "EXPECTING_BODY" /\ pushed' = pushed
          <6>1. f.body_size > 0 /\ f.body_size # 0
            BY <4>1, <4>4, <4>6
          <6> QED  BY <4>1, <4>2, <6>1 DEF ConsumeHeaderFrame
        <5>4. p.frame - 2 = 0
          BY <4>1
        <5>5. remaining' = Sum(body) - UpTo(body)[p.frame - 2]
          BY <4>4, <5>3, <5>4
        <5> QED  BY <1>1, <1>3, <1>5, <1>13, <3>1, <4>3, <5>2, <5>3, <5>5
      <4>7. Sum(body) = 0 \/ Sum(body) > 0
        BY <4>4
      <4> QED  BY <4>5, <4>6, <4>7
    <3>4. CASE d.place.frame # 1
      <4>1. /\ state = "EXPECTING_BODY" /\ p.frame > 2 /\ f.type = "body"
            /\ p.frame - 2 \in 1 .. Len(body) /\ f.size = body[p.frame - 2]
            /\ d.place.frame > 1 /\ d.place.frame - 2 = (p.frame - 2) - 1
        <5>1. PICK x : x = d.place.frame
          OBVIOUS
        <5>2. x \in Nat /\ x >= 1 /\ x # 1 /\ p.frame = x + 1
          BY <1>9, <2>1, <3>1, <3>4, <5>1
        <5>3. x > 1 /\ p.frame > 2 /\ x - 2 = (p.frame - 2) - 1
          BY <5>2
        <5> QED  BY <1>6, <1>8, <2>1, <3>4, <5>1, <5>3
      <4>2. ConsumeBodyFrame(f)
        BY <1>10, <4>1 DEF ProcessFrame, ConsumeMethodFrame, ConsumeHeaderFrame, Expected
      <4>3. command' = FramesTo(p) /\ failed' = failed
        BY <1>6, <1>8, <2>1, <3>1, <4>2 DEF ConsumeBodyFrame
      <4>4. PICK i : i = p.frame - 2
        OBVIOUS
      <4>5. i \in 1 .. Len(body) /\ i \in 0 .. Len(body) /\ i - 1 \in 0 .. Len(body) /\ p.frame = i + 2
        <5>1. PICK l : l = Len(body)
          OBVIOUS
        <5>2. i \in 1 .. l /\ l \in Nat /\ p.frame \in Nat
          BY <1>7, <3>2, <4>1, <4>4, <5>1
        <5>3. i \in 1 .. l /\ i \in 0 .. l /\ i - 1 \in 0 .. l
          BY <5>2
        <5>4. PICK x : x = p.frame
          OBVIOUS
        <5>5. x = i + 2
          BY <4>4, <5>2, <5>4
        <5> QED  BY <5>1, <5>3, <5>4, <5>5
      <4>6. PICK U : U = UpTo(body)
        OBVIOUS
      <4>7. PICK S : S = Sum(body)
        OBVIOUS
      <4>8. /\ S \in Nat /\ U[i] = U[i - 1] + body[i] /\ U[i] \in Nat /\ U[i - 1] \in Nat
            /\ i < Len(body) => U[i] < S
        BY <1>7, <4>5, <4>6, <4>7, Sums
      <4>9. body[i] \in Nat
        BY <1>7, <4>5
      <4>10. remaining = S - U[i - 1]
        BY <1>3, <1>8, <2>1, <3>1, <4>1, <4>4, <4>6, <4>7
      <4>11. remaining' = remaining - body[i]
        BY <4>1, <4>2, <4>4 DEF ConsumeBodyFrame, ByteLength
      <4>12. remaining' = S - U[i]
        BY <4>8, <4>9, <4>10, <4>11
      <4>13. i = Len(body) => U[i] = S
        BY <4>6, <4>7 DEF Sum
      <4>14. CASE i = Len(body)
        <5>1. BodyDone
          BY <4>8, <4>12, <4>13, <4>14 DEF BodyDone
        <5>2. IsLast(p)
          BY <1>11, <3>2, <4>5, <4>14
        <5>3. pushed' = Append(pushed, command') /\ state' = "EXPECTING_METHOD"
          BY <4>2, <5>1 DEF ConsumeBodyFrame, Ready
        <5>4. command' = Whole(p.channel, p.cmd)
          BY <1>5, <4>3, <5>2, FramesSoFar
        <5> QED  BY <1>1, <1>5, <1>13, <4>3, <5>2, <5>3, <5>4
      <4>15. CASE i # Len(body)
        <5>1. i < Len(body)
          BY <3>2, <4>5, <4>15
        <5>2. ~BodyDone
          BY <4>8, <4>12, <5>1 DEF BodyDone
        <5>3. ~IsLast(p)
          BY <1>11, <3>2, <4>5, <4>15
        <5>4. state' = "EXPECTING_BODY" /\ pushed' = pushed
          BY <4>1, <4>2, <5>2 DEF ConsumeBodyFrame
        <5> QED  BY <1>1, <1>3, <1>5, <1>13, <3>1, <4>3, <4>4, <4>6, <4>7, <4>12, <5>3, <5>4
      <4> QED  BY <4>14, <4>15
    <3> QED  BY <3>3, <3>4
  <2>2. CASE ~Inside(d.place)
    <3>1. p.frame = 1 /\ f.type = "method" /\ state = "EXPECTING_METHOD"
      BY <1>5, <1>6, <1>8, <1>13, <2>2
    <3>2. ConsumeMethodFrame(f)
      BY <1>10, <3>1 DEF ProcessFrame, ConsumeHeaderFrame, ConsumeBodyFrame, Expected
    <3>3. command' = FramesTo(p) /\ failed' = failed
      <4>1. FramesTo(p) = <<p>>
        BY <1>5, <3>1, FramesSoFar
      <4> QED  BY <1>6, <3>2, <4>1 DEF ConsumeMethodFrame
    <3>4. CASE CommandAt(p).content
      <4>1. ~IsLast(p)
        <5>1. Len(body) \in Nat
          BY <1>7
        <5> QED  BY <1>7, <1>11, <3>1, <3>4, <5>1
      <4>2. state' = "EXPECTING_HEADER" /\ pushed' = pushed
        BY <1>6, <3>2, <3>4 DEF ConsumeMethodFrame
      <4>3. ~(p.frame > 1)
        BY <3>1
      <4> QED  BY <1>1, <1>5, <1>13, <3>1, <3>3, <4>1, <4>2, <4>3
    <3>5. CASE ~CommandAt(p).content
      <4>1. IsLast(p)
        BY <1>7, <1>11, <3>1, <3>5
      <4>2. pushed' = Append(pushed, command') /\ state' = "EXPECTING_METHOD"
        BY <1>6, <3>2, <3>5 DEF ConsumeMethodFrame, Ready
      <4>3. command' = Whole(p.channel, p.cmd)
        BY <1>5, <3>3, <4>1, FramesSoFar
      <4> QED  BY <1>1, <1>5, <1>13, <3>3, <4>1, <4>2, <4>3
    <3> QED  BY <3>4, <3>5
  <2> QED  BY <2>1, <2>2
<1> QED  BY <1>12, <1>13

-----------------------------------------------------------------------------
(***************************************************************************)
(* What the server sends.                                                  *)
(***************************************************************************)
\* The entry that the reader has got to.
LEMMA OverIsEntry ==
  ASSUME TypeOK, Decodes
  PROVE  /\ Over(Stream, sent) \in 1 .. Len(sent) /\ Len(sent) \in Nat /\ Len(sent) >= 1
         /\ LastSent \in Entries
<1>1. Len(sent) \in Nat /\ Len(sent) >= 1 /\ Len(sent) \in DOMAIN sent
  BY DEF TypeOK
<1>2. LastSent \in Entries
  BY <1>1, Element DEF TypeOK, LastSent
<1>3. CASE Stream = <<>>
  BY <1>1, <1>2, <1>3 DEF Over
<1>4. CASE Stream # <<>>
  <2>1. PICK s : s = Stream
    OBVIOUS
  <2>2. s \in Seq(Bytes) /\ s # <<>> /\ Aligned(s, sent)
    BY <1>4, <2>1, Octets DEF Decodes
  <2>3. 1 \in DOMAIN s
    BY <2>2
  <2>4. s[1].frame.no \in 2 .. Len(sent)
    BY <2>2, <2>3 DEF Aligned
  <2>5. PICK x : x = s[1].frame.no
    OBVIOUS
  <2>6. Over(s, sent) = x - 1
    BY <2>2, <2>5 DEF Over
  <2>7. x - 1 \in 1 .. Len(sent)
    <3>1. PICK n : n = Len(sent)
      OBVIOUS
    <3>2. n \in Nat /\ x \in 2 .. n
      BY <1>1, <2>4, <2>5, <3>1
    <3>3. x - 1 \in 1 .. n
      BY <3>2
    <3> QED  BY <3>1, <3>3
  <2> QED  BY <1>1, <1>2, <2>1, <2>6, <2>7
<1> QED  BY <1>3, <1>4

\* One more entry in `sent`, and its frame in the socket.
LEMMA Appended ==
  ASSUME TypeOK, Decodes, SentInOrder, ReaderInStep, WholeAndInOrder, UNCHANGED reader,
         NEW e \in Entries, NEW f \in Frames, e.frame = f, f.no = Len(sent) + 1,
         sent' = Append(sent, e), s2c' = s2c \o Decoder!BytesOf(f),
         order' \in Seq(Channels \X Nat), Len(order) <= Len(order'),
         \A i \in 1 .. Len(order) : order'[i] = order[i],
         Follows(LastSent, e, Len(sent) + 1, order'), LastSent.mixed => e.mixed,
         e.done = Len(order'), e.place = None \/ ValidPlace(e.place)
  PROVE  /\ Decodes' /\ SentInOrder' /\ ReaderInStep' /\ WholeAndInOrder'
         /\ s2c' \in Seq(Bytes) /\ sent' \in Seq(Entries) /\ sent' # <<>> /\ LastSent' = e
<1>1. PICK n : n = Len(sent)
  OBVIOUS
<1>2. PICK q : q = sent'
  OBVIOUS
<1>3. /\ Over(Stream, sent) \in 1 .. n /\ n \in Nat /\ n >= 1 /\ LastSent \in Entries
      /\ LastSent = sent[n]
  BY <1>1, OverIsEntry DEF LastSent
<1>4. /\ q \in Seq(Entries) /\ Len(q) = n + 1 /\ q[n + 1] = e /\ \A i \in 1 .. n : q[i] = sent[i]
  BY <1>1, <1>2 DEF TypeOK
<1>5. PICK l, m : l = Len(order) /\ m = Len(order')
  OBVIOUS
<1>6. l \in Nat /\ m \in Nat /\ l <= m /\ \A i \in 1 .. l : order'[i] = order[i]
  BY <1>5 DEF TypeOK
<1>7. LastSent' = e
  BY <1>2, <1>3, <1>4 DEF LastSent
<1>8. Stream \in Seq(Bytes) /\ Arrived \in Seq(Bytes) /\ s2c \in Seq(Bytes)
  BY Octets
<1>9. Decoder!BytesOf(f) \in Seq(Bytes)
  BY BytesOfFrame
<1>10. s2c' \in Seq(Bytes)
  BY <1>8, <1>9, Joined
<1>11. PICK u : u = Stream \o Decoder!BytesOf(f)
  OBVIOUS
<1>12. Stream' = u
  <2>1. Arrived' = Arrived
    BY DEF Arrived, Held, reader
  <2>2. Stream' = Arrived \o (s2c \o Decoder!BytesOf(f))
    BY <2>1 DEF Stream
  <2>3. (Arrived \o s2c) \o Decoder!BytesOf(f) = Arrived \o (s2c \o Decoder!BytesOf(f))
    <3>1. Arrived \in Seq(Bytes) /\ s2c \in Seq(Bytes)
      BY <1>8
    <3> QED  BY <1>9, <3>1, OctetsAssociate, Zenon
  <2> QED  BY <1>11, <2>2, <2>3 DEF Stream
<1>13. Aligned(u, q) /\ Over(u, q) = Over(Stream, sent)
  <2>1. PICK s : s = Stream
    OBVIOUS
  <2>2. s \in Seq(Bytes) /\ Aligned(s, sent) /\ sent \in Seq(Entries) /\ u = s \o Decoder!BytesOf(f)
    BY <1>8, <1>11, <2>1 DEF Decodes, TypeOK
  <2>3. Len(sent) >= 1
    BY <1>1, <1>3
  <2>4. Aligned(u, Append(sent, e)) /\ Over(u, Append(sent, e)) = Over(s, sent)
    BY <2>2, <2>3, FrameAdded
  <2> QED  BY <1>2, <2>1, <2>4
<1>14. Decodes'
  <2>1. WriterFits'
    BY DEF Decodes, WriterFits, reader
  <2>2. Aligned(Stream', sent')
    BY <1>2, <1>12, <1>13
  <2> QED  BY <2>1, <2>2 DEF Decodes
<1>15. SentInOrder'
  <2>1. q[1] = Sent(None, None, 0, FALSE)
    <3>1. 1 \in 1 .. n
      BY <1>3
    <3> QED  BY <1>4, <3>1 DEF SentInOrder
  <2>2. ASSUME NEW i \in 2 .. n + 1
        PROVE  Follows(q[i - 1], q[i], i, order')
    <3>1. CASE i = n + 1
      <4>1. q[i - 1] = LastSent /\ q[i] = e
        <5>1. n \in Nat /\ n >= 1
          BY <1>3
        <5>2. i - 1 = n /\ n \in 1 .. n
          BY <3>1, <5>1
        <5> QED  BY <1>3, <1>4, <3>1, <5>2
      <4> QED  BY <1>1, <3>1, <4>1
    <3>2. CASE i # n + 1
      <4>1. i \in 2 .. n /\ i \in 1 .. n /\ i - 1 \in 1 .. n
        BY <1>3, <3>2
      <4>2. PICK d : d = sent[i - 1]
        OBVIOUS
      <4>3. PICK g : g = sent[i]
        OBVIOUS
      <4>4. q[i - 1] = d /\ q[i] = g
        BY <1>4, <4>1, <4>2, <4>3
      <4>5. Follows(d, g, i, order)
        BY <1>1, <4>1, <4>2, <4>3 DEF SentInOrder
      <4>6. d \in Entries /\ g \in Entries
        BY <1>1, <4>1, <4>2, <4>3 DEF TypeOK
      <4>7. g.done \in Nat /\ d.done \in Nat /\ g.done <= l
        <5>1. g.done <= Len(order)
          BY <1>1, <4>1, <4>3 DEF SentInOrder
        <5> QED  BY <1>5, <4>6, <5>1 DEF Entries
      <4>8. ASSUME g.done = d.done + 1
            PROVE  order'[g.done] = order[g.done]
        <5>1. g.done \in 1 .. l
          BY <1>6, <4>7, <4>8
        <5> QED  BY <1>6, <5>1
      <4>9. Follows(d, g, i, order')
        BY <4>5, <4>8 DEF Follows
      <4> QED  BY <4>4, <4>9
    <3> QED  BY <3>1, <3>2
  <2>3. ASSUME NEW i \in 1 .. n + 1
        PROVE  /\ q[i].done <= m /\ (q[i].mixed => e.mixed)
               /\ q[i].place = None \/ ValidPlace(q[i].place)
    <3>1. CASE i = n + 1
      <4>1. q[i] = e
        BY <1>4, <3>1
      <4> QED  BY <1>5, <1>6, <4>1
    <3>2. CASE i \in 1 .. n
      <4>1. PICK g : g = sent[i]
        OBVIOUS
      <4>2. q[i] = g
        BY <1>4, <3>2, <4>1
      <4>3. g.done <= l /\ (g.mixed => LastSent.mixed) /\ (g.place = None \/ ValidPlace(g.place))
        BY <1>1, <1>5, <3>2, <4>1 DEF SentInOrder, TypeOK
      <4>4. g.done \in Nat
        <5>1. g \in Entries
          BY <1>1, <3>2, <4>1 DEF TypeOK
        <5> QED  BY <5>1 DEF Entries
      <4> QED  BY <1>6, <4>2, <4>3, <4>4
    <3>3. i = n + 1 \/ i \in 1 .. n
      BY <1>3
    <3> QED  BY <3>1, <3>2, <3>3
  <2>4. DOMAIN q = 1 .. n + 1
    BY <1>4
  <2> QED  BY <1>2, <1>4, <1>5, <1>7, <2>1, <2>2, <2>3, <2>4 DEF SentInOrder
<1>16. ReaderInStep'
  <2>1. CASE failed
    <3>1. LastSent.mixed
      BY <2>1 DEF ReaderInStep
    <3> QED  BY <1>7, <2>1, <3>1 DEF ReaderInStep, reader
  <2>2. CASE ~failed
    <3>1. PICK d : d = sent[Over(Stream, sent)]
      OBVIOUS
    <3>2. Reads(d)
      BY <2>2, <3>1 DEF ReaderInStep
    <3>3. sent'[Over(Stream', sent')] = d
      BY <1>2, <1>3, <1>4, <1>12, <1>13, <3>1
    <3>4. /\ command' = command /\ state' = state /\ remaining' = remaining /\ pushed' = pushed
          /\ failed' = failed
      BY DEF reader
    <3>5. Reads(d)'
      BY <3>2, <3>4 DEF Reads
    <3> QED  BY <2>2, <3>3, <3>4, <3>5 DEF ReaderInStep
  <2> QED  BY <2>1, <2>2
<1>17. WholeAndInOrder'
  <2>1. pushed' = pushed
    BY DEF reader
  <2>2. Len(pushed) <= l /\ Len(pushed) \in Nat /\ DOMAIN pushed = 1 .. Len(pushed)
    BY <1>5 DEF WholeAndInOrder, TypeOK
  <2>3. \A i \in DOMAIN pushed : order'[i] = order[i]
    <3>1. \A i \in 1 .. Len(pushed) : i \in 1 .. l
      BY <1>6, <2>2
    <3> QED  BY <1>6, <2>2, <3>1
  <2>4. Len(pushed) <= m
    BY <1>6, <2>2
  <2> QED  BY <1>5, <2>1, <2>3, <2>4 DEF WholeAndInOrder
<1> QED  BY <1>2, <1>4, <1>7, <1>10, <1>14, <1>15, <1>16, <1>17

LEMMA Sending ==
  ASSUME TypeOK, Inv, NEW ch \in Channels, ServerSends(ch)
  PROVE  TypeOK' /\ Inv'
<1>1. PICK p : p = next[ch]
  OBVIOUS
<1>2. PICK n : n = Len(sent)
  OBVIOUS
<1>3. PICK f : f = FrameAt(p, n + 1)
  OBVIOUS
<1>4. PICK d : d = LastSent
  OBVIOUS
<1>5. PICK mixed : mixed = (d.mixed \/ \E other \in Channels \ {ch} : InsideCommand(other))
  OBVIOUS
<1>6. PICK e : e = Sent(f, p, Len(order'), mixed)
  OBVIOUS
<1>7. /\ p.cmd <= Len(Script[ch])
      /\ next' = [next EXCEPT ![ch] = After(p)]
      /\ s2c' = s2c \o Decoder!BytesOf(f)
      /\ order' = IF IsLast(p) THEN Append(order, <<ch, p.cmd>>) ELSE order
      /\ UNCHANGED reader /\ beats' = beats
  BY <1>1, <1>2, <1>3 DEF ServerSends
<1>8. sent' = Append(sent, e)
  BY <1>1, <1>2, <1>3, <1>4, <1>5, <1>6 DEF ServerSends
<1>9. n \in Nat /\ n >= 1 /\ d \in Entries /\ d = sent[n] /\ n \in DOMAIN sent
  BY <1>2, <1>4, OverIsEntry DEF Inv, LastSent, TypeOK
<1>10. d.mixed \in BOOLEAN /\ d.done \in Nat /\ d.done = Len(order)
       /\ (d.place = None \/ ValidPlace(d.place))
  BY <1>4, <1>9 DEF Entries, Inv, SentInOrder
<1>11. \A c \in Channels :
         /\ next[c] \in Places /\ next[c].channel = c
         /\ ValidPlace(next[c]) \/ (next[c].cmd = Len(Script[c]) + 1 /\ next[c].frame = 1)
         /\ ~d.mixed => IF Inside(d.place) /\ d.place.channel = c THEN next[c] = After(d.place)
                        ELSE next[c].frame = 1
  BY <1>4 DEF Inv, NextPlaces, TypeOK
<1>12. Script[ch] \in Seq([content : BOOLEAN, body : Seq(Nat \ {0})])
  BY CommandReaderAssumption
<1>13. ValidPlace(p) /\ p.channel = ch
  <2>1. Len(Script[ch]) \in Nat
    BY <1>12
  <2>2. p.cmd # Len(Script[ch]) + 1
    BY <1>7, <2>1
  <2> QED  BY <1>1, <1>11, <2>2
<1>14. f \in Frames /\ f.no = n + 1
  <2>1. n + 1 \in Nat
    BY <1>9
  <2> QED  BY <1>3, <1>13, <2>1, FrameFacts
<1>15. p \in Places /\ p.cmd \in Nat /\ p # None
  BY <1>13, PlaceFacts
<1>16. mixed \in BOOLEAN
  BY <1>5, <1>10
<1>17. /\ order' \in Seq(Channels \X Nat) /\ Len(order') \in Nat /\ Len(order) <= Len(order')
       /\ \A i \in 1 .. Len(order) : order'[i] = order[i]
       /\ IF IsLast(p) THEN Len(order') = Len(order) + 1 /\ order'[Len(order')] = <<ch, p.cmd>>
          ELSE Len(order') = Len(order)
  <2>1. order \in Seq(Channels \X Nat)
    BY DEF TypeOK
  <2>2. CASE IsLast(p)
    <3>1. PICK x : x = <<ch, p.cmd>>
      OBVIOUS
    <3>2. x \in Channels \X Nat
      BY <1>15, <3>1
    <3>3. order' = Append(order, x)
      BY <1>7, <2>2, <3>1
    <3>4. /\ order' \in Seq(Channels \X Nat) /\ Len(order') = Len(order) + 1
          /\ order'[Len(order) + 1] = x /\ \A i \in 1 .. Len(order) : order'[i] = order[i]
      BY <2>1, <3>2, <3>3
    <3>5. Len(order) \in Nat
      BY <2>1
    <3> QED  BY <2>2, <3>1, <3>4, <3>5
  <2>3. CASE ~IsLast(p)
    <3>1. order' = order /\ Len(order) \in Nat
      BY <1>7, <2>1, <2>3
    <3> QED  BY <2>1, <2>3, <3>1
  <2> QED  BY <2>2, <2>3
<1>18. /\ e.frame = f /\ e.place = p /\ e.done = Len(order') /\ e.mixed = mixed
       /\ e \in Entries
  <2>1. e = [frame |-> f, place |-> p, done |-> Len(order'), mixed |-> mixed]
    BY <1>6 DEF Sent
  <2>2. e \in Entries
    BY <1>14, <1>15, <1>16, <1>17, <2>1 DEF Entries
  <2> QED  BY <2>1, <2>2
<1>19. \A c \in Channels : next[c].frame \in Nat /\ next[c].frame >= 1
  BY <1>11, PlaceFacts
<1>20. ASSUME Inside(d.place)
       PROVE  /\ ValidPlace(d.place) /\ d.place.channel \in Channels
              /\ After(d.place).frame # 1
  <2>1. ValidPlace(d.place) /\ ~IsLast(d.place)
    BY <1>10, <1>20 DEF Inside
  <2>2. d.place.channel \in Channels /\ d.place.frame \in Nat /\ d.place.frame >= 1
    BY <2>1, PlaceFacts
  <2>3. After(d.place).frame = d.place.frame + 1
    BY <2>1, AfterPlace
  <2> QED  BY <2>1, <2>2, <2>3
<1>21. ASSUME ~mixed
       PROVE  /\ ~d.mixed /\ IF Inside(d.place) THEN p = After(d.place) ELSE p.frame = 1
              /\ \A other \in Channels \ {ch} : next[other].frame = 1
  <2>1. ~d.mixed /\ \A other \in Channels \ {ch} : ~(next[other].frame > 1)
    BY <1>5, <1>21 DEF InsideCommand
  <2>2. \A other \in Channels \ {ch} : next[other].frame = 1
    BY <1>19, <2>1
  <2>3. CASE Inside(d.place)
    <3>1. PICK c : c = d.place.channel
      OBVIOUS
    <3>2. c \in Channels /\ next[c] = After(d.place) /\ next[c].frame # 1
      BY <1>11, <1>20, <2>1, <2>3, <3>1
    <3>3. c = ch
      BY <2>2, <3>2
    <3> QED  BY <1>1, <2>1, <2>2, <2>3, <3>2, <3>3
  <2>4. CASE ~Inside(d.place)
    BY <1>1, <1>11, <2>1, <2>2, <2>4
  <2> QED  BY <2>3, <2>4
<1>22. ASSUME mixed, ~d.mixed
       PROVE  Inside(d.place) /\ p.frame = 1
  <2>1. PICK other \in Channels \ {ch} : InsideCommand(other)
    BY <1>5, <1>22
  <2>2. next[other].frame # 1
    BY <1>19, <2>1 DEF InsideCommand
  <2>3. Inside(d.place) /\ d.place.channel = other
    BY <1>11, <1>22, <2>1, <2>2
  <2> QED  BY <1>1, <1>11, <1>22, <2>1, <2>3
<1>23. Follows(d, e, n + 1, order')
  <2>1. IF IsLast(p) THEN e.done = d.done + 1 /\ order'[e.done] = <<p.channel, p.cmd>>
        ELSE e.done = d.done
    BY <1>10, <1>13, <1>17, <1>18
  <2>2. e.frame = FrameAt(e.place, n + 1)
    BY <1>3, <1>18
  <2> QED  BY <1>13, <1>18, <1>21, <1>22, <2>1, <2>2 DEF Follows
<1>24. LastSent.mixed => e.mixed
  BY <1>4, <1>5, <1>18
<1>25. /\ Decodes' /\ SentInOrder' /\ ReaderInStep' /\ WholeAndInOrder'
       /\ s2c' \in Seq(Bytes) /\ sent' \in Seq(Entries) /\ sent' # <<>> /\ LastSent' = e
  BY <1>2, <1>4, <1>7, <1>8, <1>13, <1>14, <1>17, <1>18, <1>23, <1>24, Appended DEF Inv
<1>26. TypeOK'
  <2>1. next' \in [Channels -> Places]
    BY <1>7, <1>13, AfterPlace DEF TypeOK
  <2> QED  BY <1>7, <1>17, <1>25, <2>1 DEF TypeOK, reader
<1>27. NextPlaces'
  <2>1. ASSUME NEW c \in Channels
        PROVE  /\ next'[c].channel = c
               /\ ValidPlace(next'[c]) \/ (next'[c].cmd = Len(Script[c]) + 1 /\ next'[c].frame = 1)
               /\ ~mixed => IF Inside(p) /\ p.channel = c THEN next'[c] = After(p)
                            ELSE next'[c].frame = 1
    <3>1. CASE c = ch
      <4>1. next'[c] = After(p)
        BY <1>7, <3>1 DEF TypeOK
      <4>2. ~Inside(p) => After(p).frame = 1
        BY <1>13, <1>15, AfterPlace DEF Inside
      <4>3. /\ After(p).channel = ch
            /\ ValidPlace(After(p)) \/ (After(p).cmd = Len(Script[ch]) + 1 /\ After(p).frame = 1)
        BY <1>13, AfterPlace
      <4> QED  BY <1>13, <3>1, <4>1, <4>2, <4>3
    <3>2. CASE c # ch
      <4>1. next'[c] = next[c]
        BY <1>7, <3>2 DEF TypeOK
      <4> QED  BY <1>11, <1>13, <1>21, <3>2, <4>1
    <3> QED  BY <3>1, <3>2
  <2> QED  BY <1>18, <1>25, <2>1 DEF NextPlaces
<1> QED  BY <1>25, <1>26, <1>27 DEF Inv

LEMMA Beating ==
  ASSUME TypeOK, Inv, ServerBeats
  PROVE  TypeOK' /\ Inv'
<1>1. PICK n : n = Len(sent)
  OBVIOUS
<1>2. PICK f : f = Heartbeat(n + 1)
  OBVIOUS
<1>3. PICK d : d = LastSent
  OBVIOUS
<1>4. PICK e : e = [d EXCEPT !.frame = f]
  OBVIOUS
<1>5. /\ s2c' = s2c \o Decoder!BytesOf(f) /\ sent' = Append(sent, e)
      /\ next' = next /\ order' = order /\ UNCHANGED reader /\ beats' = beats + 1
  BY <1>1, <1>2, <1>3, <1>4 DEF ServerBeats
<1>6. n \in Nat /\ n >= 1 /\ d \in Entries /\ d = sent[n] /\ n \in DOMAIN sent
  BY <1>1, <1>3, OverIsEntry DEF Inv, LastSent, TypeOK
<1>7. d.mixed \in BOOLEAN /\ d.done \in Nat /\ d.done = Len(order)
      /\ (d.place = None \/ ValidPlace(d.place))
  BY <1>3, <1>6 DEF Entries, Inv, SentInOrder
<1>8. f \in Frames /\ f.no = n + 1
  BY <1>2, <1>6 DEF Heartbeat, Frames
<1>9. e.frame = f /\ e.place = d.place /\ e.done = d.done /\ e.mixed = d.mixed /\ e \in Entries
  BY <1>4, <1>6, <1>8 DEF Entries
<1>10. Follows(d, e, n + 1, order')
  BY <1>2, <1>9 DEF Follows
<1>11. /\ order' \in Seq(Channels \X Nat) /\ Len(order) <= Len(order')
       /\ \A i \in 1 .. Len(order) : order'[i] = order[i]
  BY <1>5 DEF TypeOK
<1>12. /\ Decodes' /\ SentInOrder' /\ ReaderInStep' /\ WholeAndInOrder'
       /\ s2c' \in Seq(Bytes) /\ sent' \in Seq(Entries) /\ sent' # <<>> /\ LastSent' = e
  BY <1>1, <1>3, <1>5, <1>7, <1>8, <1>9, <1>10, <1>11, Appended DEF Inv
<1>13. TypeOK'
  BY <1>5, <1>12 DEF TypeOK, reader
<1>14. NextPlaces'
  BY <1>3, <1>5, <1>9, <1>12 DEF NextPlaces, Inv
<1> QED  BY <1>12, <1>13, <1>14 DEF Inv

-----------------------------------------------------------------------------
(***************************************************************************)
(* What the reader does.                                                   *)
(***************************************************************************)
\* What is said of the server alone.
LEMMA ServerSame ==
  ASSUME Inv, UNCHANGED server
  PROVE  SentInOrder' /\ NextPlaces' /\ LastSent' = LastSent
<1>1. sent' = sent /\ order' = order /\ next' = next
  BY DEF server
<1>2. LastSent' = LastSent
  BY <1>1 DEF LastSent
<1>3. SentInOrder'
  BY <1>1, <1>2 DEF Inv, SentInOrder
<1>4. NextPlaces'
  BY <1>1, <1>2 DEF Inv, NextPlaces
<1> QED  BY <1>2, <1>3, <1>4

\* The octets are cut otherwise, and the reader does not move.
LEMMA Recut ==
  ASSUME TypeOK, Inv, UNCHANGED <<state, command, remaining, pushed, failed, server>>,
         Stream' = Stream, WriterFits', s2c' \in Seq(Bytes),
         writer' \in {None} \union [length : Nat, bytes : Seq(Bytes)],
         chunk' \in {None} \union Seq(Bytes)
  PROVE  TypeOK' /\ Inv'
<1>1. sent' = sent /\ order' = order /\ next' = next /\ beats' = beats
  BY DEF server
<1>2. SentInOrder' /\ NextPlaces' /\ LastSent' = LastSent
  BY ServerSame
<1>3. TypeOK'
  BY <1>1 DEF TypeOK
<1>4. Decodes'
  <2>1. Aligned(Stream', sent')
    BY <1>1 DEF Inv, Decodes
  <2> QED  BY <2>1 DEF Decodes
<1>5. ReaderInStep'
  <2>1. PICK d : d = sent[Over(Stream, sent)]
    OBVIOUS
  <2>2. IF failed THEN LastSent.mixed ELSE Reads(d)
    BY <2>1 DEF Inv, ReaderInStep
  <2>3. sent'[Over(Stream', sent')] = d
    BY <1>1, <2>1
  <2>4. IF failed' THEN LastSent'.mixed ELSE Reads(d)'
    BY <1>2, <2>2 DEF Reads
  <2> QED  BY <2>3, <2>4 DEF ReaderInStep
<1>6. WholeAndInOrder'
  BY <1>1 DEF Inv, WholeAndInOrder
<1> QED  BY <1>2, <1>3, <1>4, <1>5, <1>6 DEF Inv

LEMMA Receiving ==
  ASSUME TypeOK, Inv, NEW k \in 1 .. Len(s2c), RecvChunk(k)
  PROVE  TypeOK' /\ Inv'
<1>1. /\ chunk = None /\ chunk' = SubSeq(s2c, 1, k) /\ s2c' = SubSeq(s2c, k + 1, Len(s2c))
      /\ UNCHANGED <<writer, state, command, remaining, pushed, failed, server>>
  BY DEF RecvChunk
<1>2. Held \in Seq(Bytes) /\ s2c \in Seq(Bytes) /\ None \notin Seq(Bytes)
  BY Octets
<1>3. k \in 0 .. Len(s2c)
  BY <1>2
<1>4. chunk' \in Seq(Bytes) /\ s2c' \in Seq(Bytes)
  BY <1>1, <1>2, <1>3, Cut
<1>5. chunk' \o s2c' = s2c
  BY <1>1, <1>2, <1>3, Rejoined
<1>6. Held' = Held
  BY <1>1 DEF Held
<1>7. Stream = Held \o s2c
  <2>1. Held \o <<>> = Held
    BY <1>2, EmptyEnds
  <2> QED  BY <1>1, <2>1 DEF Stream, Arrived
<1>8. Stream' = (Held \o chunk') \o s2c'
  <2>1. chunk' # None
    BY <1>2, <1>4
  <2> QED  BY <1>6, <2>1 DEF Stream, Arrived
<1>9. Stream' = Stream
  <2>1. (Held \o chunk') \o s2c' = Held \o (chunk' \o s2c')
    BY <1>2, <1>4, OctetsAssociate, Zenon
  <2> QED  BY <1>5, <1>7, <1>8, <2>1
<1>10. WriterFits'
  BY <1>1 DEF Inv, Decodes, WriterFits
<1>11. writer' \in {None} \union [length : Nat, bytes : Seq(Bytes)]
  BY <1>1 DEF TypeOK
<1> QED  BY <1>1, <1>4, <1>9, <1>10, <1>11, Recut

\* A frame is yielded: its entry is the one behind the entry that the reader has got to.
LEMMA EntryYielded ==
  ASSUME TypeOK, Inv, Decoder!YieldWhole \/ Decoder!YieldFilled, UNCHANGED <<server, s2c>>
  PROVE  \E k \in 2 .. Len(sent) :
           /\ k \in Nat /\ k \in DOMAIN sent /\ k - 1 \in DOMAIN sent
           /\ Decoder!Yielded = sent[k].frame
           /\ sent[Over(Stream, sent)] = sent[k - 1] /\ sent'[Over(Stream', sent')] = sent[k]
           /\ Decodes'
           /\ writer' \in {None} \union [length : Nat, bytes : Seq(Bytes)]
           /\ chunk' \in {None} \union Seq(Bytes)
<1>1. sent' = sent /\ s2c' = s2c
  BY DEF server
<1>2. /\ Stream # <<>> /\ Decoder!Yielded = Stream[1].frame
      /\ Stream' = SubSeq(Stream, Length(Stream[1].frame) + 1, Len(Stream))
      /\ WriterFits'
      /\ writer' \in {None} \union [length : Nat, bytes : Seq(Bytes)]
      /\ chunk' \in {None} \union Seq(Bytes)
  BY <1>1, DecoderYields DEF Inv
<1>3. PICK s : s = Stream
  OBVIOUS
<1>4. PICK n : n = Length(s[1].frame)
  OBVIOUS
<1>5. PICK t : t = SubSeq(s, n + 1, Len(s))
  OBVIOUS
<1>6. s \in Seq(Bytes) /\ Aligned(s, sent) /\ s # <<>>
  BY <1>2, <1>3, Octets DEF Inv, Decodes
<1>7. PICK k : k = s[1].frame.no
  OBVIOUS
<1>8. /\ Aligned(t, sent) /\ k \in 2 .. Len(sent) /\ s[1].frame = sent[k].frame
      /\ Over(s, sent) = k - 1 /\ Over(t, sent) = k
  BY <1>4, <1>5, <1>6, <1>7, FrameTaken
<1>9. Len(sent) \in Nat /\ DOMAIN sent = 1 .. Len(sent)
  BY DEF TypeOK
<1>10. k \in Nat /\ k \in DOMAIN sent /\ k - 1 \in DOMAIN sent
  <2>1. PICK m : m = Len(sent)
    OBVIOUS
  <2>2. k \in 2 .. m /\ m \in Nat /\ DOMAIN sent = 1 .. m
    BY <1>8, <1>9, <2>1
  <2>3. k \in Nat /\ k \in 1 .. m /\ k - 1 \in 1 .. m
    BY <2>2
  <2> QED  BY <2>2, <2>3
<1>11. Stream' = t
  BY <1>2, <1>3, <1>4, <1>5
<1>12. Aligned(Stream', sent')
  BY <1>1, <1>8, <1>11
<1>13. Decodes'
  BY <1>2, <1>12 DEF Decodes
<1>14. Over(Stream', sent') = k
  BY <1>1, <1>8, <1>11
<1> QED  BY <1>1, <1>2, <1>3, <1>8, <1>10, <1>13, <1>14

LEMMA Transforming ==
  ASSUME TypeOK, Inv, Transform
  PROVE  TypeOK' /\ Inv'
<1>1. failed = FALSE /\ UNCHANGED <<server, s2c>>
  BY DEF Transform, TypeOK
<1>2. sent' = sent /\ order' = order /\ next' = next /\ beats' = beats /\ s2c' = s2c
  BY <1>1 DEF server
<1>3. s2c' \in Seq(Bytes)
  BY <1>2 DEF TypeOK
<1>4. CASE Decoder!Extract /\ UNCHANGED <<state, command, remaining, pushed, failed>>
  <2>1. /\ Stream' = Stream /\ WriterFits'
        /\ writer' \in {None} \union [length : Nat, bytes : Seq(Bytes)]
        /\ chunk' \in {None} \union Seq(Bytes)
    BY <1>2, <1>4, DecoderKeeps DEF Inv
  <2> QED  BY <1>1, <1>3, <1>4, <2>1, Recut
<1>5. CASE /\ Decoder!YieldWhole \/ Decoder!YieldFilled
           /\ \/ /\ Skipped(Decoder!Yielded)
                 /\ UNCHANGED <<state, command, remaining, pushed, failed>>
              \/ ~Skipped(Decoder!Yielded) /\ ProcessFrame(Decoder!Yielded)
  <2>1. PICK k \in 2 .. Len(sent) :
           /\ k \in Nat /\ k \in DOMAIN sent /\ k - 1 \in DOMAIN sent
           /\ Decoder!Yielded = sent[k].frame
           /\ sent[Over(Stream, sent)] = sent[k - 1] /\ sent'[Over(Stream', sent')] = sent[k]
           /\ Decodes'
           /\ writer' \in {None} \union [length : Nat, bytes : Seq(Bytes)]
           /\ chunk' \in {None} \union Seq(Bytes)
    BY <1>1, <1>5, EntryYielded
  <2>2. PICK d : d = sent[k - 1]
    OBVIOUS
  <2>3. PICK e : e = sent[k]
    OBVIOUS
  <2>4. Follows(d, e, k, order)
    BY <2>1, <2>2, <2>3 DEF Inv, SentInOrder
  <2>5. d \in Entries /\ e \in Entries
    BY <2>1, <2>2, <2>3, Element DEF TypeOK
  <2>6. d.place = None \/ ValidPlace(d.place)
    BY <2>1, <2>2 DEF Inv, SentInOrder
  <2>7. e.mixed => LastSent.mixed
    BY <2>1, <2>3 DEF Inv, SentInOrder
  <2>8. e.done <= Len(order)
    BY <2>1, <2>3 DEF Inv, SentInOrder
  <2>9. Reads(d)
    BY <1>1, <2>1, <2>2 DEF Inv, ReaderInStep
  <2>10. e.mixed \in BOOLEAN /\ d.done \in Nat /\ e.done \in Nat
    BY <2>5 DEF Entries
  <2>11. SentInOrder' /\ NextPlaces' /\ LastSent' = LastSent
    BY <1>1, ServerSame
  <2>12. Decoder!Yielded = e.frame /\ sent'[Over(Stream', sent')] = e
    BY <2>1, <2>3
  <2>13. CASE Skipped(e.frame) /\ UNCHANGED <<state, command, remaining, pushed, failed>>
    <3>1. /\ e.place = d.place /\ e.done = d.done /\ e.mixed = d.mixed
      <4>1. ASSUME ValidPlace(e.place), e.frame = FrameAt(e.place, k)
            PROVE  FALSE
        <5>1. e.frame.type # "heartbeat"
          BY <2>1, <4>1, FrameFacts
        <5> QED  BY <2>13, <5>1 DEF Skipped
      <4> QED  BY <2>4, <4>1 DEF Follows
    <3>2. Reads(e)
      BY <2>9, <3>1 DEF Reads
    <3>3. Reads(e)'
      BY <2>13, <3>2 DEF Reads
    <3>4. ReaderInStep'
      BY <1>1, <2>12, <2>13, <3>3 DEF ReaderInStep
    <3>5. WholeAndInOrder'
      BY <1>2, <2>13 DEF Inv, WholeAndInOrder
    <3>6. TypeOK'
      BY <1>2, <2>1, <2>13 DEF TypeOK
    <3> QED  BY <2>1, <2>11, <3>4, <3>5, <3>6 DEF Inv
  <2>14. CASE ~Skipped(e.frame) /\ ProcessFrame(e.frame)
    <3>1. e.frame.type # "heartbeat"
      BY <2>14 DEF Skipped
    <3>2. CASE e.mixed /\ failed' = TRUE /\ UNCHANGED <<state, pushed>>
      <4>1. ReaderInStep'
        BY <2>7, <2>11, <3>2 DEF ReaderInStep
      <4>2. WholeAndInOrder'
        BY <1>2, <3>2 DEF Inv, WholeAndInOrder
      <4>3. TypeOK'
        BY <1>2, <2>1, <3>2 DEF TypeOK
      <4> QED  BY <2>1, <2>11, <4>1, <4>2, <4>3 DEF Inv
    <3>3. CASE
            /\ ~e.mixed /\ failed' = failed /\ ValidPlace(e.place)
            /\ IF IsLast(e.place)
               THEN /\ state' = "EXPECTING_METHOD" /\ e.done = d.done + 1
                    /\ order[e.done] = <<e.place.channel, e.place.cmd>>
                    /\ pushed' = Append(pushed, Whole(e.place.channel, e.place.cmd))
               ELSE /\ e.done = d.done /\ pushed' = pushed
                    /\ command' = FramesTo(e.place)
                    /\ state' = IF e.place.frame = 1 THEN "EXPECTING_HEADER"
                                ELSE "EXPECTING_BODY"
                    /\ e.place.frame > 1 =>
                         remaining' = Sum(CommandAt(e.place).body)
                                        - UpTo(CommandAt(e.place).body)[e.place.frame - 2]
      <4>1. Len(pushed) = d.done /\ pushed \in Seq(Seq(Places))
        BY <2>9 DEF Reads, TypeOK
      <4>2. e.place # None
        BY <3>3, PlaceFacts
      <4>3. CASE IsLast(e.place)
        <5>1. PICK c : c = Whole(e.place.channel, e.place.cmd)
          OBVIOUS
        <5>2. c \in Seq(Places)
          BY <3>3, <4>3, <5>1, FramesSoFar
        <5>3. pushed' = Append(pushed, c) /\ e.done = Len(pushed) + 1
          BY <3>3, <4>1, <4>3, <5>1
        <5>4. /\ pushed' \in Seq(Seq(Places)) /\ Len(pushed') = e.done
              /\ pushed'[e.done] = c /\ \A i \in 1 .. Len(pushed) : pushed'[i] = pushed[i]
              /\ DOMAIN pushed' = 1 .. Len(pushed) + 1
          BY <4>1, <5>2, <5>3
        <5>5. ReaderInStep'
          <6>1. Reads(e)'
            BY <3>3, <4>3, <5>4 DEF Reads, Inside
          <6> QED  BY <1>1, <2>12, <3>3, <6>1 DEF ReaderInStep
        <5>6. WholeAndInOrder'
          <6>1. PICK ch, j : ch = e.place.channel /\ j = e.place.cmd
            OBVIOUS
          <6>2. ch \in Channels /\ j \in DOMAIN Script[ch] /\ order[e.done] = <<ch, j>>
                /\ pushed'[e.done] = Whole(ch, j)
            BY <3>3, <4>3, <5>1, <5>4, <6>1, PlaceFacts DEF ValidPlace
          <6>3. ASSUME NEW i \in DOMAIN pushed'
                PROVE  \E c1 \in Channels : \E j1 \in DOMAIN Script[c1] :
                         order[i] = <<c1, j1>> /\ pushed'[i] = Whole(c1, j1)
            <7>1. CASE i = e.done
              BY <6>2, <7>1
            <7>2. CASE i \in 1 .. Len(pushed)
              <8>1. DOMAIN pushed = 1 .. Len(pushed)
                BY <4>1
              <8>2. pushed'[i] = pushed[i] /\ i \in DOMAIN pushed
                BY <5>4, <7>2, <8>1
              <8> QED  BY <8>2 DEF Inv, WholeAndInOrder
            <7>3. i = e.done \/ i \in 1 .. Len(pushed)
              <8>1. PICK n : n = Len(pushed)
                OBVIOUS
              <8>2. n \in Nat /\ i \in 1 .. n + 1 /\ e.done = n + 1
                BY <4>1, <5>3, <5>4, <8>1
              <8> QED  BY <8>1, <8>2
            <7> QED  BY <7>1, <7>2, <7>3
          <6> QED  BY <1>2, <2>8, <5>4, <6>3 DEF WholeAndInOrder
        <5>7. TypeOK'
          BY <1>2, <2>1, <3>3, <4>3, <5>4 DEF TypeOK
        <5> QED  BY <2>1, <2>11, <5>5, <5>6, <5>7 DEF Inv
      <4>4. CASE ~IsLast(e.place)
        <5>1. Inside(e.place)
          BY <4>2, <4>4 DEF Inside
        <5>2. ReaderInStep'
          <6>1. Reads(e)'
            BY <3>3, <4>1, <4>4, <5>1 DEF Reads
          <6> QED  BY <1>1, <2>12, <3>3, <6>1 DEF ReaderInStep
        <5>3. WholeAndInOrder'
          BY <1>2, <3>3, <4>4 DEF Inv, WholeAndInOrder
        <5>4. TypeOK'
          BY <1>2, <2>1, <3>3, <4>4 DEF TypeOK
        <5> QED  BY <2>1, <2>11, <5>2, <5>3, <5>4 DEF Inv
      <4> QED  BY <4>3, <4>4
    <3> QED  BY <2>1, <2>4, <2>6, <2>9, <2>10, <2>14, <3>1, <3>2, <3>3, ReadsOn
  <2> QED  BY <1>5, <2>12, <2>13, <2>14
<1> QED  BY <1>4, <1>5 DEF Transform

-----------------------------------------------------------------------------
LEMMA Beginning ==
  ASSUME Init
  PROVE  TypeOK /\ Inv
<1>1. /\ writer = None /\ chunk = None /\ s2c = <<>> /\ order = <<>> /\ pushed = <<>>
      /\ failed = FALSE /\ beats = 0 /\ state = "EXPECTING_METHOD"
      /\ next = [ch \in Channels |-> Place(ch, 1, 1)]
  BY DEF Init, Decoder!DecoderInit
<1>2. PICK e : e = Sent(None, None, 0, FALSE)
  OBVIOUS
<1>3. sent = <<e>> /\ e.place = None /\ e.done = 0 /\ e.mixed = FALSE /\ e \in Entries
  BY <1>2 DEF Init, Sent, Entries
<1>4. sent \in Seq(Entries) /\ sent # <<>> /\ Len(sent) = 1 /\ sent[1] = e /\ DOMAIN sent = {1}
  BY <1>3
<1>5. LastSent = e
  BY <1>4 DEF LastSent
<1>6. \A ch \in Channels : next[ch] = Place(ch, 1, 1)
  BY <1>1
<1>7. TypeOK
  <2>1. next \in [Channels -> Places]
    BY <1>1 DEF Place, Places
  <2>2. pushed \in Seq(Seq(Places)) /\ s2c \in Seq(Bytes) /\ order \in Seq(Channels \X Nat)
    BY <1>1
  <2> QED  BY <1>1, <1>4, <2>1, <2>2 DEF TypeOK
<1>8. Stream = <<>>
  <2>1. <<>> \o <<>> = <<>>
    OBVIOUS
  <2> QED  BY <1>1, <2>1 DEF Stream, Arrived, Held
<1>9. Decodes
  <2>1. DOMAIN <<>> = {}
    OBVIOUS
  <2>2. Aligned(Stream, sent)
    BY <1>8, <2>1 DEF Aligned
  <2> QED  BY <1>1, <2>2 DEF Decodes, WriterFits
<1>10. Len(order) = 0 /\ Len(pushed) = 0 /\ DOMAIN pushed = {}
  BY <1>1
<1>11. SentInOrder
  <2>1. 2 .. Len(sent) = {}
    BY <1>4
  <2>2. e.done <= Len(order)
    BY <1>3, <1>10
  <2> QED  BY <1>2, <1>3, <1>4, <1>5, <1>10, <2>1, <2>2 DEF SentInOrder
<1>12. NextPlaces
  <2> SUFFICES ASSUME NEW ch \in Channels
               PROVE  /\ next[ch].channel = ch /\ next[ch].frame = 1
                      /\ \/ ValidPlace(next[ch])
                         \/ next[ch].cmd = Len(Script[ch]) + 1 /\ next[ch].frame = 1
    BY <1>3, <1>5 DEF NextPlaces, Inside
  <2>1. PICK p : p = next[ch]
    OBVIOUS
  <2>2. p.channel = ch /\ p.cmd = 1 /\ p.frame = 1 /\ p \in Places
    <3>1. p = [channel |-> ch, cmd |-> 1, frame |-> 1]
      BY <1>6, <2>1 DEF Place
    <3> QED  BY <3>1 DEF Places
  <2>3. PICK s : s = Script[ch]
    OBVIOUS
  <2>4. s \in Seq([content : BOOLEAN, body : Seq(Nat \ {0})])
    BY <2>3, CommandReaderAssumption
  <2>5. Len(s) \in Nat /\ DOMAIN s = 1 .. Len(s)
    BY <2>4
  <2>6. CASE Len(s) = 0
    BY <2>1, <2>2, <2>3, <2>6
  <2>7. CASE Len(s) # 0
    <3>1. 1 \in DOMAIN s
      BY <2>5, <2>7
    <3>2. PICK c : c = s[1]
      OBVIOUS
    <3>3. c \in [content : BOOLEAN, body : Seq(Nat \ {0})]
      BY <2>4, <3>1, <3>2, Element, Zenon
    <3>4. Len(c.body) \in Nat
      BY <3>3
    <3>5. 1 \in 1 .. Count(c)
      <4>1. Count(c) = 1 \/ Count(c) = 2 + Len(c.body)
        BY DEF Count
      <4> QED  BY <3>4, <4>1
    <3>6. CommandAt(p) = c
      BY <2>2, <2>3, <3>2 DEF CommandAt
    <3>7. ValidPlace(p)
      BY <2>2, <2>3, <3>1, <3>5, <3>6 DEF ValidPlace
    <3> QED  BY <2>1, <2>2, <3>7
  <2> QED  BY <2>6, <2>7
<1>13. ReaderInStep
  <2>1. Over(Stream, sent) = 1
    BY <1>4, <1>8 DEF Over
  <2>2. Reads(e)
    BY <1>1, <1>3, <1>10 DEF Reads, Inside
  <2> QED  BY <1>1, <1>4, <2>1, <2>2 DEF ReaderInStep
<1>14. WholeAndInOrder
  BY <1>10 DEF WholeAndInOrder
<1> QED  BY <1>7, <1>9, <1>11, <1>12, <1>13, <1>14 DEF Inv

LEMMA Step ==
  ASSUME TypeOK, Inv, [Next]_vars
  PROVE  TypeOK' /\ Inv'
<1>1. CASE Transform
  BY <1>1, Transforming
<1>2. ASSUME NEW k \in 1 .. Len(s2c), RecvChunk(k)
      PROVE  TypeOK' /\ Inv'
  BY <1>2, Receiving
<1>3. ASSUME NEW ch \in Channels, ServerSends(ch)
      PROVE  TypeOK' /\ Inv'
  BY <1>3, Sending
<1>4. CASE ServerBeats
  BY <1>4, Beating
<1>5. CASE UNCHANGED vars
  <2>1. /\ UNCHANGED <<state, command, remaining, pushed, failed, server>>
        /\ s2c' = s2c /\ writer' = writer /\ chunk' = chunk
    BY <1>5 DEF vars, server
  <2>2. Stream' = Stream
    BY <2>1 DEF Stream, Arrived, Held
  <2>3. WriterFits'
    BY <2>1 DEF Inv, Decodes, WriterFits
  <2>4. /\ s2c' \in Seq(Bytes)
        /\ writer' \in {None} \union [length : Nat, bytes : Seq(Bytes)]
        /\ chunk' \in {None} \union Seq(Bytes)
    BY <2>1 DEF TypeOK
  <2> QED  BY <2>1, <2>2, <2>3, <2>4, Recut
<1> QED  BY <1>1, <1>2, <1>3, <1>4, <1>5 DEF Next

\* What the variables hold, and that the octets, the history and the reader keep in step.
THEOREM TypeCorrect == Spec => [](TypeOK /\ Inv)
<1>1. Init => TypeOK /\ Inv
  BY Beginning
<1>2. TypeOK /\ Inv /\ [Next]_vars => TypeOK' /\ Inv'
  BY Step
<1> QED  BY <1>1, <1>2, PTL DEF Spec

\* The commands that CommandReader hands over are those the server has finished, whole and
\* in that order, whatever the frames that come in between.
THEOREM CommandsWhole == Spec => []WholeAndInOrder
<1>1. Inv => WholeAndInOrder
  BY DEF Inv
<1> QED  BY <1>1, TypeCorrect, PTL

\* However the octets are cut, FrameDecoder reads no garbage; and CommandReader fails only
\* if the frames of two channels have been mixed.
THEOREM OnlyMixingFails == Spec => []FailsOnlyIfMixed
<1>1. TypeOK /\ Inv => FailsOnlyIfMixed
  <2> SUFFICES ASSUME TypeOK, Inv
               PROVE  FailsOnlyIfMixed
    OBVIOUS
  <2>1. ~Decoder!Misread
    BY NotMisread DEF Inv
  <2>2. failed => LastSent.mixed
    BY DEF Inv, ReaderInStep
  <2> QED  BY <2>1, <2>2 DEF FailsOnlyIfMixed
<1> QED  BY <1>1, TypeCorrect, PTL
=============================================================================
