---------------------------- MODULE BufferWriter ----------------------------
(***************************************************************************)
(* utils/BufferWriter.ts: values written into a buffer of fixed length.    *)
(*                                                                         *)
(* Octets are the numbers 0 .. 255.  A text is a sequence of characters    *)
(* and a character the tuple of its octets in UTF-8; String.length counts  *)
(* UTF-16 units.  A JavaScript value is [t |-> its kind, v |-> ...]:       *)
(*   "string"                  v: a text                                   *)
(*   "number" "bigint" "date"  v: its sign, its eight octets in two's      *)
(*                             complement, and whether it is whole (of a   *)
(*                             date: seconds); fractions are cut off       *)
(*   "boolean"                 v                                           *)
(*   "array"                   v: a sequence of values                     *)
(*   "object"                  v: its keys and values <<k, x>>, in order   *)
(*   "null"                    null or undefined                           *)
(*   "other"                   Buffer, Map, function, ...                  *)
(***************************************************************************)
EXTENDS Integers, Sequences, SequencesExt, Protocol

CONSTANTS
  Capacity,         \* the length of the buffer
  MaxShort          \* the greatest length of a short string

ASSUME BufferWriterAssumption == Capacity \in Nat /\ MaxShort \in 0 .. 255

Integer(kind, neg, octets, whole) ==
  [t |-> kind, v |-> [neg |-> neg, octets |-> octets, whole |-> whole]]

\* The octets of a small integer.
OctetsOf(n) ==
  LET sign == IF n < 0 THEN 255 ELSE 0
  IN  <<sign, sign, sign, sign, (n \div 16777216) % 256, (n \div 65536) % 256,
        (n \div 256) % 256, n % 256>>

Number(n) == Integer("number", n < 0, OctetsOf(n), TRUE)
Bool(b) == [t |-> "boolean", v |-> b]
Text(s) == [t |-> "string", v |-> s]
Table(entries) == [t |-> "object", v |-> entries]

\* String.length, and the octets that buf.write() makes of a text
Units(s) == FoldLeft(LAMBDA n, ch : n + (IF Len(ch) = 4 THEN 2 ELSE 1), 0, s)
Utf8(s) == FlattenSeq(s)

-----------------------------------------------------------------------------
FreshWriter ==
  [buf |-> [i \in 1 .. Capacity |-> 0], offset |-> 0, packing |-> FALSE, bit |-> 0,
   thrown |-> FALSE]

Throw(w) == [w EXCEPT !.thrown = TRUE]

\* What does not fit into the buffer is left out.
Overlay(buf, at, octets) ==
  IF at >= Len(buf) THEN buf
  ELSE SubSeq(SubSeq(buf, 1, at) \o octets \o SubSeq(buf, at + Len(octets) + 1, Len(buf)),
              1, Len(buf))

\* buf.writeUInt8() and the like: they throw at the end of the buffer.
Put(w, octets) ==
  IF w.offset + Len(octets) > Capacity THEN Throw(w)
  ELSE [w EXCEPT !.buf = Overlay(@, w.offset, octets), !.offset = @ + Len(octets),
                 !.packing = FALSE, !.bit = 0]

\* Value n fits into size octets.
Unsigned(n, size) == ~n.neg /\ \A i \in 1 .. 8 - size : n.octets[i] = 0

Signed(n, size) ==
  LET top == n.octets[9 - size] >= 128
  IN  \A i \in 1 .. 8 - size : n.octets[i] = IF top THEN 255 ELSE 0

Fits(n, type) == IF type.signed THEN Signed(n, type.size) ELSE Unsigned(n, type.size)

PutInteger(w, n, type) ==
  IF Fits(n, type) THEN Put(w, SubSeq(n.octets, 9 - type.size, 8)) ELSE Throw(w)

WriteUInt(w, n, size) == Put(w, SubSeq(OctetsOf(n), 9 - size, 8))

\* Mutant: every bit takes an octet of its own.
BitPerOctet(w, b) == Put(w, <<IF b THEN 1 ELSE 0>>)

WritePackedBit(w, b) ==
  LET bit == IF b THEN 1 ELSE 0
  IN  IF w.packing
      THEN [w EXCEPT
              !.buf = IF w.bit > 7 \/ w.offset > Capacity THEN @
                      ELSE Overlay(@, w.offset - 1, <<@[w.offset] + bit * 2 ^ w.bit>>),
              !.offset = IF w.bit > 7 THEN @ + 1 ELSE @,
              !.bit = @ + 1]
      ELSE [w EXCEPT !.buf = Overlay(@, w.offset, <<bit>>), !.offset = @ + 1,
                     !.packing = TRUE, !.bit = 1]

\* Mutant: the length announced is that of the octets.
AnnounceOctets(s) == Len(Utf8(s))

\* writeUInt8(str.length), writeUInt32BE(str.length)
Announced(s) == Units(s)

\* The characters of s that fit into room octets.
Fitting(s, room) ==
  LET n == CHOOSE n \in 0 .. Len(s) :
             /\ Len(Utf8(SubSeq(s, 1, n))) <= room
             /\ n = Len(s) \/ Len(Utf8(SubSeq(s, 1, n + 1))) > room
  IN  SubSeq(s, 1, n)

\* writeShortString (size 1), writeLongString (size 4): the octets are written, and
\* the offset moves by the length of the string.
WriteString(w, s, size) ==
  IF size = 1 /\ Units(s) > MaxShort THEN Throw(w)
  ELSE LET p == WriteUInt(w, Announced(s), size)
       IN  IF p.thrown THEN p
           ELSE [p EXCEPT
                   !.buf = Overlay(@, p.offset, Utf8(Fitting(s, Capacity - p.offset))),
                   !.offset = @ + Units(s)]

\* Mutant: the sign of a number is not looked at.
TagUnsigned(x) ==
  CASE x.t = "number" -> IF x.v.neg \/ Unsigned(x.v, 2) THEN "u" ELSE "i"
    [] x.t = "string" -> "S" [] x.t = "bigint" -> "l" [] x.t = "boolean" -> "t"
    [] x.t = "date" -> "T" [] x.t = "array" -> "A" [] x.t = "object" -> "F"
    [] x.t = "other" -> "skip" [] OTHER -> "throw"

\* _getTemplate: the tag of a table's value.  null is asked for its prototype before
\* it is looked for; a number may have no tag.
Tag(x) ==
  CASE x.t = "number" -> IF x.v.neg THEN "I"
                         ELSE IF Unsigned(x.v, 2) /\ x.v.octets # OctetsOf(65535) THEN "u"
                         ELSE IF Unsigned(x.v, 4) /\ \E i \in 5 .. 8 : x.v.octets[i] < 255
                         THEN "i" ELSE "none"
    [] x.t = "string" -> "S" [] x.t = "bigint" -> "l" [] x.t = "boolean" -> "t"
    [] x.t = "date" -> "T" [] x.t = "array" -> "A" [] x.t = "object" -> "F"
    [] x.t = "other" -> "skip" [] OTHER -> "throw"

Kept(table) == SelectSeq(table, LAMBDA e : Tag(e[2]) # "skip")

RECURSIVE TableSize(_)
\* getFieldTableSize, getDatumSize of what has a tag
TableSize(table) ==
  LET DatumSize(x) ==
        CASE Tag(x) = "t" -> 1 [] Tag(x) = "u" -> 2 [] Tag(x) \in {"i", "I"} -> 4
          [] Tag(x) \in {"l", "T"} -> 8 [] Tag(x) = "S" -> Units(x.v) + 4
          [] Tag(x) = "A" -> 4 [] Tag(x) = "F" -> TableSize(x.v) + 4
          [] OTHER -> 0
  IN  FoldLeft(LAMBDA n, e : n + 2 + Units(e[1]) + DatumSize(e[2]), 0, Kept(table))

RECURSIVE WriteField(_, _, _)
\* writeFieldValue without its tag.  No template and no table has one of the tags
\* b, B, U, L, f, d and x to write.
WriteField(w, tag, x) ==
  LET WriteEntry(u, e) ==
        LET k == WriteString(u, e[1], 1)
        IN  IF u.thrown \/ k.thrown THEN Throw(u)
            ELSE IF Tag(e[2]) = "none" THEN Throw(u)
            ELSE WriteField([k EXCEPT !.buf = Overlay(@, k.offset, <<TagOctet[Tag(e[2])]>>),
                                      !.offset = @ + 1], Tag(e[2]), e[2])
  IN  CASE tag = "P" -> WritePackedBit(w, x.v)
        [] tag = "t" -> WriteUInt(w, IF x.v THEN 1 ELSE 0, 1)
        [] tag \in DOMAIN IntegerTags -> PutInteger(w, x.v, IntegerTags[tag])
        [] tag = "s" -> WriteString(w, x.v, 1)
        [] tag = "S" -> WriteString(w, x.v, 4)
        [] tag = "A" -> IF x.v = <<>> THEN WriteUInt(w, 0, 4) ELSE Throw(w)
        [] tag = "F" ->
             IF \E i \in 1 .. Len(x.v) : Tag(x.v[i][2]) = "throw" THEN Throw(w)
             ELSE FoldLeft(WriteEntry, WriteUInt(w, TableSize(x.v), 4), Kept(x.v))
        [] OTHER -> Throw(w)

LesserOf(m, n) == IF m < n THEN m ELSE n

\* slice()
Written(w) == SubSeq(w.buf, 1, LesserOf(w.offset, Capacity))
=============================================================================
