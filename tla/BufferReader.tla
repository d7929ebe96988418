---------------------------- MODULE BufferReader ----------------------------
(***************************************************************************)
(* utils/BufferReader.ts: values read out of a buffer of octets.           *)
(*                                                                         *)
(* A reader that has read a value holds it in v.  A text is read as its    *)
(* octets, a table as the sequence of its keys and values.                 *)
(***************************************************************************)
EXTENDS Integers, Sequences, SequencesExt, Protocol

Reader(buf) ==
  [buf |-> buf, offset |-> 0, packing |-> FALSE, bit |-> 0, thrown |-> FALSE,
   v |-> [t |-> "undefined"]]

Value(r, kind, v) == [r EXCEPT !.v = [t |-> kind, v |-> v]]

\* size octets behind the offset, as readUInt8() and the like take them: they throw
\* at the end of the buffer.
Take(r, size) ==
  IF r.offset + size > Len(r.buf) THEN [r EXCEPT !.thrown = TRUE, !.v = [t |-> "none"]]
  ELSE [r EXCEPT !.offset = @ + size, !.packing = FALSE, !.bit = 0,
                 !.v = [t |-> "octets", v |-> SubSeq(r.buf, r.offset + 1, r.offset + size)]]

\* A sign is carried on by the signed reads.
SignOf(octets, signed) == IF signed /\ octets[1] >= 128 THEN 255 ELSE 0

\* The seconds of the latest Date; beyond that it is an Invalid Date, which has no value.
LatestDate == <<0, 0, 7, 219, 168, 33, 128, 0>>
BeyondDate(octets) ==
  \E i \in 1 .. 8 : octets[i] > LatestDate[i] /\ \A j \in 1 .. i - 1 : octets[j] = LatestDate[j]
InvalidDate == [neg |-> FALSE, whole |-> FALSE, octets |-> <<>>]

ReadInteger(r, size, kind, signed) ==
  LET p == Take(r, size)
  IN  IF p.thrown THEN p
      ELSE IF kind = "date" /\ BeyondDate(p.v.v) THEN Value(p, kind, InvalidDate)
      ELSE LET fill == SignOf(p.v.v, signed)
           IN  Value(p, kind, [neg |-> fill = 255, whole |-> TRUE,
                               octets |-> [i \in 1 .. 8 - size |-> fill] \o p.v.v])

\* The length in front of a text, table or array; four octets at most, and never as
\* much as the largest integer.
LengthOf(octets) == FoldLeft(LAMBDA n, o : n * 256 + o, 0, octets)

\* readPackedBool: it does not look for the end of the buffer.
ReadPackedBool(r) ==
  LET at == IF r.packing THEN r.offset ELSE r.offset + 1
      octet == IF at > Len(r.buf) THEN 0 ELSE r.buf[at]
  IN  [r EXCEPT !.packing = TRUE, !.offset = at, !.bit = @ + 1,
                !.v = [t |-> "boolean", v |-> (octet \div 2 ^ r.bit) % 2 = 1]]

\* buf.slice(offset, offset + len), which ends with the buffer
Slice(r, len) ==
  SubSeq(r.buf, r.offset + 1,
         IF r.offset + len < Len(r.buf) THEN r.offset + len ELSE Len(r.buf))

ReadString(r, size) ==
  LET p == Take(r, size)
  IN  IF p.thrown THEN p
      ELSE LET len == LengthOf(p.v.v)
           IN  [Value(p, "string", Slice(p, len)) EXCEPT !.offset = @ + len]

\* Mutant: an empty slice does end the field, but moves one octet on.
MovesOn(r, len) ==
  [Value(r, "bytes", Slice(r, len)) EXCEPT !.offset = @ + (IF len = 0 THEN 1 ELSE len)]

\* slice(len): no length is taken for the rest of the buffer, and the offset stays.
SliceOff(r, len) ==
  IF len = 0 THEN Value(r, "bytes", SubSeq(r.buf, r.offset + 1, Len(r.buf)))
  ELSE [Value(r, "bytes", Slice(r, len)) EXCEPT !.offset = @ + len]

RECURSIVE ReadField(_, _), ReadEntries(_, _, _, _)

\* readTaggedFieldValue: beyond the end there is no tag.
ReadTagged(r) ==
  LET octet == IF r.offset < Len(r.buf) THEN r.buf[r.offset + 1] ELSE 0
      tags == {tag \in DOMAIN TagOctet : TagOctet[tag] = octet}
  IN  ReadField([r EXCEPT !.offset = @ + 1],
                IF tags = {} THEN "none" ELSE CHOOSE tag \in tags : TRUE)

\* table[key] = value: a key that comes again keeps its place.
Assigned(table, key, x) ==
  IF \E i \in 1 .. Len(table) : table[i][1] = key
  THEN [i \in 1 .. Len(table) |-> IF table[i][1] = key THEN <<key, x>> ELSE table[i]]
  ELSE Append(table, <<key, x>>)

\* The loops of readFieldTable and readFieldArray, up to offset end.
ReadEntries(r, end, keyed, got) ==
  IF r.thrown THEN r
  ELSE IF r.offset >= end THEN Value(r, IF keyed THEN "object" ELSE "array", got)
  ELSE LET k == IF keyed THEN ReadString(r, 1) ELSE r
           p == ReadTagged(k)
       IN  IF k.thrown THEN k
           ELSE ReadEntries(p, end, keyed,
                            IF keyed THEN Assigned(got, k.v.v, p.v) ELSE Append(got, p.v))

ReadCollection(r, keyed) ==
  LET p == Take(r, 4)
  IN  IF p.thrown THEN p
      ELSE ReadEntries(p, p.offset + LengthOf(p.v.v), keyed, <<>>)

\* readFieldValue: a decimal has a tag that it does not know.
ReadField(r, tag) ==
  CASE tag = "P" -> ReadPackedBool(r)
    [] tag = "t" -> LET p == Take(r, 1)
                    IN  IF p.thrown THEN p ELSE Value(p, "boolean", p.v.v # <<0>>)
    [] tag \in DOMAIN IntegerTags ->
         ReadInteger(r, IntegerTags[tag].size, IntegerTags[tag].kind, IntegerTags[tag].signed)
    [] tag = "f" -> Take(r, 4)
    [] tag = "d" -> Take(r, 8)
    [] tag = "s" -> ReadString(r, 1)
    [] tag = "S" -> ReadString(r, 4)
    [] tag = "F" -> ReadCollection(r, TRUE)
    [] tag = "A" -> ReadCollection(r, FALSE)
    [] tag = "V" -> [r EXCEPT !.v = [t |-> "null"]]
    [] tag = "x" -> LET p == Take(r, 4)
                    IN  IF p.thrown THEN p ELSE SliceOff(p, LengthOf(p.v.v))
    [] OTHER -> [r EXCEPT !.thrown = TRUE]
=============================================================================
