---------------------------- MODULE FrameDecoder ----------------------------
(***************************************************************************)
(* utils/FrameDecoder.ts: frames out of chunks that are cut anywhere.      *)
(*                                                                         *)
(* A byte is [frame, at]: the frame it belongs to and its place in it, so  *)
(* that a decoder that loses its place is seen to read garbage.  extract() *)
(* is a generator: each action is one of its (recursive) calls, up to the  *)
(* next yield.  The module's operators are composed by CommandReader.      *)
(***************************************************************************)
EXTENDS Naturals, Sequences

CONSTANT None       \* "undefined"; as a chunk: the generator has finished

VARIABLES
  writer,           \* the BufferWriter: the length of its buffer, the bytes in it
  chunk             \* the argument of the current extract()

DecoderInit == writer = None /\ chunk = None

\* payload_size + 8: seven octets of header, the payload, the frame-end octet.
FrameLength(f) == f.size + 8

BytesOf(f) == [i \in 1 .. f.size + 8 |-> [frame |-> f, at |-> i - 1]]

\* The frame that the header at the front of the bytes announces.
Announced(bytes) == bytes[1].frame

\* The header is no header, or what readFrame() gets is not that frame.
Garbage(bytes) ==
  \/ \E i \in 1 .. 7 : bytes[i] # [frame |-> Announced(bytes), at |-> i - 1]
  \/ Len(bytes) >= FrameLength(Announced(bytes)) /\
       SubSeq(bytes, 1, FrameLength(Announced(bytes))) # BytesOf(Announced(bytes))

Fresh == chunk # None /\ writer = None
Joining == chunk # None /\ writer # None /\ writer.length < 7
Filling == chunk # None /\ writer # None /\ writer.length >= 7

\* The bytes the writer will have after copyFrom(chunk), and how many that takes.
Copied ==
  LET room == writer.length - Len(writer.bytes)
  IN  IF Len(chunk) < room THEN Len(chunk) ELSE room
Filled == writer.bytes \o SubSeq(chunk, 1, Copied)

\* The frame that the next yield gives.
Yielded == Announced(IF writer = None THEN chunk ELSE Filled)

\* Less than a frame header.
KeepShort ==
  /\ Fresh /\ Len(chunk) < 7
  /\ writer' = [length |-> Len(chunk), bytes |-> chunk]
  /\ chunk' = None

\* Less than a frame.
KeepPart ==
  /\ Fresh /\ Len(chunk) >= 7 /\ ~Garbage(chunk)
  /\ Len(chunk) < FrameLength(Announced(chunk))
  /\ writer' = [length |-> FrameLength(Announced(chunk)), bytes |-> chunk]
  /\ chunk' = None

\* A frame, and what comes behind it is extracted next.
YieldWhole ==
  /\ Fresh /\ Len(chunk) >= 7 /\ ~Garbage(chunk)
  /\ Len(chunk) >= FrameLength(Yielded)
  /\ chunk' = SubSeq(chunk, FrameLength(Yielded) + 1, Len(chunk))
  /\ UNCHANGED writer

\* The chunk is put behind the few bytes of the last one.
Join ==
  /\ Joining
  /\ chunk' = writer.bytes \o chunk
  /\ writer' = None

Fill ==
  /\ Filling /\ Len(Filled) < writer.length
  /\ writer' = [writer EXCEPT !.bytes = Filled]
  /\ chunk' = None

\* Mutant: the rest of the chunk is forgotten.
Nothing(n) == None

\* chunk.slice(bytes_read)
Rest(n) == SubSeq(chunk, n + 1, Len(chunk))

\* The frame in the writer is complete.
YieldFilled ==
  /\ Filling /\ Len(Filled) = writer.length /\ ~Garbage(Filled)
  /\ chunk' = Rest(Copied)
  /\ writer' = None

Extract == KeepShort \/ KeepPart \/ Join \/ Fill

\* What the decoder is about to parse is not a frame.
Misread ==
  \/ Fresh /\ Len(chunk) >= 7 /\ Garbage(chunk)
  \/ Filling /\ Len(Filled) = writer.length /\ Garbage(Filled)
=============================================================================
