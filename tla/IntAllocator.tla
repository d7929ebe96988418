---------------------------- MODULE IntAllocator ----------------------------
(***************************************************************************)
(* utils/IntAllocator.ts: the allocator of channel numbers.  It keeps a    *)
(* bit set of the FREE integers of the inclusive range loRange .. top (bit *)
(* i stands for the integer i + loRange) and the index of the bit it       *)
(* handed out last, where the next search starts.                          *)
(*                                                                         *)
(* The module has no behaviour of its own: its operators are the actions   *)
(* and tests that ChannelManager composes.                                 *)
(***************************************************************************)
EXTENDS Integers

CONSTANTS loRange, top

VARIABLES freeSet, lastIndex

numberOfBits == top + 1 - loRange

\* The constructor: all integers are free.
AllocatorInit ==
  /\ freeSet = 0 .. numberOfBits - 1
  /\ lastIndex = 0

\* i is what BitSet.nextSetBit(pos) returns when it does not return -1.
IsNextSetBit(pos, i) ==
  /\ i \in freeSet
  /\ i >= pos
  /\ \A j \in freeSet : j >= pos => i <= j

\* allocate() returns -1: neither the trailing part nor the whole set has a bit.
Exhausted == freeSet = {}

\* allocate() returns n: the first free bit from lastIndex on, else from 0 on.
Allocate(n) ==
  \E i \in freeSet :
    /\ \/ IsNextSetBit(lastIndex, i)
       \/ /\ \A j \in freeSet : j < lastIndex
          /\ IsNextSetBit(0, i)
    /\ n = i + loRange
    /\ freeSet' = freeSet \ {i}
    /\ lastIndex' = i

\* Mutant: the number itself is taken for its bit.
FreeUnshifted(n) ==
  /\ freeSet' = freeSet \union {n}
  /\ UNCHANGED lastIndex

\* free(n)
Free(n) ==
  /\ freeSet' = freeSet \union {n - loRange}
  /\ UNCHANGED lastIndex

\* What reserve(n) returns.  It changes nothing, whatever it returns.
Reserve(n) == n - loRange \notin freeSet
=============================================================================
