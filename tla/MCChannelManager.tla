-------------------------- MODULE MCChannelManager --------------------------
(* ChannelManager with a few channel objects and two or three numbers.     *)
EXTENDS ChannelManager, TLC

CONSTANTS c1, c2, c3, c4

MCChans == {c1, c2, c3, c4}
MCSymmetry == Permutations(MCChans)

\* One number of the allocator's range and one beyond it.
MCExplicit == {2, 4}
=============================================================================
