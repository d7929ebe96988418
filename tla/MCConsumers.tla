---------------------------- MODULE MCConsumers -----------------------------
(* Consumers with model values for the consumers and the tags.             *)
EXTENDS Consumers

CONSTANTS s1, s2, t1, t2

MCSubs == {s1, s2}
MCTags == {t1, t2}
=============================================================================
