-------------------------- MODULE MCCommandWriter --------------------------
(* CommandWriter with two channels, of which one publishes messages.       *)
EXTENDS CommandWriter, TLC

CONSTANTS ch1, ch2, publish1, publish2, declare, oversized

MCChannels == {ch1, ch2}

MCProgram == (ch1 :> <<publish1, publish2>>) @@ (ch2 :> <<declare, oversized>>)
\* Octets: publish1 and publish2 have a method, a header and two or one body frames.
MCCommands == {publish1, publish2, declare, oversized}
MCMethodSize == [c \in MCCommands |-> IF c = oversized THEN 40 ELSE 12]
MCHeaderSize == [c \in MCCommands |-> IF c \in {publish1, publish2} THEN 14 ELSE 0]
MCBodySize == (publish1 :> 25) @@ (publish2 :> 20) @@ [c \in MCCommands |-> 0]

MCPublishing == (ch1 :> <<publish1, publish2>>) @@ (ch2 :> <<>>)
=============================================================================
