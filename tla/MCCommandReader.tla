-------------------------- MODULE MCCommandReader ---------------------------
(* CommandReader with two channels and three commands.                     *)
EXTENDS CommandReader

MCChannels == {1, 2}

\* A delivery of two body frames; an empty delivery and a reply without content.
MCScript ==
  <<<<[content |-> TRUE, body |-> <<1, 2>>]>>,
    <<[content |-> TRUE, body |-> <<>>], [content |-> FALSE, body |-> <<>>]>>>>
=============================================================================
