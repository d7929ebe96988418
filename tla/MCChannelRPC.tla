---------------------------- MODULE MCChannelRPC ----------------------------
(* ChannelRPC with three calls of the application.                         *)
EXTENDS ChannelRPC

CONSTANTS o1, o2, o3

MCOps == {o1, o2, o3}

MCClassOfMethod ==
  [m \in {"open", "close", "flow", "declare", "get"} |->
     CASE m = "declare" -> "queue" [] m = "get" -> "basic" [] OTHER -> "channel"]

\* Two calls with the same method, and one of the class of open and close.
MCFlowAndGets == [o \in MCOps |-> IF o = o1 THEN "flow" ELSE "get"]

MCNone == {}
\* A get among them that finds its queue empty.
MCEmpty == {o2}
=============================================================================
