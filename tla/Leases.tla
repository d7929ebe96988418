------------------------------- MODULE Leases -------------------------------
(***************************************************************************)
(* What a pool promises, whatever happens to the connection: who asks for  *)
(* a resource gets one that nobody else has, and nobody is served before   *)
(* those who have asked earlier.                                           *)
(***************************************************************************)
EXTENDS Naturals

CONSTANTS
  Requests,   \* naturals: of two that wait, the lesser has asked first
  Resources, None

VARIABLES
  asking,     \* the requests that wait
  lease       \* the resource that each request has now, or None

vars == <<asking, lease>>

Init == asking = {} /\ lease = [r \in Requests |-> None]

\* The oldest of those who wait, as many as may be, get a free resource each, no two
\* the same.
Serve(waiting, before) ==
  \E served \in SUBSET waiting :
    /\ \A r \in served, s \in waiting \ served : r < s
    /\ \E got \in [served -> Resources] :
         /\ \A r, s \in served : got[r] = got[s] => r = s
         /\ \A r \in served, s \in Requests \ served : got[r] # before[s]
         /\ asking' = waiting \ served
         /\ lease' = [r \in Requests |-> IF r \in served THEN got[r] ELSE before[r]]

\* A new request comes after all that wait.
Ask(r) ==
  /\ \A s \in asking : s < r
  /\ lease[r] = None
  /\ Serve(asking \union {r}, lease)

\* Who gives his resource back makes room for others.
GiveBack(r) ==
  /\ lease[r] # None
  /\ Serve(asking, [lease EXCEPT ![r] = None])

\* Resources come from elsewhere.
Refill == Serve(asking, lease)

\* All who wait are sent away.
SendAway == asking' = {} /\ UNCHANGED lease

Next == Refill \/ SendAway \/ \E r \in Requests : Ask(r) \/ GiveBack(r)

Spec == Init /\ [][Next]_vars
=============================================================================
