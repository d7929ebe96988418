---------------------------- MODULE ChannelPool -----------------------------
(***************************************************************************)
(* classes/ChannelPool.ts: a pool of channels over one connection.         *)
(*                                                                         *)
(* One action is one turn of the event loop, from the event that wakes it  *)
(* to the next await: open() and the replacement of a closed channel await *)
(* openChannel() (with a prefetch count, conn.channel() and then           *)
(* basicQos()), close() awaits the acquisitions and then each close().     *)
(* The channels themselves only open, close or are closed by the server.   *)
(***************************************************************************)
EXTENDS Integers, Sequences, FiniteSets

CONSTANTS
  MaxChannels,    \* the channel objects that conn.channel() may return
  MaxLimited,     \* as many of them when there is a prefetch count
  MaxRequests,    \* calls of acquire(), each released at most once
  MaxFaulty,      \* as many of them when there are failures
  Size            \* the size of the pool

ASSUME ChannelPoolAssumption ==
  {MaxChannels, MaxLimited, MaxRequests, MaxFaulty, Size} \subseteq Nat \ {0}

\* Both are named in the order in which they come.
Chans == 1 .. MaxChannels
Requests == 1 .. MaxRequests
NoChan == 0

VARIABLES
  prefetch,       \* the pool has a prefetch count
  healthy,        \* no channel is closed or refused by the server, the connection does
                  \* not fail, no function run on a channel rejects, and close() does
                  \* not come while channels are opened or a dispatch is scheduled
  queue,          \* _queue, of requests
  pool,           \* _pool, of channels
  acquisition,    \* _acquisitions: no entry, or what its promise is.  The entries
                  \* of _releaseResolvers are set and deleted with it
  isOpen,         \* _isOpen
  conn,           \* the connection is "starting", "open" or "over"
  listening,      \* the handlers of the connection's events that are installed
  opener,         \* open() is not called, "waiting" for the connection, or "begun"
  life,           \* of each channel object
  toOpen,         \* iterations of the loop of open() that are left
  fresh,          \* the channel that open() awaits
  replacing,      \* the suspended onChannelClose: [idx, channel]
  dispatches,     \* dispatchChannels() in the immediates queue
  req, grant,     \* what each request is told
  closer,         \* how far close() is
  awaited,        \* the acquisitions that close() still awaits
  cursor          \* the index of the loop of close()

outer == <<conn, listening, opener>>
state == <<queue, pool, acquisition, isOpen, outer, life, toOpen, fresh, replacing,
           dispatches, req, grant, closer, awaited, cursor>>
vars == <<prefetch, healthy, state>>

-----------------------------------------------------------------------------
Init ==
  /\ prefetch \in BOOLEAN /\ healthy \in BOOLEAN
  /\ queue = <<>> /\ pool = <<>>
  /\ acquisition = [ch \in Chans |-> "none"]
  /\ isOpen = FALSE
  /\ conn \in {"starting", "open"} /\ listening = {"closing", "failed"} /\ opener = "none"
  /\ life = [ch \in Chans |-> "unborn"]
  /\ toOpen = Size /\ fresh = NoChan
  /\ replacing = {}
  /\ dispatches = 0
  /\ req = [r \in Requests |-> "idle"]
  /\ grant = [r \in Requests |-> NoChan]
  /\ closer = "none" /\ awaited = {} /\ cursor = 0

LesserOf(m, n) == IF m < n THEN m ELSE n

\* What is there for conn.channel() and acquire() next.
NextChan(ch) ==
  /\ {other \in Chans : life[other] = "unborn" /\ other <= ch} = {ch}
  /\ prefetch => ch <= MaxLimited
NextRequest(r) == {other \in Requests : req[other] = "idle" /\ other <= r} = {r}

\* a.indexOf(x)
IndexOf(a, x) ==
  IF \E i \in 1 .. Len(a) : a[i] = x
  THEN (CHOOSE i \in 1 .. Len(a) : a[i] = x /\ \A j \in 1 .. i - 1 : a[j] # x) - 1
  ELSE -1

\* a.splice(idx, 1, ...items): a negative index counts from the end.
Splice(a, idx, items) ==
  LET start == IF idx >= 0 THEN LesserOf(idx, Len(a))
               ELSE IF Len(a) + idx < 0 THEN 0 ELSE Len(a) + idx
  IN  SubSeq(a, 1, start) \o items \o SubSeq(a, start + 2, Len(a))

\* Mutant: the channels stay in the pool.
DispatchKeeps(q, p, a, rq) ==
  LET n == LesserOf(Len(q), Len(p))
      Served(r) == {i \in 1 .. n : q[i] = r /\ rq[r] = "waiting"}
  IN  /\ queue' = SubSeq(q, n + 1, Len(q))
      /\ pool' = p
      /\ acquisition' = a
      /\ req' = [r \in Requests |-> IF Served(r) # {} THEN "held" ELSE rq[r]]
      /\ grant' = [r \in Requests |->
                     IF Served(r) # {} THEN p[CHOOSE i \in Served(r) : TRUE]
                     ELSE grant[r]]

\* dispatchChannels(), when _queue is q, _pool is p and _acquisitions is a: the
\* oldest requests take the first channels.  A request that was rejected takes
\* one too, and is not told.
Dispatch(q, p, a, rq) ==
  LET n == LesserOf(Len(q), Len(p))
      Served(r) == {i \in 1 .. n : q[i] = r /\ rq[r] = "waiting"}
  IN  /\ queue' = SubSeq(q, n + 1, Len(q))
      /\ pool' = SubSeq(p, n + 1, Len(p))
      /\ acquisition' = [ch \in Chans |->
                           IF \E i \in 1 .. n : p[i] = ch THEN "pending" ELSE a[ch]]
      /\ req' = [r \in Requests |-> IF Served(r) # {} THEN "held" ELSE rq[r]]
      /\ grant' = [r \in Requests |->
                     IF Served(r) # {} THEN p[CHOOSE i \in Served(r) : TRUE]
                     ELSE grant[r]]

-----------------------------------------------------------------------------
\* open() goes on once the connection is open, up to its first openChannel().
Begin ==
  /\ opener' = "begun"
  /\ isOpen' = TRUE
  /\ \E ch \in Chans :
       /\ NextChan(ch)
       /\ life' = [life EXCEPT ![ch] = "opening"]
       /\ fresh' = ch
  /\ toOpen' = toOpen - 1

\* open(), once.
Open ==
  /\ opener = "none"
  /\ \/ conn = "open" /\ Begin
     \/ conn # "open" /\ opener' = "waiting" /\ UNCHANGED <<isOpen, life, fresh, toOpen>>
  /\ UNCHANGED <<queue, pool, acquisition, conn, listening, replacing, dispatches, req, grant,
                 closer, awaited, cursor>>

\* The connection emits 'open'.
ConnectionOpens ==
  /\ conn = "starting"
  /\ conn' = "open"
  /\ \/ opener = "waiting" /\ Begin
     \/ opener # "waiting" /\ UNCHANGED <<opener, isOpen, life, fresh, toOpen>>
  /\ UNCHANGED <<queue, pool, acquisition, listening, replacing, dispatches, req, grant,
                 closer, awaited, cursor>>

\* openChannel(): conn.channel() returns, and with a prefetch count basicQos() is called.
Limit(ch) ==
  /\ prefetch /\ life[ch] = "opening"
  /\ life' = [life EXCEPT ![ch] = "limiting"]
  /\ UNCHANGED <<queue, pool, acquisition, isOpen, outer, toOpen, fresh, replacing, dispatches,
                 req, grant, closer, awaited, cursor>>

\* openChannel() is about to return the channel ...
Ready(ch) == life[ch] = IF prefetch THEN "limiting" ELSE "opening"

\* ... or to reject: conn.channel() fails, or basicQos(), when the server closes the channel
\* or does not answer in time.  In this case the pool still hears when the channel closes.
Lost(ch) == [life EXCEPT ![ch] = IF life[ch] = "limiting" THEN "adrift" ELSE "closed"]

\* Mutant: no dispatch.
NoDispatch == UNCHANGED dispatches

\* i < this._size; setImmediate(() => this.dispatchChannels()); this._pool.push(ch)
MoreToOpen == toOpen > 0
ScheduleDispatch == dispatches' = dispatches + 1
Pushed(ch) == Append(pool, ch)

\* openChannel() has a channel for open(): a dispatch is scheduled, the channel
\* joins the pool, and the loop asks for the next one.
Opened ==
  /\ fresh # NoChan /\ Ready(fresh)
  /\ pool' = Pushed(fresh)
  /\ ScheduleDispatch
  /\ \/ /\ ~MoreToOpen
        /\ life' = [life EXCEPT ![fresh] = "open"]
        /\ fresh' = NoChan
        /\ UNCHANGED toOpen
     \/ /\ MoreToOpen
        /\ \E ch \in Chans :
             /\ NextChan(ch)
             /\ life' = [life EXCEPT ![fresh] = "open", ![ch] = "opening"]
             /\ fresh' = ch
        /\ toOpen' = toOpen - 1
  /\ UNCHANGED <<queue, acquisition, isOpen, outer, replacing, req, grant, closer,
                 awaited, cursor>>

\* Mutant: open() may be called again, with what it had opened still in the pool.
OpenMayRetry ==
  /\ ~healthy
  /\ fresh # NoChan
  /\ life' = Lost(fresh)
  /\ fresh' = NoChan
  /\ toOpen' = Size
  /\ isOpen' = FALSE
  /\ opener' = "none"
  /\ UNCHANGED <<queue, pool, acquisition, conn, listening, replacing, dispatches, req, grant,
                 closer, awaited, cursor>>

\* openChannel() rejects, and open() with it: the pool stays open, and smaller.
OpenFails ==
  /\ ~healthy
  /\ fresh # NoChan
  /\ life' = Lost(fresh)
  /\ fresh' = NoChan
  /\ toOpen' = 0
  /\ UNCHANGED <<queue, pool, acquisition, isOpen, outer, replacing, dispatches, req,
                 grant, closer, awaited, cursor>>

\* The immediate of openChannel().
RunDispatch ==
  /\ dispatches > 0
  /\ dispatches' = dispatches - 1
  /\ Dispatch(queue, pool, acquisition, req)
  /\ UNCHANGED <<isOpen, outer, life, toOpen, fresh, replacing, closer, awaited,
                 cursor>>

\* Mutant: the latest request is the first.
QueuedFirst(r) == <<r>> \o queue
Queued(r) == Append(queue, r)

\* acquire() throws unless the pool is open.
Acquire(r) ==
  /\ isOpen
  /\ NextRequest(r) /\ (healthy \/ r <= MaxFaulty)
  /\ LET waiting == [req EXCEPT ![r] = "waiting"]
     IN  \/ pool # <<>> /\ Dispatch(Queued(r), pool, acquisition, waiting)
         \/ /\ pool = <<>>
            /\ queue' = Queued(r)
            /\ req' = waiting
            /\ UNCHANGED <<pool, acquisition, grant>>
  /\ UNCHANGED <<isOpen, outer, life, toOpen, fresh, replacing, dispatches, closer,
                 awaited, cursor>>

\* Mutant: the promise that close() awaits is not resolved.
Unresolved(ch) == UNCHANGED awaited

\* releaseResolver(); this.dispatchChannels()
Resolve(ch) == awaited' = awaited \ {ch}

Redispatch(p, a, rq) == Dispatch(queue, p, a, rq)

\* release(): the channel goes back first.  If onChannelClose has deleted its
\* resolver, the call of undefined throws and nothing more is done.
Release(r) ==
  /\ req[r] = "held"
  /\ LET ch == grant[r]
         back == Append(pool, ch)
         done == [req EXCEPT ![r] = "done"]
     IN  \/ /\ acquisition[ch] = "none"
            /\ pool' = back
            /\ req' = done
            /\ UNCHANGED <<queue, acquisition, grant, awaited>>
         \/ /\ acquisition[ch] # "none"
            /\ Resolve(ch)
            /\ Redispatch(back, [acquisition EXCEPT ![ch] = "resolved"], done)
  /\ UNCHANGED <<isOpen, outer, life, toOpen, fresh, replacing, dispatches, closer,
                 cursor>>

\* acquireAndRun(): fn rejects, and release() is never called.
RunRejects(r) ==
  /\ ~healthy
  /\ req[r] = "held"
  /\ req' = [req EXCEPT ![r] = "abandoned"]
  /\ UNCHANGED <<queue, pool, acquisition, isOpen, outer, life, toOpen, fresh,
                 replacing, dispatches, grant, closer, awaited, cursor>>

-----------------------------------------------------------------------------
\* onChannelClose(ch), up to its await: the index is taken now, -1 if ch is not
\* in the pool, and used after the replacement is there.
OnChannelClose(ch) ==
  /\ acquisition' = [acquisition EXCEPT ![ch] = "none"]
  /\ \/ /\ isOpen
        /\ \E new \in Chans :
             /\ NextChan(new)
             /\ life' = [life EXCEPT ![ch] = "closed", ![new] = "opening"]
             /\ replacing' = replacing \union
                               {[idx |-> IndexOf(pool, ch), channel |-> new]}
        /\ UNCHANGED pool
     \/ /\ ~isOpen
        /\ life' = [life EXCEPT ![ch] = "closed"]
        /\ pool' = Splice(pool, IndexOf(pool, ch), <<>>)
        /\ UNCHANGED replacing

\* A channel is closed, by the server (perhaps while the pool closes it) or by whoever
\* holds it.
ChannelCloses(ch) ==
  /\ ~healthy
  /\ life[ch] \in {"open", "adrift", "closing"}
  /\ OnChannelClose(ch)
  /\ UNCHANGED <<queue, isOpen, outer, toOpen, fresh, dispatches, req, grant, closer,
                 awaited, cursor>>

\* onChannelClose goes on with the new channel.
Replace(s) ==
  /\ s \in replacing /\ Ready(s.channel)
  /\ replacing' = replacing \ {s}
  /\ life' = [life EXCEPT ![s.channel] = "open"]
  /\ ScheduleDispatch
  /\ pool' = Splice(pool, s.idx, <<s.channel>>)
  /\ UNCHANGED <<queue, acquisition, isOpen, outer, toOpen, fresh, req, grant, closer,
                 awaited, cursor>>

\* openChannel() rejects: an unhandled rejection, and the pool is left as it is.
ReplaceFails(s) ==
  /\ ~healthy
  /\ s \in replacing
  /\ replacing' = replacing \ {s}
  /\ life' = Lost(s.channel)
  /\ UNCHANGED <<queue, pool, acquisition, isOpen, outer, toOpen, fresh, dispatches,
                 req, grant, closer, awaited, cursor>>

\* softCleanUp, on the connection's 'closing': every acquisition is resolved.
SoftCleanUp ==
  /\ isOpen' = FALSE
  /\ acquisition' = [ch \in Chans |->
                       IF acquisition[ch] = "none" THEN "none" ELSE "resolved"]
  /\ awaited' = awaited \ {ch \in Chans : acquisition[ch] # "none"}

ConnectionClosing ==
  /\ ~healthy /\ conn = "open" /\ "closing" \in listening
  /\ conn' = "over"
  /\ SoftCleanUp
  /\ listening' = listening \ {"closing"}
  /\ UNCHANGED <<queue, pool, opener, life, toOpen, fresh, replacing, dispatches, req, grant,
                 closer, cursor>>

\* hardCleanUp, on 'connection:failed' (no connect succeeds, or the socket times out): the
\* requests are rejected where they are.
ConnectionFailed ==
  /\ ~healthy /\ "failed" \in listening
  /\ SoftCleanUp
  /\ listening' = listening \ {"failed"}
  /\ req' = [r \in Requests |-> IF req[r] = "waiting" THEN "rejected" ELSE req[r]]
  /\ UNCHANGED <<queue, pool, conn, opener, life, toOpen, fresh, replacing, dispatches, grant,
                 closer, cursor>>

-----------------------------------------------------------------------------
\* close(), up to its first await.
Close ==
  /\ opener = "begun" /\ closer = "none"
  /\ healthy => (fresh = NoChan /\ dispatches = 0)
  /\ closer' = "awaiting"
  /\ isOpen' = FALSE
  /\ listening' = {}
  /\ awaited' = {ch \in Chans : acquisition[ch] = "pending"}
  /\ UNCHANGED <<queue, pool, acquisition, conn, opener, life, toOpen, fresh, replacing,
                 dispatches, req, grant, cursor>>

\* One more turn of the loop over the live array: close the channel under the
\* cursor, or reject because it is not open, or end.
CloseLoop ==
  /\ \/ closer = "awaiting" /\ awaited = {}
     \/ closer = "next"
  /\ \/ /\ cursor < Len(pool)
        /\ \/ /\ life[pool[cursor + 1]] = "open"
              /\ closer' = "closing"
              /\ life' = [life EXCEPT ![pool[cursor + 1]] = "closing"]
           \/ /\ life[pool[cursor + 1]] # "open"
              /\ closer' = "failed"
              /\ UNCHANGED life
     \/ /\ cursor >= Len(pool)
        /\ closer' = "done"
        /\ UNCHANGED life
  /\ UNCHANGED <<queue, pool, acquisition, isOpen, outer, toOpen, fresh, replacing,
                 dispatches, req, grant, awaited, cursor>>

\* close() of the channel completes: its event is heard, then the loop goes on.
ChannelClosed(ch) ==
  /\ closer = "closing" /\ life[ch] = "closing"
  /\ OnChannelClose(ch)
  /\ closer' = "next"
  /\ cursor' = cursor + 1
  /\ UNCHANGED <<queue, isOpen, outer, toOpen, fresh, dispatches, req, grant, awaited>>

\* It rejects: the server has closed the channel too, or does not answer, or the connection
\* is gone.  So does close() of the pool, and the channel is left as it is.
ChannelCloseFails ==
  /\ ~healthy
  /\ closer = "closing"
  /\ closer' = "failed"
  /\ UNCHANGED <<queue, pool, acquisition, isOpen, outer, life, toOpen, fresh, replacing,
                 dispatches, req, grant, awaited, cursor>>

Next ==
  /\ \/ Open \/ ConnectionOpens \/ Opened \/ OpenFails
     \/ RunDispatch
     \/ \E r \in Requests : Acquire(r) \/ Release(r) \/ RunRejects(r)
     \/ \E ch \in Chans : Limit(ch) \/ ChannelCloses(ch) \/ ChannelClosed(ch)
     \/ \E s \in replacing : Replace(s) \/ ReplaceFails(s)
     \/ ConnectionClosing \/ ConnectionFailed
     \/ Close \/ CloseLoop \/ ChannelCloseFails
  /\ UNCHANGED <<prefetch, healthy>>

Spec == Init /\ [][Next]_vars

\* The event loop runs what is ready, the server answers, and who holds a channel releases
\* it.  What must happen is only said of pools without failures.
Fairness ==
  /\ WF_state(healthy /\ Opened)
  /\ WF_state(healthy /\ RunDispatch)
  /\ \A r \in Requests : WF_state(healthy /\ Release(r))
  /\ WF_state(healthy /\ \E s \in replacing : Replace(s))
  /\ WF_state(healthy /\ CloseLoop)
  /\ WF_state(healthy /\ \E ch \in Chans : Limit(ch) \/ ChannelClosed(ch))

FairSpec == Spec /\ Fairness

-----------------------------------------------------------------------------
Holds(r) == req[r] \in {"held", "abandoned"}

\* Whatever fails, a channel is handed to one request at a time, is not in the pool
\* while somebody holds it, and is in the pool at most once.
ExclusiveUse ==
  /\ \A r, s \in Requests : Holds(r) /\ Holds(s) /\ grant[r] = grant[s] => r = s
  /\ \A r \in Requests : Holds(r) => IndexOf(pool, grant[r]) = -1
  /\ \A i, j \in 1 .. Len(pool) : pool[i] = pool[j] => i = j

\* Whatever fails, the pool never has more channels alive on the connection than
\* its size: each replacement takes the place of a channel that is gone.  Without failures
\* none is lost before close(): each is in the pool or with a request.
KeepsItsSize ==
  /\ Cardinality({ch \in Chans : life[ch] \in {"opening", "limiting", "adrift", "open", "closing"}})
       <= Size
  /\ healthy /\ closer = "none" =>
       \A ch \in Chans :
         life[ch] = "open" =>
           IndexOf(pool, ch) # -1 \/ \E r \in Requests : Holds(r) /\ grant[r] = ch

\* The pool is an allocator, whatever fails: a request waits until all before it are served
\* or rejected, and what it gets nobody else has.
Promised == INSTANCE Leases WITH
  Resources <- Chans,
  None <- NoChan,
  asking <- {r \in Requests : req[r] = "waiting"},
  lease <- [r \in Requests |-> IF Holds(r) THEN grant[r] ELSE NoChan]

LeasesInOrder == Promised!Spec

\* Without failures every request is granted a channel, also if close() comes first
\* (but not so early that it closes a channel about to be handed out).
RequestsServed ==
  \A r \in Requests : healthy /\ req[r] = "waiting" ~> req[r] = "held"

\* Without failures close() comes to an end once the channels are released.
CloseEnds == healthy /\ closer = "awaiting" ~> closer = "done"
=============================================================================
