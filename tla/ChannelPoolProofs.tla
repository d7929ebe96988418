------------------------- MODULE ChannelPoolProofs -------------------------
(***************************************************************************)
(* The pool for every size and any number of channels and requests.        *)
(*                                                                         *)
(* ExclusiveUse is not inductive: a channel must also have left the hands  *)
(* of openChannel() when it joins the pool, and only one of open() and the *)
(* replacements can be waiting for it (Underway).  Places joins the two.   *)
(* KeepsItsSize needs that each channel that open() still asks for has its *)
(* place kept (Room) and, without failures, that no dispatch takes a       *)
(* channel for a request that is not there (InLine, Lossless).  That the   *)
(* pool implements Leases needs that the queue is in the order in which    *)
(* the requests came (InLine).                                             *)
(***************************************************************************)
EXTENDS ChannelPool, TLAPS, FiniteSetTheorems, SequenceTheorems, WellFoundedInduction

\* The channels that openChannel() has returned.
Used == {ch \in Chans : life[ch] \in {"open", "closing", "closed"}}
\* The channels that have a number of the connection.
Alive == {ch \in Chans : life[ch] \in {"opening", "limiting", "adrift", "open", "closing"}}

\* The stages of a channel, and of a request.
Lives == {"unborn", "opening", "limiting", "adrift", "open", "closing", "closed"}
Stages == {"idle", "waiting", "held", "abandoned", "done", "rejected"}

\* The types of what is not Boolean.
TypeOK ==
  /\ queue \in Seq(Requests) /\ pool \in Seq(Chans)
  /\ acquisition \in [Chans -> {"none", "pending", "resolved"}]
  /\ conn \in {"starting", "open", "over"} /\ listening \subseteq {"closing", "failed"}
  /\ opener \in {"none", "waiting", "begun"}
  /\ life \in [Chans -> Lives]
  /\ toOpen \in 0 .. Size /\ fresh \in Chans \union {NoChan}
  /\ replacing \subseteq [idx : Int, channel : Chans]
  /\ dispatches \in Nat
  /\ req \in [Requests -> Stages]
  /\ grant \in [Requests -> Chans \union {NoChan}]
  /\ closer \in {"none", "awaiting", "next", "closing", "failed", "done"}
  /\ awaited \subseteq Chans /\ cursor \in Nat

\* What an array contains.
Occurs(x, a) == \E i \in 1 .. Len(a) : a[i] = x
\* No element of an array occurs twice.
Once(a) == \A i, j \in 1 .. Len(a) : a[i] = a[j] => i = j

\* The channels in the array p, and those that the requests of rq have by g, are
\* different ones of u.
Having == {"held", "abandoned"}
\* What Exclusive says of given pools, requests and grants.
Apart(u, p, rq, g) ==
  /\ p \in Seq(u) /\ Once(p)
  /\ \A r \in Requests : rq[r] \in Having => g[r] \in u /\ ~Occurs(g[r], p)
  /\ \A r, s \in Requests : rq[r] \in Having /\ rq[s] \in Having /\ g[r] = g[s] => r = s

\* The pool and the requests share no channel, and none is still being opened.
Exclusive == Apart(Used, pool, req, grant)

\* open() waits for one channel, onChannelClose for others, and nobody else has them yet.
Underway ==
  /\ opener # "begun" => toOpen = Size /\ fresh = NoChan
  /\ fresh # NoChan =>
       life[fresh] \in {"opening", "limiting"} /\ \A s \in replacing : s.channel # fresh
  /\ \A s \in replacing : life[s.channel] \in {"opening", "limiting"}
  /\ \A s, t \in replacing : s.channel = t.channel => s = t

\* The channels alive leave room for those that open() still opens.
Room == Cardinality(Alive) + toOpen <= Size

\* The array q has the requests that wait by rq, and some rejected ones, in the order of
\* their numbers, and those to come have greater ones.
InOrder(q, rq) ==
  /\ \A i, j \in 1 .. Len(q) : i < j => q[i] < q[j]
  /\ \A i \in 1 .. Len(q) : rq[q[i]] \in {"waiting", "rejected"}
  /\ \A r \in Requests : rq[r] = "waiting" => Occurs(r, q)
  /\ \A r, s \in Requests : rq[r] # "idle" /\ rq[s] = "idle" => r < s

\* The requests wait in the order in which they were made.
InLine == InOrder(queue, req)

\* A channel in use is in the pool or with a request of rq.
Kept(ch, p, rq, g) == Occurs(ch, p) \/ \E r \in Requests : rq[r] \in Having /\ g[r] = ch

\* Without failures nothing is rejected, and until close() no channel is replaced or lost.
Lossless ==
  healthy =>
    /\ \A r \in Requests : req[r] \notin {"rejected", "abandoned"}
    /\ closer = "none" =>
         /\ replacing = {}
         /\ \A ch \in Chans : life[ch] = "open" => Kept(ch, pool, req, grant)

\* Where each channel is.
Places == TypeOK /\ Exclusive /\ Underway

\* The inductive invariant.
IInv == Places /\ Room /\ InLine /\ Lossless

-----------------------------------------------------------------------------
\* An element of an array has a first place there.
LEMMA FirstPlace ==
  ASSUME NEW a, Len(a) \in Nat, NEW x, NEW k \in 1 .. Len(a), a[k] = x
  PROVE  \E i \in 1 .. Len(a) : a[i] = x /\ \A j \in 1 .. i - 1 : a[j] # x
<1> DEFINE At == {i \in 1 .. Len(a) : a[i] = x}
<1>1. At \subseteq Nat /\ At # {}
  OBVIOUS
<1>2. PICK i \in At : \A j \in At : ~(<<j, i>> \in OpToRel(<, Nat))
  BY <1>1, NatLessThanWellFounded, WFMin
<1>3. \A j \in At : ~(j < i)
  BY <1>1, <1>2 DEF OpToRel
<1> QED BY <1>3

\* a.indexOf(x) is -1 if and only if x is not in a.
LEMMA IndexOfType ==
  ASSUME NEW a, Len(a) \in Nat, NEW x
  PROVE  /\ IndexOf(a, x) \in -1 .. Len(a) - 1
         /\ IndexOf(a, x) = -1 <=> \A i \in 1 .. Len(a) : a[i] # x
<1>1. CASE \A i \in 1 .. Len(a) : a[i] # x
  BY <1>1 DEF IndexOf
<1>2. CASE \E i \in 1 .. Len(a) : a[i] = x
  <2> DEFINE First(i) == a[i] = x /\ \A j \in 1 .. i - 1 : a[j] # x
             first == CHOOSE i \in 1 .. Len(a) : First(i)
  <2>1. \E i \in 1 .. Len(a) : First(i)
    BY <1>2, FirstPlace
  <2>2. first \in 1 .. Len(a)
    BY <2>1
  <2>3. IndexOf(a, x) = first - 1
    BY <1>2 DEF IndexOf
  <2> HIDE DEF first
  <2> QED BY <1>2, <2>2, <2>3
<1> QED BY <1>1, <1>2

\* Arrays that share nothing can be put together.
LEMMA ConcatOnce ==
  ASSUME NEW S, NEW s \in Seq(S), NEW t \in Seq(S), Once(s), Once(t),
         \A x : ~(Occurs(x, s) /\ Occurs(x, t))
  PROVE  /\ s \o t \in Seq(S) /\ Once(s \o t)
         /\ \A x : Occurs(x, s \o t) <=> Occurs(x, s) \/ Occurs(x, t)
<1>1. /\ s \o t \in Seq(S) /\ Len(s \o t) = Len(s) + Len(t)
      /\ \A i \in 1 .. Len(s) + Len(t) :
           (s \o t)[i] = IF i <= Len(s) THEN s[i] ELSE t[i - Len(s)]
  BY ConcatProperties
<1>2. Len(s) \in Nat /\ Len(t) \in Nat
  OBVIOUS
<1> DEFINE u == s \o t
<1> HIDE DEF u
<1>3. \A i \in 1 .. Len(u) : \/ i \in 1 .. Len(s) /\ u[i] = s[i]
                             \/ i > Len(s) /\ i - Len(s) \in 1 .. Len(t) /\ u[i] = t[i - Len(s)]
  BY <1>1, <1>2 DEF u
<1>4. /\ \A i \in 1 .. Len(s) : i \in 1 .. Len(u) /\ u[i] = s[i]
      /\ \A i \in 1 .. Len(t) : Len(s) + i \in 1 .. Len(u) /\ u[Len(s) + i] = t[i]
  BY <1>1, <1>2 DEF u
<1>5. \A x : Occurs(x, u) <=> Occurs(x, s) \/ Occurs(x, t)
  BY <1>3, <1>4 DEF Occurs
<1>6. ASSUME NEW i \in 1 .. Len(u), NEW j \in 1 .. Len(u), u[i] = u[j]
      PROVE  i = j
  <2>1. CASE i \in 1 .. Len(s) /\ j \in 1 .. Len(s) /\ u[i] = s[i] /\ u[j] = s[j]
    BY <1>6, <2>1 DEF Once
  <2>2. CASE /\ i > Len(s) /\ i - Len(s) \in 1 .. Len(t) /\ u[i] = t[i - Len(s)]
             /\ j > Len(s) /\ j - Len(s) \in 1 .. Len(t) /\ u[j] = t[j - Len(s)]
    <3>1. i - Len(s) = j - Len(s)
      BY <1>6, <2>2 DEF Once
    <3> QED BY <1>2, <3>1
  <2> QED BY <1>3, <1>6, <2>1, <2>2 DEF Occurs
<1> QED BY <1>1, <1>5, <1>6 DEF u, Once

\* Part of an array.
LEMMA SubSeqOnce ==
  ASSUME NEW S, NEW a \in Seq(S), Once(a), NEW m \in Nat \ {0}, NEW n \in 0 .. Len(a)
  PROVE  LET b == SubSeq(a, m, n)
         IN  /\ b \in Seq(S) /\ Once(b)
             /\ \A x : Occurs(x, b) <=> \E i \in m .. n : a[i] = x
<1> DEFINE b == SubSeq(a, m, n)
<1>1. /\ b \in Seq(S) /\ Len(b) = IF m <= n THEN n - m + 1 ELSE 0
      /\ \A i \in 1 .. n - m + 1 : b[i] = a[m + i - 1]
  BY SubSeqProperties
<1> HIDE DEF b
<1>2. \A i \in 1 .. Len(b) : m + i - 1 \in m .. n /\ b[i] = a[m + i - 1]
  BY <1>1
<1>3. \A i \in m .. n : i - m + 1 \in 1 .. Len(b) /\ b[i - m + 1] = a[i]
  BY <1>1
<1>4. \A x : Occurs(x, b) <=> \E i \in m .. n : a[i] = x
  BY <1>2, <1>3 DEF Occurs
<1>5. ASSUME NEW i \in 1 .. Len(b), NEW j \in 1 .. Len(b), b[i] = b[j]
      PROVE  i = j
  <2>1. a[m + i - 1] = a[m + j - 1]
    BY <1>2, <1>5
  <2>2. m + i - 1 \in 1 .. Len(a) /\ m + j - 1 \in 1 .. Len(a)
    BY <1>2
  <2>3. m + i - 1 = m + j - 1
    BY <2>1, <2>2 DEF Once
  <2> QED BY <1>1, <2>3
<1> QED BY <1>1, <1>4, <1>5 DEF b, Once

\* splice() adds what it is given and no more, once each.
LEMMA SpliceOnce ==
  ASSUME NEW S, NEW a \in Seq(S), NEW idx \in Int, NEW items \in Seq(S),
         Once(a), Once(items), \A x : ~(Occurs(x, a) /\ Occurs(x, items))
  PROVE  LET b == Splice(a, idx, items)
         IN  /\ b \in Seq(S) /\ Once(b)
             /\ \A x : Occurs(x, b) => Occurs(x, a) \/ Occurs(x, items)
<1> DEFINE start == IF idx >= 0 THEN LesserOf(idx, Len(a))
                    ELSE IF Len(a) + idx < 0 THEN 0 ELSE Len(a) + idx
           left == SubSeq(a, 1, start)
           right == SubSeq(a, start + 2, Len(a))
<1>1. start \in 0 .. Len(a) /\ start + 2 \in Nat \ {0} /\ Len(a) \in 0 .. Len(a)
  BY DEF LesserOf
<1>2. Splice(a, idx, items) = left \o items \o right
  BY DEF Splice
<1> HIDE DEF start
<1>3. /\ left \in Seq(S) /\ Once(left)
      /\ \A x : Occurs(x, left) <=> \E i \in 1 .. start : a[i] = x
  BY <1>1, SubSeqOnce
<1>4. /\ right \in Seq(S) /\ Once(right)
      /\ \A x : Occurs(x, right) <=> \E i \in start + 2 .. Len(a) : a[i] = x
  BY <1>1, SubSeqOnce
<1> HIDE DEF left, right
<1>5. \A x : /\ Occurs(x, left) \/ Occurs(x, right) => Occurs(x, a)
             /\ ~(Occurs(x, left) /\ Occurs(x, right))
  <2>1. /\ \A i \in 1 .. start : i \in 1 .. Len(a)
        /\ \A i \in start + 2 .. Len(a) : i \in 1 .. Len(a)
        /\ \A i \in 1 .. start, j \in start + 2 .. Len(a) : i # j
    BY <1>1
  <2>2. ASSUME NEW x, Occurs(x, left) \/ Occurs(x, right) PROVE Occurs(x, a)
    BY <1>3, <1>4, <2>1, <2>2 DEF Occurs
  <2>3. ASSUME NEW x, Occurs(x, left), Occurs(x, right) PROVE FALSE
    BY <1>3, <1>4, <2>1, <2>3 DEF Once
  <2> QED BY <2>2, <2>3
<1>6. /\ left \o items \in Seq(S) /\ Once(left \o items)
      /\ \A x : Occurs(x, left \o items) <=> Occurs(x, left) \/ Occurs(x, items)
  BY <1>3, <1>5, ConcatOnce
<1>7. /\ left \o items \o right \in Seq(S) /\ Once(left \o items \o right)
      /\ \A x : Occurs(x, left \o items \o right) <=> Occurs(x, left \o items) \/ Occurs(x, right)
  BY <1>4, <1>5, <1>6, ConcatOnce
<1> QED BY <1>2, <1>5, <1>6, <1>7

-----------------------------------------------------------------------------
\* What dispatchChannels() does to each request: one of the first n is told of the
\* channel at its place, unless it was rejected, and nothing else happens.
Told(r, q, p, rq, n) ==
  \/ \E i \in 1 .. n : /\ q[i] = r /\ rq[r] = "waiting"
                       /\ req'[r] = "held" /\ grant'[r] = p[i]
  \/ /\ rq[r] # "waiting" \/ \A i \in 1 .. n : q[i] # r
     /\ req'[r] = rq[r] /\ grant'[r] = grant[r]

\* dispatchChannels() serves a number of requests from the head of the queue with the channels
\* at the head of the pool.
LEMMA DispatchTells ==
  ASSUME NEW q \in Seq(Requests), NEW p \in Seq(Chans), NEW a, NEW rq, Dispatch(q, p, a, rq)
  PROVE  \E n \in 0 .. Len(q) :
           /\ n <= Len(p) /\ (n = Len(q) \/ n = Len(p))
           /\ queue' = SubSeq(q, n + 1, Len(q)) /\ pool' = SubSeq(p, n + 1, Len(p))
           /\ \A r \in Requests : Told(r, q, p, rq, n)
<1> DEFINE n == LesserOf(Len(q), Len(p))
           Served(r) == {i \in 1 .. n : q[i] = r /\ rq[r] = "waiting"}
<1>1. n \in 0 .. Len(q) /\ n <= Len(p) /\ (n = Len(q) \/ n = Len(p))
  BY DEF LesserOf
<1>2. /\ queue' = SubSeq(q, n + 1, Len(q)) /\ pool' = SubSeq(p, n + 1, Len(p))
      /\ req' = [r \in Requests |-> IF Served(r) # {} THEN "held" ELSE rq[r]]
      /\ grant' = [r \in Requests |-> IF Served(r) # {} THEN p[CHOOSE i \in Served(r) : TRUE]
                                      ELSE grant[r]]
  BY DEF Dispatch
<1> HIDE DEF n
<1>3. ASSUME NEW r \in Requests PROVE Told(r, q, p, rq, n)
  <2>1. CASE Served(r) # {}
    <3> DEFINE i == CHOOSE i \in Served(r) : TRUE
    <3>1. i \in Served(r)
      BY <2>1
    <3>2. req'[r] = "held" /\ grant'[r] = p[i]
      BY <1>2, <2>1
    <3> HIDE DEF i
    <3> QED BY <3>1, <3>2 DEF Told
  <2>2. CASE Served(r) = {}
    <3>1. req'[r] = rq[r] /\ grant'[r] = grant[r]
      BY <1>2, <2>2
    <3> QED BY <2>2, <3>1 DEF Told
  <2> QED BY <2>1, <2>2
<1> QED BY <1>1, <1>2, <1>3

\* So it keeps the channels apart.
LEMMA DispatchApart ==
  ASSUME NEW q \in Seq(Requests), NEW u \in SUBSET Chans, NEW p,
         NEW a \in [Chans -> {"none", "pending", "resolved"}], NEW rq \in [Requests -> Stages],
         grant \in [Requests -> Chans \union {NoChan}],
         Apart(u, p, rq, grant), Dispatch(q, p, a, rq)
  PROVE  /\ Apart(u, pool', req', grant')
         /\ queue' \in Seq(Requests) /\ pool' \in Seq(Chans)
         /\ acquisition' \in [Chans -> {"none", "pending", "resolved"}]
         /\ req' \in [Requests -> Stages] /\ grant' \in [Requests -> Chans \union {NoChan}]
<1>1. p \in Seq(u) /\ p \in Seq(Chans) /\ Once(p)
  BY SeqMonotonic DEF Apart
<1>2. PICK n \in 0 .. Len(q) :
        /\ n <= Len(p) /\ (n = Len(q) \/ n = Len(p))
        /\ queue' = SubSeq(q, n + 1, Len(q)) /\ pool' = SubSeq(p, n + 1, Len(p))
        /\ \A r \in Requests : Told(r, q, p, rq, n)
  BY <1>1, DispatchTells
<1>3. n + 1 \in Nat \ {0} /\ Len(p) \in 0 .. Len(p) /\ \A i \in 1 .. n : i \in 1 .. Len(p) /\ p[i] \in u
  BY <1>1, <1>2
<1>4. /\ pool' \in Seq(u) /\ Once(pool')
      /\ \A x : Occurs(x, pool') <=> \E i \in n + 1 .. Len(p) : p[i] = x
  BY <1>1, <1>2, <1>3, SubSeqOnce
<1>5. \A x : Occurs(x, pool') => Occurs(x, p) /\ \A i \in 1 .. n : p[i] # x
  <2> SUFFICES ASSUME NEW i \in n + 1 .. Len(p)
               PROVE  Occurs(p[i], p) /\ \A j \in 1 .. n : p[j] # p[i]
    BY <1>4
  <2>1. i \in 1 .. Len(p) /\ \A j \in 1 .. n : j # i
    BY <1>2
  <2> QED BY <1>1, <1>3, <2>1 DEF Occurs, Once
<1>6. \A r \in Requests : req'[r] \in Having =>
        grant'[r] \in u /\ ~Occurs(grant'[r], pool')
  BY <1>2, <1>3, <1>5 DEF Told, Apart, Having
<1>7. ASSUME NEW r \in Requests, NEW s \in Requests,
             req'[r] \in Having, req'[s] \in Having, grant'[r] = grant'[s]
      PROVE  r = s
  <2>1. \A t \in Requests : req'[t] \in Having =>
          \/ \E i \in 1 .. n : q[i] = t /\ grant'[t] = p[i]
          \/ rq[t] \in Having /\ grant'[t] = grant[t]
    BY <1>2 DEF Told, Having
  <2>2. CASE rq[r] \in Having /\ grant'[r] = grant[r]
    BY <1>3, <1>7, <2>1, <2>2 DEF Apart, Occurs
  <2>3. CASE rq[s] \in Having /\ grant'[s] = grant[s]
    BY <1>3, <1>7, <2>1, <2>3 DEF Apart, Occurs
  <2>4. ASSUME NEW i \in 1 .. n, NEW j \in 1 .. n, q[i] = r, q[j] = s, p[i] = p[j]
        PROVE  r = s
    BY <1>1, <1>3, <2>4 DEF Once
  <2> QED BY <1>7, <2>1, <2>2, <2>3, <2>4
<1>8. queue' \in Seq(Requests) /\ pool' \in Seq(Chans)
  BY <1>1, <1>2, <1>4, SeqMonotonic, SubSeqProperties
<1>9. /\ acquisition' \in [Chans -> {"none", "pending", "resolved"}]
      /\ req' \in [Requests -> Stages]
  BY DEF Dispatch, Stages
<1>10. grant' \in [Requests -> Chans \union {NoChan}]
  <2>1. grant' = [r \in Requests |-> grant'[r]]
    BY DEF Dispatch
  <2>2. \A r \in Requests : grant'[r] \in Chans \union {NoChan}
    BY <1>2, <1>3 DEF Told
  <2> QED BY <2>1, <2>2
<1> QED BY <1>4, <1>6, <1>7, <1>8, <1>9, <1>10 DEF Apart
-----------------------------------------------------------------------------
\* What is apart among some channels is apart among more.
LEMMA MoreUsed ==
  ASSUME NEW u, NEW v, u \subseteq v, NEW p, NEW rq, NEW g, Apart(u, p, rq, g)
  PROVE  Apart(v, p, rq, g)
BY SeqMonotonic DEF Apart

\* The pool has a size, and no channel is NoChan.
LEMMA SizeType == Size \in Nat \ {0} /\ NoChan \notin Chans /\ Chans \subseteq Nat
BY ChannelPoolAssumption DEF NoChan, Chans

\* A step that leaves the pool and the requests alone keeps the channels apart, if it
\* takes none out of use.
LEMMA SamePlaces ==
  ASSUME Exclusive, UNCHANGED <<pool, req, grant>>, Used \subseteq Used'
  PROVE  Exclusive'
<1>1. Apart(Used', pool, req, grant)
  BY MoreUsed DEF Exclusive
<1> QED BY <1>1 DEF Exclusive, Apart, Once, Occurs

\* A channel that nobody has can join the pool.
LEMMA PushApart ==
  ASSUME NEW u, NEW v, u \subseteq v, NEW p, NEW rq, NEW g, Apart(u, p, rq, g),
         NEW x \in v, ~Occurs(x, p), \A r \in Requests : rq[r] \in Having => g[r] # x
  PROVE  Apart(v, Append(p, x), rq, g)
<1>1. Apart(v, p, rq, g) /\ p \in Seq(v)
  BY MoreUsed DEF Apart
<1> DEFINE b == Append(p, x)
<1>2. /\ b \in Seq(v) /\ Len(b) = Len(p) + 1 /\ b[Len(p) + 1] = x
      /\ \A i \in 1 .. Len(p) : b[i] = p[i]
  BY <1>1, AppendProperties
<1> HIDE DEF b
<1>3. Len(p) \in Nat /\ \A i \in 1 .. Len(b) : i \in 1 .. Len(p) \/ i = Len(p) + 1
  BY <1>1, <1>2
<1>4. Once(b)
  BY <1>1, <1>2, <1>3 DEF Apart, Once, Occurs
<1>5. \A y : Occurs(y, b) => Occurs(y, p) \/ y = x
  BY <1>2, <1>3 DEF Occurs
<1> QED BY <1>1, <1>2, <1>4, <1>5 DEF Apart, b

\* What release() makes of the requests and the pool before it dispatches.
LEMMA GivenBack ==
  ASSUME Places, NEW r \in Requests, req[r] = "held"
  PROVE  LET done == [req EXCEPT ![r] = "done"]
             back == Append(pool, grant[r])
         IN  /\ done \in [Requests -> Stages] /\ back \in Seq(Chans)
             /\ Apart(Used, back, done, grant)
             /\ InOrder(queue, req) => InOrder(queue, done)
             /\ grant[r] \in Chans /\ [acquisition EXCEPT ![grant[r]] = "resolved"] \in
                                        [Chans -> {"none", "pending", "resolved"}]
<1> DEFINE done == [req EXCEPT ![r] = "done"]
           back == Append(pool, grant[r])
<1> USE DEF Places
<1>1. grant[r] \in Used /\ Used \subseteq Chans /\ ~Occurs(grant[r], pool)
  BY DEF Exclusive, Apart, Having, Used
<1>2. /\ Apart(Used, pool, done, grant)
      /\ \A s \in Requests : done[s] \in Having => grant[s] # grant[r]
  BY DEF TypeOK, Exclusive, Apart, Having
<1>3. Apart(Used, back, done, grant) /\ back \in Seq(Chans)
  BY <1>1, <1>2, PushApart, AppendProperties DEF TypeOK
<1>4. done \in [Requests -> Stages] /\ (InOrder(queue, req) => InOrder(queue, done))
  BY DEF TypeOK, InOrder, Stages
<1>5. [acquisition EXCEPT ![grant[r]] = "resolved"] \in [Chans -> {"none", "pending", "resolved"}]
  BY <1>1 DEF TypeOK
<1> HIDE DEF done, back
<1> QED BY <1>1, <1>3, <1>4, <1>5 DEF done, back

\* The new array of a splice has no more in it than the channel it puts there.
LEMMA SpliceApart ==
  ASSUME NEW u, NEW v, u \subseteq v, NEW p, NEW rq, NEW g, Apart(u, p, rq, g),
         NEW items \in Seq(v), items = <<>> \/ \E x : items = <<x>>, NEW idx \in Int,
         \A i \in 1 .. Len(items) :
           ~Occurs(items[i], p) /\ \A r \in Requests : rq[r] \in Having => g[r] # items[i]
  PROVE  Apart(v, Splice(p, idx, items), rq, g)
<1>1. Apart(v, p, rq, g)
  BY MoreUsed
<1>2. p \in Seq(v) /\ Once(p) /\ Once(items)
  BY <1>1 DEF Apart, Once
<1>3. \A x : ~(Occurs(x, p) /\ Occurs(x, items))
  BY DEF Occurs
<1> DEFINE b == Splice(p, idx, items)
<1>4. b \in Seq(v) /\ Once(b) /\ \A x : Occurs(x, b) => Occurs(x, p) \/ Occurs(x, items)
  BY <1>2, <1>3, SpliceOnce
<1>5. \A r \in Requests : rq[r] \in Having => ~Occurs(g[r], items)
  BY DEF Occurs
<1> HIDE DEF b
<1> QED BY <1>1, <1>4, <1>5 DEF Apart, b

\* At first nobody has a channel ...
LEMMA PlacesInit == Init => Places
BY SizeType DEF Init, Places, Lives, TypeOK, Exclusive, Apart, Once, Occurs, Underway, Having, Stages

\* ... and no step puts one in two places.
LEMMA PlacesNext == Places /\ [Next]_vars => Places'
<1> SUFFICES ASSUME Places, [Next]_vars PROVE Places'
  OBVIOUS
<1> USE SizeType DEF Places, Lives
<1>1. CASE Open \/ ConnectionOpens
  <2>1. UNCHANGED <<queue, pool, acquisition, listening, replacing, dispatches, req, grant,
                    closer, awaited, cursor>> /\ conn' \in {conn, "open"}
    BY <1>1 DEF Open, ConnectionOpens
  <2>2. CASE opener # "begun" /\ Begin
    <3>1. PICK ch \in Chans : /\ life[ch] = "unborn" /\ fresh' = ch
                              /\ life' = [life EXCEPT ![ch] = "opening"]
      BY <2>2 DEF Begin, NextChan
    <3>2. toOpen' \in 0 .. Size /\ opener' = "begun"
      BY <2>2 DEF Begin, Underway
    <3>3. TypeOK'
      BY <2>1, <3>1, <3>2 DEF TypeOK
    <3>4. Used \subseteq Used'
      BY <3>1 DEF TypeOK, Used
    <3>5. Underway'
      BY <2>1, <3>1, <3>2 DEF TypeOK, Underway
    <3> QED BY <2>1, <3>3, <3>4, <3>5, SamePlaces
  <2>3. CASE UNCHANGED <<life, fresh, toOpen>> /\ opener' \in {opener, "waiting"}
    <3>1. TypeOK' /\ Used' = Used
      BY <2>1, <2>3 DEF TypeOK, Used
    <3>2. Underway'
      BY <1>1, <2>1, <2>3 DEF Underway, Open, ConnectionOpens
    <3> QED BY <2>1, <3>1, <3>2, SamePlaces
  <2> QED BY <1>1, <2>2, <2>3 DEF Open, ConnectionOpens
<1>2. CASE Opened
  <2>1. /\ pool' = Append(pool, fresh) /\ fresh \in Chans /\ dispatches' = dispatches + 1
        /\ UNCHANGED <<queue, acquisition, isOpen, outer, replacing, req, grant, closer,
                       awaited, cursor>>
    BY <1>2 DEF Opened, TypeOK, Pushed, ScheduleDispatch
  <2>2. \/ life' = [life EXCEPT ![fresh] = "open"] /\ fresh' = NoChan /\ toOpen' = toOpen
        \/ \E ch \in Chans : /\ life[ch] = "unborn" /\ fresh' = ch /\ toOpen > 0
                             /\ life' = [life EXCEPT ![fresh] = "open", ![ch] = "opening"]
                             /\ toOpen' = toOpen - 1
    BY <1>2 DEF Opened, NextChan, MoreToOpen
  <2>3. /\ life' \in [Chans -> Lives]
        /\ toOpen' \in 0 .. Size /\ fresh' \in Chans \union {NoChan}
    BY <2>1, <2>2 DEF TypeOK
  <2>4. pool' \in Seq(Chans)
    BY <2>1, AppendProperties DEF TypeOK
  <2>5. TypeOK'
    BY <2>1, <2>3, <2>4 DEF TypeOK, outer
  <2>6. fresh \in Used' /\ fresh \notin Used /\ Used \subseteq Used'
    BY <1>2, <2>1, <2>2 DEF Opened, TypeOK, Used, Underway
  <2>7. ~Occurs(fresh, pool) /\ \A r \in Requests : req[r] \in Having => grant[r] # fresh
    BY <2>6 DEF Exclusive, Apart, Occurs
  <2>8. Exclusive'
    <3>1. Apart(Used', pool', req, grant)
      BY <2>1, <2>6, <2>7, PushApart DEF Exclusive
    <3> QED BY <2>1, <3>1 DEF Exclusive, Apart
  <2>9. Underway'
    <3>1. opener = "begun" /\ opener' = "begun"
      BY <1>2, <2>1 DEF Opened, Underway, outer
    <3>2. CASE fresh' = NoChan
      BY <2>1, <2>2, <3>1, <3>2 DEF TypeOK, Underway
    <3>3. ASSUME NEW ch \in Chans, life[ch] = "unborn", fresh' = ch,
                 life' = [life EXCEPT ![fresh] = "open", ![ch] = "opening"]
          PROVE  Underway'
      BY <2>1, <3>1, <3>3 DEF TypeOK, Underway
    <3> QED BY <2>2, <3>2, <3>3
  <2> QED BY <2>5, <2>8, <2>9
<1>3. CASE OpenFails \/ \E ch \in Chans : Limit(ch)
  <2>1. UNCHANGED <<queue, pool, acquisition, isOpen, outer, replacing, dispatches, req, grant,
                    closer, awaited, cursor>>
    BY <1>3 DEF OpenFails, Limit
  <2>2. CASE OpenFails
    <3>1. /\ fresh \in Chans /\ fresh' = NoChan /\ toOpen' = 0 /\ opener = "begun"
          /\ \/ life' = [life EXCEPT ![fresh] = "adrift"]
             \/ life' = [life EXCEPT ![fresh] = "closed"]
      BY <2>2 DEF OpenFails, Lost, TypeOK, Underway
    <3>2. life' \in [Chans -> Lives] /\ Used \subseteq Used'
      BY <3>1 DEF TypeOK, Used, Underway
    <3>3. TypeOK'
      BY <2>1, <3>1, <3>2 DEF TypeOK, outer
    <3>4. Underway'
      BY <2>1, <3>1 DEF TypeOK, outer, Underway
    <3> QED BY <2>1, <3>2, <3>3, <3>4, SamePlaces
  <2>3. ASSUME NEW ch \in Chans, Limit(ch) PROVE Places'
    <3>1. TypeOK' /\ Used \subseteq Used'
      BY <2>3 DEF Limit, TypeOK, Used, outer
    <3>2. Underway'
      BY <2>3 DEF Limit, TypeOK, outer, Underway
    <3> QED BY <2>1, <3>1, <3>2, SamePlaces
  <2> QED BY <1>3, <2>2, <2>3
<1>4. CASE RunDispatch
  <2>1. /\ UNCHANGED <<isOpen, outer, life, toOpen, fresh, replacing, closer, awaited, cursor>>
        /\ dispatches' \in Nat /\ Dispatch(queue, pool, acquisition, req)
    BY <1>4 DEF RunDispatch, TypeOK
  <2>2. /\ Apart(Used, pool', req', grant')
        /\ queue' \in Seq(Requests) /\ pool' \in Seq(Chans)
        /\ acquisition' \in [Chans -> {"none", "pending", "resolved"}]
        /\ req' \in [Requests -> Stages] /\ grant' \in [Requests -> Chans \union {NoChan}]
    BY <2>1, DispatchApart DEF Exclusive, TypeOK, Used
  <2> QED BY <2>1, <2>2 DEF TypeOK, Exclusive, Used, Underway, outer
<1>5. ASSUME NEW r \in Requests, Acquire(r)
      PROVE  Places'
  <2> DEFINE waiting == [req EXCEPT ![r] = "waiting"]
  <2>1. /\ UNCHANGED <<isOpen, outer, life, toOpen, fresh, replacing, dispatches, closer, awaited,
                       cursor>>
        /\ req[r] = "idle"
        /\ \/ Dispatch(Append(queue, r), pool, acquisition, waiting)
           \/ /\ queue' = Append(queue, r) /\ req' = waiting
              /\ UNCHANGED <<pool, acquisition, grant>>
    BY <1>5 DEF Acquire, NextRequest, Queued
  <2>2. /\ Append(queue, r) \in Seq(Requests) /\ waiting \in [Requests -> Stages]
        /\ Apart(Used, pool, waiting, grant)
    BY <2>1, AppendProperties DEF TypeOK, Exclusive, Apart, Having, Stages
  <2> HIDE DEF waiting
  <2>3. /\ Apart(Used, pool', req', grant')
        /\ queue' \in Seq(Requests) /\ pool' \in Seq(Chans)
        /\ acquisition' \in [Chans -> {"none", "pending", "resolved"}]
        /\ req' \in [Requests -> Stages] /\ grant' \in [Requests -> Chans \union {NoChan}]
    <3>1. CASE Dispatch(Append(queue, r), pool, acquisition, waiting)
      BY <2>2, <3>1, DispatchApart DEF TypeOK, Used
    <3>2. CASE /\ queue' = Append(queue, r) /\ req' = waiting
               /\ UNCHANGED <<pool, acquisition, grant>>
      BY <2>2, <3>2 DEF TypeOK, Apart
    <3> QED BY <2>1, <3>1, <3>2
  <2> QED BY <2>1, <2>3 DEF TypeOK, Exclusive, Used, Underway, outer
<1>6. ASSUME NEW r \in Requests, Release(r)
      PROVE  Places'
  <2> DEFINE done == [req EXCEPT ![r] = "done"]
             back == Append(pool, grant[r])
             given == [acquisition EXCEPT ![grant[r]] = "resolved"]
  <2>1. /\ UNCHANGED <<isOpen, outer, life, toOpen, fresh, replacing, dispatches, closer, cursor>>
        /\ req[r] = "held" /\ awaited' \subseteq awaited
        /\ \/ pool' = back /\ req' = done /\ UNCHANGED <<queue, acquisition, grant>>
           \/ Dispatch(queue, back, given, done)
    BY <1>6 DEF Release, Resolve, Redispatch
  <2>2. /\ done \in [Requests -> Stages] /\ back \in Seq(Chans) /\ Apart(Used, back, done, grant)
        /\ given \in [Chans -> {"none", "pending", "resolved"}]
    BY <2>1, GivenBack
  <2> HIDE DEF done, back, given
  <2>3. /\ Apart(Used, pool', req', grant')
        /\ queue' \in Seq(Requests) /\ pool' \in Seq(Chans)
        /\ acquisition' \in [Chans -> {"none", "pending", "resolved"}]
        /\ req' \in [Requests -> Stages] /\ grant' \in [Requests -> Chans \union {NoChan}]
    <3>1. CASE Dispatch(queue, back, given, done)
      BY <2>2, <3>1, DispatchApart DEF TypeOK, Used
    <3>2. CASE pool' = back /\ req' = done /\ UNCHANGED <<queue, acquisition, grant>>
      BY <2>2, <3>2 DEF TypeOK, Apart
    <3> QED BY <2>1, <3>1, <3>2
  <2> QED BY <2>1, <2>3 DEF TypeOK, Exclusive, Used, Underway, outer
<1>7. ASSUME NEW r \in Requests, RunRejects(r)
      PROVE  Places'
  <2>1. TypeOK' /\ Used' = Used /\ Underway'
    BY <1>7 DEF RunRejects, TypeOK, Used, Underway, outer, Stages
  <2>2. Apart(Used, pool, req', grant)
    BY <1>7 DEF RunRejects, TypeOK, Exclusive, Apart, Having
  <2> QED BY <1>7, <2>1, <2>2 DEF RunRejects, Exclusive, Apart
<1>8. ASSUME NEW ch \in Chans, ChannelCloses(ch) \/ ChannelClosed(ch)
      PROVE  Places'
  <2>1. /\ OnChannelClose(ch) /\ life[ch] \in {"open", "adrift", "closing"}
        /\ UNCHANGED <<queue, isOpen, outer, toOpen, fresh, dispatches, req, grant, awaited>>
        /\ closer' \in {closer, "next"} /\ cursor' \in Nat
    BY <1>8 DEF ChannelCloses, ChannelClosed, TypeOK
  <2>2. acquisition' \in [Chans -> {"none", "pending", "resolved"}]
    BY <2>1 DEF OnChannelClose, TypeOK
  <2>3. IndexOf(pool, ch) \in Int
    BY IndexOfType DEF TypeOK
  <2>4. CASE isOpen
    <3>1. PICK new \in Chans :
            /\ life[new] = "unborn"
            /\ life' = [life EXCEPT ![ch] = "closed", ![new] = "opening"]
            /\ replacing' = replacing \union {[idx |-> IndexOf(pool, ch), channel |-> new]}
            /\ pool' = pool
      BY <2>1, <2>4 DEF OnChannelClose, NextChan
    <3>2. TypeOK'
      BY <2>1, <2>2, <2>3, <3>1 DEF TypeOK, outer
    <3>3. Used \subseteq Used' /\ UNCHANGED <<pool, req, grant>>
      BY <2>1, <3>1 DEF TypeOK, Used
    <3>4. Underway'
      BY <2>1, <3>1 DEF TypeOK, Underway, outer
    <3> QED BY <3>2, <3>3, <3>4, SamePlaces
  <2>5. CASE ~isOpen
    <3>1. /\ life' = [life EXCEPT ![ch] = "closed"] /\ replacing' = replacing
          /\ pool' = Splice(pool, IndexOf(pool, ch), <<>>)
      BY <2>1, <2>5 DEF OnChannelClose
    <3>2. Used \subseteq Used' /\ Used' \subseteq Chans
      BY <2>1, <3>1 DEF TypeOK, Used
    <3>3. Apart(Used', pool', req, grant)
      <4>1. <<>> \in Seq(Used') /\ \A i \in 1 .. Len(<<>>) : FALSE
        OBVIOUS
      <4> QED BY <2>3, <3>1, <3>2, <4>1, SpliceApart DEF Exclusive
    <3>4. pool' \in Seq(Chans)
      BY <3>2, <3>3, SeqMonotonic DEF Apart
    <3>5. TypeOK' /\ Underway'
      BY <2>1, <2>2, <3>1, <3>4 DEF TypeOK, Underway, outer
    <3> QED BY <2>1, <3>3, <3>5 DEF Exclusive, Apart
  <2> QED BY <2>4, <2>5
<1>9. ASSUME NEW s \in replacing, Replace(s)
      PROVE  Places'
  <2> DEFINE ch == s.channel
  <2>1. /\ UNCHANGED <<queue, acquisition, isOpen, outer, toOpen, fresh, req, grant, closer,
                       awaited, cursor>>
        /\ replacing' = replacing \ {s} /\ life' = [life EXCEPT ![ch] = "open"]
        /\ dispatches' \in Nat /\ pool' = Splice(pool, s.idx, <<ch>>)
    BY <1>9 DEF Replace, ScheduleDispatch, TypeOK
  <2>2. ch \in Chans /\ s.idx \in Int
    BY DEF TypeOK
  <2>3. ch \in Used' /\ ch \notin Used /\ Used \subseteq Used' /\ Used' \subseteq Chans
    BY <2>1, <2>2 DEF TypeOK, Used, Underway
  <2>4. ~Occurs(ch, pool) /\ \A r \in Requests : req[r] \in Having => grant[r] # ch
    BY <2>3 DEF Exclusive, Apart, Occurs
  <2>5. Apart(Used', pool', req, grant)
    <3>1. <<ch>> \in Seq(Used') /\ \A i \in 1 .. Len(<<ch>>) : <<ch>>[i] = ch
      BY <2>3
    <3> HIDE DEF ch
    <3> QED BY <2>1, <2>2, <2>3, <2>4, <3>1, SpliceApart DEF Exclusive
  <2>6. pool' \in Seq(Chans)
    BY <2>3, <2>5, SeqMonotonic DEF Apart
  <2>7. TypeOK' /\ Underway'
    BY <2>1, <2>2, <2>6 DEF TypeOK, Underway, outer
  <2> QED BY <2>1, <2>5, <2>7 DEF Exclusive, Apart
<1>10. ASSUME NEW s \in replacing, ReplaceFails(s)
       PROVE  Places'
  <2>1. /\ s.channel \in Chans /\ replacing' = replacing \ {s}
        /\ \/ life' = [life EXCEPT ![s.channel] = "adrift"]
           \/ life' = [life EXCEPT ![s.channel] = "closed"]
        /\ UNCHANGED <<queue, pool, acquisition, isOpen, outer, toOpen, fresh, dispatches, req,
                       grant, closer, awaited, cursor>>
    BY <1>10 DEF ReplaceFails, Lost, TypeOK
  <2>2. TypeOK' /\ Used \subseteq Used'
    <3>1. life' \in [Chans -> Lives]
      BY <2>1 DEF TypeOK
    <3>2. \A ch \in Used : life'[ch] = life[ch]
      BY <2>1 DEF TypeOK, Used, Underway
    <3> QED BY <2>1, <3>1, <3>2 DEF TypeOK, Used, outer
  <2>3. Underway'
    BY <2>1 DEF TypeOK, Underway, outer
  <2> QED BY <2>1, <2>2, <2>3, SamePlaces
<1>11. CASE ConnectionClosing \/ ConnectionFailed \/ Close
  <2>1. UNCHANGED <<queue, pool, opener, life, toOpen, fresh, replacing, dispatches, grant, cursor>>
    BY <1>11 DEF ConnectionClosing, ConnectionFailed, Close
  <2>2. /\ acquisition' \in [Chans -> {"none", "pending", "resolved"}]
        /\ awaited' \subseteq Chans
    BY <1>11 DEF ConnectionClosing, ConnectionFailed, Close, SoftCleanUp, TypeOK
  <2>3. /\ conn' \in {"starting", "open", "over"} /\ listening' \subseteq {"closing", "failed"}
        /\ closer' \in {closer, "awaiting"}
    BY <1>11 DEF ConnectionClosing, ConnectionFailed, Close, TypeOK
  <2>4. req' \in [Requests -> Stages] /\ \A r \in Requests : req'[r] \in Having <=> req[r] \in Having
    BY <1>11 DEF ConnectionClosing, ConnectionFailed, Close, TypeOK, Having, Stages
  <2>5. TypeOK' /\ Used' = Used /\ Underway'
    BY <2>1, <2>2, <2>3, <2>4 DEF TypeOK, Used, Underway
  <2> QED BY <2>1, <2>4, <2>5 DEF Exclusive, Apart
<1>12. CASE CloseLoop \/ ChannelCloseFails
  <2>1. UNCHANGED <<queue, pool, acquisition, isOpen, outer, toOpen, fresh, replacing, dispatches,
                    req, grant, awaited, cursor>>
    BY <1>12 DEF CloseLoop, ChannelCloseFails
  <2>2. \/ life' = life
        \/ \E ch \in Chans : life[ch] = "open" /\ life' = [life EXCEPT ![ch] = "closing"]
    <3>1. CASE cursor < Len(pool)
      <4>1. cursor + 1 \in 1 .. Len(pool) /\ pool[cursor + 1] \in Chans
        BY <3>1, ElementOfSeq DEF TypeOK
      <4> QED BY <1>12, <4>1 DEF CloseLoop, ChannelCloseFails
    <3>2. CASE cursor >= Len(pool)
      BY <1>12, <3>2 DEF CloseLoop, ChannelCloseFails, TypeOK
    <3> QED BY <3>1, <3>2 DEF TypeOK
  <2>3. closer' \in {"closing", "failed", "done"}
    BY <1>12 DEF CloseLoop, ChannelCloseFails
  <2>4. TypeOK' /\ Used \subseteq Used' /\ Underway'
    BY <2>1, <2>2, <2>3 DEF TypeOK, Used, Underway, outer
  <2> QED BY <2>1, <2>4, SamePlaces
<1>13. CASE UNCHANGED vars
  BY <1>13 DEF vars, state, outer, TypeOK, Exclusive, Apart, Once, Occurs, Used, Underway
<1> QED BY <1>1, <1>2, <1>3, <1>4, <1>5, <1>6, <1>7, <1>8, <1>9, <1>10, <1>11, <1>12, <1>13
        DEF Next

\* Everything is of its type.
THEOREM PoolTypeCorrect == Spec => []TypeOK
<1>1. Places => TypeOK
  BY DEF Places
<1> QED BY PlacesInit, PlacesNext, <1>1, PTL DEF Spec

\* Whatever fails, a channel is handed to one request at a time, is not in the pool while
\* somebody holds it, and is in the pool at most once.
THEOREM ExclusiveUseHolds == Spec => []ExclusiveUse
<1>1. Places => ExclusiveUse
  <2> SUFFICES ASSUME Places PROVE ExclusiveUse
    OBVIOUS
  <2>1. ASSUME NEW x, ~Occurs(x, pool) PROVE IndexOf(pool, x) = -1
    <3>1. Len(pool) \in Nat /\ \A i \in 1 .. Len(pool) : pool[i] # x
      BY <2>1 DEF Places, TypeOK, Occurs
    <3> QED BY <3>1, IndexOfType
  <2> QED BY <2>1 DEF Places, Exclusive, Apart, Having, Holds, Once, ExclusiveUse
<1> QED BY PlacesInit, PlacesNext, <1>1, PTL DEF Spec

-----------------------------------------------------------------------------
\* The channels can be counted.
LEMMA FiniteChans == IsFiniteSet(Chans) /\ \A A \in SUBSET Chans : IsFiniteSet(A) /\ Cardinality(A) \in Nat
<1>1. IsFiniteSet(Chans)
  BY ChannelPoolAssumption, FS_Interval DEF Chans
<1> QED BY <1>1, FS_Subset, FS_CardinalityType

\* One more channel makes one more at most.
LEMMA OneMore ==
  ASSUME NEW A \in SUBSET Chans, NEW B \in SUBSET Chans, NEW x, B \subseteq A \union {x}
  PROVE  Cardinality(B) <= Cardinality(A) + 1
<1>1. IsFiniteSet(A \union {x}) /\ Cardinality(A \union {x}) \in {Cardinality(A), Cardinality(A) + 1}
  BY FiniteChans, FS_AddElement
<1>2. Cardinality(B) <= Cardinality(A \union {x})
  BY <1>1, FS_Subset
<1> QED BY <1>1, <1>2, FiniteChans

\* One in the place of another makes no more.
LEMMA OneForAnother ==
  ASSUME NEW A \in SUBSET Chans, NEW B \in SUBSET Chans, NEW x, NEW y \in A,
         B \subseteq (A \ {y}) \union {x}
  PROVE  Cardinality(B) <= Cardinality(A)
<1>1. Cardinality(A \ {y}) = Cardinality(A) - 1
  BY FiniteChans, FS_RemoveElement
<1>2. Cardinality(B) <= Cardinality(A \ {y}) + 1
  BY OneMore
<1> QED BY <1>1, <1>2, FiniteChans

\* Fewer channels are not more.
LEMMA NoMore ==
  ASSUME NEW A \in SUBSET Chans, NEW B \in SUBSET A
  PROVE  Cardinality(B) <= Cardinality(A)
BY FiniteChans, FS_Subset

\* Every channel that is opened takes the room of one that open() has yet to open, or of one
\* that is gone.
LEMMA RoomNext == Places /\ Room /\ [Next]_vars => Room'
<1> SUFFICES ASSUME Places, Room, [Next]_vars PROVE Room'
  OBVIOUS
<1> USE SizeType
<1>1. /\ Alive \in SUBSET Chans /\ Alive' \in SUBSET Chans
      /\ Cardinality(Alive) \in Nat /\ Cardinality(Alive') \in Nat
      /\ toOpen \in Nat /\ toOpen' \in Nat
  <2>1. TypeOK /\ TypeOK'
    BY PlacesNext DEF Places
  <2>2. Alive \in SUBSET Chans /\ Alive' \in SUBSET Chans
    BY DEF Alive
  <2> QED BY <2>1, <2>2, FiniteChans DEF TypeOK
<1>2. ASSUME Alive' \subseteq Alive, toOpen' <= toOpen PROVE Room'
  BY <1>1, <1>2, NoMore DEF Room
<1>3. ASSUME NEW ch \in Chans, Alive' \subseteq Alive \union {ch}, toOpen' = toOpen - 1
      PROVE  Room'
  BY <1>1, <1>3, OneMore DEF Room
<1> USE DEF Places
<1>4. CASE Open \/ ConnectionOpens
  <2>1. CASE Begin
    BY <1>3, <2>1 DEF Begin, Alive, TypeOK
  <2>2. CASE UNCHANGED <<life, toOpen>>
    BY <1>1, <1>2, <2>2 DEF Alive
  <2> QED BY <1>4, <2>1, <2>2 DEF Open, ConnectionOpens
<1>5. CASE Opened
  <2>1. fresh \in Alive /\ fresh \in Chans
    BY <1>5 DEF Opened, Underway, Alive, TypeOK
  <2>2. CASE life' = [life EXCEPT ![fresh] = "open"] /\ toOpen' = toOpen
    BY <1>1, <1>2, <2>1, <2>2 DEF Alive, TypeOK
  <2>3. ASSUME NEW ch \in Chans, life' = [life EXCEPT ![fresh] = "open", ![ch] = "opening"],
               toOpen' = toOpen - 1
        PROVE  Room'
    BY <1>3, <2>1, <2>3 DEF Alive, TypeOK
  <2> QED BY <1>5, <2>2, <2>3 DEF Opened, MoreToOpen
<1>6. CASE OpenFails \/ \E ch \in Chans : Limit(ch)
  <2>1. CASE OpenFails
    <3>1. fresh \in Alive /\ toOpen' <= toOpen
      BY <1>1, <2>1 DEF OpenFails, Underway, Alive, TypeOK
    <3>2. PICK l : life' = [life EXCEPT ![fresh] = l]
      BY <2>1 DEF OpenFails, Lost
    <3> QED BY <1>2, <3>1, <3>2 DEF Alive, TypeOK
  <2>2. ASSUME NEW ch \in Chans, Limit(ch) PROVE Room'
    <3>1. ch \in Alive /\ toOpen' <= toOpen /\ life' = [life EXCEPT ![ch] = "limiting"]
      BY <1>1, <2>2 DEF Limit, Alive
    <3> QED BY <1>2, <3>1 DEF Alive, TypeOK
  <2> QED BY <1>6, <2>1, <2>2
<1>7. ASSUME NEW ch \in Chans, ChannelCloses(ch) \/ ChannelClosed(ch)
      PROVE  Room'
  <2>1. OnChannelClose(ch) /\ ch \in Alive /\ toOpen' = toOpen
    BY <1>7 DEF ChannelCloses, ChannelClosed, Alive
  <2>2. ASSUME NEW new \in Chans, life' = [life EXCEPT ![ch] = "closed", ![new] = "opening"]
        PROVE  Room'
    <3>1. Alive' \subseteq (Alive \ {ch}) \union {new}
      BY <2>2 DEF Alive, TypeOK
    <3>2. Cardinality(Alive') <= Cardinality(Alive)
      BY <1>1, <2>1, <3>1, OneForAnother
    <3> QED BY <1>1, <2>1, <3>2 DEF Room
  <2>3. CASE life' = [life EXCEPT ![ch] = "closed"]
    <3>1. Alive' \subseteq Alive /\ toOpen' <= toOpen
      BY <1>1, <2>1, <2>3 DEF Alive, TypeOK
    <3> QED BY <1>2, <3>1
  <2> QED BY <2>1, <2>2, <2>3 DEF OnChannelClose
<1>8. ASSUME NEW s \in replacing, Replace(s) \/ ReplaceFails(s)
      PROVE  Room'
  <2>1. s.channel \in Alive /\ toOpen' = toOpen
    BY <1>8 DEF Replace, ReplaceFails, Underway, TypeOK, Alive
  <2>2. PICK l : life' = [life EXCEPT ![s.channel] = l]
    BY <1>8 DEF Replace, ReplaceFails, Lost
  <2>3. toOpen' <= toOpen /\ Alive' \subseteq Alive
    BY <1>1, <2>1, <2>2 DEF Alive, TypeOK
  <2> QED BY <1>2, <2>3
<1>9. CASE CloseLoop
  <2>1. \/ life' = life
        \/ \E ch : life[ch] = "open" /\ life' = [life EXCEPT ![ch] = "closing"]
    BY <1>9 DEF CloseLoop
  <2>2. toOpen' = toOpen
    BY <1>9 DEF CloseLoop
  <2>3. \A ch \in Chans : life'[ch] = life[ch] \/ life[ch] = "open"
    BY <2>1 DEF TypeOK
  <2>4. Alive' \subseteq Alive
    BY <2>3 DEF Alive
  <2>5. toOpen' <= toOpen
    BY <1>1, <2>2
  <2> QED BY <1>2, <2>4, <2>5
<1>10. ASSUME UNCHANGED <<life, toOpen>> PROVE Room'
  BY <1>1, <1>2, <1>10 DEF Alive
<1>11. CASE RunDispatch \/ ConnectionClosing \/ ConnectionFailed \/ Close \/ ChannelCloseFails
  BY <1>10, <1>11 DEF RunDispatch, ConnectionClosing, ConnectionFailed, Close, ChannelCloseFails
<1>12. CASE \E r \in Requests : Acquire(r) \/ Release(r) \/ RunRejects(r)
  BY <1>10, <1>12 DEF Acquire, Release, RunRejects
<1>13. CASE UNCHANGED vars
  BY <1>10, <1>13 DEF vars, state
<1> QED BY <1>4, <1>5, <1>6, <1>7, <1>8, <1>9, <1>11, <1>12, <1>13 DEF Next

-----------------------------------------------------------------------------
\* A dispatch loses no channel if the requests in line are different ones that wait.
LEMMA DispatchKeepsAll ==
  ASSUME NEW q \in Seq(Requests), NEW p \in Seq(Chans), NEW a, NEW rq, Dispatch(q, p, a, rq),
         Once(p), Once(q), \A i \in 1 .. Len(q) : rq[q[i]] = "waiting",
         NEW ch, Kept(ch, p, rq, grant)
  PROVE  Kept(ch, pool', req', grant')
<1>1. PICK n \in 0 .. Len(q) :
        /\ n <= Len(p) /\ (n = Len(q) \/ n = Len(p))
        /\ queue' = SubSeq(q, n + 1, Len(q)) /\ pool' = SubSeq(p, n + 1, Len(p))
        /\ \A r \in Requests : Told(r, q, p, rq, n)
  BY DispatchTells
<1>2. \A i \in 1 .. n : i \in 1 .. Len(q) /\ i \in 1 .. Len(p) /\ q[i] \in Requests
  BY <1>1
<1>3. ASSUME NEW r \in Requests, rq[r] \in Having, grant[r] = ch
      PROVE  req'[r] \in Having /\ grant'[r] = ch
  BY <1>1, <1>3 DEF Told, Having
<1>4. ASSUME NEW i \in 1 .. Len(p), p[i] = ch, i <= n
      PROVE  \E r \in Requests : req'[r] \in Having /\ grant'[r] = ch
  <2>1. i \in 1 .. n /\ q[i] \in Requests /\ rq[q[i]] = "waiting"
    BY <1>1, <1>2, <1>4
  <2>2. PICK j \in 1 .. n : q[j] = q[i] /\ req'[q[i]] = "held" /\ grant'[q[i]] = p[j]
    BY <1>1, <2>1 DEF Told
  <2>3. j = i
    BY <1>2, <2>1, <2>2 DEF Once
  <2> QED BY <1>4, <2>1, <2>2, <2>3 DEF Having
<1>5. ASSUME NEW i \in 1 .. Len(p), p[i] = ch, i > n
      PROVE  Occurs(ch, pool')
  <2>1. n + 1 \in Nat \ {0} /\ Len(p) \in 0 .. Len(p) /\ i \in n + 1 .. Len(p)
    BY <1>1, <1>5
  <2> QED BY <1>1, <1>5, <2>1, SubSeqOnce
<1>6. CASE Occurs(ch, p)
  <2>1. PICK i \in 1 .. Len(p) : p[i] = ch
    BY <1>6 DEF Occurs
  <2>2. i <= n \/ i > n
    BY <1>1, <2>1
  <2> QED BY <1>4, <1>5, <2>1, <2>2 DEF Kept
<1>7. CASE \E r \in Requests : rq[r] \in Having /\ grant[r] = ch
  BY <1>3, <1>7 DEF Kept
<1> QED BY <1>6, <1>7 DEF Kept

-----------------------------------------------------------------------------
\* Requests have numbers.
LEMMA RequestsAreNat == Requests \subseteq Nat
BY ChannelPoolAssumption DEF Requests

\* Who is in order is there once.
LEMMA InOrderOnce ==
  ASSUME NEW q \in Seq(Requests), NEW rq, InOrder(q, rq)
  PROVE  Once(q)
<1> SUFFICES ASSUME NEW i \in 1 .. Len(q), NEW j \in 1 .. Len(q), q[i] = q[j] PROVE i = j
  BY DEF Once
<1>1. q[i] \in Nat /\ q[j] \in Nat /\ i \in Nat /\ j \in Nat
  <2>1. q[i] \in Requests /\ q[j] \in Requests
    BY ElementOfSeq
  <2>2. i \in Nat /\ j \in Nat
    OBVIOUS
  <2>3. q[i] \in Nat /\ q[j] \in Nat
    BY <2>1, RequestsAreNat
  <2> QED BY <2>2, <2>3
<1>2. ~(q[i] < q[j]) /\ ~(q[j] < q[i])
  BY <1>1
<1>3. ~(i < j) /\ ~(j < i)
  BY <1>2 DEF InOrder
<1> QED BY <1>1, <1>3

\* A dispatch leaves those in order who come after the ones it takes from the line.
LEMMA DispatchInOrder ==
  ASSUME NEW q \in Seq(Requests), NEW p \in Seq(Chans), NEW a, NEW rq, Dispatch(q, p, a, rq),
         InOrder(q, rq)
  PROVE  InOrder(queue', req')
<1>1. PICK n \in 0 .. Len(q) :
        /\ n <= Len(p) /\ (n = Len(q) \/ n = Len(p))
        /\ queue' = SubSeq(q, n + 1, Len(q)) /\ pool' = SubSeq(p, n + 1, Len(p))
        /\ \A r \in Requests : Told(r, q, p, rq, n)
  BY DispatchTells
<1>2. Len(q) \in Nat /\ n \in Nat /\ n + 1 \in Nat \ {0} /\ Len(q) \in 0 .. Len(q)
  BY <1>1
<1>3. /\ queue' \in Seq(Requests) /\ Len(queue') = Len(q) - n
      /\ \A i \in 1 .. Len(q) - n : queue'[i] = q[n + i]
  <2>1. /\ queue' \in Seq(Requests)
        /\ Len(queue') = IF n + 1 <= Len(q) THEN Len(q) - (n + 1) + 1 ELSE 0
        /\ \A i \in 1 .. Len(q) - (n + 1) + 1 : queue'[i] = q[n + 1 + i - 1]
    BY <1>1, <1>2, SubSeqProperties
  <2> QED BY <1>1, <1>2, <2>1
<1>4. \A i \in 1 .. Len(queue') : /\ n + i \in 1 .. Len(q) /\ n + i > n /\ queue'[i] = q[n + i]
                                  /\ queue'[i] \in Requests
  BY <1>2, <1>3
<1>5. ASSUME NEW i \in 1 .. Len(queue'), NEW j \in 1 .. Len(queue'), i < j
      PROVE  queue'[i] < queue'[j]
  <2>1. n + i < n + j
    BY <1>2, <1>5
  <2> QED BY <1>4, <2>1 DEF InOrder
<1>6. \A i \in n + 1 .. Len(q), j \in 1 .. n : q[i] # q[j]
  <2>1. \A i \in n + 1 .. Len(q), j \in 1 .. n : i \in 1 .. Len(q) /\ j \in 1 .. Len(q) /\ i # j
    BY <1>2
  <2> QED BY <2>1, InOrderOnce DEF Once
<1>7. ASSUME NEW i \in 1 .. Len(queue') PROVE req'[queue'[i]] \in {"waiting", "rejected"}
  <2>1. n + i \in n + 1 .. Len(q)
    BY <1>2, <1>4
  <2>2. \A j \in 1 .. n : q[j] # queue'[i]
    BY <1>4, <1>6, <2>1
  <2>3. req'[queue'[i]] = rq[queue'[i]]
    BY <1>1, <1>4, <2>2 DEF Told
  <2> QED BY <1>4, <2>3 DEF InOrder
<1>8. ASSUME NEW r \in Requests, req'[r] = "waiting" PROVE Occurs(r, queue')
  <2>1. rq[r] = "waiting" /\ \A j \in 1 .. n : q[j] # r
    BY <1>1, <1>8 DEF Told
  <2>2. PICK i \in 1 .. Len(q) : q[i] = r
    BY <2>1 DEF InOrder, Occurs
  <2>3. i \in n + 1 .. Len(q)
    BY <1>2, <2>1, <2>2
  <2> QED BY <1>1, <1>2, <2>2, <2>3, InOrderOnce, SubSeqOnce
<1>9. \A r \in Requests : req'[r] = "idle" <=> rq[r] = "idle"
  BY <1>1 DEF Told
<1> QED BY <1>5, <1>7, <1>8, <1>9 DEF InOrder

\* The latest of the requests goes to the end of the line.
LEMMA AcquireInOrder ==
  ASSUME InOrder(queue, req), queue \in Seq(Requests), req \in [Requests -> Stages],
         NEW r \in Requests, NextRequest(r)
  PROVE  InOrder(Append(queue, r), [req EXCEPT ![r] = "waiting"])
<1> DEFINE q == Append(queue, r)
           rq == [req EXCEPT ![r] = "waiting"]
<1>1. req[r] = "idle" /\ \A s \in Requests : req[s] = "idle" => r <= s
  BY RequestsAreNat DEF NextRequest
<1>2. /\ Len(q) = Len(queue) + 1 /\ q[Len(queue) + 1] = r /\ Len(queue) \in Nat
      /\ \A i \in 1 .. Len(queue) : q[i] = queue[i] /\ queue[i] \in Requests
  BY AppendProperties
<1> HIDE DEF q
<1>3. \A i \in 1 .. Len(q) : i \in 1 .. Len(queue) \/ i = Len(queue) + 1
  BY <1>2
<1>4. \A i \in 1 .. Len(queue) : queue[i] < r /\ queue[i] # r /\ i \in 1 .. Len(q)
  <2>1. ASSUME NEW i \in 1 .. Len(queue) PROVE queue[i] < r
    BY <1>1, <1>2 DEF InOrder
  <2>2. ASSUME NEW i \in 1 .. Len(queue) PROVE queue[i] # r
    BY <1>1 DEF InOrder
  <2>3. ASSUME NEW i \in 1 .. Len(queue) PROVE i \in 1 .. Len(q)
    BY <1>2
  <2> QED BY <2>1, <2>2, <2>3
<1>5. \A s \in Requests : rq[s] = IF s = r THEN "waiting" ELSE req[s]
  OBVIOUS
<1> HIDE DEF rq
<1>6. ASSUME NEW i \in 1 .. Len(q), NEW j \in 1 .. Len(q), i < j PROVE q[i] < q[j]
  <2>1. CASE j \in 1 .. Len(queue)
    <3>1. i \in 1 .. Len(queue)
      BY <1>2, <1>6, <2>1
    <3> QED BY <1>2, <1>6, <2>1, <3>1 DEF InOrder
  <2>2. CASE j = Len(queue) + 1
    <3>1. i \in 1 .. Len(queue)
      BY <1>2, <1>6, <2>2
    <3> QED BY <1>2, <1>4, <2>2, <3>1
  <2> QED BY <1>3, <2>1, <2>2
<1>7. \A i \in 1 .. Len(q) : rq[q[i]] \in {"waiting", "rejected"}
  BY <1>2, <1>3, <1>4, <1>5 DEF InOrder
<1>8. \A s \in Requests : rq[s] = "waiting" => Occurs(s, q)
  <2>1. Occurs(r, q)
    <3>1. Len(queue) + 1 \in 1 .. Len(q)
      BY <1>2
    <3> QED BY <1>2, <3>1 DEF Occurs
  <2>2. ASSUME NEW s \in Requests, req[s] = "waiting" PROVE Occurs(s, q)
    <3>1. PICK i \in 1 .. Len(queue) : queue[i] = s
      BY <2>2 DEF InOrder, Occurs
    <3> QED BY <1>2, <1>4, <3>1 DEF Occurs
  <2> QED BY <1>5, <2>1, <2>2
<1>9. ASSUME NEW s \in Requests, NEW t \in Requests, rq[s] # "idle", rq[t] = "idle"
      PROVE  s < t
  <2>1. t # r /\ req[t] = "idle"
    BY <1>5, <1>9
  <2>2. CASE s = r
    BY <1>1, <2>1, <2>2, RequestsAreNat
  <2>3. CASE s # r
    BY <1>5, <1>9, <2>1, <2>3 DEF InOrder
  <2> QED BY <2>2, <2>3
<1> QED BY <1>6, <1>7, <1>8, <1>9 DEF InOrder, q, rq

\* No step changes the order of those who wait.
LEMMA InLineNext == Places /\ InLine /\ [Next]_vars => InLine'
<1> SUFFICES ASSUME Places, InLine, [Next]_vars PROVE InLine'
  OBVIOUS
<1> USE DEF Places, InLine
<1>1. ASSUME UNCHANGED <<queue, req>> PROVE InLine'
  BY <1>1 DEF InOrder, Occurs
<1>2. CASE RunDispatch
  BY <1>2, DispatchInOrder DEF RunDispatch, TypeOK
<1>3. ASSUME NEW r \in Requests, Acquire(r)
      PROVE  InLine'
  <2> DEFINE waiting == [req EXCEPT ![r] = "waiting"]
  <2>1. /\ NextRequest(r)
        /\ \/ Dispatch(Append(queue, r), pool, acquisition, waiting)
           \/ queue' = Append(queue, r) /\ req' = waiting
    BY <1>3 DEF Acquire, Queued
  <2>2. InOrder(Append(queue, r), waiting) /\ Append(queue, r) \in Seq(Requests)
    BY <2>1, AcquireInOrder, AppendProperties DEF TypeOK
  <2> HIDE DEF waiting
  <2>3. CASE Dispatch(Append(queue, r), pool, acquisition, waiting)
    BY <2>2, <2>3, DispatchInOrder DEF TypeOK
  <2>4. CASE queue' = Append(queue, r) /\ req' = waiting
    BY <2>2, <2>4
  <2> QED BY <2>1, <2>3, <2>4
<1>4. ASSUME NEW r \in Requests, Release(r)
      PROVE  InLine'
  <2> DEFINE done == [req EXCEPT ![r] = "done"]
             back == Append(pool, grant[r])
  <2>1. /\ req[r] = "held"
        /\ \/ queue' = queue /\ req' = done
           \/ Dispatch(queue, back, [acquisition EXCEPT ![grant[r]] = "resolved"], done)
    BY <1>4 DEF Release, Redispatch
  <2>2. InOrder(queue, done) /\ back \in Seq(Chans)
    BY <2>1, GivenBack
  <2> HIDE DEF done, back
  <2>3. CASE queue' = queue /\ req' = done
    BY <2>2, <2>3
  <2>4. CASE Dispatch(queue, back, [acquisition EXCEPT ![grant[r]] = "resolved"], done)
    BY <2>2, <2>4, DispatchInOrder DEF TypeOK
  <2> QED BY <2>1, <2>3, <2>4
<1>5. ASSUME NEW r \in Requests, RunRejects(r)
      PROVE  InLine'
  BY <1>5 DEF RunRejects, InOrder, TypeOK, Occurs
<1>6. CASE ConnectionFailed
  <2>1. /\ queue' = queue
        /\ \A r \in Requests : req'[r] = IF req[r] = "waiting" THEN "rejected" ELSE req[r]
    BY <1>6 DEF ConnectionFailed
  <2>2. \A i \in 1 .. Len(queue) : queue[i] \in Requests
    BY ElementOfSeq DEF TypeOK
  <2> QED BY <2>1, <2>2 DEF InOrder
<1>7. CASE \/ Open \/ ConnectionOpens \/ Opened \/ OpenFails \/ ConnectionClosing
           \/ Close \/ CloseLoop \/ ChannelCloseFails
  BY <1>1, <1>7 DEF Open, ConnectionOpens, Opened, OpenFails, ConnectionClosing, Close, CloseLoop,
                   ChannelCloseFails
<1>8. CASE \E ch \in Chans : Limit(ch) \/ ChannelCloses(ch) \/ ChannelClosed(ch)
  BY <1>1, <1>8 DEF Limit, ChannelCloses, ChannelClosed
<1>9. CASE \E s \in replacing : Replace(s) \/ ReplaceFails(s)
  BY <1>1, <1>9 DEF Replace, ReplaceFails
<1>10. CASE UNCHANGED vars
  BY <1>1, <1>10 DEF vars, state
<1> QED BY <1>2, <1>3, <1>4, <1>5, <1>6, <1>7, <1>8, <1>9, <1>10 DEF Next

-----------------------------------------------------------------------------
\* The requests that wait, and what each request has.
Waiting(rq) == {r \in Requests : rq[r] = "waiting"}
\* The lease of each request, as Leases counts it.
LeaseOf(rq, g) == [r \in Requests |-> IF rq[r] \in Having THEN g[r] ELSE NoChan]

\* Serve of Leases, as it is meant here: the oldest of waiting get free channels.
Serves(waiting, before) ==
  \E served \in SUBSET waiting :
    /\ \A r \in served, s \in waiting \ served : r < s
    /\ \E got \in [served -> Chans] :
         /\ \A r, s \in served : got[r] = got[s] => r = s
         /\ \A r \in served, s \in Requests \ served : got[r] # before[s]
         /\ Waiting(req') = waiting \ served
         /\ LeaseOf(req', grant') = [r \in Requests |-> IF r \in served THEN got[r] ELSE before[r]]

\* A dispatch serves the oldest who wait.
LEMMA DispatchServes ==
  ASSUME NEW q \in Seq(Requests), NEW u \in SUBSET Chans, NEW p,
         NEW a \in [Chans -> {"none", "pending", "resolved"}], NEW rq \in [Requests -> Stages],
         grant \in [Requests -> Chans \union {NoChan}],
         Apart(u, p, rq, grant), InOrder(q, rq), Dispatch(q, p, a, rq)
  PROVE  Serves(Waiting(rq), LeaseOf(rq, grant))
<1>1. p \in Seq(Chans)
  BY SeqMonotonic DEF Apart
<1>2. PICK n \in 0 .. Len(q) :
        /\ n <= Len(p) /\ (n = Len(q) \/ n = Len(p))
        /\ queue' = SubSeq(q, n + 1, Len(q)) /\ pool' = SubSeq(p, n + 1, Len(p))
        /\ \A r \in Requests : Told(r, q, p, rq, n)
  BY <1>1, DispatchTells
<1>3. /\ Apart(u, pool', req', grant') /\ req' \in [Requests -> Stages]
      /\ grant' \in [Requests -> Chans \union {NoChan}]
  BY DispatchApart
<1> DEFINE served == {r \in Waiting(rq) : req'[r] = "held"}
           got == [r \in served |-> grant'[r]]
<1>4. \A r \in served : \E i \in 1 .. n : q[i] = r
  BY <1>2 DEF Told, Waiting
<1>5. \A r \in Waiting(rq) \ served : \E i \in n + 1 .. Len(q) : q[i] = r
  <2> SUFFICES ASSUME NEW r \in Waiting(rq) \ served PROVE \E i \in n + 1 .. Len(q) : q[i] = r
    OBVIOUS
  <2>1. PICK i \in 1 .. Len(q) : q[i] = r
    BY DEF InOrder, Occurs, Waiting
  <2>2. \A j \in 1 .. n : q[j] # r
    BY <1>2 DEF Told, Waiting
  <2>3. i \in n + 1 .. Len(q)
    BY <1>2, <2>1, <2>2
  <2> QED BY <2>1, <2>3
<1>6. ASSUME NEW r \in served, NEW s \in Waiting(rq) \ served PROVE r < s
  <2>1. PICK i \in 1 .. n : q[i] = r
    BY <1>4
  <2>2. PICK j \in n + 1 .. Len(q) : q[j] = s
    BY <1>5
  <2>3. i \in 1 .. Len(q) /\ j \in 1 .. Len(q) /\ i < j
    BY <1>2
  <2> QED BY <2>1, <2>2, <2>3 DEF InOrder
<1>7. got \in [served -> Chans]
  BY <1>3 DEF Apart, Having, Waiting
<1>8. \A r, s \in served : got[r] = got[s] => r = s
  BY <1>3 DEF Apart, Having, Waiting
<1>9. ASSUME NEW r \in served, NEW s \in Requests \ served
      PROVE  got[r] # LeaseOf(rq, grant)[s]
  <2>1. got[r] \in Chans /\ got[r] = grant'[r]
    BY <1>7
  <2>2. CASE rq[s] \in Having
    <3>1. req'[s] \in Having /\ grant'[s] = grant[s] /\ r # s
      BY <1>2, <2>2 DEF Told, Having, Waiting
    <3>2. grant'[r] # grant'[s]
      BY <1>3, <3>1 DEF Apart, Having, Waiting
    <3> QED BY <2>1, <2>2, <3>1, <3>2 DEF LeaseOf
  <2>3. CASE rq[s] \notin Having
    BY <2>1, <2>3, SizeType DEF LeaseOf
  <2> QED BY <2>2, <2>3
<1>10. Waiting(req') = Waiting(rq) \ served
  BY <1>2 DEF Told, Waiting
<1>11. LeaseOf(req', grant') =
         [r \in Requests |-> IF r \in served THEN got[r] ELSE LeaseOf(rq, grant)[r]]
  <2>1. \A r \in Requests : LeaseOf(req', grant')[r] =
                              IF r \in served THEN got[r] ELSE LeaseOf(rq, grant)[r]
    BY <1>2 DEF Told, Waiting, LeaseOf, Having
  <2> QED BY <2>1 DEF LeaseOf
<1> HIDE DEF got
<1>12. served \in SUBSET Waiting(rq)
  OBVIOUS
<1> HIDE DEF served
<1>13. \E g \in [served -> Chans] :
         /\ \A r, s \in served : g[r] = g[s] => r = s
         /\ \A r \in served, s \in Requests \ served : g[r] # LeaseOf(rq, grant)[s]
         /\ Waiting(req') = Waiting(rq) \ served
         /\ LeaseOf(req', grant') =
              [r \in Requests |-> IF r \in served THEN g[r] ELSE LeaseOf(rq, grant)[r]]
  <2> WITNESS got \in [served -> Chans]
  <2> QED BY <1>8, <1>9, <1>10, <1>11
<1> QED BY <1>6, <1>12, <1>13 DEF Serves

\* Nobody is served.
LEMMA ServesNobody ==
  ASSUME NEW w, NEW b, Waiting(req') = w, LeaseOf(req', grant') = b,
         NEW f, b = [r \in Requests |-> f[r]]
  PROVE  Serves(w, b)
<1> DEFINE got == [r \in {} |-> r]
<1>1. Waiting(req') = w \ {} /\ LeaseOf(req', grant') = [r \in Requests |-> IF r \in {} THEN got[r] ELSE b[r]]
  OBVIOUS
<1>2. got \in [{} -> Chans]
  OBVIOUS
<1> HIDE DEF got
<1>3. \E g \in [{} -> Chans] :
         /\ \A r, s \in {} : g[r] = g[s] => r = s
         /\ \A r \in {}, s \in Requests \ {} : g[r] # b[s]
         /\ Waiting(req') = w \ {}
         /\ LeaseOf(req', grant') = [r \in Requests |-> IF r \in {} THEN g[r] ELSE b[r]]
  <2> WITNESS got \in [{} -> Chans]
  <2> QED BY <1>1
<1>4. {} \in SUBSET w /\ \A r \in {}, s \in w \ {} : r < s
  OBVIOUS
<1> QED BY <1>3, <1>4 DEF Serves

\* A step of the pool is one of the allocator, or nothing to it.
LEMMA LeasesNext == Places /\ InLine /\ [Next]_vars => [Promised!Next]_(Promised!vars)
<1> SUFFICES ASSUME Places, InLine, [Next]_vars PROVE [Promised!Next]_(Promised!vars)
  OBVIOUS
<1> USE DEF Places, InLine
<1>1. ASSUME Waiting(req') = Waiting(req), LeaseOf(req', grant') = LeaseOf(req, grant)
      PROVE  UNCHANGED Promised!vars
  BY <1>1 DEF Promised!vars, Waiting, LeaseOf, Holds, Having
<1>2. ASSUME UNCHANGED <<req, grant>> PROVE UNCHANGED Promised!vars
  BY <1>1, <1>2 DEF Waiting, LeaseOf
<1>3. CASE RunDispatch
  <2>1. Serves(Waiting(req), LeaseOf(req, grant))
    <3>1. Used \in SUBSET Chans
      BY DEF Used
    <3> QED BY <1>3, <3>1, DispatchServes DEF RunDispatch, TypeOK, Exclusive
  <2>2. Promised!Refill
    BY <2>1 DEF Promised!Refill, Promised!Serve, Serves, Waiting, LeaseOf, Holds, Having
  <2> QED BY <2>2 DEF Promised!Next
<1>4. ASSUME NEW r \in Requests, Acquire(r)
      PROVE  Promised!Ask(r)
  <2> DEFINE waiting == [req EXCEPT ![r] = "waiting"]
  <2>1. /\ NextRequest(r) /\ req[r] = "idle"
        /\ \/ Dispatch(Append(queue, r), pool, acquisition, waiting)
           \/ req' = waiting /\ grant' = grant
    BY <1>4 DEF Acquire, Queued, NextRequest
  <2>2. /\ InOrder(Append(queue, r), waiting) /\ Append(queue, r) \in Seq(Requests)
        /\ waiting \in [Requests -> Stages]
    BY <2>1, AcquireInOrder, AppendProperties DEF TypeOK, Stages
  <2>3. Apart(Used, pool, waiting, grant) /\ Used \in SUBSET Chans
    BY <2>1 DEF TypeOK, Exclusive, Apart, Having, Used
  <2>4. Waiting(waiting) = Waiting(req) \union {r} /\ LeaseOf(waiting, grant) = LeaseOf(req, grant)
    BY <2>1 DEF Waiting, LeaseOf, Having, TypeOK
  <2> HIDE DEF waiting
  <2>5. Serves(Waiting(waiting), LeaseOf(waiting, grant))
    <3>1. CASE Dispatch(Append(queue, r), pool, acquisition, waiting)
      BY <2>2, <2>3, <3>1, DispatchServes DEF TypeOK
    <3>2. CASE req' = waiting /\ grant' = grant
      <4> DEFINE f == LeaseOf(waiting, grant)
      <4>1. f = [s \in Requests |-> f[s]]
        BY DEF LeaseOf
      <4> HIDE DEF f
      <4>2. Waiting(req') = Waiting(waiting) /\ LeaseOf(req', grant') = f
        BY <3>2 DEF f
      <4> QED BY <4>1, <4>2, ServesNobody DEF f
    <3> QED BY <2>1, <3>1, <3>2
  <2>6. \A s \in Waiting(req) : s < r
    BY <2>1 DEF InOrder, Waiting
  <2>7. LeaseOf(req, grant)[r] = NoChan
    BY <2>1 DEF LeaseOf, Having
  <2>8. Serves(Waiting(req) \union {r}, LeaseOf(req, grant))
    BY <2>4, <2>5
  <2> QED BY <2>6, <2>7, <2>8
          DEF Promised!Ask, Promised!Serve, Serves, Waiting, LeaseOf, Holds, Having
<1>5. ASSUME NEW r \in Requests, Release(r)
      PROVE  Promised!GiveBack(r)
  <2> DEFINE done == [req EXCEPT ![r] = "done"]
             back == Append(pool, grant[r])
             given == [acquisition EXCEPT ![grant[r]] = "resolved"]
  <2>1. /\ req[r] = "held"
        /\ \/ req' = done /\ grant' = grant
           \/ Dispatch(queue, back, given, done)
    BY <1>5 DEF Release, Redispatch
  <2>2. /\ InOrder(queue, done) /\ done \in [Requests -> Stages] /\ grant[r] \in Chans
        /\ Apart(Used, back, done, grant) /\ Used \in SUBSET Chans
        /\ given \in [Chans -> {"none", "pending", "resolved"}]
    BY <2>1, GivenBack DEF Used
  <2>3. Waiting(done) = Waiting(req)
    BY <2>1 DEF Waiting, TypeOK
  <2>4. LeaseOf(done, grant) = [LeaseOf(req, grant) EXCEPT ![r] = NoChan]
    BY <2>1 DEF LeaseOf, Having, TypeOK
  <2>5. LeaseOf(req, grant)[r] # NoChan
    BY <2>1, <2>2, SizeType DEF LeaseOf, Having
  <2> HIDE DEF done, back, given
  <2>6. Serves(Waiting(done), LeaseOf(done, grant))
    <3>1. CASE Dispatch(queue, back, given, done)
      BY <2>2, <3>1, DispatchServes DEF TypeOK
    <3>2. CASE req' = done /\ grant' = grant
      <4> DEFINE f == LeaseOf(done, grant)
      <4>1. f = [s \in Requests |-> f[s]]
        BY DEF LeaseOf
      <4> HIDE DEF f
      <4>2. Waiting(req') = Waiting(done) /\ LeaseOf(req', grant') = f
        BY <3>2 DEF f
      <4> QED BY <4>1, <4>2, ServesNobody DEF f
    <3> QED BY <2>1, <3>1, <3>2
  <2>7. Serves(Waiting(req), [LeaseOf(req, grant) EXCEPT ![r] = NoChan])
    BY <2>3, <2>4, <2>6
  <2> QED BY <2>5, <2>7
          DEF Promised!GiveBack, Promised!Serve, Serves, Waiting, LeaseOf, Holds, Having
<1>6. ASSUME NEW r \in Requests, RunRejects(r)
      PROVE  UNCHANGED Promised!vars
  <2>1. Waiting(req') = Waiting(req) /\ LeaseOf(req', grant') = LeaseOf(req, grant)
    BY <1>6 DEF RunRejects, Waiting, LeaseOf, Having, TypeOK
  <2> QED BY <1>1, <2>1
<1>7. CASE ConnectionFailed
  <2>1. /\ \A r \in Requests : req'[r] = IF req[r] = "waiting" THEN "rejected" ELSE req[r]
        /\ grant' = grant
    BY <1>7 DEF ConnectionFailed
  <2>2. Waiting(req') = {} /\ LeaseOf(req', grant') = LeaseOf(req, grant)
    BY <2>1 DEF Waiting, LeaseOf, Having
  <2>3. Promised!SendAway
    BY <2>2 DEF Promised!SendAway, Waiting, LeaseOf, Holds, Having
  <2> QED BY <2>3 DEF Promised!Next
<1>8. CASE \/ Open \/ ConnectionOpens \/ Opened \/ OpenFails \/ ConnectionClosing
           \/ Close \/ CloseLoop \/ ChannelCloseFails
  BY <1>2, <1>8 DEF Open, ConnectionOpens, Opened, OpenFails, ConnectionClosing, Close, CloseLoop,
                   ChannelCloseFails
<1>9. CASE \E ch \in Chans : Limit(ch) \/ ChannelCloses(ch) \/ ChannelClosed(ch)
  BY <1>2, <1>9 DEF Limit, ChannelCloses, ChannelClosed
<1>10. CASE \E s \in replacing : Replace(s) \/ ReplaceFails(s)
  BY <1>2, <1>10 DEF Replace, ReplaceFails
<1>11. CASE UNCHANGED vars
  BY <1>2, <1>11 DEF vars, state
<1> QED BY <1>3, <1>4, <1>5, <1>6, <1>7, <1>8, <1>9, <1>10, <1>11 DEF Next, Promised!Next

\* The pool implements the allocator Leases: whatever fails, who asks is served after those
\* who asked before and wait, with a channel that nobody else has.
THEOREM PoolImplementsLeases == Spec => LeasesInOrder
<1>1. Init => InLine
  BY DEF Init, InLine, InOrder
<1>2. Init => Promised!Init
  BY DEF Init, Promised!Init, Holds
<1>3. LeasesInOrder <=> Promised!Init /\ [][Promised!Next]_(Promised!vars)
  BY DEF LeasesInOrder, Promised!Spec
<1> QED BY PlacesInit, PlacesNext, InLineNext, LeasesNext, <1>1, <1>2, <1>3, PTL DEF Spec

-----------------------------------------------------------------------------
\* What may fail is decided at the start.
LEMMA HealthStays == [Next]_vars => UNCHANGED healthy
BY DEF Next, vars

\* Without failures no step before close() loses a channel.
LEMMA LosslessNext == Places /\ InLine /\ Lossless /\ [Next]_vars => Lossless'
<1> SUFFICES ASSUME Places, InLine, Lossless, healthy, healthy', [Next]_vars
             PROVE  /\ \A r \in Requests : req'[r] \notin {"rejected", "abandoned"}
                    /\ closer' = "none" =>
                         /\ replacing' = {}
                         /\ \A ch \in Chans : life'[ch] = "open" => Kept(ch, pool', req', grant')
  BY HealthStays DEF Lossless, Kept, Occurs
<1> DEFINE Sound == \A r \in Requests : req'[r] \notin {"rejected", "abandoned"}
           Whole == closer' = "none" =>
                      /\ replacing' = {}
                      /\ \A ch \in Chans : life'[ch] = "open" => Kept(ch, pool', req', grant')
<1> USE DEF Places, InLine, Lossless
<1>1. ASSUME UNCHANGED <<pool, req, grant, life, replacing>>, closer' = "none" => closer = "none"
      PROVE  Sound /\ Whole
  BY <1>1
<1>2. ASSUME NEW q \in Seq(Requests), NEW p \in Seq(Chans), NEW a, NEW rq, Dispatch(q, p, a, rq),
             Once(p), InOrder(q, rq), \A r \in Requests : rq[r] \notin {"rejected", "abandoned"},
             UNCHANGED <<life, replacing, closer>>,
             \A ch \in Chans : Kept(ch, pool, req, grant) => Kept(ch, p, rq, grant)
      PROVE  Sound /\ Whole
  <2>1. PICK n \in 0 .. Len(q) : \A r \in Requests : Told(r, q, p, rq, n)
    BY <1>2, DispatchTells
  <2>2. Sound
    BY <1>2, <2>1 DEF Told
  <2>3. Once(q)
    BY <1>2, InOrderOnce
  <2>4. \A i \in 1 .. Len(q) : rq[q[i]] = "waiting"
    <3>1. \A i \in 1 .. Len(q) : q[i] \in Requests
      BY ElementOfSeq
    <3> QED BY <1>2, <3>1 DEF InOrder
  <2>5. ASSUME NEW ch \in Chans, Kept(ch, p, rq, grant) PROVE Kept(ch, pool', req', grant')
    BY <1>2, <2>3, <2>4, <2>5, DispatchKeepsAll
  <2> QED BY <1>2, <2>2, <2>5
<1>3. CASE RunDispatch
  BY <1>2, <1>3 DEF RunDispatch, TypeOK, Exclusive, Apart
<1>4. ASSUME NEW r \in Requests, Acquire(r)
      PROVE  Sound /\ Whole
  <2> DEFINE waiting == [req EXCEPT ![r] = "waiting"]
  <2>1. /\ NextRequest(r) /\ req[r] = "idle" /\ UNCHANGED <<life, replacing, closer>>
        /\ \/ Dispatch(Append(queue, r), pool, acquisition, waiting)
           \/ req' = waiting /\ UNCHANGED <<pool, grant>>
    BY <1>4 DEF Acquire, Queued, NextRequest
  <2>2. InOrder(Append(queue, r), waiting) /\ Append(queue, r) \in Seq(Requests)
    BY <2>1, AcquireInOrder, AppendProperties DEF TypeOK
  <2>3. \A s \in Requests : waiting[s] \notin {"rejected", "abandoned"}
    BY DEF TypeOK
  <2>4. \A ch \in Chans : Kept(ch, pool, req, grant) => Kept(ch, pool, waiting, grant)
    BY <2>1 DEF Kept, Having, TypeOK
  <2> HIDE DEF waiting
  <2>5. CASE Dispatch(Append(queue, r), pool, acquisition, waiting)
    BY <1>2, <2>1, <2>2, <2>3, <2>4, <2>5 DEF TypeOK, Exclusive, Apart
  <2>6. CASE req' = waiting /\ UNCHANGED <<pool, grant>>
    BY <2>1, <2>3, <2>4, <2>6
  <2> QED BY <2>1, <2>5, <2>6
<1>5. ASSUME NEW r \in Requests, Release(r)
      PROVE  Sound /\ Whole
  <2> DEFINE done == [req EXCEPT ![r] = "done"]
             back == Append(pool, grant[r])
             given == [acquisition EXCEPT ![grant[r]] = "resolved"]
  <2>1. /\ req[r] = "held" /\ UNCHANGED <<life, replacing, closer>>
        /\ \/ req' = done /\ grant' = grant /\ pool' = back
           \/ Dispatch(queue, back, given, done)
    BY <1>5 DEF Release, Redispatch
  <2>2. InOrder(queue, done) /\ back \in Seq(Chans) /\ Once(back) /\ grant[r] \in Chans
    BY <2>1, GivenBack DEF Apart
  <2>3. \A s \in Requests : done[s] \notin {"rejected", "abandoned"}
    BY DEF TypeOK
  <2>4. ASSUME NEW ch \in Chans, Kept(ch, pool, req, grant) PROVE Kept(ch, back, done, grant)
    <3>1. /\ Len(back) = Len(pool) + 1 /\ back[Len(pool) + 1] = grant[r] /\ Len(pool) \in Nat
          /\ \A i \in 1 .. Len(pool) : back[i] = pool[i]
      BY <2>2, AppendProperties DEF TypeOK
    <3> HIDE DEF back
    <3>2. Occurs(grant[r], back) /\ \A x : Occurs(x, pool) => Occurs(x, back)
      <4>1. Len(pool) + 1 \in 1 .. Len(back) /\ \A i \in 1 .. Len(pool) : i \in 1 .. Len(back)
        BY <3>1
      <4> QED BY <3>1, <4>1 DEF Occurs
    <3>3. \A s \in Requests : req[s] \in Having => s = r \/ done[s] \in Having
      BY DEF TypeOK
    <3> QED BY <2>4, <3>2, <3>3 DEF Kept
  <2> HIDE DEF done, back, given
  <2>5. CASE Dispatch(queue, back, given, done)
    BY <1>2, <2>1, <2>2, <2>3, <2>4, <2>5 DEF TypeOK
  <2>6. CASE req' = done /\ grant' = grant /\ pool' = back
    BY <2>1, <2>3, <2>4, <2>6
  <2> QED BY <2>1, <2>5, <2>6
<1>6. CASE Open \/ ConnectionOpens
  <2>1. UNCHANGED <<pool, req, grant, replacing, closer>>
    BY <1>6 DEF Open, ConnectionOpens
  <2>2. \A ch \in Chans : life'[ch] = "open" => life[ch] = "open"
    BY <1>6 DEF Open, ConnectionOpens, Begin, TypeOK
  <2> QED BY <2>1, <2>2
<1>7. CASE Opened
  <2>1. pool' = Append(pool, fresh) /\ fresh \in Chans /\ UNCHANGED <<req, grant, replacing, closer>>
    BY <1>7 DEF Opened, Pushed, TypeOK
  <2>2. \A ch \in Chans : life'[ch] = "open" => life[ch] = "open" \/ ch = fresh
    BY <1>7 DEF Opened, TypeOK
  <2>3. Occurs(fresh, pool') /\ \A x : Occurs(x, pool) => Occurs(x, pool')
    <3>1. /\ Len(pool') = Len(pool) + 1 /\ pool'[Len(pool) + 1] = fresh /\ Len(pool) \in Nat
          /\ \A i \in 1 .. Len(pool) : pool'[i] = pool[i]
      BY <2>1, AppendProperties DEF TypeOK
    <3>2. Len(pool) + 1 \in 1 .. Len(pool') /\ \A i \in 1 .. Len(pool) : i \in 1 .. Len(pool')
      BY <3>1
    <3> QED BY <3>1, <3>2 DEF Occurs
  <2> QED BY <2>1, <2>2, <2>3 DEF Kept
<1>8. ASSUME NEW ch \in Chans, Limit(ch)
      PROVE  Sound /\ Whole
  <2>1. UNCHANGED <<pool, req, grant, replacing, closer>>
    BY <1>8 DEF Limit
  <2>2. \A c \in Chans : life'[c] = "open" => life[c] = "open"
    BY <1>8 DEF Limit, TypeOK
  <2> QED BY <2>1, <2>2
<1>9. ASSUME NEW ch \in Chans, ChannelClosed(ch)
      PROVE  Sound /\ Whole
  BY <1>9 DEF ChannelClosed
<1>10. ASSUME NEW s \in replacing, Replace(s)
       PROVE  Sound /\ Whole
  <2>1. UNCHANGED <<req, closer>>
    BY <1>10 DEF Replace
  <2> QED BY <2>1
<1>11. CASE ConnectionClosing \/ ConnectionFailed \/ OpenFails \/ ChannelCloseFails
  BY <1>11 DEF ConnectionClosing, ConnectionFailed, OpenFails, ChannelCloseFails
<1>12. CASE (\E r \in Requests : RunRejects(r)) \/ (\E ch \in Chans : ChannelCloses(ch))
                \/ (\E s \in replacing : ReplaceFails(s))
  BY <1>12 DEF RunRejects, ChannelCloses, ReplaceFails
<1>13. CASE Close
  BY <1>13 DEF Close
<1>14. CASE CloseLoop
  BY <1>14 DEF CloseLoop
<1>15. CASE UNCHANGED vars
  BY <1>1, <1>15 DEF vars, state
<1> QED BY <1>3, <1>4, <1>5, <1>6, <1>7, <1>8, <1>9, <1>10, <1>11, <1>12, <1>13, <1>14, <1>15
        DEF Next

\* Whatever fails, the pool never has more channels alive on the connection than its size;
\* without failures each is in the pool or with a request until close() is called.
THEOREM PoolKeepsItsSize == Spec => []KeepsItsSize
<1>1. Init => Room /\ InLine /\ Lossless
  <2> SUFFICES ASSUME Init PROVE Room /\ InLine /\ Lossless
    OBVIOUS
  <2>1. Alive = {} /\ toOpen = Size
    BY DEF Init, Alive
  <2>2. Room
    BY <2>1, FS_EmptySet, SizeType DEF Room
  <2>3. InLine /\ Lossless
    BY DEF Init, InLine, InOrder, Lossless
  <2> QED BY <2>2, <2>3
<1>2. Places /\ Room /\ Lossless => KeepsItsSize
  <2> SUFFICES ASSUME Places, Room, Lossless PROVE KeepsItsSize
    OBVIOUS
  <2>1. Cardinality(Alive) <= Size
    <3>1. Alive \in SUBSET Chans
      BY DEF Alive
    <3>2. Cardinality(Alive) \in Nat /\ toOpen \in Nat /\ Size \in Nat
      BY <3>1, FiniteChans, SizeType DEF Places, TypeOK
    <3> QED BY <3>2 DEF Room
  <2>2. ASSUME NEW ch, Occurs(ch, pool) PROVE IndexOf(pool, ch) # -1
    <3>1. Len(pool) \in Nat
      BY DEF Places, TypeOK
    <3> QED BY <2>2, <3>1, IndexOfType DEF Occurs
  <2>3. \A ch \in Chans : Kept(ch, pool, req, grant) =>
          IndexOf(pool, ch) # -1 \/ \E r \in Requests : Holds(r) /\ grant[r] = ch
    BY <2>2 DEF Kept, Holds, Having
  <2> QED BY <2>1, <2>3 DEF KeepsItsSize, Lossless, Alive
<1> QED BY PlacesInit, PlacesNext, RoomNext, InLineNext, LosslessNext, <1>1, <1>2, PTL DEF Spec
=============================================================================
