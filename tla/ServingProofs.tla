--------------------------- MODULE ServingProofs ---------------------------
(***************************************************************************)
(* Theorems about Serving: for any requests, threads, connections and      *)
(* bounds of the cache, a layer is built once and whoever waits for it     *)
(* waits for someone who is building it.  What the cache holds does not    *)
(* matter to this.                                                         *)
(***************************************************************************)
EXTENDS Serving, DataLemmas

Fields == {"at", "read", "asked", "want", "period", "stamp", "built", "reply"}

\* A request is a record; what is looked up or waited for has a stamp.
Shaped ==
  /\ DOMAIN req = Requests /\ req = [r \in Requests |-> req[r]]
  /\ \A r \in Requests : DOMAIN req[r] = Fields
  /\ \A r \in Requests : req[r].at \in {"looking", "following"} => req[r].stamp # 0

\* A flight is its leader's, and the leader is building.
Led ==
  \A f \in inflight :
    /\ f.leader \in Requests /\ req[f.leader].at \in Building /\ req[f.leader].stamp # 0
    /\ f.key = KeyOf(req[f.leader]) /\ f.stamp = req[f.leader].stamp

\* Whoever builds for the cache has a flight, of which there is one per layer.
Listed ==
  \A r \in Requests : req[r].at \in Building /\ req[r].stamp # 0 =>
    \E f \in inflight : f.leader = r
Unique ==
  \A f, g \in inflight : f.key = g.key /\ f.stamp = g.stamp => f = g

Waited ==
  \A r \in Requests : req[r].at = "following" =>
    \E f \in inflight : f.key = KeyOf(req[r]) /\ f.stamp = req[r].stamp

IInv == Shaped /\ Led /\ Listed /\ Unique /\ Waited
-----------------------------------------------------------------------------
(* What the helpers return.                                                *)

\* A response, and a request past a read, keep their shape and hold no flight.
LEMMA ShapeOfReply ==
  ASSUME NEW q, NEW answer, DOMAIN q = Fields
  PROVE  DOMAIN Replies(q, answer) = Fields /\ Replies(q, answer).at = "sending"
BY DEF Replies, Fields

\* A request that has its value goes on to its next read or to sending.
LEMMA ShapeOfAfter ==
  ASSUME NEW r, NEW q, NEW value, DOMAIN q = Fields
  PROVE  DOMAIN After(r, q, value) = Fields /\ After(r, q, value).at \in {"running", "sending"}
BY ShapeOfReply DEF After, Fields

\* A flight's key is the layer's and the stamp it was looked up under.
LEMMA FlightIs ==
  ASSUME NEW q
  PROVE  /\ FlightKey(q)[1] = KeyOf(q) /\ FlightKey(q)[2] = q.stamp
         /\ Flight(q) = {f \in inflight : f.key = KeyOf(q) /\ f.stamp = q.stamp}
BY DEF FlightKey, Flight

\* Two requests share a flight exactly when they share key and stamp.
LEMMA SameFlight ==
  ASSUME NEW p, NEW q
  PROVE  FlightKey(p) = FlightKey(q) <=> KeyOf(p) = KeyOf(q) /\ p.stamp = q.stamp
BY DEF FlightKey
-----------------------------------------------------------------------------
\* A server with no request satisfies the invariant.
LEMMA InitIInv == Init => IInv
BY DEF Init, IInv, Shaped, Led, Listed, Unique, Waited, New, Fields, Building

\* A request that builds nothing for the cache, before or after its step, is
\* in nobody's way.
LEMMA Aside ==
  ASSUME IInv, UNCHANGED inflight, NEW r \in Requests, NEW q, At(r, q),
         DOMAIN q = Fields, req[r].at \notin Building, q.at # "following",
         q.at = "looking" => q.stamp # 0, q.at \in Building => q.stamp = 0
  PROVE  IInv'
<1>1. req' = [p \in Requests |-> IF p = r THEN q ELSE req[p]]
  BY DEF At, IInv, Shaped
<1>2. Shaped'
  BY <1>1 DEF IInv, Shaped
<1>3. Led'
  BY <1>1 DEF IInv, Led
<1>4. Listed' /\ Unique' /\ Waited'
  BY <1>1 DEF IInv, Listed, Unique, Waited
<1> QED BY <1>2, <1>3, <1>4 DEF IInv

\* A request that leaves its flight takes everyone who waits for it along.
LEMMA Landing ==
  ASSUME IInv, NEW r \in Requests, NEW out \in SUBSET Requests, NEW to,
         inflight' = Landed(r),
         req' = [p \in Requests |-> IF p \in out THEN to[p] ELSE req[p]],
         r \in out, out \subseteq {r} \cup Followers(r),
         (\E f \in inflight : f.leader = r) => Followers(r) \subseteq out,
         \A p \in out : DOMAIN to[p] = Fields /\ to[p].at \in {"running", "sending"}
  PROVE  IInv'
<1>1. \A p \in Requests : p \notin out => req'[p] = req[p]
  OBVIOUS
<1>2. \A p \in out : req'[p].at \notin Building \cup {"looking", "following"}
  BY DEF Building
<1>3. Shaped'
  BY <1>1, <1>2 DEF IInv, Shaped
<1>4. Led'
  <2> SUFFICES ASSUME NEW f \in inflight, f.leader # r
               PROVE  /\ f.leader \in Requests /\ req'[f.leader].at \in Building
                      /\ req'[f.leader].stamp # 0
                      /\ f.key = KeyOf(req'[f.leader]) /\ f.stamp = req'[f.leader].stamp
    BY DEF Led, Landed
  <2>1. req[f.leader].at \in Building /\ f.leader \in Requests
    BY DEF IInv, Led
  <2>2. f.leader \notin out
    BY <2>1 DEF Followers, Building
  <2> QED BY <1>1, <2>1, <2>2 DEF IInv, Led
<1>5. Listed'
  BY <1>1, <1>2 DEF IInv, Listed, Landed
<1>6. Unique'
  BY DEF IInv, Unique, Landed
<1>7. Waited'
  <2> SUFFICES ASSUME NEW p \in Requests, req'[p].at = "following"
               PROVE  \E f \in inflight' : f.key = KeyOf(req'[p]) /\ f.stamp = req'[p].stamp
    BY DEF Waited
  <2>1. p \notin out /\ req'[p] = req[p]
    BY <1>1, <1>2
  <2>2. PICK f \in inflight : f.key = KeyOf(req[p]) /\ f.stamp = req[p].stamp
    BY <2>1 DEF IInv, Waited
  <2>3. f.leader # r
    <3> SUFFICES ASSUME f.leader = r PROVE FALSE
      OBVIOUS
    <3>1. FlightKey(req[p]) = FlightKey(req[r])
      BY <2>2, SameFlight DEF IInv, Led
    <3> QED BY <2>1, <3>1 DEF Followers
  <2> QED BY <2>1, <2>2, <2>3 DEF Landed
<1> QED BY <1>3, <1>4, <1>5, <1>6, <1>7 DEF IInv
-----------------------------------------------------------------------------
(* The steps.                                                              *)

\* Steps of a request outside the cache keep the invariant.
LEMMA WaitingSteps ==
  ASSUME IInv, NEW r \in Requests, Arrive(r) \/ Connect(r) \/ PoolTimeout(r) \/ Begin(r) \/ Send(r)
  PROVE  IInv'
<1>1. DOMAIN req[r] = Fields
  BY DEF IInv, Shaped
<1>2. CASE Arrive(r)
  BY <1>1, <1>2, Aside DEF Arrive, Fields, Building
<1>3. CASE Connect(r)
  BY <1>1, <1>3, Aside DEF Connect, Fields, Building
<1>4. CASE PoolTimeout(r)
  BY <1>1, <1>4, Aside DEF PoolTimeout, Fields, Building
<1>5. CASE Begin(r)
  BY <1>1, <1>5, Aside DEF Begin, Fields, Building
<1>6. CASE Send(r)
  BY <1>1, <1>6, Aside DEF Send, Fields, Building
<1> QED BY <1>2, <1>3, <1>4, <1>5, <1>6

\* Steps of a request that reads, or gives up, keep it.
LEMMA ReadingSteps ==
  ASSUME IInv, NEW r \in Requests,
         Record(r) \/ Read(r) \/ Stamp(r) \/ Hit(r) \/ GiveUp(r)
  PROVE  IInv'
<1>1. DOMAIN req[r] = Fields
  BY DEF IInv, Shaped
<1>2. CASE Record(r)
  BY <1>1, <1>2, Aside, ShapeOfReply DEF Record, Fields, Building
<1>3. CASE Read(r)
  BY <1>1, <1>3, Aside, ShapeOfReply DEF Read, Fields, Building
<1>4. CASE Stamp(r)
  BY <1>1, <1>4, Aside DEF Stamp, Fields, Building
<1>5. CASE Hit(r)
  BY <1>1, <1>5, Aside, ShapeOfAfter DEF Hit, Building
<1>6. CASE GiveUp(r)
  BY <1>1, <1>6, Aside, ShapeOfReply DEF GiveUp, Building
<1> QED BY <1>2, <1>3, <1>4, <1>5, <1>6

\* Leading keeps it: the new flight is the only one of its key and stamp.
LEMMA LeadStep ==
  ASSUME IInv, NEW r \in Requests, Lead(r)
  PROVE  IInv'
<1> DEFINE q == [req[r] EXCEPT !.at = "building"]
           new == [key |-> KeyOf(req[r]), stamp |-> req[r].stamp, leader |-> r]
<1>1. /\ DOMAIN req[r] = Fields /\ req[r].at = "looking" /\ req[r].stamp # 0
  BY DEF IInv, Shaped, Lead, Missed
<1>2. req' = [p \in Requests |-> IF p = r THEN q ELSE req[p]] /\ inflight' = inflight \cup {new}
  BY FlightIs DEF Lead, At, Registered, IInv, Shaped
<1>3. /\ DOMAIN q = Fields /\ q.at = "building" /\ q.stamp = req[r].stamp
      /\ KeyOf(q) = KeyOf(req[r])
  BY <1>1 DEF Fields, KeyOf
<1>4. \A f \in inflight : ~(f.key = new.key /\ f.stamp = new.stamp)
  BY FlightIs DEF Lead
<1> HIDE DEF q
<1>5. Shaped'
  BY <1>2, <1>3 DEF IInv, Shaped
<1>6. Led'
  BY <1>1, <1>2, <1>3 DEF IInv, Led, Building
<1>7. Listed'
  <2>1. new \in inflight' /\ new.leader = r
    BY <1>2
  <2> HIDE DEF new
  <2> QED BY <1>2, <2>1 DEF IInv, Listed
<1>8. Unique'
  BY <1>2, <1>4 DEF IInv, Unique
<1>9. Waited'
  BY <1>1, <1>2, <1>3 DEF IInv, Waited
<1> QED BY <1>5, <1>6, <1>7, <1>8, <1>9 DEF IInv

\* Following keeps it: a follower waits on a flight that is listed.
LEMMA FollowStep ==
  ASSUME IInv, NEW r \in Requests, Follow(r)
  PROVE  IInv'
<1> DEFINE q == [req[r] EXCEPT !.at = "following"]
<1>1. DOMAIN req[r] = Fields /\ req[r].at = "looking" /\ req[r].stamp # 0
  BY DEF IInv, Shaped, Follow, Missed
<1>2. req' = [p \in Requests |-> IF p = r THEN q ELSE req[p]] /\ inflight' = inflight
  BY DEF Follow, At, IInv, Shaped
<1>3. /\ DOMAIN q = Fields /\ q.at = "following" /\ q.stamp = req[r].stamp
      /\ KeyOf(q) = KeyOf(req[r])
  BY <1>1 DEF Fields, KeyOf
<1>4. \E f \in inflight : f.key = KeyOf(q) /\ f.stamp = q.stamp
  BY <1>3, FlightIs DEF Follow
<1> HIDE DEF q
<1>5. Shaped'
  BY <1>1, <1>2, <1>3 DEF IInv, Shaped
<1>6. Led' /\ Listed' /\ Unique'
  BY <1>1, <1>2, <1>3 DEF IInv, Led, Listed, Unique, Building
<1>7. Waited'
  BY <1>2, <1>4 DEF IInv, Waited
<1> QED BY <1>5, <1>6, <1>7 DEF IInv

\* A producer between its statements keeps its flight.
LEMMA BuildSteps ==
  ASSUME IInv, NEW r \in Requests, Build(r) \/ Rank(r)
  PROVE  IInv'
<1>1. PICK q : /\ At(r, q) /\ DOMAIN q = Fields /\ {q.at, req[r].at} \subseteq Building
               /\ q.stamp = req[r].stamp /\ KeyOf(q) = KeyOf(req[r])
  <2>1. DOMAIN req[r] = Fields
    BY DEF IInv, Shaped
  <2>2. CASE Build(r)
    <3> DEFINE q == [req[r] EXCEPT !.at = IF Custom(req[r]) THEN "ranking" ELSE "storing",
                                   !.built = [low |-> gen, high |-> gen]]
    <3>1. /\ DOMAIN q = Fields /\ q.at \in {"ranking", "storing"} /\ q.stamp = req[r].stamp
          /\ q.read = req[r].read /\ q.period = req[r].period
      BY <2>1 DEF Fields
    <3> QED BY <2>2, <3>1 DEF Build, KeyOf, Building
  <2>3. CASE Rank(r)
    <3> DEFINE q == [req[r] EXCEPT !.at = "storing", !.built.high = gen]
    <3>1. /\ DOMAIN q = Fields /\ q.at = "storing" /\ q.stamp = req[r].stamp
          /\ q.read = req[r].read /\ q.period = req[r].period
      BY <2>1 DEF Fields
    <3> QED BY <2>3, <3>1 DEF Rank, KeyOf, Building
  <2> QED BY <2>2, <2>3
<1>2. req' = [p \in Requests |-> IF p = r THEN q ELSE req[p]] /\ inflight' = inflight
  BY <1>1 DEF Build, Rank, At, IInv, Shaped
<1>3. Shaped'
  BY <1>1, <1>2 DEF IInv, Shaped, Building
<1>4. Led' /\ Listed' /\ Unique'
  BY <1>1, <1>2 DEF IInv, Led, Listed, Unique
<1>5. Waited'
  BY <1>1, <1>2 DEF IInv, Waited, Building
<1> QED BY <1>3, <1>4, <1>5 DEF IInv

\* Landing keeps it: the flight leaves the list with everyone who followed it.
LEMMA LandStep ==
  ASSUME IInv, NEW r \in Requests, Land(r)
  PROVE  IInv'
<1>1. req[r].at = "storing" /\ \A p \in Requests : DOMAIN req[p] = Fields
  BY DEF IInv, Shaped, Land
<1>2. CASE req[r].stamp = 0
  <2> DEFINE to == [p \in Requests |-> After(p, req[p], req[r].built)]
  <2>1. inflight' = Landed(r) /\ \A f \in inflight : f.leader # r
    BY <1>2 DEF Land, Landed, IInv, Led
  <2>2. req' = [p \in Requests |-> IF p \in {r} THEN to[p] ELSE req[p]]
    BY <1>2 DEF Land, At, IInv, Shaped
  <2>3. \A p \in {r} : DOMAIN to[p] = Fields /\ to[p].at \in {"running", "sending"}
    BY <1>1, ShapeOfAfter
  <2>4. {r} \in SUBSET Requests /\ r \in {r} /\ {r} \subseteq {r} \cup Followers(r)
    OBVIOUS
  <2>5. (\E f \in inflight : f.leader = r) => Followers(r) \subseteq {r}
    BY <2>1
  <2> HIDE DEF to
  <2> QED BY <2>1, <2>2, <2>3, <2>4, <2>5, Landing
<1>3. CASE req[r].stamp # 0
  <2> DEFINE to == [p \in Requests |-> After(p, req[p], req[r].built)]
             out == Followers(r) \cup {r}
  <2>1. inflight' = Landed(r) /\ out \in SUBSET Requests
    BY <1>3 DEF Land, Followers
  <2>2. req' = [p \in Requests |-> IF p \in out THEN to[p] ELSE req[p]]
    BY <1>3 DEF Land
  <2>3. \A p \in out : DOMAIN to[p] = Fields /\ to[p].at \in {"running", "sending"}
    BY <1>1, <2>1, ShapeOfAfter
  <2>4. r \in out /\ out \subseteq {r} \cup Followers(r) /\ Followers(r) \subseteq out
    OBVIOUS
  <2> HIDE DEF to, out
  <2> QED BY <2>1, <2>2, <2>3, <2>4, Landing
<1> QED BY <1>2, <1>3

\* Cancelling keeps it: a cancelled builder takes its followers out with it.
LEMMA CancelStep ==
  ASSUME IInv, NEW r \in Requests, Cancel(r)
  PROVE  IInv'
<1> DEFINE to == [p \in Requests |-> Replies(req[p], Busy)]
           out == {r} \cup (IF req[r].at = "running" \/ req[r].stamp = 0 THEN {} ELSE Followers(r))
<1>1. inflight' = Landed(r) /\ out \in SUBSET Requests
  BY DEF Cancel, FlightsAfter, Followers
<1>2. req' = [p \in Requests |-> IF p \in out THEN to[p] ELSE req[p]]
  BY DEF Cancel
<1>3. \A p \in out : DOMAIN to[p] = Fields /\ to[p].at \in {"running", "sending"}
  BY <1>1, ShapeOfReply DEF IInv, Shaped
<1>4. (\E f \in inflight : f.leader = r) => Followers(r) \subseteq out
  BY DEF IInv, Led, Building
<1>5. r \in out /\ out \subseteq {r} \cup Followers(r)
  OBVIOUS
<1> HIDE DEF to, out
<1> QED BY <1>1, <1>2, <1>3, <1>4, <1>5, Landing

\* Every step keeps the invariant.
LEMMA StepIInv == IInv /\ [Next]_vars => IInv'
<1> SUFFICES ASSUME IInv, [Next]_vars PROVE IInv'
  OBVIOUS
<1>1. CASE UNCHANGED <<inflight, req>>
  BY <1>1 DEF IInv, Shaped, Led, Listed, Unique, Waited
<1>2. ASSUME NEW r \in Requests, Work(r) PROVE IInv'
  BY <1>2, WaitingSteps, ReadingSteps, LeadStep, FollowStep, BuildSteps, LandStep DEF Work
<1>3. ASSUME NEW r \in Requests, Cancel(r) PROVE IInv'
  BY <1>3, CancelStep
<1> QED BY <1>1, <1>2, <1>3 DEF Next, Refresh, vars

\* The invariant says what the runs check.
LEMMA IInvFlights == IInv => FlightsSound
<1> SUFFICES ASSUME IInv PROVE FlightsSound
  OBVIOUS
<1>1. OneBuild
  <2> SUFFICES ASSUME NEW r \in Requests, NEW q \in Requests,
                      {req[r].at, req[q].at} \subseteq Building,
                      KeyOf(req[r]) = KeyOf(req[q]), req[r].stamp = req[q].stamp, req[r].stamp # 0
               PROVE  r = q
    BY DEF OneBuild
  <2>1. PICK f \in inflight : f.leader = r
    BY DEF IInv, Listed
  <2>2. PICK g \in inflight : g.leader = q
    BY DEF IInv, Listed
  <2>3. f.key = g.key /\ f.stamp = g.stamp
    BY <2>1, <2>2 DEF IInv, Led
  <2> QED BY <2>1, <2>2, <2>3 DEF IInv, Unique
<1>2. LeadersBuild
  BY DEF IInv, Led, LeadersBuild, FlightKey
<1>3. FollowersHaveFlights
  BY FlightIs DEF IInv, Waited, FollowersHaveFlights
<1> QED BY <1>1, <1>2, <1>3 DEF FlightsSound

\* However many visitors ask at once, and whoever of them fails, is cancelled
\* or gives up, a layer is built by one of them at a time, a listed flight is
\* being built, and a follower's flight is listed (main.py, cached()).
THEOREM BuiltOnce == Spec => []FlightsSound
<1> QED BY InitIInv, StepIInv, IInvFlights, PTL DEF Spec
-----------------------------------------------------------------------------
(* What the cache's table holds.                                           *)

\* How many entries make room is a number of entries.
LEMMA EvictedIs ==
  ASSUME NEW S, NEW table \in Seq(S), NEW total, NEW size
  PROVE  Evicted(table, total, size) \in 0..Len(table)
<1> DEFINE Fits(n) == \/ n = Len(table)
                      \/ /\ Len(table) - n < CacheEntries
                         /\ total - Weight(ToSet(SubSeq(table, 1, n))) + size =< CacheBytes
           T == {n \in 0..Len(table) : Fits(n)}
<1>1. T \in SUBSET Nat /\ Len(table) \in T
  OBVIOUS
<1>2. PICK n \in T : \A m \in T : n =< m
  BY <1>1, LeastNatural
<1>3. n \in 0..Len(table) /\ Fits(n) /\ \A m \in 0..n-1 : ~Fits(m)
  BY <1>2
<1>4. Evicted(table, total, size) =
        CHOOSE k \in 0..Len(table) : Fits(k) /\ \A m \in 0..k-1 : ~Fits(m)
  BY DEF Evicted
<1> HIDE DEF Fits
<1> QED BY <1>3, <1>4

\* Storing a value leaves a table of the entries it held and the new one.
LEMMA StoreOf ==
  ASSUME NEW S, cache \in Seq(S), NEW key, NEW stamp, NEW value, Store(key, stamp, value)
  PROVE  cache' \in Seq(S \cup {Entry(key, stamp, value)})
<1> DEFINE kept == Dropped(cache, key)
           n == Evicted(kept, WithoutStale(key), Size(value))
           e == Entry(key, stamp, value)
<1>1. kept \in Seq(S)
  BY DroppedOf
<1>2. n \in 0..Len(kept)
  BY <1>1, EvictedIs
<1>3. cache' = kept \/ cache' = Append(SubSeq(kept, n + 1, Len(kept)), e)
  BY DEF Store
<1> HIDE DEF kept, n, e
<1>4. SubSeq(kept, n + 1, Len(kept)) \in Seq(S)
  BY <1>1, <1>2
<1>5. Seq(S) \subseteq Seq(S \cup {e})
  OBVIOUS
<1>6. \A t \in Seq(S \cup {e}) : Append(t, e) \in Seq(S \cup {e})
  OBVIOUS
<1>7. cache' \in Seq(S \cup {e})
  BY <1>1, <1>3, <1>4, <1>5, <1>6
<1> QED BY <1>7 DEF e
-----------------------------------------------------------------------------
(* How old an answer may be.                                               *)

\* A value built under a stamp holds generations served since the stamp.
Held(value, from) == value \in Through!Between(from, gen)

Sound(q) ==
  /\ q.asked \in 0..gen
  /\ q.at \notin {"sending", "done"} => q.reply = None
  /\ q.at \in {"looking", "following"} \cup Building => q.stamp \in q.asked..gen
  /\ q.at \in {"ranking", "storing"} => Held(q.built, q.stamp)

CacheFresh ==
  /\ cache \in Seq(ToSet(cache))
  /\ \A e \in ToSet(cache) : e.stamp \in 0..gen /\ Held(e.value, e.stamp)

Fresh == gen \in Nat /\ CacheFresh /\ \A r \in Requests : Sound(req[r])

\* What a step does to a request that has asked: it may answer it, once.
Answers(q, to) ==
  /\ q.at # "new" /\ to.at # "new" /\ to.asked = q.asked
  /\ \/ to.reply = q.reply
     \/ q.reply = None /\ to.reply \in {Busy, Refused} \cup Through!Between(q.asked, gen)

\* A value held since one generation was held since any earlier one.
LEMMA HeldSince ==
  ASSUME NEW value, NEW from \in Nat, NEW to \in Nat, gen \in Nat, Held(value, from), to =< from
  PROVE  Held(value, to)
BY DEF Held, Through!Between

\* A request given a value held since it asked is answered rightly, or reads on.
LEMMA AnswersAfter ==
  ASSUME gen \in Nat, NEW r, NEW q, NEW value, DOMAIN q = Fields, Sound(q),
         q.at \in {"looking", "following"} \cup Building, Held(value, q.asked)
  PROVE  Sound(After(r, q, value)) /\ Answers(q, After(r, q, value))
<1>1. CASE q.read = Endpoint[r].last
  <2> DEFINE to == [q EXCEPT !.at = "sending", !.stamp = 0, !.built = None, !.reply = value]
  <2>1. After(r, q, value) = to
    BY <1>1 DEF After, Replies
  <2>2. to.at = "sending" /\ to.asked = q.asked /\ to.reply = value
    BY DEF Fields
  <2>3. q.reply = None
    BY DEF Sound, Building
  <2> HIDE DEF to
  <2> QED BY <2>1, <2>2, <2>3 DEF Sound, Answers, Held, Building
<1>2. CASE q.read # Endpoint[r].last
  <2> DEFINE to == [q EXCEPT !.at = "running", !.stamp = 0, !.built = None,
                             !.read = Endpoint[r].last, !.period = Resolved(r, q, value)]
  <2>1. After(r, q, value) = to
    BY <1>2 DEF After
  <2>2. to.at = "running" /\ to.asked = q.asked /\ to.reply = q.reply
    BY DEF Fields
  <2>3. q.reply = None
    BY DEF Sound, Building
  <2> HIDE DEF to
  <2> QED BY <2>1, <2>2, <2>3 DEF Sound, Answers, Building
<1> QED BY <1>1, <1>2

\* A request told it is busy, refused, or a held value is answered rightly.
LEMMA AnswersReply ==
  ASSUME NEW q, NEW answer \in {Busy, Refused} \cup Through!Between(q.asked, gen),
         DOMAIN q = Fields, Sound(q), q.at \notin {"new", "sending", "done"}
  PROVE  Sound(Replies(q, answer)) /\ Answers(q, Replies(q, answer))
<1> DEFINE to == [q EXCEPT !.at = "sending", !.stamp = 0, !.built = None, !.reply = answer]
<1>1. Replies(q, answer) = to
  BY DEF Replies
<1>2. to.at = "sending" /\ to.asked = q.asked /\ to.reply = answer
  BY DEF Fields
<1>3. q.reply = None
  BY DEF Sound
<1> HIDE DEF to
<1> QED BY <1>1, <1>2, <1>3 DEF Sound, Answers, Building

\* A step in which some requests move, none of them just asking, is an answer.
LEMMA AnswerStep ==
  ASSUME IInv, Fresh, gen' = gen, CacheFresh', NEW out \in SUBSET Requests, NEW to,
         req' = [p \in Requests |-> IF p \in out THEN to[p] ELSE req[p]],
         \A p \in out : Sound(to[p]) /\ Answers(req[p], to[p])
  PROVE  Fresh' /\ Through!Answer
<1>1. ASSUME NEW p \in Requests PROVE Sound(req[p])'
  <2>1. CASE p \in out
    BY <1>1, <2>1 DEF Sound, Held
  <2>2. CASE p \notin out
    BY <1>1, <2>2 DEF Fresh, Sound, Held
  <2> QED BY <2>1, <2>2
<1>2. Fresh'
  BY <1>1 DEF Fresh
<1>3. Through!Answer
  <2>1. \A p \in Requests : req'[p].asked = req[p].asked /\ (req'[p].at = "new" <=> req[p].at = "new")
    BY DEF Answers
  <2>2. [p \in Requests |-> IF req'[p].at = "new" THEN -1 ELSE req'[p].asked]
          = [p \in Requests |-> IF req[p].at = "new" THEN -1 ELSE req[p].asked]
    BY <2>1
  <2>3. ASSUME NEW p \in Requests
        PROVE  \/ req'[p].reply = req[p].reply
               \/ /\ (IF req[p].at = "new" THEN -1 ELSE req[p].asked) # -1
                  /\ req[p].reply = None
                  /\ req'[p].reply \in {Busy, Refused} \cup Through!Between(req[p].asked, gen)
    <3>1. req[p].asked \in Nat
      BY DEF Fresh, Sound
    <3> QED BY <2>3, <3>1 DEF Answers
  <2> QED BY <2>2, <2>3 DEF Through!Answer, Through!NotAsked, Through!Waiting, Through!Away,
          None, Busy, Refused, Answers
<1> QED BY <1>2, <1>3

\* The same for a step of one request that leaves the cache alone.
LEMMA OneAnswers ==
  ASSUME IInv, Fresh, UNCHANGED gen, CacheFresh', NEW r \in Requests, NEW q, At(r, q),
         Sound(q), Answers(req[r], q)
  PROVE  Fresh' /\ Through!Answer
<1> DEFINE to == [p \in Requests |-> q]
<1>1. req' = [p \in Requests |-> IF p \in {r} THEN to[p] ELSE req[p]]
  BY DEF At, IInv, Shaped
<1>2. {r} \in SUBSET Requests /\ \A p \in {r} : Sound(to[p]) /\ Answers(req[p], to[p])
  OBVIOUS
<1> HIDE DEF to
<1> QED BY <1>1, <1>2, AnswerStep

\* A step that touches neither data nor cache leaves the cache fresh.
LEMMA CacheStays ==
  ASSUME Fresh, UNCHANGED <<gen, cache>>
  PROVE  CacheFresh'
BY DEF Fresh, CacheFresh, Held

\* Steps outside the cache answer only rightly.
LEMMA WaitingAnswers ==
  ASSUME IInv, Fresh, NEW r \in Requests, Connect(r) \/ PoolTimeout(r) \/ Begin(r) \/ Send(r)
  PROVE  Fresh' /\ Through!Answer
<1>1. DOMAIN req[r] = Fields /\ Sound(req[r])
  BY DEF IInv, Shaped, Fresh
<1>2. CASE Connect(r)
  BY <1>1, <1>2, CacheStays, OneAnswers DEF Connect, Sound, Answers, Fields, Building
<1>3. CASE PoolTimeout(r)
  BY <1>1, <1>3, CacheStays, OneAnswers DEF PoolTimeout, Sound, Answers, Fields, Building
<1>4. CASE Begin(r)
  BY <1>1, <1>4, CacheStays, OneAnswers DEF Begin, Sound, Answers, Fields, Building
<1>5. CASE Send(r)
  BY <1>1, <1>5, CacheStays, OneAnswers DEF Send, Sound, Answers, Fields, Building
<1> QED BY <1>2, <1>3, <1>4, <1>5

\* Reading steps answer only rightly.
LEMMA ReadingAnswers ==
  ASSUME IInv, Fresh, NEW r \in Requests,
         Record(r) \/ Read(r) \/ Stamp(r) \/ Lead(r) \/ Follow(r) \/ GiveUp(r)
  PROVE  Fresh' /\ Through!Answer
<1>1. DOMAIN req[r] = Fields /\ Sound(req[r]) /\ gen \in Nat
  BY DEF IInv, Shaped, Fresh
<1>2. CASE Record(r)
  <2>1. CASE gen < Start[r] \/ gen = 0
    BY <1>1, <1>2, <2>1, CacheStays, OneAnswers, AnswersReply DEF Record
  <2>2. CASE ~(gen < Start[r] \/ gen = 0)
    BY <1>1, <1>2, <2>2, CacheStays, OneAnswers DEF Record, Sound, Answers, Fields, Building
  <2> QED BY <2>1, <2>2
<1>3. CASE Read(r)
  <2>1. [low |-> gen, high |-> gen] \in Through!Between(req[r].asked, gen)
    BY <1>1 DEF Through!Between, Sound
  <2> QED BY <1>1, <1>3, <2>1, CacheStays, OneAnswers, AnswersReply DEF Read
<1>4. CASE Stamp(r)
  <2> DEFINE q == [req[r] EXCEPT !.stamp = gen, !.at = IF gen = 0 THEN "building" ELSE "looking"]
  <2>1. /\ q.stamp = gen /\ q.at \in {"building", "looking"} /\ q.asked = req[r].asked
        /\ q.reply = req[r].reply
    BY <1>1 DEF Fields
  <2>2. At(r, q) /\ req[r].at = "running"
    BY <1>4 DEF Stamp
  <2> HIDE DEF q
  <2>3. Sound(q) /\ Answers(req[r], q)
    BY <1>1, <2>1, <2>2 DEF Sound, Answers
  <2> QED BY <1>4, <2>2, <2>3, CacheStays, OneAnswers DEF Stamp
<1>5. CASE Lead(r)
  BY <1>1, <1>5, CacheStays, OneAnswers DEF Lead, Missed, Sound, Answers, Fields, Building
<1>6. CASE Follow(r)
  BY <1>1, <1>6, CacheStays, OneAnswers DEF Follow, Missed, Sound, Answers, Fields, Building
<1>7. CASE GiveUp(r)
  BY <1>1, <1>7, CacheStays, OneAnswers, AnswersReply DEF GiveUp
<1> QED BY <1>2, <1>3, <1>4, <1>5, <1>6, <1>7

\* A hit is no older than the stamp it was looked up under.
LEMMA HitAnswers ==
  ASSUME IInv, Fresh, NEW r \in Requests, Hit(r)
  PROVE  Fresh' /\ Through!Answer
<1> DEFINE q == req[r]
<1>1. PICK e \in EntryOf(cache, KeyOf(q)) :
        /\ q.at = "looking" /\ e.stamp = q.stamp
        /\ cache' = Append(Dropped(cache, e.key), e)
        /\ At(r, After(r, q, e.value))
        /\ UNCHANGED <<gen, bytes, inflight>>
  BY DEF Hit
<1>2. DOMAIN q = Fields /\ Sound(q) /\ gen \in Nat /\ cache \in Seq(ToSet(cache))
  BY DEF IInv, Shaped, Fresh, CacheFresh
<1>3. e \in ToSet(cache)
  BY <1>2, TableOf
<1>4. cache' \in Seq(ToSet(cache))
  BY <1>1, <1>2, <1>3, DroppedOf
<1>5. CacheFresh'
  <2>1. cache' \in Seq(ToSet(cache')) /\ ToSet(cache') \subseteq ToSet(cache)
    BY <1>4, TableOf
  <2> QED BY <1>1, <2>1 DEF Fresh, CacheFresh, Held, ToSet
<1>6. Held(e.value, q.asked)
  <2>1. Held(e.value, q.stamp) /\ q.stamp \in q.asked..gen /\ q.asked \in Nat
    BY <1>1, <1>2, <1>3 DEF Fresh, CacheFresh, Sound
  <2> QED BY <1>2, <2>1, HeldSince
<1> QED BY <1>1, <1>2, <1>5, <1>6, AnswersAfter, OneAnswers

\* Building and ranking answer only rightly.
LEMMA BuildAnswers ==
  ASSUME IInv, Fresh, NEW r \in Requests, Build(r) \/ Rank(r)
  PROVE  Fresh' /\ Through!Answer
<1>1. DOMAIN req[r] = Fields /\ Sound(req[r]) /\ gen \in Nat
  BY DEF IInv, Shaped, Fresh
<1>2. CASE Build(r)
  <2> DEFINE q == [req[r] EXCEPT !.at = IF Custom(req[r]) THEN "ranking" ELSE "storing",
                                 !.built = [low |-> gen, high |-> gen]]
  <2>1. /\ q.at \in {"ranking", "storing"} /\ q.asked = req[r].asked /\ q.reply = req[r].reply
        /\ q.stamp = req[r].stamp /\ q.built = [low |-> gen, high |-> gen]
    BY <1>1 DEF Fields
  <2>2. At(r, q) /\ req[r].at = "building"
    BY <1>2 DEF Build
  <2>3. Held(q.built, q.stamp)
    BY <1>1, <2>1, <2>2 DEF Held, Through!Between, Sound, Building
  <2> HIDE DEF q
  <2>4. Sound(q) /\ Answers(req[r], q)
    BY <1>1, <2>1, <2>2, <2>3 DEF Sound, Answers, Building
  <2> QED BY <1>2, <2>2, <2>4, CacheStays, OneAnswers DEF Build
<1>3. CASE Rank(r)
  <2> DEFINE q == [req[r] EXCEPT !.at = "storing", !.built.high = gen]
  <2>1. /\ q.at = "storing" /\ q.asked = req[r].asked /\ q.reply = req[r].reply
        /\ q.stamp = req[r].stamp /\ q.built = [req[r].built EXCEPT !.high = gen]
    BY <1>1 DEF Fields
  <2>2. At(r, q) /\ req[r].at = "ranking"
    BY <1>3 DEF Rank
  <2>3. Held(q.built, q.stamp)
    BY <1>1, <2>1, <2>2 DEF Held, Through!Between, Sound, Building
  <2> HIDE DEF q
  <2>4. Sound(q) /\ Answers(req[r], q)
    BY <1>1, <2>1, <2>2, <2>3 DEF Sound, Answers, Building
  <2> QED BY <1>3, <2>2, <2>4, CacheStays, OneAnswers DEF Rank
<1> QED BY <1>2, <1>3

\* What a leader built is no older than the stamp its followers looked up
\* under, which is its own.
LEMMA LandAnswers ==
  ASSUME IInv, Fresh, NEW r \in Requests, Land(r)
  PROVE  Fresh' /\ Through!Answer
<1> DEFINE v == req[r].built
           to == [p \in Requests |-> After(p, req[p], v)]
           out == IF req[r].stamp = 0 THEN {r} ELSE Followers(r) \cup {r}
<1>1. \A p \in Requests : DOMAIN req[p] = Fields /\ Sound(req[p])
  BY DEF IInv, Shaped, Fresh
<1>2. gen \in Nat /\ gen' = gen /\ req[r].at = "storing"
  BY DEF Fresh, Land
<1>3. Held(v, req[r].stamp) /\ req[r].stamp \in 0..gen
  BY <1>1, <1>2 DEF Sound, Building
<1>4. CacheFresh'
  <2>1. CASE req[r].stamp = 0
    BY <1>2, <2>1, CacheStays DEF Land
  <2>2. CASE req[r].stamp # 0
    <3> DEFINE e == Entry(KeyOf(req[r]), req[r].stamp, v)
    <3>1. cache' \in Seq(ToSet(cache) \cup {e})
      BY <2>2, StoreOf DEF Land, Fresh, CacheFresh
    <3>2. cache' \in Seq(ToSet(cache')) /\ ToSet(cache') \subseteq ToSet(cache) \cup {e}
      BY <3>1, TableOf
    <3>3. e.stamp = req[r].stamp /\ e.value = v
      BY DEF Entry
    <3> HIDE DEF e, v
    <3> QED BY <1>2, <1>3, <3>2, <3>3 DEF Fresh, CacheFresh, Held, ToSet
  <2> QED BY <2>1, <2>2
<1>5. req' = [p \in Requests |-> IF p \in out THEN to[p] ELSE req[p]]
  <2>1. CASE req[r].stamp = 0
    BY <2>1 DEF Land, At, IInv, Shaped
  <2>2. CASE req[r].stamp # 0
    BY <2>2 DEF Land
  <2> QED BY <2>1, <2>2
<1>6. ASSUME NEW p \in out PROVE Sound(to[p]) /\ Answers(req[p], to[p])
  <2>1. /\ p \in Requests /\ req[p].at \in {"following", "storing"}
        /\ p = r \/ req[p].stamp = req[r].stamp
    BY <1>2, <1>6, SameFlight DEF Followers
  <2>2. req[p].asked \in Nat /\ req[p].asked =< req[r].stamp
    BY <1>1, <1>2, <2>1 DEF Sound, Building
  <2>3. Held(v, req[p].asked)
    BY <1>2, <1>3, <2>2, HeldSince
  <2> HIDE DEF v
  <2> QED BY <1>1, <1>2, <2>1, <2>3, AnswersAfter DEF Building
<1>7. out \in SUBSET Requests
  BY DEF Followers
<1> HIDE DEF v, to, out
<1> QED BY <1>2, <1>4, <1>5, <1>6, <1>7, AnswerStep

\* A cancellation answers only busy.
LEMMA CancelAnswers ==
  ASSUME IInv, Fresh, NEW r \in Requests, Cancel(r)
  PROVE  Fresh' /\ Through!Answer
<1> DEFINE to == [p \in Requests |-> Replies(req[p], Busy)]
           out == {r} \cup (IF req[r].at = "running" \/ req[r].stamp = 0 THEN {} ELSE Followers(r))
<1>1. \A p \in Requests : DOMAIN req[p] = Fields /\ Sound(req[p])
  BY DEF IInv, Shaped, Fresh
<1>2. req' = [p \in Requests |-> IF p \in out THEN to[p] ELSE req[p]] /\ out \in SUBSET Requests
  BY DEF Cancel, Followers
<1>3. ASSUME NEW p \in out PROVE Sound(to[p]) /\ Answers(req[p], to[p])
  <2>1. p \in Requests /\ req[p].at \in {"running", "following"} \cup Building
    BY <1>3 DEF Cancel, Followers, Building
  <2> QED BY <1>1, <2>1, AnswersReply DEF Building
<1>4. gen' = gen /\ CacheFresh'
  BY CacheStays DEF Cancel
<1> HIDE DEF to, out
<1> QED BY <1>2, <1>3, <1>4, AnswerStep

\* An arrival is an ask of the abstract server.
LEMMA ArriveAsks ==
  ASSUME IInv, Fresh, NEW r \in Requests, Arrive(r)
  PROVE  Fresh' /\ Through!Ask(r)
<1> DEFINE q == [req[r] EXCEPT !.at = IF ConnFree THEN "held" ELSE "connecting", !.asked = gen]
<1>1. DOMAIN req[r] = Fields /\ Sound(req[r]) /\ gen \in Nat /\ req[r].at = "new"
  BY DEF IInv, Shaped, Fresh, Arrive
<1>2. q.at \in {"held", "connecting"} /\ q.asked = gen /\ q.reply = req[r].reply
  BY <1>1 DEF Fields
<1>3. req' = [p \in Requests |-> IF p = r THEN q ELSE req[p]] /\ gen' = gen
  BY DEF Arrive, At, IInv, Shaped
<1> HIDE DEF q
<1>4. CacheFresh'
  BY CacheStays DEF Arrive
<1>5. ASSUME NEW p \in Requests PROVE Sound(req[p])'
  <2>1. Sound(q)
    BY <1>1, <1>2 DEF Sound, Building
  <2> QED BY <1>3, <2>1 DEF Fresh, Sound, Held
<1>6. Through!Ask(r)
  BY <1>1, <1>2, <1>3 DEF Through!Ask, Through!NotAsked
<1> QED BY <1>3, <1>4, <1>5, <1>6 DEF Fresh

\* A refresh of gold is the abstract server's new value.
LEMMA RefreshServes ==
  ASSUME Fresh, Refresh
  PROVE  Fresh' /\ Through!Serve
<1>1. gen \in Nat /\ gen' = gen + 1 /\ UNCHANGED <<cache, req>>
  BY DEF Fresh, Refresh
<1>2. \A value, from : Held(value, from) => Held(value, from)'
  BY <1>1 DEF Held, Through!Between
<1>3. ASSUME NEW r \in Requests PROVE Sound(req[r])'
  BY <1>1, <1>2 DEF Fresh, Sound
<1>4. CacheFresh'
  BY <1>1, <1>2 DEF Fresh, CacheFresh
<1> QED BY <1>1, <1>3, <1>4 DEF Fresh, Through!Serve

\* Every step keeps what is served fresh, and is one of the abstract server's.
LEMMA StepFresh ==
  ASSUME IInv, Fresh, [Next]_vars
  PROVE  Fresh' /\ [Through!ThroughNext]_Through!throughVars
<1>1. CASE UNCHANGED vars
  BY <1>1 DEF vars, Fresh, CacheFresh, Sound, Held, Through!throughVars
<1>2. CASE Refresh
  BY <1>2, RefreshServes DEF Through!ThroughNext
<1>3. ASSUME NEW r \in Requests, Arrive(r) PROVE Fresh' /\ Through!ThroughNext
  BY <1>3, ArriveAsks DEF Through!ThroughNext
<1>4. ASSUME NEW r \in Requests, Work(r) \/ Cancel(r), ~Arrive(r) PROVE Fresh' /\ Through!ThroughNext
  BY <1>4, WaitingAnswers, ReadingAnswers, HitAnswers, BuildAnswers, LandAnswers, CancelAnswers
  DEF Work, Through!ThroughNext
<1> QED BY <1>1, <1>2, <1>3, <1>4 DEF Next

\* A server with no request is fresh.
LEMMA InitFresh == Init => Fresh /\ Through!ThroughInit
<1> SUFFICES ASSUME Init PROVE Fresh /\ Through!ThroughInit
  OBVIOUS
<1>1. gen \in Nat /\ cache = <<>>
  BY DEF Init
<1>2. CacheFresh
  BY <1>1 DEF CacheFresh, ToSet
<1>3. \A r \in Requests : Sound(req[r]) /\ req[r].at = "new" /\ req[r].reply = None
  BY <1>1 DEF Init, New, Sound, Building
<1> QED BY <1>1, <1>2, <1>3 DEF Fresh, Through!ThroughInit, Through!NotAsked, Through!Waiting, None

\* No visitor is answered with data older than was served when it asked, and
\* no answer changes: the cache, its flights, the threads and the connections
\* implement a plain read of the database.
THEOREM AnsweredFresh == Spec => ReadsThrough
<1> QED BY InitIInv, InitFresh, StepIInv, StepFresh, PTL
        DEF Spec, ReadsThrough, Through!ThroughSpec

\* An entry whose stamp is current holds the current generation and no other,
\* whatever was committed while it was built.
THEOREM HitsAreCurrent == Spec => []HitIsCurrent
<1>1. Fresh => HitIsCurrent
  BY DEF Fresh, CacheFresh, HitIsCurrent, Held, Through!Between, ToSet
<1> QED BY <1>1, InitIInv, InitFresh, StepIInv, StepFresh, PTL DEF Spec
-----------------------------------------------------------------------------
(* What the cache weighs.  A table's entries are weighed as a set, in      *)
(* which each stands once, its keys being distinct.                        *)

Sizes(E) == [e \in E |-> Size(e.value)]
Weighed(E) == IsFiniteSet(E) /\ \A e \in E : Size(e.value) \in Nat

\* The weight of entries is the sum of their sizes.
LEMMA WeightIsSum ==
  ASSUME NEW E, IsFiniteSet(E)
  PROVE  Weight(E) = SumOver(Sizes(E), E)
<1> DEFINE Weighs(g) ==
      g = [s \in SUBSET E |-> IF s = {} THEN 0
                              ELSE Size(Chosen(s).value) + g[s \ {Chosen(s)}]]
           c == CHOOSE g : Weighs(g)
<1>1. Weight(E) = c[E]
  BY DEF Weight, MapThenSumSet, MapThenFoldSet, Chosen
<1>2. ASSUME NEW g PROVE Weighs(g) <=> FoldsTo("sum", Sizes(E), g, E)
  <2>1. ASSUME NEW s \in SUBSET E
        PROVE  FoldStep("sum", Sizes(E), g, s) = IF s = {} THEN 0
                                         ELSE Size(Chosen(s).value) + g[s \ {Chosen(s)}]
    BY ChosenIn DEF FoldStep, Combine, Unit, Sizes
  <2> QED BY <2>1 DEF FoldsTo
<1> HIDE DEF Weighs
<1>3. \E g : Weighs(g)
  BY <1>2, FoldsExist
<1>4. Weighs(c)
  BY <1>3
<1>5. FoldsTo("sum", Sizes(E), c, E)
  BY <1>2, <1>4
<1>6. PICK g : FoldsTo("sum", Sizes(E), g, E) /\ SumOver(Sizes(E), E) = g[E]
  BY <1>5, FoldIsOfFolds DEF FoldOver
<1>7. E \in SUBSET (E \cap E)
  OBVIOUS
<1>8. c[E] = g[E]
  BY <1>5, <1>6, <1>7, FoldsAgree
<1> QED BY <1>1, <1>6, <1>8

\* It is a natural, and that of two separate parts is theirs.
LEMMA WeightSplits ==
  ASSUME NEW E, NEW D \in SUBSET E, Weighed(E)
  PROVE  /\ {Weight(E), Weight(D), Weight(E \ D)} \subseteq Nat
         /\ Weight(E) = Weight(D) + Weight(E \ D)
<1> DEFINE rest == E \ D
<1>1. IsFiniteSet(E) /\ IsFiniteSet(D) /\ IsFiniteSet(rest)
  BY FS_Subset DEF Weighed
<1>2. /\ \A e \in E : Sizes(E)[e] \in Nat /\ Sizes(E)[e] \in Int
      /\ \A e \in D : Sizes(D)[e] = Sizes(E)[e]
      /\ \A e \in rest : Sizes(rest)[e] = Sizes(E)[e]
  BY DEF Weighed, Sizes
<1>3. Weight(D) = SumOver(Sizes(E), D) /\ Weight(rest) = SumOver(Sizes(E), rest)
  BY <1>1, <1>2, WeightIsSum, SumOfEqual
<1>4. Weight(E) = SumOver(Sizes(E), E)
  BY <1>1, WeightIsSum
<1>5. D \cap rest = {} /\ D \cup rest = E
  OBVIOUS
<1>6. SumOver(Sizes(E), D \cup rest) = SumOver(Sizes(E), D) + SumOver(Sizes(E), rest)
  <2> HIDE DEF rest
  <2> QED BY <1>1, <1>2, <1>5, SumOfUnion
<1>7. {SumOver(Sizes(E), E), SumOver(Sizes(E), D), SumOver(Sizes(E), rest)} \subseteq Nat
  BY <1>1, <1>2, SumIsNat
<1> QED BY <1>3, <1>4, <1>5, <1>6, <1>7

\* One entry weighs its size.
LEMMA WeightOfOne ==
  ASSUME NEW e, Size(e.value) \in Nat
  PROVE  Weight({e}) = Size(e.value)
<1>1. IsFiniteSet({e}) /\ Sizes({e})[e] = Size(e.value)
  BY FS_Singleton DEF Sizes
<1>2. SumOver(Sizes({e}), {e}) = Sizes({e})[e] + SumOver(Sizes({e}), {e} \ {e})
  BY <1>1, SumTakesOut
<1>3. {e} \ {e} = {}
  OBVIOUS
<1> QED BY <1>1, <1>2, <1>3, SumOfNone, WeightIsSum

\* No entries weigh nothing.
LEMMA WeightOfNone == Weight({}) = 0
BY WeightIsSum, FS_EmptySet, SumOfNone

\* A table cut in two: the parts hold what it held, and share nothing.
LEMMA CutTable ==
  ASSUME NEW S, NEW table \in Seq(S), Distinct(table), NEW n \in 0..Len(table)
  PROVE  LET old == ToSet(SubSeq(table, 1, n))
             tail == SubSeq(table, n + 1, Len(table))
         IN  /\ old \in SUBSET ToSet(table) /\ ToSet(tail) = ToSet(table) \ old
             /\ tail \in Seq(S) /\ Distinct(tail) /\ Len(tail) = Len(table) - n
<1> DEFINE head == SubSeq(table, 1, n)
           tail == SubSeq(table, n + 1, Len(table))
<1>1. /\ Len(head) = n /\ head \in Seq(S)
      /\ \A i \in 1..n : head[i] = table[i]
      /\ Len(tail) = Len(table) - n /\ tail \in Seq(S)
      /\ \A i \in 1..Len(table) - n : tail[i] = table[i + n]
  OBVIOUS
<1> HIDE DEF head, tail
<1>2. DOMAIN head = 1..n /\ DOMAIN tail = 1..Len(table) - n
  BY <1>1
<1>3. ToSet(head) = {table[i] : i \in 1..n}
  <2>1. ToSet(head) = {head[i] : i \in 1..n}
    BY <1>2, Zenon DEF ToSet
  <2> QED BY <1>1, <2>1
<1>4. ToSet(tail) = {table[i] : i \in n+1..Len(table)}
  <2>1. ASSUME NEW i \in n+1..Len(table) PROVE table[i] \in ToSet(tail)
    <3>1. i - n \in 1..Len(table) - n /\ (i - n) + n = i
      OBVIOUS
    <3>2. tail[i - n] = table[i]
      BY <1>1, <3>1
    <3> QED BY <1>2, <3>1, <3>2 DEF ToSet
  <2>2. ASSUME NEW i \in 1..Len(table) - n
        PROVE  tail[i] \in {table[j] : j \in n+1..Len(table)}
    <3>1. i + n \in n+1..Len(table) /\ tail[i] = table[i + n]
      BY <1>1
    <3> QED BY <3>1
  <2> QED BY <1>2, <2>1, <2>2 DEF ToSet
<1>5. ToSet(table) = {table[i] : i \in 1..Len(table)}
  BY DEF ToSet
<1>6. ASSUME NEW i \in 1..n, NEW j \in n+1..Len(table) PROVE table[i] # table[j]
  BY DEF Distinct
<1>7. ToSet(head) \in SUBSET ToSet(table) /\ ToSet(tail) = ToSet(table) \ ToSet(head)
  <2>1. 1..Len(table) = (1..n) \cup (n+1..Len(table))
    OBVIOUS
  <2> QED BY <1>3, <1>4, <1>5, <1>6, <2>1
<1>8. Distinct(tail)
  <2> SUFFICES ASSUME NEW i \in 1..Len(tail), NEW j \in 1..Len(tail), tail[i].key = tail[j].key
               PROVE  i = j
    BY DEF Distinct
  <2>1. i + n = j + n
    BY <1>1 DEF Distinct
  <2> QED BY <2>1, <1>1
<1> QED BY <1>1, <1>7, <1>8 DEF head, tail

-----------------------------------------------------------------------------
(* The byte counter.                                                       *)

Bounded == gen \in 0..MaxGen /\ Distinct(cache) /\ CacheBounded

\* Everything in the cache, and what is about to be stored, has a size.
LEMMA HeldHasSize ==
  ASSUME Bounded, NEW value, NEW from \in Nat, Held(value, from)
  PROVE  Size(value) \in Nat
<1>1. PICK a \in from..gen, b \in from..gen : value = [low |-> a, high |-> b]
  BY DEF Held, Through!Between
<1>2. a \in 0..MaxGen /\ b \in 0..MaxGen
  <2>1. gen \in 0..MaxGen /\ MaxGen \in Nat
    BY ServingAssumption DEF Bounded
  <2> QED BY <1>1, <2>1
<1> QED BY <1>1, <1>2, ServingAssumption

\* Every entry of the cache has a size.
LEMMA CacheWeighed ==
  ASSUME Fresh, Bounded
  PROVE  Weighed(ToSet(cache)) /\ cache \in Seq(ToSet(cache))
<1>1. cache \in Seq(ToSet(cache)) /\ IsFiniteSet(ToSet(cache))
  BY TableFinite DEF Fresh, CacheFresh
<1>2. ASSUME NEW e \in ToSet(cache) PROVE Size(e.value) \in Nat
  BY HeldHasSize DEF Fresh, CacheFresh
<1> QED BY <1>1, <1>2 DEF Weighed

\* A key's old entry leaves the counter with it.
LEMMA DropWeighs ==
  ASSUME Fresh, Bounded, NEW key
  PROVE  LET kept == Dropped(cache, key)
         IN  /\ kept \in Seq(ToSet(cache)) /\ Distinct(kept) /\ Len(kept) =< CacheEntries
             /\ \A e \in ToSet(kept) : e.key # key
             /\ Weighed(ToSet(kept)) /\ WithoutStale(key) = Weight(ToSet(kept))
             /\ WithoutStale(key) =< CacheBytes
<1> DEFINE kept == Dropped(cache, key)
           E == ToSet(cache)
<1>1. Weighed(E) /\ cache \in Seq(E) /\ Distinct(cache) /\ bytes = Weight(E)
      /\ bytes =< CacheBytes /\ Len(cache) =< CacheEntries
  BY CacheWeighed DEF Bounded, CacheBounded
<1>2. /\ ToSet(kept) = E \ EntryOf(cache, key) /\ Distinct(kept) /\ kept \in Seq(E)
      /\ Len(kept) = Len(cache) - 1 \/ kept = cache
  BY <1>1, DropTakesOut
<1>3. EntryOf(cache, key) \in SUBSET E
  BY DEF EntryOf
<1>4. /\ {Weight(E), Weight(EntryOf(cache, key)), Weight(ToSet(kept))} \subseteq Nat
      /\ Weight(E) = Weight(EntryOf(cache, key)) + Weight(ToSet(kept))
  BY <1>1, <1>2, <1>3, WeightSplits
<1>5. Weighed(ToSet(kept))
  BY <1>1, <1>2, FS_Subset DEF Weighed
<1>6. \A e \in ToSet(kept) : e.key # key
  BY <1>2 DEF EntryOf
<1>7. WithoutStale(key) = Weight(ToSet(kept)) /\ WithoutStale(key) =< CacheBytes
  <2> HIDE DEF kept, E
  <2>1. CacheBytes \in Nat
    BY ServingAssumption
  <2> QED BY <1>1, <1>4, <2>1 DEF WithoutStale
<1>8. Len(kept) =< CacheEntries
  <2>1. Len(cache) \in Nat /\ CacheEntries \in Nat
    BY <1>1, ServingAssumption
  <2> HIDE DEF kept, E
  <2> QED BY <1>1, <1>2, <2>1
<1> QED BY <1>2, <1>5, <1>6, <1>7, <1>8

\* The oldest entries go until the new one fits, or nothing is left.
LEMMA EvictedFits ==
  ASSUME NEW S, NEW table \in Seq(S), NEW total, NEW size
  PROVE  LET n == Evicted(table, total, size)
         IN  \/ n = Len(table)
             \/ /\ Len(table) - n < CacheEntries
                /\ total - Weight(ToSet(SubSeq(table, 1, n))) + size =< CacheBytes
<1> DEFINE Fits(n) == \/ n = Len(table)
                      \/ /\ Len(table) - n < CacheEntries
                         /\ total - Weight(ToSet(SubSeq(table, 1, n))) + size =< CacheBytes
           T == {n \in 0..Len(table) : Fits(n)}
<1>1. T \in SUBSET Nat /\ Len(table) \in T
  OBVIOUS
<1>2. PICK n \in T : \A m \in T : n =< m
  BY <1>1, LeastNatural
<1>3. n \in 0..Len(table) /\ Fits(n) /\ \A m \in 0..n-1 : ~Fits(m)
  BY <1>2
<1>4. Evicted(table, total, size) =
        CHOOSE k \in 0..Len(table) : Fits(k) /\ \A m \in 0..k-1 : ~Fits(m)
  BY DEF Evicted
<1> HIDE DEF Fits
<1>5. Fits(Evicted(table, total, size))
  BY <1>3, <1>4
<1> QED BY <1>5 DEF Fits

\* Storing keeps the counter and both limits.
LEMMA StoreBounds ==
  ASSUME Fresh, Bounded, UNCHANGED gen, NEW key, NEW stamp, NEW value, Size(value) \in Nat,
         Store(key, stamp, value)
  PROVE  Bounded'
<1> DEFINE kept == Dropped(cache, key)
           total == WithoutStale(key)
           n == Evicted(kept, total, Size(value))
           old == ToSet(SubSeq(kept, 1, n))
           tail == SubSeq(kept, n + 1, Len(kept))
           e == Entry(key, stamp, value)
           E == ToSet(cache)
<1>1. /\ kept \in Seq(E) /\ Distinct(kept) /\ Len(kept) =< CacheEntries
      /\ \A x \in ToSet(kept) : x.key # key
      /\ Weighed(ToSet(kept)) /\ total = Weight(ToSet(kept)) /\ total =< CacheBytes
  BY DropWeighs
<1>2. n \in 0..Len(kept)
  BY <1>1, EvictedIs
<1>3. \/ n = Len(kept)
      \/ Len(kept) - n < CacheEntries /\ total - Weight(old) + Size(value) =< CacheBytes
  BY <1>1, EvictedFits
<1>4. /\ Size(value) > CacheBytes => cache' = kept /\ bytes' = total
      /\ ~(Size(value) > CacheBytes) =>
           cache' = Append(tail, e) /\ bytes' = total - Weight(old) + Size(value)
  BY DEF Store
<1>5. e.key = key /\ e.value = value
  BY DEF Entry
<1>6. CacheEntries \in Nat \ {0} /\ CacheBytes \in Nat /\ gen' \in 0..MaxGen
  BY ServingAssumption DEF Bounded
<1> HIDE DEF kept, total, n, e, E
<1>7. CASE Size(value) > CacheBytes
  <2>1. /\ cache' \in Seq(E) /\ Distinct(cache') /\ bytes' = Weight(ToSet(cache'))
        /\ bytes' =< CacheBytes /\ Len(cache') =< CacheEntries
    BY <1>1, <1>4, <1>7
  <2> QED BY <1>6, <2>1, DistinctIs DEF Bounded, CacheBounded
<1>8. CASE ~(Size(value) > CacheBytes)
  <2>1. /\ old \in SUBSET ToSet(kept) /\ ToSet(tail) = ToSet(kept) \ old
        /\ tail \in Seq(E) /\ Distinct(tail) /\ Len(tail) = Len(kept) - n
    BY <1>1, <1>2, CutTable
  <2>2. \A x \in ToSet(tail) : x.key # e.key
    BY <1>1, <1>5, <2>1
  <2> HIDE DEF old, tail
  <2>3. /\ ToSet(cache') = ToSet(tail) \cup {e} /\ Distinct(cache')
        /\ Len(cache') = Len(tail) + 1
    <3>1. cache' = Append(tail, e)
      BY <1>4, <1>8
    <3>2. /\ ToSet(Append(tail, e)) = ToSet(tail) \cup {e} /\ Distinct(Append(tail, e))
          /\ Len(Append(tail, e)) = Len(tail) + 1
      BY <2>1, <2>2, AppendAdds
    <3> QED BY <3>1, <3>2
  <2>4. /\ {total, Weight(old), Weight(ToSet(tail))} \subseteq Nat
        /\ total = Weight(old) + Weight(ToSet(tail))
    BY <1>1, <2>1, WeightSplits
  <2>5. Weight(ToSet(cache')) = Weight(ToSet(tail)) + Size(value)
    <3> DEFINE F == ToSet(cache')
    <3>1. e \notin ToSet(tail) /\ F \ {e} = ToSet(tail) /\ {e} \in SUBSET F
      BY <2>2, <2>3
    <3>2. Weighed(F)
      <4>1. Weighed(ToSet(tail))
        BY <1>1, <2>1, FS_Subset DEF Weighed
      <4>2. IsFiniteSet(ToSet(tail) \cup {e})
        BY <4>1, FS_AddElement DEF Weighed
      <4> QED BY <1>5, <2>3, <4>1, <4>2 DEF Weighed
    <3>3. Weight({e}) = Size(value)
      BY <1>5, WeightOfOne
    <3> HIDE DEF F
    <3>4. Weight(F) = Weight({e}) + Weight(ToSet(tail))
      BY <3>1, <3>2, WeightSplits
    <3> QED BY <2>4, <3>3, <3>4 DEF F
  <2>6. bytes' = Weight(ToSet(cache'))
    BY <1>4, <1>8, <2>4, <2>5
  <2>7. bytes' =< CacheBytes
    <3>1. CASE n = Len(kept)
      <4>1. Len(tail) = 0
        BY <1>1, <2>1, <3>1
      <4>2. ToSet(tail) = {}
        BY <2>1, <4>1 DEF ToSet
      <4> QED BY <1>4, <1>6, <1>8, <2>4, <4>2, WeightOfNone
    <3>2. CASE n # Len(kept)
      BY <1>3, <1>4, <1>8, <3>2
    <3> QED BY <3>1, <3>2
  <2>8. Len(cache') =< CacheEntries
    <3>1. Len(kept) \in Nat
      BY <1>1
    <3> QED BY <1>2, <1>3, <1>6, <2>1, <2>3, <3>1
  <2>9. cache' \in Seq(E \cup {e})
    <3>1. tail \in Seq(E \cup {e})
      BY <2>1
    <3> QED BY <1>4, <1>8, <3>1
  <2> QED BY <1>6, <2>3, <2>6, <2>7, <2>8, <2>9, DistinctIs DEF Bounded, CacheBounded
<1> QED BY <1>7, <1>8

\* A hit moves an entry to the end, and weighs nothing.
LEMMA HitBounds ==
  ASSUME Fresh, Bounded, NEW r \in Requests, Hit(r)
  PROVE  Bounded'
<1>1. PICK e \in EntryOf(cache, KeyOf(req[r])) :
        cache' = Append(Dropped(cache, e.key), e) /\ UNCHANGED <<gen, bytes>>
  BY DEF Hit
<1> DEFINE kept == Dropped(cache, e.key)
           E == ToSet(cache)
<1>2. Weighed(E) /\ cache \in Seq(E) /\ Distinct(cache) /\ e \in E
  BY CacheWeighed DEF Bounded, EntryOf
<1>3. e \in EntryOf(cache, e.key) /\ HasKey(cache, e.key)
  BY <1>2 DEF EntryOf, HasKey
<1>4. /\ ToSet(kept) = E \ EntryOf(cache, e.key) /\ Distinct(kept) /\ kept \in Seq(E)
      /\ Len(kept) = Len(cache) - 1
  BY <1>2, <1>3, DropTakesOut
<1>5. \A x \in ToSet(kept) : x.key # e.key
  BY <1>4 DEF EntryOf
<1>6. EntryOf(cache, e.key) = {e}
  <2> SUFFICES ASSUME NEW x \in E, x.key = e.key PROVE x = e
    BY <1>3 DEF EntryOf
  <2>1. PICK i \in 1..Len(cache), j \in 1..Len(cache) : cache[i] = x /\ cache[j] = e
    BY <1>2 DEF ToSet
  <2> QED BY <1>2, <2>1 DEF Distinct
<1> HIDE DEF kept
<1>7. /\ ToSet(cache') = ToSet(kept) \cup {e} /\ Distinct(cache')
      /\ Len(cache') = Len(kept) + 1
  BY <1>1, <1>4, <1>5, AppendAdds DEF kept
<1>8. ToSet(cache') = E /\ Len(cache') = Len(cache)
  <2>1. Len(cache) \in Nat
    BY <1>2
  <2> QED BY <1>2, <1>4, <1>6, <1>7, <2>1
<1>9. cache' \in Seq(E)
  BY <1>1, <1>2, <1>4 DEF kept
<1> HIDE DEF E
<1> QED BY <1>1, <1>7, <1>8, <1>9, DistinctIs DEF Bounded, CacheBounded, E

\* An empty cache is within its limits.
LEMMA InitBounded == Init => Bounded
<1> SUFFICES ASSUME Init PROVE Bounded
  OBVIOUS
<1>1. gen \in 0..MaxGen /\ CacheEntries \in Nat /\ CacheBytes \in Nat
  BY ServingAssumption DEF Init
<1>2. cache = <<>> /\ bytes = 0 /\ cache \in Seq({}) /\ Len(cache) = 0
  BY DEF Init
<1>3. ToSet(cache) = {}
  BY <1>2 DEF ToSet
<1>4. Distinct(cache)
  BY <1>2 DEF Distinct
<1>5. IsInjective([i \in DOMAIN cache |-> cache[i].key])
  BY <1>2, <1>4, DistinctIs
<1>6. bytes = Weight(ToSet(cache)) /\ bytes =< CacheBytes /\ Len(cache) =< CacheEntries
  <2>1. Weight(ToSet(cache)) = 0
    BY <1>3, WeightOfNone
  <2>2. 0 =< CacheBytes /\ 0 =< CacheEntries
    BY <1>1
  <2> QED BY <1>2, <2>1, <2>2
<1> QED BY <1>1, <1>4, <1>5, <1>6 DEF Bounded, CacheBounded

\* Every step keeps the cache within its limits and its byte count true.
LEMMA StepBounded == Fresh /\ Bounded /\ [Next]_vars => Bounded'
<1> SUFFICES ASSUME Fresh, Bounded, [Next]_vars PROVE Bounded'
  OBVIOUS
<1>1. CASE UNCHANGED <<gen, cache, bytes>>
  BY <1>1 DEF Bounded, CacheBounded
<1>2. CASE Refresh
  <2>1. gen' \in 0..MaxGen
    <3>1. MaxGen \in Nat
      BY ServingAssumption
    <3> QED BY <1>2, <3>1 DEF Refresh, Bounded
  <2> QED BY <1>2, <2>1 DEF Refresh, Bounded, CacheBounded
<1>3. ASSUME NEW r \in Requests, Hit(r) PROVE Bounded'
  BY <1>3, HitBounds
<1>4. ASSUME NEW r \in Requests, Land(r) PROVE Bounded'
  <2>1. CASE req[r].stamp = 0
    BY <1>1, <1>4, <2>1 DEF Land
  <2>2. CASE req[r].stamp # 0
    <3>1. Held(req[r].built, req[r].stamp) /\ req[r].stamp \in Nat
      BY <1>4 DEF Land, Fresh, Sound, Building
    <3>2. Size(req[r].built) \in Nat
      BY <3>1, HeldHasSize
    <3> QED BY <1>4, <2>2, <3>2, StoreBounds DEF Land
  <2> QED BY <2>1, <2>2
<1>5. ASSUME NEW r \in Requests, Work(r) \/ Cancel(r), ~Hit(r), ~Land(r) PROVE Bounded'
  <2>1. UNCHANGED <<gen, cache, bytes>>
    BY <1>5 DEF Work, Arrive, Connect, PoolTimeout, Begin, Record, Read, Stamp, Lead, Follow,
       Build, Rank, GiveUp, Send, Cancel
  <2> QED BY <1>1, <2>1
<1> QED BY <1>1, <1>2, <1>3, <1>4, <1>5 DEF Next, vars

\* The byte counter is what the cached bodies weigh, and the table keeps to
\* its number of entries and to its bytes, whatever is replaced, evicted or
\* too large to keep, for any sizes (main.py, _store).
THEOREM CacheWithinLimits == Spec => []CacheBounded
<1>1. Bounded => CacheBounded
  BY DEF Bounded
<1> QED BY <1>1, InitIInv, InitFresh, InitBounded, StepIInv, StepFresh, StepBounded, PTL DEF Spec
=============================================================================
