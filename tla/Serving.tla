------------------------------ MODULE Serving ------------------------------
(***************************************************************************)
(* The serving path of the API (safety/api/main.py) for one city: requests *)
(* wait for a worker thread and a pooled connection, resolve the period    *)
(* they ask for, and read through one cache, keyed on the city's refresh   *)
(* stamp, in which a layer is built by one request at a time, while the    *)
(* ETL commits new generations of the data.                                *)
(*                                                                         *)
(* An action is one SQL statement, one critical section of _cache_lock, or *)
(* one hand-over of a thread or a connection.                              *)
(***************************************************************************)
EXTENDS Lru, FiniteSetsExt, TLC

CONSTANTS
  Requests,
  Endpoint,       \* request -> the endpoint it calls
  Start,          \* request -> the generation whose window start it asks from
  Threads,        \* Starlette's thread limiter
  PoolSize,       \* the pool's max_size
  CacheEntries,   \* settings.cache_max_entries
  CacheBytes,     \* settings.cache_max_bytes
  Size(_),        \* the bytes of a value
  MaxGen          \* bound of the model: generations of the data

VARIABLES
  gen,        \* refreshes committed; 0 is a city with no snapshot yet
  cache,      \* Lru of [key, stamp, value]
  bytes,      \* _cache_stats["bytes"]
  inflight,   \* _inflight: [key, stamp, leader]
  req         \* what each request is at

vars == <<gen, cache, bytes, inflight, req>>
-----------------------------------------------------------------------------
(* The endpoints, as the reads they make: first, and then at last.         *)

Reads == {"record", "windows", "layer", "filtered", "hours", "caveats", "mix", "basis", "read"}

Calls(first, last) == [first |-> first, last |-> last]

Period(ranged) == IF ranged THEN "record" ELSE "windows"

\* /cells is cached unless it is filtered by a box or a count; the rest read
\* their rows afresh, or keep only a small part.
Cells(ranged)   == Calls(Period(ranged), "layer")
CellsIn(ranged) == Calls(Period(ranged), "filtered")
Ring(ranged)    == Calls(Period(ranged), "read")
Lookup(ranged)  == Calls(Period(ranged), "read")
Cell(ranged)    == Calls(Period(ranged), "read")
Summary(ranged) == Calls(Period(ranged), "read")
Hours           == Calls("windows", "hours")
City            == Calls("windows", "caveats")
Quality         == Calls("mix", "mix")
Methodology     == Calls("basis", "basis")
Version         == Calls("read", "read")

Endpoints ==
  UNION {{Cells(b), CellsIn(b), Ring(b), Lookup(b), Cell(b), Summary(b)} : b \in BOOLEAN}
  \cup {Hours, City, Quality, Methodology, Version}

ASSUME ServingAssumption ==
  /\ Endpoint \in [Requests -> Endpoints] /\ Start \in [Requests -> Nat]
  /\ {Threads, PoolSize, CacheEntries, MaxGen} \subseteq Nat \ {0}
  /\ CacheBytes \in Nat
  /\ \A low, high \in 0..MaxGen : Size([low |-> low, high |-> high]) \in Nat
-----------------------------------------------------------------------------
(* The requests.                                                           *)

Stored   == <<0, 0>>                                  \* a window of the city's list
KeyOf(q) == <<q.read>> \o (IF q.read = "layer" THEN q.period ELSE Stored)

None == [low |-> -1, high |-> -1]       \* no answer yet
Busy == [low |-> -2, high |-> -2]       \* 503, come back shortly
Refused == [low |-> -3, high |-> -3]    \* 400

\* Where a request holds a worker thread, and where a pooled connection.
Building == {"building", "ranking", "storing"}
OnThread == {"connecting", "running", "looking", "following"} \cup Building
Connected == {"held", "running", "looking", "following", "sending"} \cup Building

ThreadFree == Cardinality({r \in Requests : req[r].at \in OnThread}) < Threads
ConnFree   == Cardinality({r \in Requests : req[r].at \in Connected}) < PoolSize

New(r) == [at |-> "new", read |-> Endpoint[r].first, asked |-> 0, want |-> Stored,
           period |-> Stored, stamp |-> 0, built |-> None, reply |-> None]

Init == /\ gen \in {0, 1}
        /\ cache = <<>> /\ bytes = 0 /\ inflight = {}
        /\ req = [r \in Requests |-> New(r)]

At(r, q) == req' = [req EXCEPT ![r] = q]
Replies(q, answer) == [q EXCEPT !.at = "sending", !.stamp = 0, !.built = None, !.reply = answer]

\* The window a request is served: the dates it names where the city's list
\* has a window of those very dates, which is then read by name.
Resolved(r, q, windows) ==
  IF Endpoint[r].first = "record" /\ q.want # <<windows.high, windows.high>>
  THEN q.want ELSE Stored

\* What a read leaves the request at: the next one, or the response.  Locals
\* that are out of scope are forgotten.
After(r, q, value) ==
  IF q.read = Endpoint[r].last THEN Replies(q, value)
  ELSE [q EXCEPT !.at = "running", !.stamp = 0, !.built = None,
                 !.read = Endpoint[r].last, !.period = Resolved(r, q, value)]

\* The ETL commits a refresh of the city, its stamp with it.
Refresh == /\ gen < MaxGen /\ gen' = gen + 1
           /\ UNCHANGED <<cache, bytes, inflight, req>>

\* get_conn runs on a thread of its own, and keeps it...
Arrive(r) == /\ req[r].at = "new" /\ ThreadFree
             /\ At(r, [req[r] EXCEPT !.at = IF ConnFree THEN "held" ELSE "connecting",
                                    !.asked = gen])
             /\ UNCHANGED <<gen, cache, bytes, inflight>>

\* ...until the pool has a connection for it...
Connect(r) == /\ req[r].at = "connecting" /\ ConnFree
              /\ At(r, [req[r] EXCEPT !.at = "held"])
              /\ UNCHANGED <<gen, cache, bytes, inflight>>

\* Bug: nothing bounds the wait.
PoolWaits(r) == FALSE /\ UNCHANGED vars

\* ...or api_pool_timeout_seconds pass without one.
PoolTimeout(r) == /\ req[r].at = "connecting" /\ ~ConnFree
                  /\ At(r, [req[r] EXCEPT !.at = "done", !.reply = Busy])
                  /\ UNCHANGED <<gen, cache, bytes, inflight>>

\* The endpoint is handed to the threads with its connection in hand.
Begin(r) == /\ req[r].at = "held" /\ ThreadFree
            /\ At(r, [req[r] EXCEPT !.at = "running"])
            /\ UNCHANGED <<gen, cache, bytes, inflight>>

\* A range ends where the data does, and cannot be asked of an unbuilt city.
Record(r) ==
  LET q == req[r] IN
  /\ q.at = "running" /\ q.read = "record"
  /\ At(r, IF gen < Start[r] \/ gen = 0 THEN Replies(q, Refused)
           ELSE [q EXCEPT !.read = "windows", !.want = <<Start[r], gen>>])
  /\ UNCHANGED <<gen, cache, bytes, inflight>>

\* A read that goes past the cache.
Read(r) ==
  LET q == req[r] IN
  /\ q.at = "running" /\ q.read \in {"read", "filtered"}
  /\ At(r, Replies(q, [low |-> gen, high |-> gen]))
  /\ UNCHANGED <<gen, cache, bytes, inflight>>

\* cached(): a city with no stamp goes past the cache too.
Stamp(r) ==
  LET q == req[r] IN
  /\ q.at = "running" /\ q.read \notin {"record", "read", "filtered"}
  /\ At(r, [q EXCEPT !.stamp = gen, !.at = IF gen = 0 THEN "building" ELSE "looking"])
  /\ UNCHANGED <<gen, cache, bytes, inflight>>
-----------------------------------------------------------------------------
(* The cache, under its lock.                                              *)

Weight(entries) == MapThenSumSet(LAMBDA e : Size(e.value), entries)

\* Bug: what the replaced entry weighed stays on the counter.
LeftOnCounter(key) == bytes
WithoutStale(key) == bytes - Weight(EntryOf(cache, key))

\* The oldest entries make room, one at a time, for one of this size.
Evicted(table, total, size) ==
  LET Fits(n) == \/ n = Len(table)
                 \/ /\ Len(table) - n < CacheEntries
                    /\ total - Weight(ToSet(SubSeq(table, 1, n))) + size =< CacheBytes
  IN CHOOSE n \in 0..Len(table) : Fits(n) /\ \A m \in 0..n-1 : ~Fits(m)

\* Bug: the entry is stamped with what is served when it is stored.
EntryAsOfNow(key, stamp, value) == [key |-> key, stamp |-> gen, value |-> value]
Entry(key, stamp, value) == [key |-> key, stamp |-> stamp, value |-> value]

Store(key, stamp, value) ==
  LET kept  == Dropped(cache, key)
      total == WithoutStale(key)
      n     == Evicted(kept, total, Size(value))
  IN IF Size(value) > CacheBytes
     THEN cache' = kept /\ bytes' = total
     ELSE /\ cache' = Append(SubSeq(kept, n + 1, Len(kept)), Entry(key, stamp, value))
          /\ bytes' = total - Weight(ToSet(SubSeq(kept, 1, n))) + Size(value)

\* Bug: a flight is known by its key alone.
KeyAlone(q) == <<KeyOf(q), 0>>
FlightKey(q) == <<KeyOf(q), q.stamp>>

Flight(q) == {f \in inflight : <<f.key, f.stamp>> = FlightKey(q)}

Hit(r) ==
  LET q == req[r] IN
  \E e \in EntryOf(cache, KeyOf(q)) :
    /\ q.at = "looking" /\ e.stamp = q.stamp
    /\ cache' = Append(Dropped(cache, e.key), e)
    /\ At(r, After(r, q, e.value))
    /\ UNCHANGED <<gen, bytes, inflight>>

Missed(r) == /\ req[r].at = "looking"
             /\ \A e \in EntryOf(cache, KeyOf(req[r])) : e.stamp # req[r].stamp

Registered(r) == inflight \cup
  {[key |-> FlightKey(req[r])[1], stamp |-> FlightKey(req[r])[2], leader |-> r]}

Lead(r) == /\ Missed(r) /\ Flight(req[r]) = {}
           /\ inflight' = Registered(r)
           /\ At(r, [req[r] EXCEPT !.at = "building"])
           /\ UNCHANGED <<gen, cache, bytes>>

Follow(r) == /\ Missed(r) /\ Flight(req[r]) # {}
             /\ At(r, [req[r] EXCEPT !.at = "following"])
             /\ UNCHANGED <<gen, cache, bytes, inflight>>

\* Who waits on the future of r's flight.
Followers(r) == {q \in Requests : /\ req[q].at = "following"
                                  /\ FlightKey(req[q]) = FlightKey(req[r])}

Landed(r) == {f \in inflight : f.leader # r}

\* The producer's first statement: its rows, or the scheme a custom range is
\* ranked by...
Custom(q) == q.read = "layer" /\ q.period # Stored

Build(r) == /\ req[r].at = "building"
            /\ At(r, [req[r] EXCEPT !.at = IF Custom(req[r]) THEN "ranking" ELSE "storing",
                                   !.built = [low |-> gen, high |-> gen]])
            /\ UNCHANGED <<gen, cache, bytes, inflight>>

\* ...and the statement that ranks it.
Rank(r) == /\ req[r].at = "ranking"
           /\ At(r, [req[r] EXCEPT !.at = "storing", !.built.high = gen])
           /\ UNCHANGED <<gen, cache, bytes, inflight>>

\* What was built is stored, the flight landed, its followers answered.
Land(r) ==
  /\ req[r].at = "storing"
  /\ IF req[r].stamp = 0
     THEN UNCHANGED <<cache, bytes, inflight>> /\ At(r, After(r, req[r], req[r].built))
     ELSE /\ Store(KeyOf(req[r]), req[r].stamp, req[r].built)
          /\ inflight' = Landed(r)
          /\ req' = [q \in Requests |-> IF q \in Followers(r) \cup {r}
                                        THEN After(q, req[q], req[r].built) ELSE req[q]]
  /\ gen' = gen

\* Bug: a failed flight stays listed.
FlightsAfterError(r) == inflight
FlightsAfter(r) == Landed(r)

\* statement_timeout cancels a query; a leader's error is its followers' too.
Cancel(r) ==
  /\ req[r].at \in {"running", "building", "ranking"}
  /\ inflight' = FlightsAfter(r)
  /\ LET failed == {r} \cup (IF req[r].at = "running" \/ req[r].stamp = 0 THEN {} ELSE Followers(r))
     IN req' = [q \in Requests |-> IF q \in failed THEN Replies(req[q], Busy) ELSE req[q]]
  /\ UNCHANGED <<gen, cache, bytes>>

\* pending.result gives up on the leader.
GiveUp(r) == /\ req[r].at = "following"
             /\ At(r, Replies(req[r], Busy))
             /\ UNCHANGED <<gen, cache, bytes, inflight>>

\* The response is out and the connection back in the pool.
Send(r) == /\ req[r].at = "sending"
           /\ At(r, [req[r] EXCEPT !.at = "done"])
           /\ UNCHANGED <<gen, cache, bytes, inflight>>
-----------------------------------------------------------------------------
Work(r) ==
  \/ Arrive(r) \/ Connect(r) \/ PoolTimeout(r) \/ Begin(r)
  \/ Record(r) \/ Read(r) \/ Stamp(r) \/ Hit(r) \/ Lead(r) \/ Follow(r)
  \/ Build(r) \/ Rank(r) \/ Land(r) \/ GiveUp(r) \/ Send(r)

Next == Refresh \/ \E r \in Requests : Work(r) \/ Cancel(r)

Spec == Init /\ [][Next]_vars

\* Threads are scheduled, and the pool's and the followers' timers fire.
FairSpec == Spec /\ \A r \in Requests : WF_vars(Work(r))
-----------------------------------------------------------------------------
(* Properties.                                                             *)

Keys == {<<read, s, e>> : read \in Reads, s \in 0..MaxGen, e \in 0..MaxGen}
Values == [low : 0..MaxGen, high : 0..MaxGen]

\* Every variable has the shape the code gives it.
TypeOK ==
  /\ gen \in 0..MaxGen
  /\ cache \in Seq([key : Keys, stamp : 1..MaxGen, value : Values])
  /\ bytes \in Nat
  /\ inflight \subseteq [key : Keys, stamp : 1..MaxGen, leader : Requests]
  /\ req \in [Requests ->
       [at : OnThread \cup Connected \cup {"new", "done"}, read : Reads,
        asked : 0..MaxGen, want : (0..MaxGen) \X (0..MaxGen),
        period : (0..MaxGen) \X (0..MaxGen), stamp : 0..MaxGen, built : Values \cup {None},
        reply : Values \cup {None, Busy, Refused}]]

\* An entry whose stamp is the current one holds that generation and no other,
\* however many statements built it and whatever was committed meanwhile.
HitIsCurrent ==
  \A i \in DOMAIN cache :
    cache[i].stamp = gen => cache[i].value = [low |-> gen, high |-> gen]

\* The byte counter is what the entries weigh, and both limits hold, over
\* replaced, evicted and oversized values; no key has two entries.
CacheBounded ==
  /\ bytes = Weight(ToSet(cache)) /\ bytes =< CacheBytes /\ Len(cache) =< CacheEntries
  /\ IsInjective([i \in DOMAIN cache |-> cache[i].key])

\* N concurrent misses for one layer at one stamp run its query once, a
\* flight's leader is still building it, and a follower has a flight to wait
\* for: an error takes its flight off the list with it.
OneBuild ==
  \A r, q \in Requests :
    /\ {req[r].at, req[q].at} \subseteq Building
    /\ KeyOf(req[r]) = KeyOf(req[q]) /\ req[r].stamp = req[q].stamp /\ req[r].stamp # 0
    => r = q
LeadersBuild ==
  \A f \in inflight : /\ req[f.leader].at \in Building
                      /\ FlightKey(req[f.leader]) = <<f.key, f.stamp>>
FollowersHaveFlights ==
  \A r \in Requests : req[r].at = "following" => Flight(req[r]) # {}
FlightsSound == OneBuild /\ LeadersBuild /\ FollowersHaveFlights

\* Every request is answered, though threads wait for connections held by
\* requests that wait for threads.
EventuallyAnswered == \A r \in Requests : <>(req[r].at = "done")

Through == INSTANCE ReadThrough WITH
  Readers <- Requests,
  served <- gen,
  since <- [r \in Requests |-> IF req[r].at = "new" THEN -1 ELSE req[r].asked],
  reply <- [r \in Requests |-> req[r].reply]

\* The threads, connections, cache and flights implement a plain read: no
\* visitor is answered with data older than was served when it asked, by way
\* of a stale entry, of a flight that began before a refresh, or of a slow
\* leader's late store, and no answer changes.
ReadsThrough == Through!ThroughSpec
=============================================================================
