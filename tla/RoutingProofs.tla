--------------------------- MODULE RoutingProofs ----------------------------
(***************************************************************************)
(* What /directions answers is right for every network of routes, every    *)
(* city, every clock and every number of refreshes; and what the request   *)
(* path of a provider keeps for any number of visitors, keys and           *)
(* concurrent calls, any limits and any clock.                             *)
(***************************************************************************)
EXTENDS Directions, ProviderClient, DataLemmas

(* Sequences put in order.                                                 *)

\* A set of pairs that orders some places, each before or after every other.
Orders(before, places) ==
  /\ \A i, j \in places : <<i, j>> \in before => <<j, i>> \notin before
  /\ \A i, j \in places : i # j => <<i, j>> \in before \/ <<j, i>> \in before
  /\ \A i, j, k \in places : <<i, j>> \in before /\ <<j, k>> \in before => <<i, k>> \in before

\* How t lists what s has at some places, each once, in an order.
Lists(at, t, s, places, before) ==
  /\ at \in [1..Cardinality(places) -> places]
  /\ \A n \in 1..Cardinality(places) : t[n] = s[at[n]]
  /\ \A m, n \in 1..Cardinality(places) : m < n => <<at[m], at[n]>> \in before
  /\ \A i \in places : \E n \in 1..Cardinality(places) : at[n] = i

\* InOrder lists so.
LEMMA OrderIs ==
  ASSUME NEW s, NEW places, IsFiniteSet(places), NEW before, Orders(before, places)
  PROVE  \E at : Lists(at, InOrder(s, places, before), s, places, before)
<1> DEFINE N == Cardinality(places)
           Before(i) == {j \in places : <<j, i>> \in before}
           rank == [i \in places |-> Cardinality(Before(i)) + 1]
           at == [n \in 1..N |-> CHOOSE i \in places : Cardinality(Before(i)) = n - 1]
<1>1. ASSUME NEW i \in places
      PROVE  IsFiniteSet(Before(i)) /\ Cardinality(Before(i)) \in Nat /\ Cardinality(Before(i)) < N
  <2>1. Before(i) \in SUBSET places /\ Before(i) # places
    BY DEF Orders
  <2> HIDE DEF Before
  <2> QED BY <2>1, FS_Subset, FS_CardinalityType
<1>2. N \in Nat /\ \A i \in places : rank[i] \in 1..N
  <2>1. N \in Nat
    BY FS_CardinalityType
  <2>2. ASSUME NEW i \in places PROVE rank[i] \in 1..N
    <3>1. Cardinality(Before(i)) \in Nat /\ Cardinality(Before(i)) < N /\ rank[i] = Cardinality(Before(i)) + 1
      BY <1>1
    <3> HIDE DEF Before, rank, N
    <3> QED BY <2>1, <3>1
  <2> HIDE DEF rank
  <2> QED BY <2>1, <2>2
<1>3. ASSUME NEW i \in places, NEW j \in places, <<i, j>> \in before PROVE rank[i] < rank[j]
  <2>1. Before(i) \in SUBSET Before(j) /\ i \in Before(j) /\ i \notin Before(i)
    BY <1>3 DEF Orders
  <2>2. Before(i) # Before(j)
    BY <2>1
  <2>3. Cardinality(Before(i)) < Cardinality(Before(j))
    <3> HIDE DEF Before
    <3> QED BY <1>1, <2>1, <2>2, FS_Subset
  <2> QED BY <1>1, <2>3
<1>10. \A i, j \in places : i # j => rank[i] # rank[j]
  <2> TAKE i \in places, j \in places
  <2>1. rank[i] \in Nat /\ rank[j] \in Nat
    BY <1>2
  <2>2. <<i, j>> \in before => rank[i] < rank[j]
    BY <1>3
  <2>3. <<j, i>> \in before => rank[j] < rank[i]
    BY <1>3
  <2> HIDE DEF rank
  <2> QED BY <2>1, <2>2, <2>3 DEF Orders
<1>4. rank \in Surjection(places, 1..N)
  <2>1. rank \in Injection(places, 1..N)
    <3>1. rank \in [places -> 1..N]
      BY <1>2
    <3> HIDE DEF rank, N
    <3> QED BY <1>10, <3>1 DEF Injection, IsInjective
  <2>2. IsFiniteSet(1..N) /\ Cardinality(1..N) = N
    BY <1>2, FS_Interval
  <2> HIDE DEF rank
  <2> QED BY <2>1, <2>2, FS_Injection
<1>5. ASSUME NEW n \in 1..N PROVE at[n] \in places /\ rank[at[n]] = n
  <2>1. PICK i \in places : rank[i] = n
    <3> HIDE DEF rank
    <3> QED BY <1>4 DEF Surjection
  <2>2. Cardinality(Before(i)) \in Nat
    BY <1>1
  <2> HIDE DEF Before
  <2>4. Cardinality(Before(i)) = n - 1
    BY <2>1, <2>2
  <2>3. at[n] \in places /\ Cardinality(Before(at[n])) = n - 1
    BY <2>4
  <2> QED BY <2>3
<1>6. at \in [1..N -> places]
  BY <1>5
<1>7. \A n \in 1..N : InOrder(s, places, before)[n] = s[at[n]]
  BY DEF InOrder
<1> HIDE DEF at, N, rank, Before
<1>8. ASSUME NEW m \in 1..N, NEW n \in 1..N, m < n PROVE <<at[m], at[n]>> \in before
  <2>1. at[m] \in places /\ at[n] \in places /\ at[m] # at[n]
    BY <1>5, <1>8
  <2>2. <<at[n], at[m]>> \notin before
    <3> SUFFICES ASSUME <<at[n], at[m]>> \in before PROVE FALSE
      OBVIOUS
    <3>1. rank[at[n]] < rank[at[m]]
      BY <1>3, <2>1
    <3> QED BY <1>2, <1>5, <1>8, <3>1
  <2> QED BY <2>1, <2>2 DEF Orders
<1>9. ASSUME NEW i \in places PROVE \E n \in 1..N : at[n] = i
  <2>1. rank[i] \in 1..N /\ at[rank[i]] \in places /\ rank[at[rank[i]]] = rank[i]
    BY <1>2, <1>5
  <2>2. at[rank[i]] = i
    BY <1>10, <2>1
  <2> QED BY <2>1, <2>2
<1> QED BY <1>6, <1>7, <1>8, <1>9 DEF N, Lists

\* The two orders routes are put in are orders.
LEMMA OrdersAre ==
  ASSUME NEW s, NEW places \in SUBSET DOMAIN s, DOMAIN s \in SUBSET Nat
  PROVE  /\ Orders(AsListed(s), places)
         /\ (\A i \in DOMAIN s : s[i].dur \in Nat) => Orders(Quicker(s), places)
<1>1. Orders(AsListed(s), places)
  BY DEF Orders, AsListed
<1>2. ASSUME \A i \in DOMAIN s : s[i].dur \in Nat PROVE Orders(Quicker(s), places)
  <2>1. \A i, j \in places : <<i, j>> \in Quicker(s) <=>
           \/ s[i].dur < s[j].dur
           \/ s[i].dur = s[j].dur /\ i < j
    BY DEF Quicker
  <2>2. \A i \in places : i \in Nat /\ s[i].dur \in Nat
    BY <1>2
  <2> QED BY <2>1, <2>2 DEF Orders
<1> QED BY <1>1, <1>2
-----------------------------------------------------------------------------
(* Routes put in order.                                                    *)

\* A route's fields, as far as order goes.
Timely(s) == /\ Len(s) \in Nat /\ DOMAIN s = 1..Len(s)
             /\ \A i \in DOMAIN s : s[i].dur \in Nat
InOrderOfTime(s) == \A i, j \in DOMAIN s : i < j => s[i].dur =< s[j].dur
NoTwoSame(s) == \A i, j \in DOMAIN s : i # j => ~Same(s[i].runs, s[j].runs)

\* A sequence in order is as long as its places.
LEMMA InOrderLength ==
  ASSUME NEW s, NEW places, IsFiniteSet(places), NEW before
  PROVE  /\ Cardinality(places) \in Nat
         /\ DOMAIN InOrder(s, places, before) = 1..Cardinality(places)
         /\ Len(InOrder(s, places, before)) = Cardinality(places)
<1>1. Cardinality(places) \in Nat
  BY FS_CardinalityType
<1> DEFINE t == InOrder(s, places, before)
           n == Cardinality(places)
<1>2. DOMAIN t = 1..n
  BY DEF InOrder
<1>3. t = [i \in 1..n |-> t[i]]
  BY DEF InOrder
<1> HIDE DEF t, n
<1>4. Len(t) = n
  BY <1>1, <1>3, LenProperties DEF n
<1> QED BY <1>1, <1>2, <1>4 DEF t, n

\* A sequence of routes has lengths and times that can be compared.
LEMMA RoutesAreTimely ==
  ASSUME NEW s \in Seq(Routes)
  PROVE  Timely(s) /\ Len(s) \in Nat /\ DOMAIN s = 1..Len(s) /\ \A i \in DOMAIN s : s[i] \in Routes
<1>1. Len(s) \in Nat /\ DOMAIN s = 1..Len(s)
  BY LenProperties
<1>2. \A i \in DOMAIN s : s[i] \in Routes
  BY <1>1, ElementOfSeq
<1> QED BY <1>1, <1>2 DEF Timely, Routes

\* Of routes, it is a sequence of routes.
LEMMA InOrderOfRoutes ==
  ASSUME NEW s, NEW places, IsFiniteSet(places), NEW before, Orders(before, places),
         \A i \in places : s[i] \in Routes
  PROVE  InOrder(s, places, before) \in Seq(Routes)
<1> DEFINE t == InOrder(s, places, before)
           n == Cardinality(places)
<1>1. PICK at : Lists(at, t, s, places, before)
  BY OrderIs
<1>2. \A i \in 1..n : t[i] \in Routes
  BY <1>1 DEF Lists
<1>3. t = [i \in 1..n |-> t[i]]
  BY DEF InOrder
<1>4. n \in Nat
  BY FS_CardinalityType
<1> HIDE DEF t, n
<1>5. t \in [1..n -> Routes]
  BY <1>2, <1>3
<1> QED BY <1>4, <1>5, SeqDef DEF t

\* Fastest first: as many, the same ones, each no faster than the one before.
LEMMA FastestFirstIs ==
  ASSUME NEW s, Timely(s)
  PROVE  LET t == FastestFirst(s) IN
         /\ Timely(t) /\ Len(t) = Len(s) /\ InOrderOfTime(t)
         /\ \A i \in DOMAIN t : \E j \in DOMAIN s : t[i] = s[j]
         /\ \A j \in DOMAIN s : \E i \in DOMAIN t : t[i] = s[j]
<1> DEFINE places == DOMAIN s
           t == FastestFirst(s)
           N == Cardinality(places)
<1>1. IsFiniteSet(places) /\ N = Len(s) /\ places \in SUBSET Nat /\ Len(s) \in Nat
  BY FS_Interval DEF Timely
<1>2. Orders(Quicker(s), places)
  BY <1>1, OrdersAre DEF Timely
<1>10. t = InOrder(s, places, Quicker(s))
  BY DEF FastestFirst
<1> HIDE DEF t, places
<1>11. PICK at : Lists(at, t, s, places, Quicker(s))
  BY <1>1, <1>2, <1>10, OrderIs
<1>3. /\ at \in [1..N -> places]
      /\ \A n \in 1..N : t[n] = s[at[n]]
      /\ \A m, n \in 1..N : m < n => <<at[m], at[n]>> \in Quicker(s)
      /\ \A i \in places : \E n \in 1..N : at[n] = i
  BY <1>11 DEF Lists
<1> USE DEF places
<1>4. DOMAIN t = 1..N /\ Len(t) = N
  BY <1>1, <1>10, InOrderLength
<1>5. \A n \in 1..N : at[n] \in places /\ t[n] = s[at[n]]
  BY <1>3
<1> HIDE DEF N
<1>6. InOrderOfTime(t)
  <2> SUFFICES ASSUME NEW i \in 1..N, NEW j \in 1..N, i < j PROVE t[i].dur =< t[j].dur
    BY <1>4 DEF InOrderOfTime
  <2>1. <<at[i], at[j]>> \in Quicker(s)
    BY <1>3
  <2>2. s[at[i]].dur \in Nat /\ s[at[j]].dur \in Nat
    BY <1>5 DEF Timely
  <2>3. s[at[i]].dur < s[at[j]].dur \/ s[at[i]].dur = s[at[j]].dur
    BY <2>1 DEF Quicker
  <2> QED BY <1>5, <2>2, <2>3
<1>7. Timely(t)
  BY <1>1, <1>4, <1>5 DEF Timely
<1>8. \A i \in DOMAIN t : \E j \in DOMAIN s : t[i] = s[j]
  BY <1>4, <1>5
<1>9. \A j \in DOMAIN s : \E i \in DOMAIN t : t[i] = s[j]
  <2> TAKE j \in DOMAIN s
  <2>1. PICK n \in 1..N : at[n] = j
    BY <1>3
  <2> QED BY <1>4, <1>5, <2>1
<1> QED BY <1>1, <1>4, <1>6, <1>7, <1>8, <1>9 DEF t

\* There is a set to keep, whatever is the same as what.
LEMMA KeptExists ==
  ASSUME NEW s, Len(s) \in Nat, DOMAIN s = 1..Len(s)
  PROVE  \E kept \in SUBSET DOMAIN s : KeepsFirst(s, kept)
<1> DEFINE N == Len(s)
           Kept(n) == {kept \in SUBSET (1..n) : \A i \in 1..n :
             i \in kept <=> \A j \in kept : j < i => ~Same(s[i].runs, s[j].runs)}
           Bad == {n \in 0..N : Kept(n) = {}}
<1>1. Kept(0) # {}
  <2>1. {} \in Kept(0)
    OBVIOUS
  <2> QED BY <2>1
<1>2. ASSUME NEW n \in 0..N, n # N, NEW kept \in Kept(n) PROVE Kept(n + 1) # {}
  <2> DEFINE more == {i \in {n + 1} : \A j \in kept : ~Same(s[i].runs, s[j].runs)}
             all == kept \cup more
  <2>1. kept \in SUBSET (1..n) /\ more \in SUBSET {n + 1} /\ n \in Nat
    OBVIOUS
  <2>2. all \in SUBSET (1..n + 1)
    <3>1. 1..n + 1 = (1..n) \cup {n + 1}
      BY <2>1
    <3> QED BY <2>1, <3>1
  <2>3. ASSUME NEW i \in 1..n + 1
        PROVE  i \in all <=> \A j \in all : j < i => ~Same(s[i].runs, s[j].runs)
    <3>1. CASE i = n + 1
      <4>1. \A j \in all : j < i <=> j \in kept
        BY <2>1, <3>1
      <4>2. i \notin kept
        BY <2>1, <3>1
      <4> QED BY <3>1, <4>1, <4>2
    <3>2. CASE i # n + 1
      <4>1. i \in 1..n /\ \A j \in all : j < i => j \in kept
        BY <2>1, <3>2
      <4>2. i \in all <=> i \in kept
        BY <2>1, <3>2
      <4>3. i \in kept <=> \A j \in kept : j < i => ~Same(s[i].runs, s[j].runs)
        BY <4>1
      <4> HIDE DEF more
      <4> QED BY <4>1, <4>2, <4>3
    <3> QED BY <3>1, <3>2
  <2> QED BY <2>2, <2>3
<1> HIDE DEF Kept
<1>3. Bad = {}
  <2> SUFFICES ASSUME Bad # {} PROVE FALSE
    OBVIOUS
  <2>1. Bad \in SUBSET Nat
    OBVIOUS
  <2>2. PICK n \in Bad : \A m \in Bad : n =< m
    BY <2>1, LeastNatural
  <2>3. n \in 1..N /\ n - 1 \in 0..N /\ n - 1 # N /\ n - 1 + 1 = n
    BY <1>1, <2>2
  <2>4. Kept(n - 1) # {}
    BY <2>2, <2>3
  <2>5. Kept(n - 1 + 1) # {}
    BY <1>2, <2>3, <2>4
  <2> QED BY <2>2, <2>3, <2>5
<1>4. Kept(N) # {}
  BY <1>3
<1> QED BY <1>4 DEF Kept, KeepsFirst

\* Distinct routes: some of them, in the order they stood in, no two the same,
\* and the first of them first.
LEMMA DistinctRoutesAre ==
  ASSUME NEW s, Timely(s)
  PROVE  LET t == DistinctRoutes(s) IN
         /\ Timely(t) /\ NoTwoSame(t)
         /\ InOrderOfTime(s) => InOrderOfTime(t)
         /\ \A i \in DOMAIN t : \E j \in DOMAIN s : t[i] = s[j]
         /\ Len(s) # 0 => Len(t) # 0 /\ t[1] = s[1]
<1> DEFINE places == CHOOSE kept \in SUBSET DOMAIN s : KeepsFirst(s, kept)
           t == DistinctRoutes(s)
           N == Cardinality(places)
<1>1. places \in SUBSET DOMAIN s /\ KeepsFirst(s, places)
  BY KeptExists DEF Timely
<1>2. t = InOrder(s, places, AsListed(s))
  BY DEF DistinctRoutes
<1> HIDE DEF places
<1>3. IsFiniteSet(places) /\ DOMAIN s \in SUBSET Nat
  <2>1. IsFiniteSet(DOMAIN s) /\ DOMAIN s \in SUBSET Nat
    BY FS_Interval DEF Timely
  <2> QED BY <1>1, <2>1, FS_Subset
<1>4. Orders(AsListed(s), places)
  BY <1>1, <1>3, OrdersAre
<1> HIDE DEF t
<1>14. PICK at : Lists(at, t, s, places, AsListed(s))
  BY <1>2, <1>3, <1>4, OrderIs
<1>5. /\ at \in [1..N -> places]
      /\ \A n \in 1..N : t[n] = s[at[n]]
      /\ \A m, n \in 1..N : m < n => <<at[m], at[n]>> \in AsListed(s)
      /\ \A i \in places : \E n \in 1..N : at[n] = i
  BY <1>14 DEF Lists
<1>6. N \in Nat /\ DOMAIN t = 1..N /\ Len(t) = N
  BY <1>2, <1>3, InOrderLength
<1> HIDE DEF t, N
<1>7. \A n \in 1..N : at[n] \in places /\ at[n] \in DOMAIN s /\ at[n] \in Nat /\ t[n] = s[at[n]]
  BY <1>1, <1>2, <1>3, <1>5
<1>8. \A m, n \in 1..N : m < n => at[m] < at[n]
  BY <1>5, <1>7 DEF AsListed
<1>9. Timely(t)
  BY <1>6, <1>7 DEF Timely
<1>10. NoTwoSame(t)
  <2>1. ASSUME NEW i \in 1..N, NEW j \in 1..N, i < j PROVE ~Same(t[i].runs, t[j].runs) /\ ~Same(t[j].runs, t[i].runs)
    <3>1. ~Same(s[at[j]].runs, s[at[i]].runs)
      BY <1>1, <1>7, <1>8, <2>1 DEF KeepsFirst
    <3>2. ~Same(t[j].runs, t[i].runs)
      BY <1>7, <3>1
    <3> QED BY <3>2 DEF Same
  <2> QED BY <1>6, <2>1 DEF NoTwoSame
<1>11. ASSUME InOrderOfTime(s) PROVE InOrderOfTime(t)
  BY <1>6, <1>7, <1>8, <1>11 DEF InOrderOfTime
<1>12. \A i \in DOMAIN t : \E j \in DOMAIN s : t[i] = s[j]
  BY <1>6, <1>7
<1>13. ASSUME Len(s) # 0 PROVE Len(t) # 0 /\ t[1] = s[1]
  <2>1. 1 \in DOMAIN s /\ \A j \in places : ~(j < 1)
    BY <1>1, <1>13 DEF Timely
  <2>2. 1 \in places
    BY <1>1, <2>1 DEF KeepsFirst
  <2>3. PICK n \in 1..N : at[n] = 1
    BY <1>5, <2>2
  <2>4. n = 1
    <3> SUFFICES ASSUME 1 < n PROVE FALSE
      BY <1>6
    <3>1. 1 \in 1..N /\ at[1] < at[n]
      BY <1>6, <1>8
    <3> QED BY <1>7, <2>1, <2>3, <3>1
  <2> QED BY <1>6, <1>7, <2>3, <2>4
<1> QED BY <1>9, <1>10, <1>11, <1>12, <1>13 DEF t
-----------------------------------------------------------------------------
(* The inductive invariant.                                                *)

Fields == {"at", "ask", "asked", "window", "base", "first", "routes", "have", "known",
           "knownTimes", "then", "cells", "times", "answer"}
Queries == {"all", "hour", "day"}

\* Where a request is, or where it goes on to when its rows are fetched.
Stage(q) == IF q.at \in Queries THEN q.then ELSE q.at

Shaped(g, q) ==
  /\ DOMAIN q = Fields
  /\ q.ask.mode \in Modes /\ q.ask.slot \in Nat
  /\ q.asked \in 0..g /\ q.base \in 0..g
  /\ q.routes \in Seq(Routes) /\ q.first \in Seq(Routes)
  /\ \A k \in DOMAIN q.have : k[1] \in Universe /\ q.have[k] \in 1..g
  /\ q.at \in Queries => Stage(q) \in {"worst", "detours", "scoring"}
  /\ q.at \notin Queries \cup {"busy"} => q.cells = {} /\ q.times = {}

\* What is offered, once it is settled; until then, what was found.
Offered(q) ==
  /\ InOrderOfTime(q.routes) /\ Len(q.routes) # 0
  /\ q.ask.mode \in {"walk", "bike"} => NoTwoSame(q.routes)
  /\ \A i \in DOMAIN q.routes :
       \/ \E j \in DOMAIN q.first : q.routes[i] = q.first[j]
       \/ 10 * q.routes[i].dist =< 13 * q.first[1].dist
  /\ \A j \in DOMAIN q.first : q.routes[1].dur =< q.first[j].dur
Offering(q) ==
  /\ Stage(q) \in {"worst", "detours"} =>
       q.routes = q.first /\ InOrderOfTime(q.first) /\ Len(q.first) # 0
  /\ Stage(q) \in {"scoring", "answered"} => Offered(q)

\* What is answered is of the routes settled, by the rows held.
ActivityOf(q, t) ==
  [i \in DOMAIN q.routes |-> TrackActivity(q.routes[i].runs, Ratios(q, t, q.routes[i]))]
AnswerOf(q) ==
  [routes   |-> q.routes,
   activity |-> [t \in Tracks |-> ActivityOf(q, t)],
   picks    |-> [t \in Tracks |-> Pick(q.ask.mode, q.routes, ActivityOf(q, t))]]
Answering(q) == q.at = "answered" => q.answer = AnswerOf(q)

\* The rows of some cells are held, where the data has any.
HeldAt(g, q, cells, kind, ns) ==
  Holds(g, q.window.id, kind) =>
    \A c \in cells \cap Universe, n \in ns : <<c, kind, n>> \in DOMAIN q.have

\* While no refresh commits, the rows held are those of the data served: all
\* of the cells known, at the times known.
Holding(g, q) ==
  q.at # "busy" /\ q.asked = g =>
    /\ \A k \in DOMAIN q.have : q.have[k] = g /\ Holds(g, q.window.id, k[2])
    /\ HeldAt(g, q, q.known, "all", {0})
    /\ \A p \in q.knownTimes :
         /\ HeldAt(g, q, {p[1]}, "hour", {p[2][1]})
         /\ Daily(q) => HeldAt(g, q, {p[1]}, "day", {p[2][2]})
    /\ q.at \in {"hour", "day"} => HeldAt(g, q, q.cells, "all", {0})
    /\ q.at = "day" => HeldAt(g, q, q.cells, "hour", HoursOf(q.times))

\* Before a route is known, nothing is held; when the routes are settled,
\* every cell of them is known, at every time it is reached, or is being
\* fetched.
Unread(q) == q.have = NoRows /\ q.known = {} /\ q.knownTimes = {}
Known(q, c, t) ==
  /\ c \in q.known \/ c \in q.cells
  /\ q.window.hourly => <<c, t>> \in q.knownTimes \/ (c \in q.cells /\ t \in q.times)
Covering(q) ==
  /\ q.at \in {"idle", "windows", "baseline", "routing"} => Unread(q)
  /\ Stage(q) \in {"scoring", "answered"} /\ q.window # NoWindow =>
       \A i \in DOMAIN q.routes : \A j \in DOMAIN q.routes[i].runs :
         Known(q, q.routes[i].runs[j].cell, Time(SlotOf(q, q.routes[i], j)))

IInv == /\ gen \in 1..MaxGen
        /\ Shaped(gen, req) /\ Offering(req) /\ Answering(req)
        /\ Holding(gen, req) /\ Covering(req)
-----------------------------------------------------------------------------
(* Steps, field by field.                                                  *)

\* r is q but for some fields.
SameBut(r, q, changed) == DOMAIN r = Fields /\ \A f \in Fields \ changed : r[f] = q[f]

\* What is said of a request by its ask, its window and its baseline alone.
LEMMA SameCity ==
  ASSUME NEW q, NEW r, r.ask = q.ask, r.window = q.window, r.base = q.base
  PROVE  /\ \A t, h, d : Timed(r, t, h, d) = Timed(q, t, h, d)
         /\ Daily(r) <=> Daily(q)
         /\ \A route, i : SlotOf(r, route, i) = SlotOf(q, route, i)
         /\ \A route : Times(r, route) = Times(q, route)
<1>1. BaselineDays(r) = BaselineDays(q)
  BY DEF BaselineDays
<1>2. ASSUME NEW t, NEW h, NEW d PROVE Timed(r, t, h, d) = Timed(q, t, h, d)
  BY <1>1 DEF Timed
<1>3. Daily(r) <=> Daily(q)
  BY <1>1, <1>2 DEF Daily
<1>4. ASSUME NEW route, NEW i PROVE SlotOf(r, route, i) = SlotOf(q, route, i)
  BY DEF SlotOf, StartOf
<1>5. ASSUME NEW route PROVE Times(r, route) = Times(q, route)
  BY <1>4 DEF Times
<1> QED BY <1>2, <1>3, <1>4, <1>5

\* Going to fetch.
LEMMA FetchIs ==
  ASSUME NEW q, DOMAIN q = Fields, NEW cells, NEW times, NEW then \in {"worst", "detours", "scoring"}
  PROVE  LET r == Fetch(q, cells, times, then) IN
         /\ SameBut(r, q, {"at", "then", "cells", "times"}) /\ Stage(r) = then
         /\ \/ /\ r.at = then /\ r.cells = q.cells /\ r.times = q.times
               /\ q.window = NoWindow \/ MissingFrom(q, cells, times) = {}
            \/ r.at = "all" /\ r.cells = MissingFrom(q, cells, times) /\ r.times = times
<1>1. CASE q.window = NoWindow \/ MissingFrom(q, cells, times) = {}
  BY <1>1 DEF Fetch, SameBut, Stage, Fields, Queries
<1>2. CASE ~(q.window = NoWindow \/ MissingFrom(q, cells, times) = {})
  BY <1>2 DEF Fetch, SameBut, Stage, Fields, Queries
<1> QED BY <1>1, <1>2

\* What Fetched writes, field by field.
LEMMA FetchedIs ==
  ASSUME NEW q, DOMAIN q = Fields
  PROVE  LET r == Fetched(q) IN
         /\ SameBut(r, q, {"at", "then", "cells", "times", "known", "knownTimes"})
         /\ r.at = q.then /\ r.cells = {} /\ r.times = {}
         /\ r.known = q.known \cup q.cells
         /\ r.knownTimes = q.knownTimes \cup (q.cells \X q.times)
BY DEF Fetched, SameBut, Fields

\* What a fetch leaves out is known already.
LEMMA MissingIs ==
  ASSUME NEW q, NEW cells, NEW times, NEW c \in cells, NEW t \in times, times # {}
  PROVE  \/ c \in MissingFrom(q, cells, times)
         \/ c \in q.known /\ <<c, t>> \in q.knownTimes
BY DEF MissingFrom

\* Where nothing was read yet, or the request was given up, what was read is no
\* matter.
LEMMA Unstarted ==
  ASSUME NEW g, NEW q, Unread(q) \/ q.at = "busy",
         q.at \in {"idle", "refused", "windows", "baseline", "routing", "no_route", "busy"}
  PROVE  Offering(q) /\ Answering(q) /\ Holding(g, q) /\ Covering(q)
<1>1. Stage(q) = q.at /\ q.at \notin Queries
  BY DEF Stage, Queries
<1>2. Offering(q) /\ Answering(q)
  BY <1>1 DEF Offering, Answering
<1>3. Holding(g, q)
  BY <1>1 DEF Holding, Unread, NoRows, HeldAt
<1>4. Covering(q)
  BY <1>1 DEF Covering
<1> QED BY <1>2, <1>3, <1>4

\* Routes settled, or searched for, leave what is held as it was.
LEMMA HoldingMoves ==
  ASSUME NEW g, NEW q, NEW r, Holding(g, q), q.at # "busy", r.at \notin {"hour", "day"},
         SameBut(r, q, {"at", "then", "cells", "times", "first", "routes", "answer"})
  PROVE  Holding(g, r)
<1>1. /\ r.asked = q.asked /\ r.window = q.window /\ r.have = q.have
      /\ r.known = q.known /\ r.knownTimes = q.knownTimes
      /\ r.ask = q.ask /\ r.base = q.base
  BY DEF SameBut, Fields
<1>2. Daily(r) <=> Daily(q)
  BY <1>1, SameCity
<1>3. \A cells, kind, ns : HeldAt(g, r, cells, kind, ns) <=> HeldAt(g, q, cells, kind, ns)
  BY <1>1 DEF HeldAt
<1> QED BY <1>1, <1>2, <1>3 DEF Holding

\* Routes are settled: their cells are known, or fetched.
LEMMA SettledIs ==
  ASSUME NEW g, NEW q, NEW routes, Shaped(g, q), Holding(g, q), q.at \in {"routing", "detours"},
         routes \in Seq(Routes)
  PROVE  LET r == Settled(q, routes) IN
         /\ SameBut(r, q, {"at", "then", "cells", "times", "routes"})
         /\ r.routes = routes /\ Stage(r) = "scoring" /\ r.at \in {"scoring", "all"}
         /\ Shaped(g, r) /\ Answering(r) /\ Holding(g, r) /\ Covering(r)
<1> DEFINE p == [q EXCEPT !.routes = routes]
           cells == UNION {RouteCells(routes[i].runs) : i \in DOMAIN routes}
           times == UNION {Times(q, routes[i]) : i \in DOMAIN routes}
           r == Settled(q, routes)
<1>1. DOMAIN p = Fields /\ SameBut(p, q, {"routes"}) /\ p.routes = routes
  BY DEF Shaped, SameBut, Fields
<1>2. r = Fetch(p, cells, times, "scoring")
  BY DEF Settled
<1> HIDE DEF p
<1>3. /\ SameBut(r, p, {"at", "then", "cells", "times"}) /\ Stage(r) = "scoring"
      /\ \/ /\ r.at = "scoring" /\ r.cells = p.cells /\ r.times = p.times
            /\ p.window = NoWindow \/ MissingFrom(p, cells, times) = {}
         \/ r.at = "all" /\ r.cells = MissingFrom(p, cells, times) /\ r.times = times
  <2> HIDE DEF cells, times, r
  <2> QED BY <1>1, <1>2, FetchIs
<1> HIDE DEF r
<1>4. /\ SameBut(r, q, {"at", "then", "cells", "times", "routes"}) /\ r.routes = routes
      /\ r.at \in {"scoring", "all"}
  BY <1>1, <1>3 DEF SameBut, Fields
<1>5. Shaped(g, r)
  <2>1. /\ DOMAIN r = Fields /\ r.ask = q.ask /\ r.asked = q.asked /\ r.base = q.base
        /\ r.first = q.first /\ r.have = q.have
    BY <1>4 DEF SameBut, Fields
  <2>2. r.at \notin Queries \cup {"busy"} => r.cells = {} /\ r.times = {}
    BY <1>1, <1>3 DEF Shaped, SameBut, Fields, Queries
  <2> QED BY <1>3, <1>4, <2>1, <2>2 DEF Shaped
<1>6. Answering(r) /\ Holding(g, r)
  <2>1. SameBut(r, q, {"at", "then", "cells", "times", "first", "routes", "answer"})
    BY <1>4 DEF SameBut
  <2> QED BY <1>4, <2>1, HoldingMoves DEF Answering
<1>7. Covering(r)
  <2>1. /\ r.window = p.window /\ r.ask = p.ask /\ r.base = p.base
        /\ r.known = p.known /\ r.knownTimes = p.knownTimes
    BY <1>3 DEF SameBut, Fields
  <2> SUFFICES ASSUME r.window # NoWindow, NEW i \in DOMAIN routes,
                      NEW j \in DOMAIN routes[i].runs
               PROVE  Known(r, routes[i].runs[j].cell, Time(SlotOf(r, routes[i], j)))
    BY <1>3, <1>4 DEF Covering
  <2> DEFINE c == routes[i].runs[j].cell
             t == Time(SlotOf(r, routes[i], j))
  <2>2. c \in cells
    BY DEF RouteCells
  <2>3. r.window.hourly => t \in times
    <3>1. /\ r.window = q.window /\ r.ask = q.ask /\ r.base = q.base
      BY <1>4 DEF SameBut, Fields
    <3>2. SlotOf(r, routes[i], j) = SlotOf(q, routes[i], j)
      BY <3>1, SameCity
    <3> HIDE DEF t
    <3>3. r.window.hourly => t \in Times(q, routes[i])
      BY <3>1, <3>2 DEF Times, t
    <3> QED BY <3>3
  <2> HIDE DEF c, t, cells, times
  <2>4. ASSUME r.at = "all" PROVE Known(r, c, t)
    BY <1>3, <2>1, <2>2, <2>3, <2>4 DEF Known, MissingFrom
  <2>5. ASSUME MissingFrom(p, cells, times) = {} PROVE Known(r, c, t)
    BY <2>1, <2>2, <2>3, <2>5 DEF Known, MissingFrom
  <2>6. Known(r, c, t)
    BY <1>3, <2>1, <2>4, <2>5
  <2> QED BY <2>6 DEF c, t
<1> QED BY <1>3, <1>4, <1>5, <1>6, <1>7 DEF r
-----------------------------------------------------------------------------
(* The rows of a statement, and of a whole fetch.                          *)

\* What Merged holds: the rows just read, and those held before.
LEMMA MergedIs ==
  ASSUME NEW q, NEW kind, NEW blocks
  PROVE  LET m == Merged(q, kind, blocks) IN
         /\ \A k \in DOMAIN m :
              \/ k \in DOMAIN q.have /\ m[k] = q.have[k]
              \/ /\ m[k] = gen /\ k[1] \in Universe /\ k[2] = kind
                 /\ Holds(gen, q.window.id, kind)
         /\ DOMAIN q.have \subseteq DOMAIN m
         /\ Holds(gen, q.window.id, kind) =>
              \A c \in q.cells \cap Universe, n \in blocks : <<c, kind, n>> \in DOMAIN m
<1> DEFINE found == IF Holds(gen, q.window.id, kind) THEN q.cells \cap Universe ELSE {}
           new == {<<c, kind, n>> : c \in found, n \in blocks}
           m == Merged(q, kind, blocks)
<1>1. DOMAIN m = new \cup DOMAIN q.have /\ \A k \in DOMAIN m : m[k] = IF k \in new THEN gen ELSE q.have[k]
  BY DEF Merged
<1>2. \A k \in new : k[1] \in Universe /\ k[2] = kind /\ Holds(gen, q.window.id, kind)
  OBVIOUS
<1>3. Holds(gen, q.window.id, kind) =>
        \A c \in q.cells \cap Universe, n \in blocks : <<c, kind, n>> \in new
  OBVIOUS
<1> HIDE DEF m, new
<1>4. /\ \A k \in DOMAIN m :
           \/ k \in DOMAIN q.have /\ m[k] = q.have[k]
           \/ m[k] = gen /\ k[1] \in Universe /\ k[2] = kind /\ Holds(gen, q.window.id, kind)
      /\ DOMAIN q.have \subseteq DOMAIN m
      /\ Holds(gen, q.window.id, kind) =>
           \A c \in q.cells \cap Universe, n \in blocks : <<c, kind, n>> \in DOMAIN m
  BY <1>1, <1>2, <1>3
<1> QED BY <1>4 DEF m

\* A statement's rows are held beside those held before.
LEMMA ReadIs ==
  ASSUME NEW q, NEW kind \in Queries, NEW blocks, gen \in 1..MaxGen,
         Shaped(gen, q), Offering(q), Holding(gen, q), Covering(q), q.at \in Queries
  PROVE  LET p == [q EXCEPT !.have = Merged(q, kind, blocks)] IN
         /\ SameBut(p, q, {"have"})
         /\ Shaped(gen, p) /\ Offering(p) /\ Holding(gen, p) /\ Covering(p)
         /\ HeldAt(gen, p, p.cells, kind, blocks)
<1> DEFINE m == Merged(q, kind, blocks)
           p == [q EXCEPT !.have = m]
<1>1. /\ \A k \in DOMAIN m :
           \/ k \in DOMAIN q.have /\ m[k] = q.have[k]
           \/ m[k] = gen /\ k[1] \in Universe /\ k[2] = kind /\ Holds(gen, q.window.id, kind)
      /\ DOMAIN q.have \subseteq DOMAIN m
      /\ Holds(gen, q.window.id, kind) =>
           \A c \in q.cells \cap Universe, n \in blocks : <<c, kind, n>> \in DOMAIN m
  BY MergedIs
<1> HIDE DEF m
<1>2. SameBut(p, q, {"have"}) /\ p.have = m
  BY DEF SameBut, Shaped, Fields
<1> HIDE DEF p
<1>3. /\ DOMAIN p = Fields /\ p.at = q.at /\ p.ask = q.ask /\ p.asked = q.asked
      /\ p.window = q.window /\ p.base = q.base /\ p.first = q.first /\ p.routes = q.routes
      /\ p.known = q.known /\ p.knownTimes = q.knownTimes /\ p.then = q.then
      /\ p.cells = q.cells /\ p.times = q.times
  BY <1>2 DEF SameBut, Fields
<1>4. Stage(p) = Stage(q)
  BY <1>3 DEF Stage
<1>5. Shaped(gen, p)
  <2>1. \A k \in DOMAIN m : k[1] \in Universe /\ m[k] \in 1..gen
    BY <1>1 DEF Shaped
  <2> QED BY <1>2, <1>3, <1>4, <2>1 DEF Shaped
<1>6. Offering(p)
  BY <1>3, <1>4 DEF Offering, Offered
<1>7. \A cells, knd, ns : HeldAt(gen, q, cells, knd, ns) => HeldAt(gen, p, cells, knd, ns)
  BY <1>1, <1>2, <1>3 DEF HeldAt
<1>8. Daily(p) <=> Daily(q)
  BY <1>3, SameCity
<1>9. Holding(gen, p)
  <2>1. q.asked = gen => \A k \in DOMAIN m : m[k] = gen /\ Holds(gen, q.window.id, k[2])
    BY <1>1 DEF Holding, Queries
  <2> QED BY <1>2, <1>3, <1>7, <1>8, <2>1 DEF Holding
<1>10. Covering(p)
  <2>1. \A route, i : SlotOf(p, route, i) = SlotOf(q, route, i)
    BY <1>3, SameCity
  <2>2. \A c, t : Known(p, c, t) <=> Known(q, c, t)
    BY <1>3 DEF Known
  <2> QED BY <1>3, <1>4, <2>1, <2>2 DEF Covering, Queries
<1>11. HeldAt(gen, p, p.cells, kind, blocks)
  BY <1>1, <1>2, <1>3 DEF HeldAt
<1>12. /\ SameBut(p, q, {"have"})
       /\ Shaped(gen, p) /\ Offering(p) /\ Holding(gen, p) /\ Covering(p)
       /\ HeldAt(gen, p, p.cells, kind, blocks)
  BY <1>2, <1>5, <1>6, <1>9, <1>10, <1>11
<1> QED BY <1>12, Zenon DEF p, m

\* The next statement.
LEMMA NextQuery ==
  ASSUME NEW g, NEW q, Shaped(g, q), Offering(q), Holding(g, q), Covering(q), q.at \in Queries,
         NEW kind \in {"hour", "day"}, q.asked = g => HeldAt(g, q, q.cells, "all", {0}),
         q.asked = g /\ kind = "day" => HeldAt(g, q, q.cells, "hour", HoursOf(q.times))
  PROVE  LET r == [q EXCEPT !.at = kind] IN
         Shaped(g, r) /\ Offering(r) /\ Answering(r) /\ Holding(g, r) /\ Covering(r)
<1> DEFINE r == [q EXCEPT !.at = kind]
<1>1. /\ DOMAIN r = Fields /\ r.ask = q.ask /\ r.asked = q.asked /\ r.have = q.have
      /\ r.window = q.window /\ r.base = q.base /\ r.first = q.first /\ r.routes = q.routes
      /\ r.known = q.known /\ r.knownTimes = q.knownTimes /\ r.then = q.then
      /\ r.cells = q.cells /\ r.times = q.times /\ r.at = kind
  BY DEF Shaped, Fields
<1> HIDE DEF r
<1>2. Stage(r) = Stage(q) /\ r.at \in Queries
  BY <1>1 DEF Stage, Queries
<1>3. Shaped(g, r) /\ Offering(r) /\ Answering(r)
  BY <1>1, <1>2 DEF Shaped, Offering, Offered, Answering, Queries
<1>4. Holding(g, r)
  <2>1. \A cells, knd, ns : HeldAt(g, r, cells, knd, ns) <=> HeldAt(g, q, cells, knd, ns)
    BY <1>1 DEF HeldAt
  <2>2. Daily(r) <=> Daily(q)
    BY <1>1, SameCity
  <2> QED BY <1>1, <2>1, <2>2 DEF Holding, Queries
<1>5. Covering(r)
  <2>1. \A route, i : SlotOf(r, route, i) = SlotOf(q, route, i)
    BY <1>1, SameCity
  <2>2. \A c, t : Known(r, c, t) <=> Known(q, c, t)
    BY <1>1 DEF Known
  <2> QED BY <1>1, <1>2, <2>1, <2>2 DEF Covering, Queries
<1> QED BY <1>3, <1>4, <1>5 DEF r

\* What was fetched is known when every statement it takes was read.
LEMMA FetchedHolds ==
  ASSUME NEW g, NEW q, Shaped(g, q), Offering(q), Holding(g, q), Covering(q), q.at \in Queries,
         q.asked = g =>
           /\ HeldAt(g, q, q.cells, "all", {0})
           /\ q.times # {} => /\ HeldAt(g, q, q.cells, "hour", HoursOf(q.times))
                              /\ Daily(q) => HeldAt(g, q, q.cells, "day", DaysOf(q.times))
  PROVE  LET r == Fetched(q) IN
         Shaped(g, r) /\ Offering(r) /\ Answering(r) /\ Holding(g, r) /\ Covering(r)
<1> DEFINE r == Fetched(q)
<1>1. /\ SameBut(r, q, {"at", "then", "cells", "times", "known", "knownTimes"})
      /\ r.at = q.then /\ r.cells = {} /\ r.times = {}
      /\ r.known = q.known \cup q.cells
      /\ r.knownTimes = q.knownTimes \cup (q.cells \X q.times)
  BY FetchedIs DEF Shaped
<1> HIDE DEF r
<1>2. /\ DOMAIN r = Fields /\ r.ask = q.ask /\ r.asked = q.asked /\ r.have = q.have
      /\ r.window = q.window /\ r.base = q.base /\ r.first = q.first /\ r.routes = q.routes
  BY <1>1 DEF SameBut, Fields
<1>3. Stage(q) = q.then /\ q.then \in {"worst", "detours", "scoring"}
  BY DEF Shaped, Stage
<1>4. Stage(r) = Stage(q) /\ r.at = Stage(q) /\ r.at \notin Queries \cup {"busy", "answered"}
  BY <1>1, <1>3 DEF Stage, Queries
<1>5. Shaped(g, r) /\ Offering(r) /\ Answering(r)
  BY <1>1, <1>2, <1>3, <1>4 DEF Shaped, Offering, Offered, Answering
<1>6. Holding(g, r)
  <2>1. \A cells, knd, ns : HeldAt(g, r, cells, knd, ns) <=> HeldAt(g, q, cells, knd, ns)
    BY <1>2 DEF HeldAt
  <2>2. Daily(r) <=> Daily(q)
    BY <1>2, SameCity
  <2> SUFFICES ASSUME q.asked = g PROVE Holding(g, r)
    BY <1>2 DEF Holding
  <2>3. /\ \A k \in DOMAIN q.have : q.have[k] = g /\ Holds(g, q.window.id, k[2])
        /\ HeldAt(g, q, q.known, "all", {0})
        /\ \A p \in q.knownTimes : /\ HeldAt(g, q, {p[1]}, "hour", {p[2][1]})
                                   /\ Daily(q) => HeldAt(g, q, {p[1]}, "day", {p[2][2]})
    BY DEF Holding, Queries
  <2>4. HeldAt(g, q, r.known, "all", {0})
    BY <1>1, <2>3 DEF HeldAt
  <2>5. ASSUME NEW p \in q.cells \X q.times
        PROVE  /\ HeldAt(g, q, {p[1]}, "hour", {p[2][1]})
               /\ Daily(q) => HeldAt(g, q, {p[1]}, "day", {p[2][2]})
    <3>1. p[1] \in q.cells /\ p[2] \in q.times
      OBVIOUS
    <3>2. p[2][1] \in HoursOf(q.times) /\ p[2][2] \in DaysOf(q.times)
      BY <3>1 DEF HoursOf, DaysOf
    <3> QED BY <3>1, <3>2 DEF HeldAt
  <2>6. \A p \in r.knownTimes : /\ HeldAt(g, q, {p[1]}, "hour", {p[2][1]})
                                /\ Daily(q) => HeldAt(g, q, {p[1]}, "day", {p[2][2]})
    BY <1>1, <2>3, <2>5
  <2> QED BY <1>2, <1>4, <2>1, <2>2, <2>3, <2>4, <2>6 DEF Holding, Queries
<1>7. Covering(r)
  <2>1. \A route, i : SlotOf(r, route, i) = SlotOf(q, route, i)
    BY <1>2, SameCity
  <2>2. \A c, t : Known(q, c, t) => Known(r, c, t)
    BY <1>1, <1>2 DEF Known
  <2>3. r.at \notin {"idle", "windows", "baseline", "routing"}
    BY <1>3, <1>4
  <2> QED BY <1>2, <1>4, <2>1, <2>2, <2>3 DEF Covering
<1> QED BY <1>5, <1>6, <1>7 DEF r

-----------------------------------------------------------------------------
(* The routes a provider answers with, and those offered.                  *)

\* Sorting routes, and leaving some out, gives routes.
LEMMA SortedRoutes ==
  ASSUME NEW s \in Seq(Routes)
  PROVE  FastestFirst(s) \in Seq(Routes) /\ DistinctRoutes(s) \in Seq(Routes)
<1>1. /\ IsFiniteSet(DOMAIN s) /\ DOMAIN s \in SUBSET Nat
      /\ \A i \in DOMAIN s : s[i] \in Routes /\ s[i].dur \in Nat
  <2>1. /\ Timely(s) /\ Len(s) \in Nat /\ DOMAIN s = 1..Len(s)
        /\ \A i \in DOMAIN s : s[i] \in Routes
    BY RoutesAreTimely
  <2>2. IsFiniteSet(1..Len(s))
    BY <2>1, FS_Interval
  <2>3. 1..Len(s) \in SUBSET Nat
    BY <2>1
  <2> QED BY <2>1, <2>2, <2>3 DEF Timely
<1>2. FastestFirst(s) \in Seq(Routes)
  <2>1. Orders(Quicker(s), DOMAIN s)
    BY <1>1, OrdersAre
  <2>2. InOrder(s, DOMAIN s, Quicker(s)) \in Seq(Routes)
    BY <1>1, <2>1, InOrderOfRoutes
  <2> QED BY <2>2 DEF FastestFirst
<1>3. DistinctRoutes(s) \in Seq(Routes)
  <2> DEFINE kept == CHOOSE k \in SUBSET DOMAIN s : KeepsFirst(s, k)
  <2>1. kept \in SUBSET DOMAIN s
    BY KeptExists, RoutesAreTimely
  <2>2. DistinctRoutes(s) = InOrder(s, kept, AsListed(s))
    BY DEF DistinctRoutes
  <2> HIDE DEF kept
  <2>3. IsFiniteSet(kept) /\ Orders(AsListed(s), kept)
    BY <1>1, <2>1, FS_Subset, OrdersAre
  <2>4. InOrder(s, kept, AsListed(s)) \in Seq(Routes)
    BY <1>1, <2>1, <2>3, InOrderOfRoutes
  <2> QED BY <2>2, <2>4
<1> QED BY <1>2, <1>3

\* An answer is one route or more, put fastest first.
LEMMA FoundIs ==
  ASSUME NEW lines \in {Street, Plans}, NEW found \in (SUBSET lines) \ {{}},
         NEW trips \in SetToSeqs(found)
  PROVE  LET routes == FastestFirst(trips) IN
         routes \in Seq(Routes) /\ Len(routes) # 0 /\ InOrderOfTime(routes)
<1> DEFINE n == Cardinality(found)
<1>1. IsFiniteSet(found) /\ found # {} /\ found \in SUBSET Routes
  BY DirectionsAssumption, FS_Subset
<1>2. n \in Nat /\ n # 0
  BY <1>1, FS_CardinalityType, FS_EmptySet
<1>3. trips \in [1..n -> Routes]
  BY <1>1 DEF SetToSeqs
<1> HIDE DEF n
<1>4. trips \in Seq(Routes) /\ Len(trips) = n
  BY <1>2, <1>3, SeqDef, LenProperties
<1>5. FastestFirst(trips) \in Seq(Routes) /\ Timely(trips)
  BY <1>4, SortedRoutes, RoutesAreTimely
<1>6. Len(FastestFirst(trips)) = n /\ InOrderOfTime(FastestFirst(trips))
  BY <1>4, <1>5, FastestFirstIs
<1> QED BY <1>2, <1>5, <1>6

\* Routes found, with those not kept left out, are offered.
LEMMA FoundIsOffered ==
  ASSUME NEW q, q.first \in Seq(Routes), Len(q.first) # 0, InOrderOfTime(q.first),
         \/ q.routes = q.first /\ q.ask.mode \notin {"walk", "bike"}
         \/ q.routes = DistinctRoutes(q.first)
  PROVE  Offered(q)
<1> DEFINE f == q.first
           s == q.routes
<1>1. /\ Timely(f) /\ Len(f) \in Nat /\ DOMAIN f = 1..Len(f)
      /\ \A i \in DOMAIN f : f[i].dur \in Nat
  BY RoutesAreTimely DEF Timely
<1>2. /\ InOrderOfTime(s) /\ Len(s) # 0 /\ s[1] = f[1]
      /\ q.ask.mode \in {"walk", "bike"} => NoTwoSame(s)
      /\ \A i \in DOMAIN s : \E j \in DOMAIN f : s[i] = f[j]
  <2>1. CASE s = f
    <3>1. CASE q.ask.mode \notin {"walk", "bike"}
      BY <2>1, <3>1
    <3>2. CASE s = DistinctRoutes(f)
      BY <1>1, <3>2, DistinctRoutesAre
    <3> QED BY <3>1, <3>2
  <2>2. CASE s = DistinctRoutes(f)
    BY <1>1, <2>2, DistinctRoutesAre
  <2> QED BY <2>1, <2>2
<1>3. \A j \in DOMAIN f : s[1].dur =< f[j].dur
  <2> TAKE j \in DOMAIN f
  <2>1. 1 \in DOMAIN f /\ (j = 1 \/ 1 < j)
    BY <1>1
  <2>2. f[1].dur =< f[j].dur
    BY <1>1, <2>1 DEF InOrderOfTime
  <2> QED BY <1>2, <2>2
<1> QED BY <1>2, <1>3 DEF Offered

\* With detours among them too: each is short enough, and none comes before a
\* faster route.
LEMMA DetoursAreOffered ==
  ASSUME NEW q, q.routes = q.first, q.first \in Seq(Routes), Len(q.first) # 0,
         NEW n \in Nat, NEW results \in [1..n -> Street \cup {Failed}],
         NEW found, found = {i \in DOMAIN results :
                               results[i] # Failed /\ WithinDetour(Fastest(q), results[i])},
         NEW routes, routes = WithDetours(q.routes, InOrder(results, found, AsListed(results)))
  PROVE  /\ routes \in Seq(Routes)
         /\ \A r : r.routes = routes /\ r.first = q.first => Offered(r)
<1> DEFINE f == q.first
           d == InOrder(results, found, AsListed(results))
           all == f \o d
           sorted == FastestFirst(all)
<1>1. /\ Timely(f) /\ Len(f) \in Nat /\ Len(f) # 0 /\ DOMAIN f = 1..Len(f)
      /\ \A i \in DOMAIN f : f[i] \in Routes
  BY RoutesAreTimely
<1>2. /\ DOMAIN results = 1..n /\ \A i \in 1..n : results[i] \in Routes
      /\ found \in SUBSET (1..n) /\ 1..n \in SUBSET Nat /\ IsFiniteSet(1..n)
  <2>1. DOMAIN results = 1..n /\ \A i \in 1..n : results[i] \in Routes
    BY DirectionsAssumption
  <2>2. IsFiniteSet(1..n)
    BY FS_Interval
  <2>3. 1..n \in SUBSET Nat
    OBVIOUS
  <2> QED BY <2>1, <2>2, <2>3
<1>3. IsFiniteSet(found) /\ Orders(AsListed(results), found) /\ \A i \in found : results[i] \in Routes
  BY <1>2, FS_Subset, OrdersAre
<1>4. d \in Seq(Routes)
  BY <1>3, InOrderOfRoutes
<1>5. \A k \in DOMAIN d : 10 * d[k].dist =< 13 * f[1].dist
  <2>1. PICK at : Lists(at, d, results, found, AsListed(results))
    BY <1>3, OrderIs
  <2>2. DOMAIN d = 1..Cardinality(found)
    BY <1>3, InOrderLength
  <2> HIDE DEF d
  <2>3. ASSUME NEW k \in DOMAIN d PROVE 10 * d[k].dist =< 13 * f[1].dist
    <3>1. at[k] \in found /\ d[k] = results[at[k]]
      BY <2>1, <2>2 DEF Lists
    <3>2. WithinDetour(Fastest(q), d[k])
      BY <3>1
    <3> QED BY <3>2 DEF WithinDetour, Fastest
  <2> QED BY <2>3
<1> HIDE DEF d
<1>6. /\ all \in Seq(Routes) /\ Len(all) = Len(f) + Len(d) /\ Len(d) \in Nat
      /\ \A i \in 1..Len(f) + Len(d) : all[i] = IF i =< Len(f) THEN f[i] ELSE d[i - Len(f)]
  BY <1>4, ConcatProperties, LenProperties
<1> HIDE DEF all
<1>7. /\ \A i \in DOMAIN all : \/ \E j \in DOMAIN f : all[i] = f[j]
                             \/ 10 * all[i].dist =< 13 * f[1].dist
      /\ \A j \in DOMAIN f : j \in DOMAIN all /\ all[j] = f[j]
      /\ Timely(all) /\ Len(all) # 0
  <2>1. DOMAIN all = 1..Len(f) + Len(d) /\ DOMAIN d = 1..Len(d)
    BY <1>4, <1>6, LenProperties
  <2>2. ASSUME NEW i \in DOMAIN all
        PROVE  \/ \E j \in DOMAIN f : all[i] = f[j]
               \/ 10 * all[i].dist =< 13 * f[1].dist
    <3>1. CASE i =< Len(f)
      BY <1>1, <1>6, <2>1, <3>1
    <3>2. CASE ~(i =< Len(f))
      <4>1. i \in 1..Len(f) + Len(d) /\ Len(f) \in Nat /\ Len(d) \in Nat
        BY <1>1, <1>6, <2>1
      <4>2. i - Len(f) \in 1..Len(d)
        <5> HIDE DEF f
        <5> QED BY <3>2, <4>1
      <4>3. all[i] = d[i - Len(f)]
        BY <1>6, <3>2, <4>1
      <4> QED BY <1>5, <2>1, <4>2, <4>3
    <3> QED BY <3>1, <3>2
  <2>3. \A j \in DOMAIN f : j \in DOMAIN all /\ all[j] = f[j]
    BY <1>1, <1>6, <2>1
  <2>4. Timely(all)
    BY <1>6, RoutesAreTimely
  <2> QED BY <1>1, <1>6, <2>2, <2>3, <2>4
<1>8. /\ Timely(sorted) /\ InOrderOfTime(sorted) /\ Len(sorted) # 0 /\ sorted \in Seq(Routes)
      /\ \A i \in DOMAIN sorted : \E j \in DOMAIN all : sorted[i] = all[j]
      /\ \A j \in DOMAIN all : \E i \in DOMAIN sorted : sorted[i] = all[j]
  BY <1>6, <1>7, FastestFirstIs, SortedRoutes
<1>9. routes = DistinctRoutes(sorted)
  BY DEF WithDetours, all, d
<1> HIDE DEF sorted
<1>10. /\ routes \in Seq(Routes) /\ NoTwoSame(routes) /\ InOrderOfTime(routes)
       /\ Len(routes) # 0 /\ routes[1] = sorted[1]
       /\ \A i \in DOMAIN routes : \E j \in DOMAIN sorted : routes[i] = sorted[j]
  <2>1. DistinctRoutes(sorted) \in Seq(Routes)
    BY <1>8, SortedRoutes
  <2>2. LET t == DistinctRoutes(sorted) IN
        /\ Timely(t) /\ NoTwoSame(t)
        /\ InOrderOfTime(sorted) => InOrderOfTime(t)
        /\ \A i \in DOMAIN t : \E j \in DOMAIN sorted : t[i] = sorted[j]
        /\ Len(sorted) # 0 => Len(t) # 0 /\ t[1] = sorted[1]
    BY <1>8, DistinctRoutesAre
  <2>3. /\ routes \in Seq(Routes) /\ NoTwoSame(routes)
        /\ \A i \in DOMAIN routes : \E j \in DOMAIN sorted : routes[i] = sorted[j]
    BY <1>9, <2>1, <2>2, Zenon
  <2>4. InOrderOfTime(routes) /\ Len(routes) # 0 /\ routes[1] = sorted[1]
    BY <1>8, <1>9, <2>2, Zenon
  <2> QED BY <2>3, <2>4
<1>11. \A i \in DOMAIN routes : \/ \E j \in DOMAIN f : routes[i] = f[j]
                               \/ 10 * routes[i].dist =< 13 * f[1].dist
  <2> TAKE i \in DOMAIN routes
  <2>1. PICK j \in DOMAIN sorted : routes[i] = sorted[j]
    BY <1>10
  <2>2. PICK k \in DOMAIN all : sorted[j] = all[k]
    BY <1>8
  <2> QED BY <1>7, <2>1, <2>2
<1>12. \A j \in DOMAIN f : routes[1].dur =< f[j].dur
  <2> TAKE j \in DOMAIN f
  <2>1. PICK i \in DOMAIN sorted : sorted[i] = f[j]
    BY <1>7, <1>8
  <2>2. 1 \in DOMAIN sorted /\ (i = 1 \/ 1 < i) /\ sorted[i].dur \in Nat
    BY <1>8 DEF Timely
  <2>3. sorted[1].dur =< sorted[i].dur
    BY <1>8, <2>2 DEF InOrderOfTime
  <2> QED BY <1>10, <2>1, <2>3
<1> HIDE DEF f
<1>13. ASSUME NEW r, r.routes = routes, r.first = f PROVE Offered(r)
  BY <1>10, <1>11, <1>12, <1>13 DEF Offered
<1> QED BY <1>10, <1>13 DEF f
-----------------------------------------------------------------------------
(* Every step keeps the invariant.                                         *)

\* It holds at the start.
LEMMA InitIInv == Init => IInv
<1> SUFFICES ASSUME Init PROVE IInv
  OBVIOUS
<1>1. gen \in 1..MaxGen
  BY DirectionsAssumption DEF Init
<1>2. req.at = "idle" /\ Unread(req)
  BY DEF Init, Idle, Unread
<1>3. Shaped(gen, req)
  <2>1. <<>> \in Seq(Routes)
    OBVIOUS
  <2>2. DOMAIN NoRows = {}
    BY DEF NoRows
  <2>3. req.ask.mode \in Modes /\ req.ask.slot \in Nat
    BY DEF Init, Idle, Places, Modes
  <2>4. /\ DOMAIN req = Fields /\ req.at = "idle" /\ req.asked = 0 /\ req.base = 0
        /\ req.first = <<>> /\ req.routes = <<>> /\ req.have = NoRows
        /\ req.cells = {} /\ req.times = {}
    BY DEF Init, Idle, Fields
  <2> QED BY <1>1, <2>1, <2>2, <2>3, <2>4 DEF Shaped, Queries
<1> QED BY <1>1, <1>2, <1>3, Unstarted DEF IInv

\* A refresh changes the generation and nothing a request holds.
LEMMA RefreshStep == ASSUME IInv, Refresh PROVE IInv'
<1>1. gen' = gen + 1 /\ gen' \in 1..MaxGen /\ req' = req /\ gen \in Nat
  BY DirectionsAssumption DEF Refresh, IInv
<1>2. Shaped(gen', req)
  BY <1>1 DEF IInv, Shaped
<1>3. req.asked # gen'
  BY <1>1 DEF IInv, Shaped
<1>4. Holding(gen', req)
  BY <1>3 DEF Holding
<1> QED BY <1>1, <1>2, <1>4 DEF IInv

\* Before a route is asked for, nothing is read but the windows and the
\* averages.
LEMMA EarlySteps ==
  ASSUME IInv, Ask \/ Busy \/ ReadWindows \/ ReadBaseline \/ NotRouted
  PROVE  IInv'
<1>1. gen' = gen /\ SameBut(req', req, {"at", "ask", "asked", "window", "base"})
  BY DEF Ask, Busy, ReadWindows, ReadBaseline, NotRouted, Ended, IInv, Shaped, SameBut, Fields
<1>2. /\ DOMAIN req' = Fields /\ req'.routes = req.routes /\ req'.first = req.first
      /\ req'.have = req.have /\ req'.known = req.known /\ req'.knownTimes = req.knownTimes
      /\ req'.cells = req.cells /\ req'.times = req.times
  BY <1>1 DEF SameBut, Fields
<1>3. /\ req'.at \in {"refused", "windows", "baseline", "routing", "no_route", "busy"}
      /\ req'.at # "busy" => req.at \in {"idle", "windows", "baseline", "routing"}
  BY DEF Ask, Busy, ReadWindows, ReadBaseline, NotRouted, Ended, IInv, Shaped, Fields
<1>4. /\ req'.ask.mode \in Modes /\ req'.ask.slot \in Nat
      /\ req'.asked \in 0..gen /\ req'.base \in 0..gen
  <2>1. /\ req.ask.mode \in Modes /\ req.ask.slot \in Nat
        /\ req.asked \in 0..gen /\ req.base \in 0..gen /\ DOMAIN req = Fields /\ gen \in 0..gen
    BY DirectionsAssumption DEF IInv, Shaped
  <2>2. CASE Ask
    <3>1. PICK a \in Asks : req' = [req EXCEPT !.ask = a, !.asked = gen,
             !.at = IF a.place \in {"ok", "same"} THEN "windows" ELSE "refused"]
      BY <2>2 DEF Ask
    <3>2. req'.ask = a /\ req'.asked = gen /\ req'.base = req.base
      BY <2>1, <3>1 DEF Fields
    <3>3. a.mode \in Modes /\ a.slot \in Nat
      BY DirectionsAssumption
    <3> QED BY <2>1, <3>2, <3>3
  <2>3. CASE Busy \/ ReadWindows \/ NotRouted
    <3>1. req'.ask = req.ask /\ req'.asked = req.asked /\ req'.base = req.base
      BY <2>1, <2>3 DEF Busy, ReadWindows, NotRouted, Ended, Fields
    <3> QED BY <2>1, <3>1
  <2>4. CASE ReadBaseline
    <3>1. req'.ask = req.ask /\ req'.asked = req.asked /\ req'.base = gen
      BY <2>1, <2>4 DEF ReadBaseline, Fields
    <3> QED BY <2>1, <3>1
  <2> QED BY <2>2, <2>3, <2>4
<1>5. Unread(req') \/ req'.at = "busy"
  BY <1>2, <1>3 DEF IInv, Covering, Unread
<1>6. Shaped(gen, req')
  BY <1>2, <1>3, <1>4 DEF IInv, Shaped, Queries
<1>7. Offering(req') /\ Answering(req') /\ Holding(gen, req') /\ Covering(req')
  BY <1>3, <1>5, Unstarted
<1> QED BY <1>1, <1>6, <1>7 DEF IInv

\* A search for detours, while it is not settled, offers what was found.
LEMMA SearchIs ==
  ASSUME NEW g, NEW q, NEW r, Shaped(g, q), Holding(g, q), q.at \in {"routing", "worst"},
         q.routes = q.first, InOrderOfTime(q.first), Len(q.first) # 0,
         Stage(r) \in {"worst", "detours"}, r.at \in {"worst", "detours", "all"},
         r.at # "all" => r.cells = q.cells /\ r.times = q.times,
         SameBut(r, q, {"at", "then", "cells", "times"})
  PROVE  Shaped(g, r) /\ Offering(r) /\ Answering(r) /\ Holding(g, r) /\ Covering(r)
<1>1. /\ DOMAIN r = Fields /\ r.ask = q.ask /\ r.asked = q.asked /\ r.have = q.have
      /\ r.base = q.base /\ r.first = q.first /\ r.routes = q.routes
  BY DEF SameBut, Fields
<1>2. Shaped(g, r)
  BY <1>1 DEF Shaped, Queries
<1>3. Offering(r) /\ Answering(r) /\ Covering(r)
  BY <1>1 DEF Offering, Answering, Covering
<1>4. Holding(g, r)
  <2>1. SameBut(r, q, {"at", "then", "cells", "times", "first", "routes", "answer"})
    BY DEF SameBut
  <2> QED BY <2>1, HoldingMoves
<1> QED BY <1>2, <1>3, <1>4

\* Settled on routes to offer.
LEMMA SettledHolds ==
  ASSUME NEW g, NEW q, Shaped(g, q), Holding(g, q), q.at \in {"routing", "detours"},
         NEW routes \in Seq(Routes),
         \A r : r.routes = routes /\ r.first = q.first /\ r.ask = q.ask => Offered(r)
  PROVE  LET r == Settled(q, routes) IN
         Shaped(g, r) /\ Offering(r) /\ Answering(r) /\ Holding(g, r) /\ Covering(r)
<1> DEFINE r == Settled(q, routes)
<1>1. /\ SameBut(r, q, {"at", "then", "cells", "times", "routes"})
      /\ r.routes = routes /\ Stage(r) = "scoring"
      /\ Shaped(g, r) /\ Answering(r) /\ Holding(g, r) /\ Covering(r)
  BY SettledIs
<1> HIDE DEF r
<1>2. r.first = q.first /\ r.ask = q.ask
  BY <1>1 DEF SameBut, Fields
<1>3. Offering(r)
  BY <1>1, <1>2 DEF Offering
<1> QED BY <1>1, <1>3 DEF r

\* What was found is what is offered and settled from here on.
LEMMA FoundHolds ==
  ASSUME IInv, req.at = "routing", NEW routes \in Seq(Routes)
  PROVE  LET q == [req EXCEPT !.first = routes] IN
         /\ Shaped(gen, q) /\ Holding(gen, q) /\ q.at = "routing"
         /\ q.first = routes /\ q.ask = req.ask /\ DOMAIN q = Fields
<1> DEFINE q == [req EXCEPT !.first = routes]
<1>1. /\ SameBut(q, req, {"first"}) /\ q.first = routes
  BY DEF IInv, Shaped, SameBut, Fields
<1> HIDE DEF q
<1>2. /\ DOMAIN q = Fields /\ q.ask = req.ask /\ q.asked = req.asked /\ q.have = req.have
      /\ q.base = req.base /\ q.routes = req.routes /\ q.at = req.at
      /\ q.cells = req.cells /\ q.times = req.times
  BY <1>1 DEF SameBut, Fields
<1>3. Shaped(gen, q)
  BY <1>1, <1>2 DEF IInv, Shaped, Queries
<1>4. Holding(gen, q)
  <2>1. SameBut(q, req, {"at", "then", "cells", "times", "first", "routes", "answer"})
    BY <1>1 DEF SameBut
  <2> QED BY <1>2, <2>1, HoldingMoves DEF IInv
<1> QED BY <1>1, <1>2, <1>3, <1>4 DEF q

\* A street answer leaves the request looking for its worst stretch.
LEMMA RoutedStep == ASSUME IInv, Routed PROVE IInv'
<1>0. PICK found \in (SUBSET Street) \ {{}} : \E trips \in SetToSeqs(found) :
        LET routes == FastestFirst(trips)
            kept   == DistinctRoutes(routes)
            q      == [req EXCEPT !.first = routes]
        IN req' = IF req.ask.mode = "drive" THEN Settled(q, routes)
                  ELSE IF Len(kept) >= 2 THEN Settled(q, kept)
                  ELSE Fetch([q EXCEPT !.routes = routes], RouteCells(routes[1].runs),
                             Times(q, routes[1]), "worst")
  BY DEF Routed
<1>1. PICK trips \in SetToSeqs(found) :
        LET routes == FastestFirst(trips)
            kept   == DistinctRoutes(routes)
            q      == [req EXCEPT !.first = routes]
        IN req' = IF req.ask.mode = "drive" THEN Settled(q, routes)
                  ELSE IF Len(kept) >= 2 THEN Settled(q, kept)
                  ELSE Fetch([q EXCEPT !.routes = routes], RouteCells(routes[1].runs),
                             Times(q, routes[1]), "worst")
  BY <1>0
<1> DEFINE routes == FastestFirst(trips)
           kept == DistinctRoutes(routes)
           q == [req EXCEPT !.first = routes]
           p == [q EXCEPT !.routes = routes]
<1>2. req.at = "routing" /\ gen' = gen
  BY DEF Routed
<1>3. routes \in Seq(Routes) /\ Len(routes) # 0 /\ InOrderOfTime(routes)
  BY FoundIs
<1>4. kept \in Seq(Routes)
  BY <1>3, SortedRoutes
<1> HIDE DEF routes, kept
<1>5. /\ Shaped(gen, q) /\ Holding(gen, q) /\ q.at = "routing"
      /\ q.first = routes /\ q.ask = req.ask /\ DOMAIN q = Fields
  BY <1>2, <1>3, FoundHolds
<1>6. req' = IF req.ask.mode = "drive" THEN Settled(q, routes)
             ELSE IF Len(kept) >= 2 THEN Settled(q, kept)
             ELSE Fetch(p, RouteCells(routes[1].runs), Times(q, routes[1]), "worst")
  BY <1>1 DEF routes, kept
<1> HIDE DEF q
<1> SUFFICES /\ Shaped(gen, req') /\ Offering(req') /\ Answering(req')
             /\ Holding(gen, req') /\ Covering(req')
  BY <1>2 DEF IInv
<1>7. CASE req.ask.mode = "drive"
  <2>1. \A r : r.routes = routes /\ r.first = q.first /\ r.ask = q.ask => Offered(r)
    BY <1>3, <1>5, <1>7, FoundIsOffered
  <2> QED BY <1>3, <1>5, <1>6, <1>7, <2>1, SettledHolds
<1>8. CASE req.ask.mode # "drive" /\ Len(kept) >= 2
  <2>1. \A r : r.routes = kept /\ r.first = q.first /\ r.ask = q.ask => Offered(r)
    BY <1>3, <1>5, FoundIsOffered DEF kept
  <2>2. req' = Settled(q, kept)
    BY <1>6, <1>8
  <2> QED BY <1>4, <1>5, <2>1, <2>2, SettledHolds
<1>9. CASE req.ask.mode # "drive" /\ ~(Len(kept) >= 2)
  <2> DEFINE cells == RouteCells(routes[1].runs)
             times == Times(q, routes[1])
  <2>1. req' = Fetch(p, cells, times, "worst")
    BY <1>6, <1>9
  <2>2. SameBut(p, q, {"routes"}) /\ p.routes = routes /\ DOMAIN p = Fields
    BY <1>5 DEF SameBut, Fields
  <2> HIDE DEF p, cells, times
  <2>3. /\ p.first = routes /\ p.at = "routing" /\ p.ask = q.ask /\ p.asked = q.asked
        /\ p.base = q.base /\ p.have = q.have /\ p.cells = q.cells /\ p.times = q.times
    BY <1>5, <2>2 DEF SameBut, Fields
  <2>4. Shaped(gen, p)
    BY <1>3, <1>5, <2>2, <2>3 DEF Shaped, Queries
  <2>5. Holding(gen, p)
    <3>1. SameBut(p, q, {"at", "then", "cells", "times", "first", "routes", "answer"})
      BY <2>2 DEF SameBut
    <3> QED BY <1>5, <2>3, <3>1, HoldingMoves
  <2>6. /\ SameBut(req', p, {"at", "then", "cells", "times"}) /\ Stage(req') = "worst"
        /\ req'.at \in {"worst", "all"}
        /\ req'.at # "all" => req'.cells = p.cells /\ req'.times = p.times
    BY <2>1, <2>2, FetchIs
  <2> QED BY <1>3, <2>2, <2>3, <2>4, <2>5, <2>6, SearchIs
<1> QED BY <1>7, <1>8, <1>9

\* An itinerary's answer settles the routes at once.
LEMMA PlannedStep == ASSUME IInv, Planned PROVE IInv'
<1>0. PICK found \in (SUBSET Plans) \ {{}} : \E trips \in SetToSeqs(found) :
        LET routes == FastestFirst(trips)
        IN req' = Settled([req EXCEPT !.first = routes], routes)
  BY DEF Planned
<1>1. PICK trips \in SetToSeqs(found) :
        LET routes == FastestFirst(trips)
        IN req' = Settled([req EXCEPT !.first = routes], routes)
  BY <1>0
<1> DEFINE routes == FastestFirst(trips)
           q == [req EXCEPT !.first = routes]
<1>2. req.at = "routing" /\ gen' = gen /\ req.ask.mode = "transit"
  BY DEF Planned
<1>3. routes \in Seq(Routes) /\ Len(routes) # 0 /\ InOrderOfTime(routes)
  BY FoundIs
<1>4. req' = Settled(q, routes)
  BY <1>1
<1> HIDE DEF routes
<1>5. /\ Shaped(gen, q) /\ Holding(gen, q) /\ q.at = "routing"
      /\ q.first = routes /\ q.ask = req.ask /\ DOMAIN q = Fields
  BY <1>2, <1>3, FoundHolds
<1> HIDE DEF q
<1>6. \A r : r.routes = routes /\ r.first = q.first /\ r.ask = q.ask => Offered(r)
  BY <1>2, <1>3, <1>5, FoundIsOffered
<1> QED BY <1>2, <1>3, <1>4, <1>5, <1>6, SettledHolds DEF IInv

\* The three statements of a fetch.
LEMMA ReadSteps == ASSUME IInv, ReadCells \/ ReadHours \/ ReadDays PROVE IInv'
<1> SUFFICES gen' = gen /\ /\ Shaped(gen, req') /\ Offering(req') /\ Answering(req')
                        /\ Holding(gen, req') /\ Covering(req')
  BY DEF IInv
<1>0. gen' = gen /\ req.at \in Queries
  BY DEF ReadCells, ReadHours, ReadDays, Queries
<1>1. CASE ReadCells
  <2> DEFINE p == [req EXCEPT !.have = Merged(req, "all", {0})]
  <2>1. /\ SameBut(p, req, {"have"})
        /\ Shaped(gen, p) /\ Offering(p) /\ Holding(gen, p) /\ Covering(p)
        /\ HeldAt(gen, p, p.cells, "all", {0})
    BY <1>0, ReadIs DEF IInv, Queries
  <2>2. req' = IF req.times = {} THEN Fetched(p) ELSE [p EXCEPT !.at = "hour"]
    BY <1>1 DEF ReadCells
  <2> HIDE DEF p
  <2>3. p.at \in Queries /\ p.times = req.times
    BY <1>0, <2>1 DEF SameBut, Fields
  <2>4. CASE req.times = {}
    BY <1>0, <2>1, <2>2, <2>3, <2>4, FetchedHolds
  <2>5. CASE req.times # {}
    BY <1>0, <2>1, <2>2, <2>3, <2>5, NextQuery
  <2> QED BY <2>4, <2>5
<1>2. CASE ReadHours
  <2> DEFINE p == [req EXCEPT !.have = Merged(req, "hour", HoursOf(req.times))]
  <2>1. /\ SameBut(p, req, {"have"})
        /\ Shaped(gen, p) /\ Offering(p) /\ Holding(gen, p) /\ Covering(p)
        /\ HeldAt(gen, p, p.cells, "hour", HoursOf(req.times))
    BY <1>0, ReadIs DEF IInv, Queries
  <2>2. req.at = "hour" /\ req' = IF Daily(req) THEN [p EXCEPT !.at = "day"] ELSE Fetched(p)
    BY <1>2 DEF ReadHours
  <2> HIDE DEF p
  <2>3. /\ p.at = "hour" /\ p.at \in Queries /\ p.times = req.times /\ p.ask = req.ask
        /\ p.window = req.window /\ p.base = req.base /\ p.asked = req.asked
    BY <1>0, <2>1, <2>2 DEF SameBut, Fields, Queries
  <2>4. p.asked = gen => HeldAt(gen, p, p.cells, "all", {0})
    BY <2>1, <2>3 DEF Holding
  <2>5. Daily(p) <=> Daily(req)
    BY <2>3, SameCity
  <2>6. CASE ~Daily(req)
    BY <1>0, <2>1, <2>2, <2>3, <2>4, <2>5, <2>6, FetchedHolds
  <2>7. CASE Daily(req)
    BY <1>0, <2>1, <2>2, <2>3, <2>4, <2>7, NextQuery
  <2> QED BY <2>6, <2>7
<1>3. CASE ReadDays
  <2> DEFINE p == [req EXCEPT !.have = Merged(req, "day", DaysOf(req.times))]
  <2>1. /\ SameBut(p, req, {"have"})
        /\ Shaped(gen, p) /\ Offering(p) /\ Holding(gen, p) /\ Covering(p)
        /\ HeldAt(gen, p, p.cells, "day", DaysOf(req.times))
    BY <1>0, ReadIs DEF IInv, Queries
  <2>2. req.at = "day" /\ req' = Fetched(p)
    BY <1>3 DEF ReadDays
  <2> HIDE DEF p
  <2>3. p.at = "day" /\ p.at \in Queries /\ p.times = req.times
    BY <1>0, <2>1, <2>2 DEF SameBut, Fields, Queries
  <2>4. p.asked = gen => /\ HeldAt(gen, p, p.cells, "all", {0})
                         /\ HeldAt(gen, p, p.cells, "hour", HoursOf(p.times))
    BY <2>1, <2>3 DEF Holding
  <2> QED BY <1>0, <2>1, <2>2, <2>3, <2>4, FetchedHolds
<1> QED BY <1>0, <1>1, <1>2, <1>3

\* Looking around the fastest either settles the routes or asks for detours.
LEMMA LookAroundStep == ASSUME IInv, LookAround PROVE IInv'
<1>1. req.at = "worst" /\ gen' = gen /\ DOMAIN req = Fields /\ Stage(req) = "worst"
  BY DEF LookAround, IInv, Shaped, Stage, Queries
<1>2. \/ req' = [req EXCEPT !.at = "detours"]
      \/ \E cells, times : req' = Fetch(req, cells, times, "detours")
  BY DEF LookAround
<1>3. /\ SameBut(req', req, {"at", "then", "cells", "times"}) /\ Stage(req') = "detours"
      /\ req'.at \in {"detours", "all"}
      /\ req'.at # "all" => req'.cells = req.cells /\ req'.times = req.times
  <2>1. CASE req' = [req EXCEPT !.at = "detours"]
    BY <1>1, <2>1 DEF SameBut, Fields, Stage, Queries
  <2>2. ASSUME NEW cells, NEW times, req' = Fetch(req, cells, times, "detours")
        PROVE  /\ SameBut(req', req, {"at", "then", "cells", "times"}) /\ Stage(req') = "detours"
               /\ req'.at \in {"detours", "all"}
               /\ req'.at # "all" => req'.cells = req.cells /\ req'.times = req.times
    BY <1>1, <2>2, FetchIs
  <2> QED BY <1>2, <2>1, <2>2
<1>4. req.routes = req.first /\ InOrderOfTime(req.first) /\ Len(req.first) # 0
  BY <1>1 DEF IInv, Offering
<1>5. /\ Shaped(gen, req') /\ Offering(req') /\ Answering(req')
      /\ Holding(gen, req') /\ Covering(req')
  BY <1>1, <1>3, <1>4, SearchIs DEF IInv
<1> QED BY <1>1, <1>5 DEF IInv

\* Detours settle the routes, whichever of them came.
LEMMA DetouredStep == ASSUME IInv, Detoured PROVE IInv'
<1>1. PICK results \in [1..Vias(req) -> Street \cup {Failed}] :
        LET found == {i \in DOMAIN results :
                        results[i] # Failed /\ WithinDetour(Fastest(req), results[i])}
        IN req' = Settled(req, WithDetours(req.routes, InOrder(results, found, AsListed(results))))
  BY DEF Detoured
<1> DEFINE found == {i \in DOMAIN results :
                       results[i] # Failed /\ WithinDetour(Fastest(req), results[i])}
           routes == WithDetours(req.routes, InOrder(results, found, AsListed(results)))
<1>2. req.at = "detours" /\ gen' = gen /\ Stage(req) = "detours"
  BY DEF Detoured, Stage, Queries
<1>3. req.routes = req.first /\ req.first \in Seq(Routes) /\ Len(req.first) # 0
  BY <1>2 DEF IInv, Offering, Shaped
<1>4. Vias(req) \in Nat
  BY DEF Vias
<1>5. /\ routes \in Seq(Routes)
      /\ \A r : r.routes = routes /\ r.first = req.first => Offered(r)
  <2> DEFINE f == found
             rs == routes
  <2>1. f = found /\ rs = WithDetours(req.routes, InOrder(results, f, AsListed(results)))
    OBVIOUS
  <2> HIDE DEF f, rs
  <2>2. /\ rs \in Seq(Routes)
        /\ \A r : r.routes = rs /\ r.first = req.first => Offered(r)
    BY <1>3, <1>4, <2>1, DetoursAreOffered
  <2> QED BY <2>2 DEF rs, f
<1>6. req' = Settled(req, routes)
  BY <1>1
<1> HIDE DEF routes
<1>7. /\ Shaped(gen, req') /\ Offering(req') /\ Answering(req')
      /\ Holding(gen, req') /\ Covering(req')
  BY <1>2, <1>5, <1>6, SettledHolds DEF IInv
<1> QED BY <1>2, <1>7 DEF IInv

\* The answer is computed of what is held.
LEMMA AnswerStep == ASSUME IInv, Answer PROVE IInv'
<1>1. /\ req.at = "scoring" /\ gen' = gen
      /\ req' = [req EXCEPT !.at = "answered", !.answer = AnswerOf(req)]
  BY DEF Answer, AnswerOf, ActivityOf
<1>2. /\ SameBut(req', req, {"at", "answer"}) /\ req'.at = "answered"
      /\ req'.answer = AnswerOf(req)
  BY <1>1 DEF SameBut, IInv, Shaped, Fields
<1>3. /\ DOMAIN req' = Fields /\ req'.ask = req.ask /\ req'.asked = req.asked
      /\ req'.have = req.have /\ req'.window = req.window /\ req'.base = req.base
      /\ req'.first = req.first /\ req'.routes = req.routes /\ req'.known = req.known
      /\ req'.knownTimes = req.knownTimes /\ req'.cells = req.cells /\ req'.times = req.times
  BY <1>2 DEF SameBut, Fields
<1>4. Stage(req) = "scoring" /\ Stage(req') = "answered"
  BY <1>1, <1>2 DEF Stage, Queries
<1>5. Shaped(gen, req')
  BY <1>1, <1>2, <1>3 DEF IInv, Shaped, Queries
<1>6. Offering(req')
  BY <1>3, <1>4 DEF IInv, Offering, Offered
<1>7. AnswerOf(req') = AnswerOf(req)
  <2>1. \A t, route : Ratios(req', t, route) = Ratios(req, t, route)
    <3>1. \A t, h, d : Timed(req', t, h, d) = Timed(req, t, h, d)
      BY <1>3, SameCity
    <3>2. \A route, i : SlotOf(req', route, i) = SlotOf(req, route, i)
      BY <1>3, SameCity
    <3>3. \A t : Overall(req', t) = Overall(req, t)
      BY <1>3 DEF Overall
    <3>4. \A t, h : Hourly(req', t, h) = Hourly(req, t, h)
      BY <1>3 DEF Hourly
    <3>5. \A t, c, slot : Ratio(req', t, c, slot) = Ratio(req, t, c, slot)
      BY <1>3, <3>1, <3>3, <3>4 DEF Ratio, RatioAt
    <3> QED BY <3>2, <3>5 DEF Ratios
  <2>2. \A t : ActivityOf(req', t) = ActivityOf(req, t)
    BY <1>3, <2>1 DEF ActivityOf
  <2> QED BY <1>3, <2>2 DEF AnswerOf
<1>8. Answering(req')
  BY <1>2, <1>7 DEF Answering
<1>9. Holding(gen, req')
  <2>1. SameBut(req', req, {"at", "then", "cells", "times", "first", "routes", "answer"})
    BY <1>2 DEF SameBut
  <2> QED BY <1>1, <1>2, <2>1, HoldingMoves DEF IInv
<1>10. Covering(req')
  <2>1. \A route, i : SlotOf(req', route, i) = SlotOf(req, route, i)
    BY <1>3, SameCity
  <2>2. \A c, t : Known(req', c, t) <=> Known(req, c, t)
    BY <1>3 DEF Known
  <2> QED BY <1>2, <1>3, <1>4, <2>1, <2>2 DEF IInv, Covering
<1> QED BY <1>1, <1>5, <1>6, <1>8, <1>9, <1>10 DEF IInv

\* Every step keeps it.
LEMMA StepIInv == IInv /\ [Next]_vars => IInv'
<1> SUFFICES ASSUME IInv, [Next]_vars PROVE IInv'
  OBVIOUS
<1>1. CASE UNCHANGED vars
  BY <1>1 DEF vars, IInv
<1>2. CASE Next
  BY <1>2, RefreshStep, EarlySteps, RoutedStep, PlannedStep, ReadSteps, LookAroundStep,
     DetouredStep, AnswerStep DEF Next
<1> QED BY <1>1, <1>2

\* So it always holds.
LEMMA IInvHolds == Spec => []IInv
BY InitIInv, StepIInv, PTL DEF Spec

-----------------------------------------------------------------------------
(* What the invariant says of an answer.                                   *)

\* What an answered request says, as its routes and rows have it.
LEMMA AnsweredIs ==
  ASSUME IInv, Answered
  PROVE  /\ req.answer = AnswerOf(req) /\ req.answer.routes = req.routes
         /\ \A t \in Tracks : /\ req.answer.activity[t] = ActivityOf(req, t)
                             /\ req.answer.picks[t] = Pick(req.ask.mode, req.routes, ActivityOf(req, t))
         /\ Stage(req) = "answered" /\ req.at = "answered"
BY DEF IInv, Answered, Answering, AnswerOf, Stage, Queries

\* Whatever the providers answer, and whichever detours fail, what is offered
\* is fastest first, distinct, never more than 1.3 times as long as the fastest
\* found, and nothing found is faster than what is offered first.
THEOREM OffersAreInOrder == Spec => []OffersInOrder
<1>1. ASSUME IInv, Answered
      PROVE  LET offers == req.answer.routes
                 given  == ToSet(req.first)
             IN /\ \A i, j \in DOMAIN offers : i < j => offers[i].dur =< offers[j].dur
                /\ req.ask.mode \in {"walk", "bike"} =>
                     \A i, j \in DOMAIN offers : i # j => ~Same(offers[i].runs, offers[j].runs)
                /\ \A i \in DOMAIN offers :
                     offers[i] \in given \/ 10 * offers[i].dist =< 13 * req.first[1].dist
                /\ offers # <<>> /\ \A r \in given : offers[1].dur =< r.dur
  <2>1. Offered(req) /\ req.answer.routes = req.routes
    BY <1>1, AnsweredIs DEF IInv, Offering
  <2>2. req.routes # <<>>
    BY <2>1 DEF Offered
  <2>3. \A x : x \in ToSet(req.first) <=> \E j \in DOMAIN req.first : x = req.first[j]
    BY DEF ToSet
  <2> QED BY <2>1, <2>2, <2>3 DEF Offered, InOrderOfTime, NoTwoSame
<1>2. IInv => OffersInOrder
  BY <1>1 DEF OffersInOrder
<1> QED BY <1>2, IInvHolds, PTL

\* A moment's hour and day are hours and days there are.
LEMMA SlotsAre ==
  ASSUME NEW slot \in Nat
  PROVE  HourOf(slot) \in 0..HourBlocks-1 /\ DayOf(slot) \in 0..WeekDays-1
<1>1. HourBlocks \in Nat \ {0} /\ WeekDays \in Nat \ {0}
  BY DirectionsAssumption
<1>2. HourOf(slot) \in 0..HourBlocks-1
  BY <1>1 DEF HourOf
<1>3. slot \div HourBlocks \in Nat
  BY <1>1
<1>4. DayOf(slot) \in 0..WeekDays-1
  BY <1>1, <1>3 DEF DayOf
<1> QED BY <1>2, <1>4

\* The slot a run is reached in is a number.
LEMMA SlotIsNat ==
  ASSUME IInv, NEW i \in DOMAIN req.routes, NEW j \in DOMAIN req.routes[i].runs
  PROVE  SlotOf(req, req.routes[i], j) \in Nat
<1>1. req.routes[i] \in Routes /\ req.ask.slot \in Nat
  BY RoutesAreTimely DEF IInv, Shaped
<1>2. req.routes[i].runs \in Runs /\ req.routes[i].start \in Nat \cup {Now}
  BY <1>1 DEF Routes
<1>3. req.routes[i].runs[j].at \in Nat
  <2> DEFINE Run == [cell : STRING, len : Nat, at : Nat]
             runs == req.routes[i].runs
  <2>1. runs \in Seq(Run)
    BY <1>2 DEF Runs
  <2>2. j \in 1..Len(runs)
    <3> HIDE DEF Run
    <3> QED BY <2>1, LenProperties
  <2>3. runs[j] \in Run
    <3> HIDE DEF Run, runs
    <3> QED BY <2>1, <2>2, ElementOfSeq
  <2> QED BY <2>3
<1>4. StartOf(req, req.routes[i]) \in Nat
  BY <1>1, <1>2 DEF StartOf
<1> QED BY <1>3, <1>4 DEF SlotOf

\* A comparison depends on what is held of the cell at the time alone; on its
\* day, only where the city has an average for it.
LEMMA ComparedBy ==
  ASSUME NEW q, NEW a, NEW b, NEW t, NEW c, NEW slot,
         HeldIn(a, c, "all", 0) = HeldIn(b, c, "all", 0),
         q.window.hourly => HeldIn(a, c, "hour", HourOf(slot)) = HeldIn(b, c, "hour", HourOf(slot)),
         q.window.hourly => \/ HeldIn(a, c, "day", DayOf(slot)) = HeldIn(b, c, "day", DayOf(slot))
                            \/ Timed(q, t, HourOf(slot), DayOf(slot)) = NoAverage
  PROVE  RatioAt(q, a, t, c, slot) = RatioAt(q, b, t, c, slot)
<1>1. CASE ~q.window.hourly
  BY <1>1 DEF RatioAt
<1>2. CASE /\ q.window.hourly
           /\ HeldIn(a, c, "day", DayOf(slot)) = HeldIn(b, c, "day", DayOf(slot))
  BY <1>2 DEF RatioAt
<1>3. CASE q.window.hourly /\ Timed(q, t, HourOf(slot), DayOf(slot)) = NoAverage
  BY <1>3 DEF RatioAt
<1> QED BY <1>1, <1>2, <1>3

\* Where no refresh committed, a known cell is compared, at a time it is known
\* at, as with the whole layer.
LEMMA ComparedAsMap ==
  ASSUME IInv, req.at = "answered", req.asked = gen, NEW track \in Tracks, NEW c, NEW slot \in Nat,
         req.window # NoWindow => Known(req, c, Time(slot))
  PROVE  RatioAt(req, req.have, track, c, slot) = RatioAt(req, WholeLayer(req), track, c, slot)
<1> DEFINE h == HourOf(slot)
           d == DayOf(slot)
           id == req.window.id
           have == req.have
           whole == WholeLayer(req)
<1>1. h \in 0..HourBlocks-1 /\ d \in 0..WeekDays-1 /\ Time(slot) = <<h, d>>
  BY SlotsAre DEF Time
<1>2. ASSUME NEW kind \in {"all", "hour", "day"}, NEW n,
             kind = "all" => n = 0, kind = "hour" => n \in 0..HourBlocks-1,
             kind = "day" => n \in 0..WeekDays-1
      PROVE  HeldIn(whole, c, kind, n) = IF Holds(gen, id, kind) /\ c \in Universe THEN gen ELSE 0
  <2>1. <<c, kind, n>> \in DOMAIN whole <=> Holds(gen, id, kind) /\ c \in Universe
    BY <1>2 DEF WholeLayer
  <2>2. \A k \in DOMAIN whole : whole[k] = gen
    BY DEF WholeLayer
  <2> HIDE DEF whole, id
  <2> QED BY <2>1, <2>2 DEF HeldIn
<1>3. /\ \A k \in DOMAIN have : have[k] = gen /\ k[1] \in Universe /\ Holds(gen, id, k[2])
      /\ HeldAt(gen, req, req.known, "all", {0})
      /\ \A p \in req.knownTimes : /\ HeldAt(gen, req, {p[1]}, "hour", {p[2][1]})
                                   /\ Daily(req) => HeldAt(gen, req, {p[1]}, "day", {p[2][2]})
  BY DEF IInv, Holding, Shaped
<1>4. ASSUME NEW kind, NEW n,
             Holds(gen, id, kind) /\ c \in Universe => <<c, kind, n>> \in DOMAIN have
      PROVE  HeldIn(have, c, kind, n) = IF Holds(gen, id, kind) /\ c \in Universe THEN gen ELSE 0
  <2>1. <<c, kind, n>> \in DOMAIN have => Holds(gen, id, kind) /\ c \in Universe
    BY <1>3
  <2> HIDE DEF have, id
  <2> QED BY <1>3, <1>4, <2>1 DEF HeldIn
<1>5. ASSUME req.window = NoWindow
      PROVE  ~req.window.hourly /\ \A kind : ~Holds(gen, id, kind)
  <2>1. id = NoWindow.id /\ ~req.window.hourly
    BY <1>5 DEF NoWindow
  <2>2. Named(id, Windows(gen)) = {}
    BY <2>1, DirectionsAssumption DEF IInv, Named, ToSet
  <2> QED BY <2>1, <2>2 DEF Holds
<1>6. req.cells = {} /\ req.times = {}
  BY DEF IInv, Shaped, Queries
<1>7. HeldIn(have, c, "all", 0) = HeldIn(whole, c, "all", 0)
  <2>1. Holds(gen, id, "all") /\ c \in Universe => <<c, "all", 0>> \in DOMAIN have
    BY <1>3, <1>5, <1>6 DEF Known, HeldAt
  <2> HIDE DEF have, whole
  <2> QED BY <1>2, <1>4, <2>1
<1>8. ASSUME req.window.hourly
      PROVE  HeldIn(have, c, "hour", h) = HeldIn(whole, c, "hour", h)
  <2>1. <<c, <<h, d>>>> \in req.knownTimes
    BY <1>1, <1>5, <1>6, <1>8 DEF Known
  <2>2. HeldAt(gen, req, {c}, "hour", {h})
    BY <1>3, <2>1
  <2>3. Holds(gen, id, "hour") /\ c \in Universe => <<c, "hour", h>> \in DOMAIN have
    BY <2>2 DEF HeldAt
  <2> HIDE DEF have, whole, h
  <2> QED BY <1>1, <1>2, <1>4, <2>3
<1>9. ASSUME req.window.hourly, Daily(req)
      PROVE  HeldIn(have, c, "day", d) = HeldIn(whole, c, "day", d)
  <2>1. <<c, <<h, d>>>> \in req.knownTimes
    BY <1>1, <1>5, <1>6, <1>9 DEF Known
  <2>2. HeldAt(gen, req, {c}, "day", {d})
    BY <1>3, <1>9, <2>1
  <2>3. Holds(gen, id, "day") /\ c \in Universe => <<c, "day", d>> \in DOMAIN have
    BY <2>2 DEF HeldAt
  <2> HIDE DEF have, whole, d
  <2> QED BY <1>1, <1>2, <1>4, <2>3
\* Where no day is built, no average of a day is there to compare with.
<1>10. ASSUME req.window.hourly, ~Daily(req) PROVE Timed(req, track, h, d) = NoAverage
  <2>1. CASE d \in BaselineDays(req)
    BY <1>1, <1>10, <2>1 DEF Daily
  <2>2. CASE d \notin BaselineDays(req)
    <3>1. \A value, rows : DomainAverage({}, value, rows) = NoAverage
      BY FS_EmptySet DEF DomainAverage, Average
    <3> HIDE DEF h, d
    <3> QED BY <2>2, <3>1 DEF Timed
  <2> QED BY <2>1, <2>2
<1> QED BY <1>7, <1>8, <1>9, <1>10, ComparedBy

\* Where no refresh committed while a request ran, its figures are those of
\* the whole layer: however its routes were found, its cells were fetched in
\* instalments, and however many hours and days there are.
THEOREM FiguresAreTheMaps == Spec => []MapsOwnComparison
<1>1. ASSUME IInv, Answered, req.asked = gen, NEW t \in Tracks, NEW i \in DOMAIN req.answer.routes
      PROVE  req.answer.activity[t][i] =
               TrackActivity(req.answer.routes[i].runs, MapRatios(req, t, req.answer.routes[i]))
  <2> DEFINE route == req.routes[i]
  <2>1. /\ req.at = "answered" /\ Stage(req) = "answered" /\ req.answer.routes = req.routes
        /\ i \in DOMAIN req.routes
        /\ req.answer.activity[t][i] = TrackActivity(route.runs, Ratios(req, t, route))
    BY <1>1, AnsweredIs DEF ActivityOf
  <2>2. ASSUME NEW j \in DOMAIN route.runs
        PROVE  Ratio(req, t, route.runs[j].cell, SlotOf(req, route, j)) =
                 RatioAt(req, WholeLayer(req), t, route.runs[j].cell, SlotOf(req, route, j))
    <3>1. SlotOf(req, route, j) \in Nat
      BY <1>1, <2>1, SlotIsNat
    <3>2. req.window # NoWindow => Known(req, route.runs[j].cell, Time(SlotOf(req, route, j)))
      BY <1>1, <2>1 DEF IInv, Covering
    <3> HIDE DEF route
    <3> QED BY <1>1, <2>1, <3>1, <3>2, ComparedAsMap DEF Ratio
  <2> HIDE DEF route
  <2>3. Ratios(req, t, route) = MapRatios(req, t, route)
    BY <2>2 DEF Ratios, MapRatios
  <2> QED BY <2>1, <2>3 DEF route
<1>2. IInv => MapsOwnComparison
  BY <1>1 DEF MapsOwnComparison
<1> QED BY <1>2, IInvHolds, PTL

-----------------------------------------------------------------------------
(* The alternative offered.                                                *)

\* Of finitely many routes with means, Lowest is one whose mean is lowest.
LEMMA LowestIs ==
  ASSUME NEW activity, NEW within \in SUBSET Nat, IsFiniteSet(within), within # {},
         \A i \in within : activity[i].mean \in Int
  PROVE  /\ Lowest(activity, within) \in within
         /\ \A j \in within : activity[Lowest(activity, within)].mean =< activity[j].mean
<1> DEFINE F == [i \in within |-> activity[i].mean]
           M == {F[i] : i \in within}
           L == {i \in within : \A j \in within : activity[i].mean =< activity[j].mean}
<1>1. \A i \in within : F[i] \in Int /\ F[i] = activity[i].mean
  OBVIOUS
<1> HIDE DEF F
<1>2. PICK lo \in Int : \A i \in within : lo =< F[i]
  BY <1>1, FiniteHasBound
<1>3. M \in SUBSET Int /\ M # {} /\ \A x \in M : lo =< x
  BY <1>1, <1>2
<1> HIDE DEF M
<1>4. Min(M) \in M /\ \A x \in M : Min(M) =< x
  BY <1>3, MinIsLeast
<1>5. PICK i \in within : Min(M) = F[i]
  BY <1>4 DEF M
<1>6. i \in L
  BY <1>1, <1>4, <1>5 DEF M
<1>7. L \in SUBSET Int /\ L # {} /\ \A x \in L : 0 =< x
  <2>1. L \in SUBSET within
    OBVIOUS
  <2> HIDE DEF L
  <2> QED BY <1>6, <2>1
<1>8. Lowest(activity, within) = Min(L)
  BY DEF Lowest
<1>9. Min(L) \in L
  <2> HIDE DEF L
  <2> QED BY <1>7, MinIsLeast
<1> QED BY <1>8, <1>9

\* The time allowed is a number of seconds.
LEMMA AllowanceIs ==
  ASSUME NEW mode \in Modes, NEW fastest \in Nat
  PROVE  ExtraAllowance(mode, fastest) \in Int
<1> DEFINE S == {fastest \div 5, 180}
<1>1. S \in SUBSET Int /\ S # {} /\ \A x \in S : x =< fastest + 180
  <2>1. fastest \div 5 \in Nat /\ fastest \div 5 =< fastest + 180
    OBVIOUS
  <2> QED BY <2>1
<1>2. Max(S) \in Int
  <2>1. fastest + 180 \in Int
    OBVIOUS
  <2> HIDE DEF S
  <2> QED BY <1>1, <2>1, MaxIsGreatest
<1> DEFINE T == {Max(S), ExtraCap[mode]}
<1>3. ExtraCap[mode] \in Int
  BY DEF ExtraCap, Modes
<1> HIDE DEF S
<1>4. T \in SUBSET Int /\ T # {}
  BY <1>2, <1>3
<1>5. PICK lo \in T : \A x \in T : lo =< x
  BY <1>2, <1>3
<1>6. Min(T) \in T
  <2> HIDE DEF T
  <2> QED BY <1>4, <1>5, MinIsLeast
<1> QED BY <1>4, <1>6 DEF ExtraAllowance, S

\* What pick promises, of any routes and any figures of them.
LEMMA PickIs ==
  ASSUME NEW mode \in Modes, NEW routes, Timely(routes), NEW activity,
         \A i \in DOMAIN routes : activity[i].mean \in Int
  PROVE  LET pick == Pick(mode, routes, activity)
             able == {i \in DOMAIN routes : Qualifies(routes, activity, mode, i)}
         IN /\ pick.lower # Nobody => /\ pick.lower \in able
                                      /\ \A i \in able : activity[pick.lower].mean =< activity[i].mean
            /\ pick.lower = Nobody => able = {}
            /\ pick.why = "not_lower" => \A i \in 2..Len(routes) : ~Clears(activity, i)
<1> DEFINE n == Len(routes)
           allowed == ExtraAllowance(mode, routes[1].dur)
           base == activity[1]
           others == {i \in 2..n : activity[i].comparable}
           within == {i \in others : routes[i].dur - routes[1].dur =< allowed}
           best == Lowest(activity, within)
           able == {i \in DOMAIN routes : Qualifies(routes, activity, mode, i)}
           pick == Pick(mode, routes, activity)
<1>1. /\ n \in Nat /\ DOMAIN routes = 1..n /\ \A i \in 1..n : routes[i].dur \in Nat
      /\ \A i \in 1..n : activity[i].mean \in Int
  BY DEF Timely
<1>2. pick = IF n < 2 THEN Picked(Nobody, "single_route")
             ELSE IF ~base.comparable THEN Picked(Nobody, "not_rated")
             ELSE IF within = {} THEN Picked(Nobody, "too_slow")
             ELSE IF ClearlyLower(base.mean, activity[best].mean) THEN Picked(best, "none")
             ELSE IF \E i \in others : ClearlyLower(base.mean, activity[i].mean)
                  THEN Picked(Nobody, "too_slow") ELSE Picked(Nobody, "not_lower")
  BY DEF Pick
<1>3. \A i : i \in able <=> /\ i \in 2..n /\ base.comparable /\ Clears(activity, i)
                            /\ routes[i].dur =< routes[1].dur + allowed
  <2> TAKE i
  <2> HIDE DEF n, allowed
  <2> QED BY <1>1 DEF Qualifies, n, allowed
<1>4. CASE n < 2
  <2>1. pick.lower = Nobody /\ pick.why = "single_route"
    BY <1>2, <1>4 DEF Picked
  <2>2. able = {}
    <3> HIDE DEF able, n
    <3> QED BY <1>1, <1>3, <1>4
  <2> HIDE DEF pick, able
  <2> QED BY <2>1, <2>2 DEF pick, able
<1>5. CASE ~(n < 2)
  <2>1. allowed \in Int /\ 1 \in 1..n /\ routes[1].dur \in Nat /\ base.mean \in Int
    BY <1>1, <1>5, AllowanceIs
  <2>2. within \in SUBSET (2..n) /\ within \in SUBSET Nat /\ IsFiniteSet(within)
    <3>1. IsFiniteSet(2..n)
      BY <1>1, FS_Interval
    <3>2. within \in SUBSET (2..n)
      OBVIOUS
    <3> HIDE DEF within
    <3>3. IsFiniteSet(within)
      BY <3>1, <3>2, FS_Subset
    <3> QED BY <3>2, <3>3
  <2>3. \A i : i \in able => i \in within
    <3> SUFFICES ASSUME NEW i \in able PROVE i \in within
      OBVIOUS
    <3>1. /\ i \in 2..n /\ activity[i].comparable /\ routes[i].dur =< routes[1].dur + allowed
      BY <1>3 DEF Clears
    <3>2. routes[i].dur \in Nat
      BY <1>1, <3>1
    <3> HIDE DEF allowed, n
    <3>3. routes[i].dur - routes[1].dur =< allowed
      BY <2>1, <3>1, <3>2
    <3> QED BY <3>1, <3>3
  <2>4. \A i \in within : activity[i].mean \in Int
    BY <1>1, <2>2
  <2>5. within # {} => /\ best \in within
                      /\ \A j \in within : activity[best].mean =< activity[j].mean
    <3> HIDE DEF within
    <3> QED BY <2>2, <2>4, LowestIs
  <2>6. CASE ~base.comparable
    <3>1. pick.lower = Nobody /\ pick.why = "not_rated"
      BY <1>2, <1>5, <2>6 DEF Picked
    <3>2. able = {}
      <4> HIDE DEF able
      <4> QED BY <1>3, <2>6
    <3> HIDE DEF pick, able
    <3> QED BY <3>1, <3>2 DEF pick, able
  <2>7. CASE base.comparable /\ within = {}
    <3>1. pick.lower = Nobody /\ pick.why = "too_slow"
      BY <1>2, <1>5, <2>7 DEF Picked
    <3>2. able = {}
      <4> HIDE DEF able, within
      <4> QED BY <2>3, <2>7
    <3> HIDE DEF pick, able
    <3> QED BY <3>1, <3>2 DEF pick, able
  <2>8. CASE base.comparable /\ within # {} /\ ClearlyLower(base.mean, activity[best].mean)
    <3>1. pick.lower = best /\ pick.why = "none"
      <4> HIDE DEF best, within
      <4> QED BY <1>2, <1>5, <2>8 DEF Picked
    <3>2. /\ best \in 2..n /\ activity[best].comparable
          /\ routes[best].dur - routes[1].dur =< allowed
      <4> HIDE DEF best
      <4> QED BY <2>5, <2>8
    <3>3. routes[best].dur \in Nat
      BY <1>1, <3>2
    <3>4. routes[best].dur =< routes[1].dur + allowed
      <4> HIDE DEF best, allowed, n
      <4> QED BY <2>1, <3>2, <3>3
    <3>5. best \in able
      <4> HIDE DEF best, able
      <4> QED BY <1>3, <2>8, <3>2, <3>4 DEF Clears
    <3>6. \A i \in able : activity[best].mean =< activity[i].mean
      <4> HIDE DEF best, within, able
      <4> QED BY <2>3, <2>5, <2>8
    <3> HIDE DEF pick, able, best
    <3>7. best # Nobody
      BY <3>2 DEF Nobody
    <3> QED BY <3>1, <3>5, <3>6, <3>7 DEF pick, able
  <2>9. CASE base.comparable /\ within # {} /\ ~ClearlyLower(base.mean, activity[best].mean)
    <3>1. /\ pick.lower = Nobody
          /\ pick.why = "not_lower" =>
               ~\E i \in others : ClearlyLower(base.mean, activity[i].mean)
      <4> HIDE DEF best, within, others
      <4> QED BY <1>2, <1>5, <2>9 DEF Picked
    <3>2. ASSUME NEW i \in able PROVE FALSE
      <4>1. i \in within /\ ClearlyLower(base.mean, activity[i].mean)
        BY <1>3, <2>3 DEF Clears
      <4>2. activity[best].mean =< activity[i].mean /\ best \in within
        <5> HIDE DEF best, within
        <5> QED BY <2>5, <2>9, <4>1
      <4>3. activity[best].mean \in Int /\ activity[i].mean \in Int
        <5> HIDE DEF best, within
        <5> QED BY <2>4, <4>1, <4>2
      <4>4. \A x, y, z \in Int : ClearlyLower(x, y) /\ z =< y => ClearlyLower(x, z)
        BY DEF ClearlyLower
      <4> HIDE DEF best, base
      <4>5. ClearlyLower(base.mean, activity[best].mean)
        BY <2>1, <4>1, <4>2, <4>3, <4>4
      <4> QED BY <2>9, <4>5
    <3>3. pick.why = "not_lower" => \A i \in 2..n : ~Clears(activity, i)
      BY <3>1 DEF Clears
    <3> HIDE DEF pick, able
    <3> QED BY <3>1, <3>2, <3>3 DEF pick, able
  <2> QED BY <2>6, <2>7, <2>8, <2>9
<1> QED BY <1>4, <1>5

-----------------------------------------------------------------------------
(* Figures are numbers.                                                    *)

\* A finite sum of integers is one.
LEMMA SumOfIsInt ==
  ASSUME NEW S, IsFiniteSet(S), NEW f, DOMAIN f = S, \A x \in S : f[x] \in Int
  PROVE  SumOf(f) \in Int
<1>1. SumOf(f) = SumOver(f, S)
  BY DEF SumOf, SumOver
<1> QED BY <1>1, SumIsInt

\* An average there is has something to divide by.
LEMMA AverageIs ==
  ASSUME NEW cells, IsFiniteSet(cells), NEW value, NEW rows,
         \A c \in cells : value[c] \in Int /\ rows[c].people \in Int
  PROVE  LET a == DomainAverage(cells, value, rows) IN
         a # NoAverage => a[1] \in Nat \ {0} /\ a[2] \in Int
<1> DEFINE painted == {c \in cells : rows[c].tier # 0}
           populous == {c \in painted : rows[c].people > 0}
           f == [c \in populous |-> value[c] * rows[c].people]
           p == [c \in populous |-> rows[c].people]
           v == [c \in painted |-> value[c]]
           a == DomainAverage(cells, value, rows)
<1>1. IsFiniteSet(painted) /\ IsFiniteSet(populous) /\ painted \in SUBSET cells /\ populous \in SUBSET cells
  <2>1. painted \in SUBSET cells /\ populous \in SUBSET cells
    OBVIOUS
  <2> HIDE DEF painted, populous
  <2> QED BY <2>1, FS_Subset
<1>2. SumOf(f) \in Int /\ SumOf(p) \in Int /\ SumOf(v) \in Int /\ Cardinality(painted) \in Int
  <2>1. /\ DOMAIN f = populous /\ \A c \in populous : f[c] \in Int
        /\ DOMAIN p = populous /\ \A c \in populous : p[c] \in Int
        /\ DOMAIN v = painted /\ \A c \in painted : v[c] \in Int
    BY <1>1
  <2> HIDE DEF f, p, v, painted, populous
  <2> QED BY <1>1, <2>1, SumOfIsInt, FS_CardinalityType
<1>3. a = Average(SumOf(f), SumOf(p), SumOf(v), Cardinality(painted))
  BY DEF DomainAverage
<1> HIDE DEF a, f, p, v, painted, populous
<1>4. ASSUME NEW w \in Int, NEW n \in Int, NEW t \in Int, NEW k \in Int, Average(w, n, t, k) # NoAverage
      PROVE  Average(w, n, t, k)[1] \in Nat \ {0} /\ Average(w, n, t, k)[2] \in Int
  <2>1. CASE n > 0
    BY <1>4, <2>1 DEF Average
  <2>2. CASE ~(n > 0)
    BY <1>4, <2>2 DEF Average
  <2> QED BY <2>1, <2>2
<1>5. a # NoAverage => a[1] \in Nat \ {0} /\ a[2] \in Int
  BY <1>2, <1>3, <1>4
<1> QED BY <1>5 DEF a

\* A multiple of an average is a number, or is not known.
LEMMA MultipleIs ==
  ASSUME NEW value \in Int, NEW a, a # NoAverage => a[1] \in Nat \ {0} /\ a[2] \in Int
  PROVE  Multiple(value, a) \in Int
<1>1. CASE a = NoAverage
  BY <1>1 DEF Multiple, Unrated
<1>2. CASE a # NoAverage
  <2>1. 1000 * value * a[2] \in Int
    BY <1>2
  <2>2. \A x \in Int, y \in Nat \ {0} : x \div y \in Int
    OBVIOUS
  <2>3. (1000 * value * a[2]) \div a[1] \in Int
    BY <1>2, <2>1, <2>2
  <2> QED BY <1>2, <2>3 DEF Multiple
<1> QED BY <1>1, <1>2

\* What a Gold row holds: counts, and one index for each hour block and weekday.
LEMMA RowIs ==
  ASSUME NEW rows \in Rows, NEW c \in Universe,
         NEW h \in 0..HourBlocks-1, NEW d \in 0..WeekDays-1
  PROVE  /\ rows[c].people \in Int /\ rows[c].sm \in Int
         /\ rows[c].hour[h] \in Int /\ rows[c].day[d] \in Int
<1> DEFINE H == 0..HourBlocks-1
           D == 0..WeekDays-1
           row == rows[c]
<1>1. row \in [sm : Nat, tier : Nat, people : Nat, hour : [H -> Nat], day : [D -> Nat]]
  BY DEF Rows
<1>2. h \in H /\ d \in D
  OBVIOUS
<1> HIDE DEF H, D, row
<1>3. row.people \in Nat /\ row.sm \in Nat /\ row.hour \in [H -> Nat] /\ row.day \in [D -> Nat]
  BY <1>1
<1>4. row.hour[h] \in Nat
  BY <1>2, <1>3
<1>5. row.day[d] \in Nat
  BY <1>2, <1>3
<1> QED BY <1>3, <1>4, <1>5 DEF row

\* A city's averages divide by something.
LEMMA AveragesAre ==
  ASSUME IInv, NEW t \in Tracks, NEW h \in 0..HourBlocks-1, NEW d \in 0..WeekDays-1
  PROVE  \A a \in {Overall(req, t), Hourly(req, t, h), Timed(req, t, h, d)} :
           a # NoAverage => a[1] \in Nat \ {0} /\ a[2] \in Int
<1> DEFINE rows == Gold(req.base, t)
<1>1. ASSUME NEW kind, NEW c \in CellsWith(req.base, req.window.id, kind)
      PROVE  /\ rows[c].people \in Int /\ rows[c].sm \in Int
             /\ rows[c].hour[h] \in Int /\ rows[c].day[d] \in Int
  <2>1. req.base > 0 /\ c \in Universe /\ req.base \in 1..MaxGen
    BY <1>1, DirectionsAssumption DEF CellsWith, IInv, Shaped
  <2>2. rows \in Rows
    BY <2>1, DirectionsAssumption
  <2> HIDE DEF rows
  <2> QED BY <2>1, <2>2, RowIs
<1>2. \A kind : IsFiniteSet(CellsWith(req.base, req.window.id, kind))
  BY DirectionsAssumption, FS_EmptySet DEF CellsWith
<1> HIDE DEF rows
<1>3. Overall(req, t) # NoAverage => Overall(req, t)[1] \in Nat \ {0} /\ Overall(req, t)[2] \in Int
  <2> DEFINE cells == CellsWith(req.base, req.window.id, "all")
             value == [c \in cells |-> rows[c].sm]
  <2>1. \A c \in cells : value[c] \in Int /\ rows[c].people \in Int
    BY <1>1
  <2>2. Overall(req, t) = DomainAverage(cells, value, rows) /\ IsFiniteSet(cells)
    BY <1>2 DEF Overall, rows
  <2> HIDE DEF cells, value
  <2> QED BY <2>1, <2>2, AverageIs
<1>4. Hourly(req, t, h) # NoAverage => Hourly(req, t, h)[1] \in Nat \ {0} /\ Hourly(req, t, h)[2] \in Int
  <2> DEFINE cells == CellsWith(req.base, req.window.id, "hour")
             value == [c \in cells |-> rows[c].hour[h]]
  <2>1. \A c \in cells : value[c] \in Int /\ rows[c].people \in Int
    BY <1>1
  <2>2. Hourly(req, t, h) = DomainAverage(cells, value, rows) /\ IsFiniteSet(cells)
    BY <1>2 DEF Hourly, rows
  <2> HIDE DEF cells, value
  <2> QED BY <2>1, <2>2, AverageIs
<1>5. Timed(req, t, h, d) # NoAverage =>
        Timed(req, t, h, d)[1] \in Nat \ {0} /\ Timed(req, t, h, d)[2] \in Int
  <2> DEFINE cells == IF d \in BaselineDays(req) THEN CellsWith(req.base, req.window.id, "day") ELSE {}
             value == [c \in cells |-> rows[c].hour[h] * rows[c].day[d]]
  <2>1. \A c \in cells : value[c] \in Int /\ rows[c].people \in Int
    BY <1>1
  <2>2. Timed(req, t, h, d) = DomainAverage(cells, value, rows) /\ IsFiniteSet(cells)
    BY <1>2, FS_EmptySet DEF Timed, rows
  <2> HIDE DEF cells, value
  <2> QED BY <2>1, <2>2, AverageIs
<1> QED BY <1>3, <1>4, <1>5

\* The ratio of a cell, of whatever rows are held, is a number.
LEMMA RatioIs ==
  ASSUME IInv, NEW t \in Tracks, NEW c, NEW slot \in Nat
  PROVE  Ratio(req, t, c, slot) \in Int
<1> DEFINE h == HourOf(slot)
           d == DayOf(slot)
           Held(kind, n) == HeldIn(req.have, c, kind, n)
           Row(kind, n) == Gold(Held(kind, n), t)[c]
           sm == IF Held("all", 0) > 0 THEN Row("all", 0).sm ELSE Missing
           tier == IF Held("all", 0) > 0 THEN Row("all", 0).tier ELSE Missing
           hsm == IF Held("hour", h) > 0 THEN Row("hour", h).hour[h] ELSE Missing
           htier == IF Held("hour", h) > 0 THEN Row("hour", h).tier ELSE Missing
           onDay == hsm # Missing /\ Held("day", d) > 0 /\ Timed(req, t, h, d) # NoAverage
           overall == Overall(req, t)
<1>1. h \in 0..HourBlocks-1 /\ d \in 0..WeekDays-1
  BY SlotsAre
<1>2. ASSUME NEW kind, NEW n, Held(kind, n) > 0
      PROVE  /\ Row(kind, n).sm \in Int /\ Row(kind, n).hour[h] \in Int /\ Row(kind, n).day[d] \in Int
  <2>1. <<c, kind, n>> \in DOMAIN req.have /\ Held(kind, n) = req.have[<<c, kind, n>>]
    BY <1>2 DEF HeldIn
  <2>2. c \in Universe /\ Held(kind, n) \in 1..MaxGen
    BY <2>1, DirectionsAssumption DEF IInv, Shaped
  <2>3. Gold(Held(kind, n), t) \in Rows
    BY <2>2, DirectionsAssumption
  <2> HIDE DEF h, d
  <2> QED BY <1>1, <2>2, <2>3, RowIs
<1>3. \A a \in {overall, Hourly(req, t, h), Timed(req, t, h, d)} :
        a # NoAverage => a[1] \in Nat \ {0} /\ a[2] \in Int
  <2> HIDE DEF h, d
  <2> QED BY <1>1, AveragesAre
<1>4. sm \in Int /\ hsm \in Int /\ (Held("day", d) > 0 => hsm * Row("day", d).day[d] \in Int)
  <2> HIDE DEF Held, Row, h, d
  <2>1. sm \in Int /\ hsm \in Int
    BY <1>2 DEF Missing
  <2> HIDE DEF sm, hsm
  <2> QED BY <1>2, <2>1
<1>5. ASSUME NEW tr, NEW value \in Int, NEW own \in {overall, Hourly(req, t, h), Timed(req, t, h, d)}
      PROVE  CellRatio(tr, value, own, sm, overall) \in Int
  <2> HIDE DEF sm, overall, h, d
  <2>1. Multiple(value, own) \in Int /\ Multiple(sm, overall) \in Int
    BY <1>3, <1>4, MultipleIs
  <2> QED BY <2>1 DEF CellRatio, Unrated
<1>6. Ratio(req, t, c, slot) =
        CASE ~req.window.hourly -> CellRatio(tier, sm, overall, sm, overall)
          [] req.window.hourly /\ onDay ->
               CellRatio(htier, hsm * Row("day", d).day[d], Timed(req, t, h, d), sm, overall)
          [] OTHER -> CellRatio(htier, hsm, Hourly(req, t, h), sm, overall)
  BY DEF Ratio, RatioAt
<1>7. onDay => Held("day", d) > 0
  OBVIOUS
<1> HIDE DEF sm, tier, hsm, htier, onDay, overall, Held, Row, h, d
<1> QED BY <1>4, <1>5, <1>6, <1>7

\* A route's mean is a number, whether or not enough of it is rated.
LEMMA MeanIs ==
  ASSUME NEW runs \in Runs, NEW ratios, \A i \in DOMAIN runs : ratios[i] \in Int
  PROVE  TrackActivity(runs, ratios).mean \in Int
<1> DEFINE known == {i \in DOMAIN runs : ratios[i] # Unrated}
           lengths == [i \in known |-> runs[i].len]
           heats == [i \in known |-> runs[i].len * ratios[i]]
           comparable == SumOf(lengths) > 0 /\ 10 * SumOf(lengths) >= 6 * Length(runs)
<1>1. IsFiniteSet(known) /\ \A i \in known : runs[i].len \in Nat /\ ratios[i] \in Int
  <2> DEFINE Run == [cell : STRING, len : Nat, at : Nat]
  <2>1. runs \in Seq(Run)
    BY DEF Runs
  <2> HIDE DEF Run
  <2>2. DOMAIN runs = 1..Len(runs) /\ Len(runs) \in Nat /\ \A i \in DOMAIN runs : runs[i] \in Run
    BY <2>1, LenProperties, ElementOfSeq
  <2>3. IsFiniteSet(DOMAIN runs)
    BY <2>2, FS_Interval
  <2>4. known \in SUBSET DOMAIN runs
    OBVIOUS
  <2> HIDE DEF known
  <2>5. IsFiniteSet(known)
    BY <2>3, <2>4, FS_Subset
  <2> QED BY <2>2, <2>4, <2>5 DEF Run
<1>2. SumOf(lengths) \in Int /\ SumOf(heats) \in Int
  <2>1. /\ DOMAIN lengths = known /\ \A i \in known : lengths[i] \in Int
        /\ DOMAIN heats = known /\ \A i \in known : heats[i] \in Int
    BY <1>1
  <2> HIDE DEF lengths, heats, known
  <2> QED BY <1>1, <2>1, SumOfIsInt
<1>3. TrackActivity(runs, ratios).mean =
        IF comparable THEN Rounded(SumOf(heats), SumOf(lengths)) ELSE Unrated
  BY DEF TrackActivity
<1>4. \A n \in Int, m \in Nat \ {0} : Rounded(n, m) \in Int
  <2>1. \A x \in Int, y \in Nat \ {0} : x \div y \in Int
    OBVIOUS
  <2>2. \A n \in Int, m \in Nat \ {0} : 2 * n + m \in Int /\ 2 * m \in Nat \ {0}
    OBVIOUS
  <2> QED BY <2>1, <2>2 DEF Rounded
<1>5. comparable => SumOf(lengths) \in Nat \ {0}
  <2> HIDE DEF lengths
  <2> QED BY <1>2
<1> HIDE DEF comparable, lengths, heats
<1> QED BY <1>2, <1>3, <1>4, <1>5 DEF Unrated

\* Of any routes and any rows, the alternative offered is rated, within the
\* time allowed and clearly lower, and the lowest of those that are; none is
\* withheld that is, and none called not lower that is lower.
THEOREM AlternativesQualify == Spec => []PickQualifies
<1>1. ASSUME IInv, Answered, NEW t \in Tracks
      PROVE  LET routes   == req.answer.routes
                 activity == req.answer.activity[t]
                 pick     == req.answer.picks[t]
                 able     == {i \in DOMAIN routes : Qualifies(routes, activity, req.ask.mode, i)}
             IN /\ pick.lower # Nobody => /\ pick.lower \in able
                                          /\ \A i \in able : activity[pick.lower].mean =< activity[i].mean
                /\ pick.lower = Nobody => able = {}
                /\ pick.why = "not_lower" => \A i \in 2..Len(routes) : ~Clears(activity, i)
  <2> DEFINE routes == req.routes
             activity == ActivityOf(req, t)
  <2>1. /\ req.answer.routes = routes /\ req.answer.activity[t] = activity
        /\ req.answer.picks[t] = Pick(req.ask.mode, routes, activity)
    BY <1>1, AnsweredIs
  <2>2. Timely(routes) /\ req.ask.mode \in Modes
    BY <1>1, RoutesAreTimely DEF IInv, Shaped
  <2>3. ASSUME NEW i \in DOMAIN routes PROVE activity[i].mean \in Int
    <3>1. activity[i] = TrackActivity(routes[i].runs, Ratios(req, t, routes[i]))
      BY DEF ActivityOf
    <3>2. routes[i].runs \in Runs
      BY <1>1, RoutesAreTimely DEF IInv, Shaped, Routes
    <3>3. ASSUME NEW j \in DOMAIN routes[i].runs PROVE Ratios(req, t, routes[i])[j] \in Int
      <4>1. Ratios(req, t, routes[i])[j] = Ratio(req, t, routes[i].runs[j].cell, SlotOf(req, routes[i], j))
        BY DEF Ratios
      <4>2. SlotOf(req, routes[i], j) \in Nat
        BY <1>1, SlotIsNat
      <4> QED BY <1>1, <4>1, <4>2, RatioIs
    <3> HIDE DEF routes, activity
    <3> QED BY <3>1, <3>2, <3>3, MeanIs
  <2> HIDE DEF routes, activity
  <2> QED BY <2>1, <2>2, <2>3, PickIs
<1>2. IInv => PickQualifies
  BY <1>1 DEF PickQualifies
<1> QED BY <1>2, IInvHolds, PTL
-----------------------------------------------------------------------------
(* The request path of a provider.                                         *)

USE DEF shared, loop, ghosts


\* The budget's day never runs backward.
LEMMA DayIsMonotone ==
  ASSUME NEW m \in Nat, NEW n \in Nat, m =< n
  PROVE  BudgetDay(m) \in Int /\ BudgetDay(n) \in Int /\ BudgetDay(m) =< BudgetDay(n)
  BY ClientAssumption DEF BudgetDay

\* A charge given back leaves the allowance as it was at the day's start or
\* before the charge.
LEMMA RefundUndoesCharge ==
  ASSUME Typed, budget.day =< BudgetDay(now)
  PROVE  /\ Rolled(budget) \in [day : Int, used : Nat]
         /\ Rolled(budget).day = BudgetDay(now)
         /\ Taken(budget).day = BudgetDay(now)
         /\ Taken(budget) \in [day : Int, used : Nat]
         /\ Taken(budget).used = Rolled(budget).used + 1
         /\ Refunded(Taken(budget)) = Rolled(budget)
<1>1. BudgetDay(now) \in Int
  BY DayIsMonotone DEF Typed
<1>2. Rolled(budget) \in [day : Int, used : Nat] /\ Rolled(budget).day = BudgetDay(now)
  BY <1>1 DEF Rolled, Typed
<1>3. /\ Taken(budget) \in [day : Int, used : Nat] /\ Taken(budget).day = BudgetDay(now)
      /\ Taken(budget).used = Rolled(budget).used + 1
  BY <1>2 DEF Taken
<1>4. Rolled(Taken(budget)) = Taken(budget)
  BY <1>3 DEF Rolled
<1>5. Refunded(Taken(budget)) = [Taken(budget) EXCEPT !.used = Rolled(budget).used]
  BY <1>2, <1>3, <1>4 DEF Refunded
<1> QED BY <1>2, <1>3, <1>5 DEF Taken

\* What the budget has charged today, once it has noticed the day.
LEMMA RolledIsExact ==
  ASSUME Typed, BudgetSound
  PROVE  Rolled(budget).used = sentToday
  BY DayIsMonotone DEF Typed, BudgetSound, BudgetExact, Rolled

\* A producer that ends without a call changes nothing the invariant is about.
LEMMA EndsQuietly ==
  ASSUME ClientInv, NEW t \in Tasks, NEW result \in Results,
         task[t].st = "new", Ends(t, result),
         breaker' = breaker, budget' = budget \/ budget' = Rolled(budget),
         UNCHANGED <<now, inflight, lastSent, sentToday>>
  PROVE  ClientInv'
<1>1. /\ task' \in [Tasks -> Producer]
      /\ task'[t].st = "done" /\ task'[t].key = task[t].key
      /\ \A u \in Tasks : u # t => task'[u] = task[u]
  <2>1. task' = [task EXCEPT ![t] = [task[t] EXCEPT !.st = "done", !.result = result]]
    BY DEF Ends
  <2>2. task \in [Tasks -> Producer]
    BY DEF ClientInv, Typed
  <2>3. [task[t] EXCEPT !.st = "done", !.result = result] \in Producer
    BY <2>2 DEF Producer
  <2> QED BY <2>1, <2>2, <2>3 DEF Producer
<1>2. Typed' /\ BudgetSound'
  <2>1. budget'.day =< BudgetDay(now) /\ budget' \in [day : Int, used : Nat]
    BY RefundUndoesCharge, DayIsMonotone DEF ClientInv, Typed, BudgetSound
  <2>2. budget'.day = BudgetDay(now) => budget'.used = sentToday
    BY RolledIsExact DEF ClientInv, BudgetSound, BudgetExact
  <2>3. budget'.day < BudgetDay(now) => sentToday = 0
    BY RefundUndoesCharge, DayIsMonotone DEF ClientInv, Typed, BudgetSound
  <2>4. BudgetDay(now)' = BudgetDay(now)
    BY DEF BudgetDay
  <2> QED BY <1>1, <2>1, <2>2, <2>3, <2>4 DEF ClientInv, Typed, BudgetSound, BudgetExact
<1>3. Trials' = Trials
  BY <1>1 DEF Trials
<1>4. CallsAreYoung'
  BY <1>1 DEF ClientInv, CallsAreYoung
<1>5. TrialSound'
  BY <1>1, <1>3 DEF ClientInv, TrialSound, OneTrial, TrialIsOut, Trials
<1>6. LastSentSound' /\ FlightSound'
  BY <1>1 DEF ClientInv, LastSentSound, FlightSound
<1> QED BY <1>2, <1>4, <1>5, <1>6 DEF ClientInv

\* A breaker that lets a call go has no trial out; if it is open, it has cooled.
LEMMA AllowsMeansNoTrial ==
  ASSUME ClientInv, Allows(breaker, now)
  PROVE  /\ Trials = {} /\ ~breaker.trialOut
         /\ breaker.openedAt # Never => breaker.openedAt + Cooldown =< now
<1>1. ~breaker.trialOut
  BY DEF ClientInv, Typed, BreakerType, TrialSound, Allows, TrialIsOut
<1>2. Trials = {}
  BY <1>1 DEF ClientInv, TrialSound
<1>3. breaker.openedAt # Never => breaker.openedAt + Cooldown =< now
  BY BreakerAssumption DEF ClientInv, Typed, BreakerType, Allows, Cooling
<1> QED BY <1>1, <1>2, <1>3

-----------------------------------------------------------------------------
(* The invariant holds, and what follows from it.                          *)

\* A client with no call made satisfies its invariant.
LEMMA InitClientInv == ClientInit => ClientInv
<1> SUFFICES ASSUME ClientInit PROVE ClientInv
  OBVIOUS
<1>1. BudgetDay(0) \in Int
  BY DayIsMonotone
<1>2. \A t \in Tasks : task[t] = FreeTask
  BY DEF ClientInit, NoTasks
<1>3. FreeTask \in Producer /\ FreeTask.st = "free"
  BY DEF FreeTask, Producer
<1>4. Typed
  BY <1>1, <1>3, BreakerAssumption DEF ClientInit, Typed, NoTasks, NoFlights, BreakerType, Closed
<1>5. Trials = {} /\ CallsAreYoung /\ FlightSound
  BY <1>2, <1>3 DEF Trials, CallsAreYoung, FlightSound
<1>6. TrialSound
  BY <1>2, <1>3, <1>5 DEF ClientInit, Closed, TrialSound, OneTrial, TrialIsOut
<1>7. LastSentSound
  BY DEF ClientInit, LastSentSound
<1>8. BudgetSound
  BY <1>1, ClientAssumption DEF ClientInit, BudgetSound, BudgetExact
<1> QED BY <1>4, <1>5, <1>6, <1>7, <1>8 DEF ClientInv

\* A producer that has not been named yet is registered for its key.
LEMMA LeadClientInv ==
  ASSUME ClientInv, NEW r \in Requests, NEW k \in Keys, Lead(r, k)
  PROVE  ClientInv'
<1>1. PICK t \in Tasks :
        /\ task[t].st = "free"
        /\ task' = [task EXCEPT ![t] = [FreeTask EXCEPT !.st = "new", !.key = k,
                                                   !.client = ClientOf[r]]]
        /\ inflight' = [inflight EXCEPT ![k] = t]
  BY DEF Lead
<1>2. inflight[k] = NoTask /\ inflight \in [Keys -> Tasks \cup {NoTask}]
      /\ UNCHANGED <<now, breaker, budget, lastSent, sentToday>>
  BY DEF Lead, ClientInv, Typed
<1>3. [FreeTask EXCEPT !.st = "new", !.key = k, !.client = ClientOf[r]] \in Producer
  BY ClientAssumption DEF FreeTask, Producer
<1>4. /\ task' \in [Tasks -> Producer]
      /\ task'[t].st = "new" /\ task'[t].key = k
      /\ \A u \in Tasks : u # t => task'[u] = task[u]
  BY <1>1, <1>3 DEF ClientInv, Typed, FreeTask
<1>5. Trials' = Trials
  BY <1>1, <1>4 DEF Trials
<1>6. BudgetDay(now)' = BudgetDay(now)
  BY <1>2 DEF BudgetDay
<1>7. Typed' /\ BudgetSound' /\ LastSentSound'
  <2>1. inflight' \in [Keys -> Tasks \cup {NoTask}]
    BY <1>1, <1>2
  <2>2. Typed'
    BY <1>2, <1>4, <2>1 DEF ClientInv, Typed
  <2> QED BY <1>2, <1>6, <2>2 DEF ClientInv, BudgetSound, BudgetExact, LastSentSound
<1>8. CallsAreYoung'
  BY <1>2, <1>4 DEF ClientInv, CallsAreYoung
<1>9. TrialSound'
  <2>1. \A u \in Tasks : task'[u].st = "sent" => task'[u] = task[u]
    BY <1>4
  <2>2. \A u \in Trials : task'[u] = task[u]
    BY <1>5, <2>1 DEF Trials
  <2> QED BY <1>2, <1>5, <2>1, <2>2 DEF ClientInv, TrialSound, OneTrial, TrialIsOut
<1>10. FlightSound'
  <2> SUFFICES ASSUME NEW u \in Tasks, task'[u].st # "free"
              PROVE  task'[u].key \in Keys /\ inflight'[task'[u].key] = u
    BY DEF FlightSound
  <2>1. CASE u = t
    BY <1>1, <1>2, <1>4, <2>1
  <2>2. CASE u # t
    <3>1. task[u].key \in Keys /\ inflight[task[u].key] = u
      BY <1>4, <2>2 DEF ClientInv, FlightSound
    <3>2. task[u].key # k
      BY <1>2, <3>1, ClientAssumption
    <3> QED BY <1>1, <1>4, <2>2, <3>1, <3>2
  <2> QED BY <2>1, <2>2
<1> QED BY <1>7, <1>8, <1>9, <1>10 DEF ClientInv

\* A call goes out: a trial if the breaker is half open.
LEMMA SendClientInv ==
  ASSUME ClientInv, NEW t \in Tasks, Send(t)
  PROVE  ClientInv'
<1>1. /\ Trials = {} /\ ~breaker.trialOut
      /\ breaker.openedAt # Never => breaker.openedAt + Cooldown =< now
  BY AllowsMeansNoTrial DEF Send
<1>2. /\ task'[t] = [task[t] EXCEPT !.st = "sent", !.at = now,
                                   !.trial = breaker.openedAt # Never]
      /\ \A u \in Tasks : u # t => task'[u] = task[u]
      /\ task[t] \in Producer /\ task[t].st = "new"
  BY DEF Send, ClientInv, Typed
<1>3. task'[t] \in Producer /\ task'[t].key = task[t].key /\ task'[t].st = "sent"
      /\ task'[t].at = now /\ (task'[t].trial <=> breaker.openedAt # Never)
  BY <1>2 DEF ClientInv, Typed, Producer
<1>4. task' \in [Tasks -> Producer]
  BY <1>2, <1>3 DEF Send, ClientInv, Typed
<1>5. /\ breaker' \in BreakerType /\ breaker'.openedAt = breaker.openedAt
      /\ breaker.openedAt # Never => breaker'.trialOut
      /\ breaker.openedAt = Never => ~breaker'.trialOut
  BY DEF Send, Claimed, ClientInv, Typed, BreakerType
<1>6. now' = now /\ inflight' = inflight /\ lastSent' = now /\ sentToday' = sentToday + 1
  BY DEF Send
<1>7. /\ budget' \in [day : Int, used : Nat] /\ budget'.day = BudgetDay(now)
      /\ budget'.used = sentToday + 1
  BY RefundUndoesCharge, RolledIsExact DEF Send, ClientInv, BudgetSound
<1>8. sentToday + 1 =< DailyLimit
  BY RolledIsExact, ClientAssumption DEF Send, Spent, ClientInv, Typed
<1>9. Typed'
  BY <1>4, <1>5, <1>6, <1>7 DEF ClientInv, Typed
<1>10. BudgetSound'
  BY <1>6, <1>7, <1>8, DayIsMonotone DEF ClientInv, Typed, BudgetSound, BudgetExact, BudgetDay
<1>11. CallsAreYoung'
  <2>1. now \in Nat /\ now =< now + CallLife /\ now # Never
    BY ClientAssumption, BreakerAssumption DEF ClientInv, Typed
  <2>2. \A u \in Tasks : u # t => (task'[u].st = "sent" =>
           task'[u].at # Never /\ task'[u].at =< now /\ now =< task'[u].at + CallLife)
    BY <1>2 DEF ClientInv, CallsAreYoung
  <2>3. task'[t].at # Never /\ task'[t].at =< now /\ now =< task'[t].at + CallLife
    BY <1>3, <2>1
  <2> QED BY <1>6, <2>2, <2>3 DEF CallsAreYoung
<1>12. TrialSound'
  <2>1. CASE breaker.openedAt = Never
    <3>1. Trials' = {}
      BY <1>1, <1>2, <1>3, <2>1 DEF Trials
    <3> QED BY <1>5, <2>1, <3>1 DEF TrialSound, OneTrial, TrialIsOut
  <2>2. CASE breaker.openedAt # Never
    <3>1. Trials' = {t}
      <4>1. t \in Trials'
        BY <1>3, <2>2 DEF Trials
      <4>2. \A u \in Trials' : u = t
        BY <1>1, <1>2 DEF Trials
      <4> QED BY <4>1, <4>2
    <3>2. \A u \in Tasks : (task'[u].st = "sent" /\ ~task'[u].trial)
            => task'[u].at =< breaker.openedAt
      BY <1>2, <1>3, <2>2 DEF ClientInv, TrialSound
    <3>3. breaker.openedAt =< now
      BY <2>2 DEF ClientInv, TrialSound
    <3> QED BY <1>1, <1>3, <1>5, <1>6, <2>2, <3>1, <3>2, <3>3 DEF TrialSound, OneTrial, TrialIsOut
  <2> QED BY <2>1, <2>2
<1>13. LastSentSound'
  <2>1. now =< now
    BY DEF ClientInv, Typed
  <2> QED BY <1>5, <1>6, <2>1 DEF LastSentSound
<1>14. FlightSound'
  <2>1. \A u \in Tasks : task'[u].st # "free" => task[u].st # "free" /\ task'[u].key = task[u].key
    BY <1>2, <1>3
  <2> QED BY <1>6, <2>1 DEF ClientInv, FlightSound
<1> QED BY <1>9, <1>10, <1>11, <1>12, <1>13, <1>14 DEF ClientInv

\* What a call reports is the breaker's news only if it is the trial, or if no
\* trial can be out: a call sent while the breaker was closed is over before a
\* trial starts.
LEMMA ReplyClientInv ==
  ASSUME ClientInv, NEW t \in Tasks, NEW result \in {"ok", "refused", "failed"}, Reply(t, result)
  PROVE  ClientInv'
<1>1. /\ task[t] \in Producer /\ task[t].st = "sent"
      /\ task' = [task EXCEPT ![t] = [task[t] EXCEPT !.st = "done", !.result = result]]
  BY DEF Reply, Ends, ClientInv, Typed
<1>2. [task[t] EXCEPT !.st = "done", !.result = result] \in Producer
  BY <1>1 DEF Producer, Results
<1>3. /\ task' \in [Tasks -> Producer]
      /\ task'[t].st = "done" /\ task'[t].key = task[t].key
      /\ \A u \in Tasks : u # t => task'[u] = task[u]
  BY <1>1, <1>2 DEF ClientInv, Typed, Producer
<1>4. UNCHANGED <<now, budget, inflight, lastSent, sentToday>>
  BY DEF Reply
<1>5. Trials \ {t} = {}
  <2> SUFFICES ASSUME NEW u \in Trials, u # t PROVE FALSE
    OBVIOUS
  <2>1. u \in Tasks /\ task[u].st = "sent" /\ breaker.openedAt # Never
        /\ breaker.openedAt + Cooldown =< task[u].at
    BY DEF ClientInv, TrialSound, Trials
  <2>2. ~task[t].trial
    BY <1>1 DEF ClientInv, TrialSound, OneTrial, Trials
  <2>3. task[t].at =< breaker.openedAt
    BY <1>1, <2>1, <2>2 DEF ClientInv, TrialSound
  <2>4. /\ now =< task[t].at + CallLife /\ task[u].at =< now
        /\ {now, task[t].at, task[u].at, breaker.openedAt} \subseteq Int
    BY <1>1, <2>1 DEF ClientInv, CallsAreYoung, Typed, Producer, BreakerType
  <2> QED BY <2>1, <2>3, <2>4, ClientAssumption, BreakerAssumption
<1>6. Trials' = {}
  BY <1>3, <1>5 DEF Trials
<1>7. /\ breaker' \in BreakerType /\ ~breaker'.trialOut
      /\ \/ breaker'.openedAt = Never
         \/ breaker'.openedAt = now
  BY BreakerAssumption DEF Reply, AfterFailure, AfterSuccess, Closed, ClientInv, Typed, BreakerType
<1>8. BudgetDay(now)' = BudgetDay(now)
  BY <1>4 DEF BudgetDay
<1>9. Typed' /\ BudgetSound' /\ FlightSound'
  <2>1. \A u \in Tasks : task'[u].st # "free" => task[u].st # "free" /\ task'[u].key = task[u].key
    BY <1>1, <1>3
  <2>2. FlightSound'
    BY <1>4, <2>1 DEF ClientInv, FlightSound
  <2>3. Typed'
    BY <1>3, <1>4, <1>7 DEF ClientInv, Typed
  <2> QED BY <1>4, <1>8, <2>2, <2>3 DEF ClientInv, BudgetSound, BudgetExact
<1>10. CallsAreYoung'
  BY <1>3, <1>4 DEF ClientInv, CallsAreYoung
<1>11. TrialSound'
  <2>1. now =< now
    BY DEF ClientInv, Typed
  <2>2. \A u \in Tasks : task'[u].st = "sent" => task'[u].at =< now
    BY <1>3 DEF ClientInv, CallsAreYoung
  <2> QED BY <1>4, <1>6, <1>7, <2>1, <2>2 DEF TrialSound, OneTrial, TrialIsOut
<1>12. LastSentSound'
  BY <1>4, <1>7 DEF ClientInv, LastSentSound
<1> QED BY <1>9, <1>10, <1>11, <1>12 DEF ClientInv

\* A producer that is done leaves with its registration.
LEMMA SettleClientInv ==
  ASSUME ClientInv, NEW t \in Tasks, Settle(t)
  PROVE  ClientInv'
<1>1. /\ task[t].st = "done" /\ task' = [task EXCEPT ![t] = FreeTask]
      /\ inflight' = [k \in Keys |-> IF inflight[k] = t THEN NoTask ELSE inflight[k]]
      /\ UNCHANGED <<now, breaker, budget, lastSent, sentToday>>
  BY DEF Settle
<1>2. FreeTask \in Producer /\ FreeTask.st = "free"
  BY DEF FreeTask, Producer
<1>3. /\ task' \in [Tasks -> Producer] /\ task'[t].st = "free"
      /\ \A u \in Tasks : u # t => task'[u] = task[u]
  BY <1>1, <1>2 DEF ClientInv, Typed
<1>4. Trials' = Trials
  BY <1>1, <1>3 DEF Trials
<1>5. BudgetDay(now)' = BudgetDay(now)
  BY <1>1 DEF BudgetDay
<1>6. Typed'
  <2>1. inflight' \in [Keys -> Tasks \cup {NoTask}]
    BY <1>1 DEF ClientInv, Typed
  <2> QED BY <1>1, <1>3, <2>1 DEF ClientInv, Typed
<1>7. BudgetSound' /\ LastSentSound' /\ CallsAreYoung'
  BY <1>1, <1>3, <1>5 DEF ClientInv, BudgetSound, BudgetExact, LastSentSound, CallsAreYoung
<1>8. TrialSound'
  <2>1. \A u \in Tasks : task'[u].st = "sent" => task'[u] = task[u]
    BY <1>3
  <2>2. \A u \in Trials : task'[u] = task[u]
    BY <1>4, <2>1 DEF Trials
  <2> QED BY <1>1, <1>4, <2>1, <2>2 DEF ClientInv, TrialSound, OneTrial, TrialIsOut
<1>9. FlightSound'
  <2> SUFFICES ASSUME NEW u \in Tasks, task'[u].st # "free"
              PROVE  task'[u].key \in Keys /\ inflight'[task'[u].key] = u
    BY DEF FlightSound
  <2>1. u # t /\ task'[u] = task[u]
    BY <1>3
  <2>2. task[u].key \in Keys /\ inflight[task[u].key] = u
    BY <2>1 DEF ClientInv, FlightSound
  <2> QED BY <1>1, <2>1, <2>2
<1> QED BY <1>6, <1>7, <1>8, <1>9 DEF ClientInv

\* Time passes only while every call that is out is young enough.
LEMMA TickClientInv ==
  ASSUME ClientInv, Tick
  PROVE  ClientInv'
<1>1. /\ now' = now + 1 /\ now \in Nat
      /\ UNCHANGED <<breaker, budget, inflight, task, lastSent>>
      /\ sentToday' = IF BudgetDay(now + 1) = BudgetDay(now) THEN sentToday ELSE 0
  BY DEF Tick, ClientInv, Typed
<1>2. BudgetDay(now) \in Int /\ BudgetDay(now + 1) \in Int /\ BudgetDay(now) =< BudgetDay(now + 1)
  BY <1>1, DayIsMonotone
<1>3. BudgetDay(now)' = BudgetDay(now + 1)
  BY <1>1 DEF BudgetDay
<1>4. Typed'
  BY <1>1 DEF ClientInv, Typed
<1>5. BudgetSound'
  <2>1. budget.day \in Int
    BY DEF ClientInv, Typed
  <2> QED BY <1>1, <1>2, <1>3, <2>1, ClientAssumption DEF ClientInv, BudgetSound, BudgetExact
<1>6. CallsAreYoung'
  <2> SUFFICES ASSUME NEW t \in Tasks, task[t].st = "sent"
              PROVE  task[t].at # Never /\ task[t].at =< now + 1 /\ now + 1 =< task[t].at + CallLife
    BY <1>1 DEF CallsAreYoung
  <2>1. task[t].at \in Nat /\ task[t].at # Never /\ task[t].at =< now
    BY DEF ClientInv, CallsAreYoung, Typed, Producer
  <2>2. now < task[t].at + CallLife
    BY DEF Tick
  <2> QED BY <1>1, <2>1, <2>2, ClientAssumption
<1>7. TrialSound'
  BY <1>1 DEF ClientInv, TrialSound, OneTrial, TrialIsOut, Trials, Typed, BreakerType
<1>8. LastSentSound' /\ FlightSound'
  BY <1>1 DEF ClientInv, LastSentSound, FlightSound, Typed
<1> QED BY <1>4, <1>5, <1>6, <1>7, <1>8 DEF ClientInv

\* A process that has just started has nothing out.
LEMMA RestartClientInv ==
  ASSUME ClientInv, Restart
  PROVE  ClientInv'
<1>1. now' = now /\ now \in Nat /\ BudgetDay(now) \in Int /\ BudgetDay(now)' = BudgetDay(now)
  BY DayIsMonotone DEF Restart, ClientInv, Typed, BudgetDay
<1>2. FreeTask \in Producer /\ FreeTask.st = "free"
  BY DEF FreeTask, Producer
<1>3. \A t \in Tasks : task'[t] = FreeTask
  BY DEF Restart, NoTasks
<1>4. Typed'
  BY <1>1, <1>2, BreakerAssumption DEF Restart, Typed, NoTasks, NoFlights, BreakerType, Closed
<1>5. Trials' = {} /\ CallsAreYoung' /\ FlightSound'
  BY <1>2, <1>3 DEF Trials, CallsAreYoung, FlightSound
<1>6. TrialSound'
  BY <1>2, <1>3, <1>5 DEF Restart, Closed, TrialSound, OneTrial, TrialIsOut
<1>7. LastSentSound' /\ BudgetSound'
  BY <1>1, ClientAssumption DEF Restart, LastSentSound, BudgetSound, BudgetExact
<1> QED BY <1>4, <1>5, <1>6, <1>7 DEF ClientInv

\* Every action keeps the invariant.
LEMMA NextClientInv == ClientInv /\ [ClientNext]_clientVars => ClientInv'
<1> SUFFICES ASSUME ClientInv, [ClientNext]_clientVars PROVE ClientInv'
  OBVIOUS
<1>a. ASSUME UNCHANGED <<now, breaker, budget, inflight, task, lastSent, sentToday>>
      PROVE  ClientInv'
  <2>1. Trials' = Trials /\ BudgetDay(now)' = BudgetDay(now)
    BY <1>a DEF Trials, BudgetDay
  <2>2. Typed' /\ CallsAreYoung' /\ TrialSound'
    BY <1>a, <2>1 DEF ClientInv, Typed, CallsAreYoung, TrialSound, OneTrial, TrialIsOut
  <2>3. LastSentSound' /\ BudgetSound' /\ FlightSound'
    BY <1>a, <2>1 DEF ClientInv, LastSentSound, BudgetSound, BudgetExact, FlightSound
  <2> QED BY <2>2, <2>3 DEF ClientInv
<1>1. ASSUME NEW r \in Requests, NEW k \in Keys, Hit(r, k) PROVE ClientInv'
  BY <1>a, <1>1 DEF Hit
<1>2. ASSUME NEW r \in Requests, NEW k \in Keys, Join(r, k) PROVE ClientInv'
  BY <1>a, <1>2 DEF Join
<1>3. ASSUME NEW r \in Requests, NEW k \in Keys, Lead(r, k) PROVE ClientInv'
  BY <1>3, LeadClientInv
<1>4. ASSUME NEW r \in Requests, Leave(r) PROVE ClientInv'
  BY <1>a, <1>4 DEF Leave
<1>5. ASSUME NEW t \in Tasks, TooSoon(t) PROVE ClientInv'
  BY <1>5, EndsQuietly DEF TooSoon, Quiet, Results
<1>6. ASSUME NEW t \in Tasks, CircuitOpen(t) PROVE ClientInv'
  BY <1>6, EndsQuietly DEF CircuitOpen, Quiet, Results
<1>7. ASSUME NEW t \in Tasks, Exhausted(t) PROVE ClientInv'
  BY <1>7, EndsQuietly DEF Exhausted, Quiet, Results
<1>8. ASSUME NEW t \in Tasks, TrialTaken(t) PROVE ClientInv'
  <2>1. Refunded(Taken(budget)) = Rolled(budget)
    BY RefundUndoesCharge DEF ClientInv, BudgetSound
  <2> QED BY <1>8, <2>1, EndsQuietly DEF TrialTaken, Quiet, Results
<1>9. ASSUME NEW t \in Tasks, Send(t) PROVE ClientInv'
  BY <1>9, SendClientInv
<1>10. ASSUME NEW t \in Tasks, NeverSent(t) PROVE ClientInv'
  <2>1. Refunded(Taken(budget)) = Rolled(budget)
    BY RefundUndoesCharge DEF ClientInv, BudgetSound
  <2>2. breaker.trialOut = FALSE /\ breaker \in BreakerType
    BY <1>10, AllowsMeansNoTrial DEF NeverSent, ClientInv, Typed, BreakerType
  <2>3. Released(Claimed(breaker)) = breaker
    BY <2>2 DEF Released, Claimed, BreakerType
  <2> QED BY <1>10, <2>1, <2>3, EndsQuietly DEF NeverSent, Quiet, Results
<1>11. ASSUME NEW t \in Tasks, NEW result \in {"ok", "refused", "failed"}, Reply(t, result)
       PROVE  ClientInv'
  BY <1>11, ReplyClientInv
<1>12. ASSUME NEW t \in Tasks, Settle(t) PROVE ClientInv'
  BY <1>12, SettleClientInv
<1>13. CASE Tick
  BY <1>13, TickClientInv
<1>14. CASE Restart
  BY <1>14, RestartClientInv
<1>15. CASE UNCHANGED clientVars
  BY <1>a, <1>15 DEF clientVars
<1> QED BY <1>1, <1>2, <1>3, <1>4, <1>5, <1>6, <1>7, <1>8, <1>9, <1>10, <1>11, <1>12,
           <1>13, <1>14, <1>15 DEF ClientNext, Arrive, RunTask

\* The invariant holds in every reachable state.
THEOREM ClientInvariance == ClientSpec => []ClientInv
  BY InitClientInv, NextClientInv, PTL DEF ClientSpec

\* However many calls were out when the breaker opened, and however they end,
\* at most one call is the half-open trial (breaker.py, allow).
THEOREM OneTrialAlways == ClientSpec => []OneTrial
<1>1. ClientInv => OneTrial
  BY DEF ClientInv, TrialSound
<1> QED BY <1>1, ClientInvariance, PTL

\* No path out of _call leaves the half-open trial claimed by nobody.
THEOREM TrialIsNeverStranded == ClientSpec => []TrialIsOut
<1>1. ClientInv => TrialIsOut
  BY DEF ClientInv, TrialSound
<1> QED BY <1>1, ClientInvariance, PTL

\* The day's charges are exactly the day's calls, and never over the limit,
\* through refunds and midnights (budget.py).
THEOREM BudgetIsExact == ClientSpec => []BudgetExact
<1>1. ClientInv => BudgetExact
  BY DEF ClientInv, BudgetSound
<1> QED BY <1>1, ClientInvariance, PTL

\* Concurrent misses of one key make one upstream call (ttlcache.py).
THEOREM SingleFlight == ClientSpec => []OneCallPerKey
<1>1. ClientInv => OneCallPerKey
  BY DEF ClientInv, FlightSound, OneCallPerKey
<1> QED BY <1>1, ClientInvariance, PTL

\* A call goes out by Send and no other action.
LEMMA OnlySendSends ==
  ASSUME ClientInv, ClientNext, NEW t \in Tasks, task[t].st = "new", task'[t].st = "sent"
  PROVE  Send(t)
<1>1. task \in [Tasks -> Producer]
  BY DEF ClientInv, Typed
<1>a. ASSUME task' = task PROVE FALSE
  BY <1>a
<1>b. ASSUME NEW u \in Tasks, NEW result \in Results, Ends(u, result) PROVE FALSE
  <2>1. task'[t] = task[t] \/ task'[t].st = "done"
    BY <1>1, <1>b DEF Ends, Producer
  <2> QED BY <2>1
<1>c. ASSUME NEW u \in Tasks, NEW p, p.st # "sent", task' = [task EXCEPT ![u] = p] PROVE FALSE
  <2>1. task'[t] = task[t] \/ task'[t] = p
    BY <1>1, <1>c
  <2> QED BY <1>c, <2>1
<1>d. FreeTask.st = "free"
  BY DEF FreeTask
<1>e. ASSUME NEW r \in Requests, NEW k \in Keys, Hit(r, k) \/ Join(r, k) \/ Lead(r, k)
      PROVE  FALSE
  <2>1. CASE Hit(r, k) \/ Join(r, k)
    BY <1>a, <2>1 DEF Hit, Join
  <2>2. CASE Lead(r, k)
    <3>1. PICK u \in Tasks :
            task' = [task EXCEPT ![u] = [FreeTask EXCEPT !.st = "new", !.key = k,
                                                     !.client = ClientOf[r]]]
      BY <2>2 DEF Lead
    <3>2. [FreeTask EXCEPT !.st = "new", !.key = k, !.client = ClientOf[r]].st # "sent"
      BY DEF FreeTask
    <3> QED BY <1>c, <3>1, <3>2
  <2> QED BY <1>e, <2>1, <2>2
<1>f. ASSUME NEW u \in Tasks, RunTask(u), ~Send(u) PROVE FALSE
  <2>1. CASE Settle(u)
    BY <1>c, <1>d, <2>1 DEF Settle
  <2>2. CASE \E result \in {"ok", "refused", "failed"} : Reply(u, result)
    BY <1>b, <2>2 DEF Reply, Results
  <2>3. CASE TooSoon(u) \/ CircuitOpen(u) \/ Exhausted(u) \/ TrialTaken(u) \/ NeverSent(u)
    BY <1>b, <2>3 DEF TooSoon, CircuitOpen, Exhausted, TrialTaken, NeverSent, Results
  <2> QED BY <1>f, <2>1, <2>2, <2>3 DEF RunTask
<1>g. ~Tick /\ ~Restart /\ ~\E r \in Requests : Leave(r)
  <2>1. ASSUME Restart PROVE FALSE
    BY <1>d, <2>1 DEF Restart, NoTasks
  <2> QED BY <1>a, <2>1 DEF Tick, Leave
<1>2. PICK u \in Tasks : Send(u)
  BY <1>e, <1>f, <1>g DEF ClientNext, Arrive
<1>3. u = t
  BY <1>1, <1>2 DEF Send
<1> QED BY <1>2, <1>3

\* While the breaker is open, a whole cooldown passes between two calls.
THEOREM OutageIsProbedSlowly == ClientSpec => OneCallPerCooldown
<1>1. ClientInv /\ [ClientNext]_clientVars =>
        [\A t \in Tasks : (task[t].st = "new" /\ task'[t].st = "sent" /\ breaker.openedAt # Never)
           => lastSent = Never \/ now - lastSent >= Cooldown]_clientVars
  <2> SUFFICES ASSUME ClientInv, ClientNext, NEW t \in Tasks, task[t].st = "new", task'[t].st = "sent",
                      breaker.openedAt # Never, lastSent # Never
              PROVE  now - lastSent >= Cooldown
    OBVIOUS
  <2>1. Send(t)
    BY OnlySendSends
  <2>2. ~breaker.trialOut /\ breaker.openedAt + Cooldown =< now
    BY <2>1, AllowsMeansNoTrial DEF Send
  <2>3. lastSent =< breaker.openedAt
    BY <2>2 DEF ClientInv, LastSentSound
  <2> QED BY <2>2, <2>3, BreakerAssumption DEF ClientInv, Typed, BreakerType
<1> QED BY <1>1, ClientInvariance, PTL DEF ClientSpec, OneCallPerCooldown
-----------------------------------------------------------------------------
(* The throttle.  It forgets the client seen least recently when it is     *)
(* full, which lets that one through early: what it promises, it promises  *)
(* while it has room for every client.                                     *)

Roomy == IsFiniteSet(Clients) /\ Cardinality(Clients) =< ThrottleSize

Entry == [key : Clients, at : Nat]

\* A client's entry gone, the others' are as they were.
LEMMA ForgetsOne ==
  ASSUME NEW table \in Seq(Entry), Distinct(table), NEW c
  PROVE  /\ Dropped(table, c) \in Seq(Entry) /\ Distinct(Dropped(table, c))
         /\ \A d : d # c => EntryOf(Dropped(table, c), d) = EntryOf(table, d)
<1>1. /\ ToSet(Dropped(table, c)) = ToSet(table) \ EntryOf(table, c)
      /\ Distinct(Dropped(table, c)) /\ Dropped(table, c) \in Seq(Entry)
  BY DropTakesOut
<1> QED BY <1>1 DEF EntryOf

\* A client checked is in the table, and so are the others.
LEMMA CheckRecords ==
  ASSUME Roomy, now \in Nat, ThrottleTyped, NEW c \in Clients
  PROVE  /\ Checked(c) \in Seq(Entry) /\ Distinct(Checked(c))
         /\ [key |-> c, at |-> now] \in EntryOf(Checked(c), c)
         /\ \A d : d # c => EntryOf(Checked(c), d) = EntryOf(throttle, d)
<1> DEFINE e == [key |-> c, at |-> now]
<1>1. throttle \in Seq(Entry) /\ Distinct(throttle) /\ e \in Entry /\ e.key = c
  BY DEF ThrottleTyped, Entry, Distinct
<1>2. (\A x \in Entry : x.key \in Clients) /\ ThrottleSize \in Nat
  BY ClientAssumption DEF Entry
<1> HIDE DEF e
<1>3. /\ Checked(c) = Put(throttle, e, ThrottleSize)
      /\ Put(throttle, e, ThrottleSize) \in Seq(Entry) /\ Distinct(Put(throttle, e, ThrottleSize))
      /\ ToSet(Put(throttle, e, ThrottleSize)) = (ToSet(throttle) \ EntryOf(throttle, e.key)) \cup {e}
  <2>1. Checked(c) = Put(throttle, e, ThrottleSize)
    BY DEF Checked, e
  <2> QED BY <1>1, <1>2, <2>1, PutKeepsOthers DEF Roomy
<1> QED BY <1>1, <1>3 DEF EntryOf, e

\* What is remembered stays so while time passes, and while one client's entry
\* changes, for the others.
LEMMA StaysRemembered ==
  ASSUME now \in Nat, ThrottleSound, throttle' \in Seq(Entry), Distinct(throttle'),
         now' \in Nat, now =< now', plans' \in [Clients -> Nat \cup {Never}],
         \A t \in Tasks : task'[t].st # "free" => task'[t].client \in Clients,
         NEW c, c \in Clients => Remembered(c)',
         \A d \in Clients : d # c => /\ plans'[d] = plans[d]
                                     /\ EntryOf(throttle, d) \subseteq EntryOf(throttle', d)
  PROVE  ThrottleSound'
<1>1. ThrottleTyped'
  BY DEF ThrottleTyped, Entry, Distinct
<1>2. ASSUME NEW d \in Clients, d # c PROVE Remembered(d)'
  <2>1. Remembered(d) /\ plans[d] \in Nat \cup {Never} /\ plans'[d] = plans[d]
    BY <1>2 DEF ThrottleSound, ThrottleTyped
  <2>2. CASE plans[d] = Never
    BY <2>1, <2>2 DEF Remembered
  <2>3. CASE plans[d] # Never /\ now - plans[d] >= Interval
    <3>1. now' - plans[d] >= Interval
      BY <2>1, <2>3, ClientAssumption
    <3> QED BY <2>1, <3>1 DEF Remembered
  <2>4. CASE \E e \in EntryOf(throttle, d) : plans[d] =< e.at
    <3>1. \E e \in EntryOf(throttle', d) : plans[d] =< e.at
      BY <1>2, <2>4
    <3> QED BY <2>1, <3>1 DEF Remembered
  <2> QED BY <2>1, <2>2, <2>3, <2>4 DEF Remembered
<1> QED BY <1>1, <1>2 DEF ThrottleSound

\* The throttle lets a client through only if its last plan is an interval old.
LEMMA PlanIsOld ==
  ASSUME now \in Nat, ThrottleSound, NEW c \in Clients, ~Asked(c)
  PROVE  plans[c] = Never \/ now - plans[c] >= Interval
<1> SUFFICES ASSUME plans[c] # Never, NEW e \in EntryOf(throttle, c), plans[c] =< e.at
             PROVE  now - plans[c] >= Interval
  BY DEF ThrottleSound, Remembered
<1>1. e \in Entry
  <2>1. throttle \in Seq(Entry)
    BY DEF ThrottleSound, ThrottleTyped, Entry
  <2> QED BY <2>1, TableOf
<1>2. ~(now - e.at < Interval)
  BY DEF Asked
<1> QED BY <1>1, <1>2, ClientAssumption DEF Entry, ThrottleSound, ThrottleTyped

\* A producer that ends keeps its client.
LEMMA EndKeepsClients ==
  ASSUME ClientInv, ThrottleTyped, NEW t \in Tasks, task[t].st # "free", NEW result, Ends(t, result)
  PROVE  /\ task[t].client \in Clients
         /\ \A u \in Tasks : task'[u].st # "free" => task'[u].client \in Clients
<1>1. task \in [Tasks -> Producer]
  BY DEF ClientInv, Typed
<1>2. /\ task'[t].client = task[t].client
      /\ \A u \in Tasks : u # t => task'[u] = task[u]
  BY <1>1 DEF Ends, Producer
<1> QED BY <1>2 DEF ThrottleTyped

\* A call that does not go out takes the client's turn back.
LEMMA TurnGivenBack ==
  ASSUME Roomy, ClientInv, ThrottleSound, NEW t \in Tasks, task[t].st = "new", NEW result, Ends(t, result),
         ~Asked(task[t].client), UNCHANGED <<now, plans>>,
         throttle' = Dropped(Checked(task[t].client), task[t].client)
  PROVE  ThrottleSound'
<1>c. PICK c \in Clients : c = task[t].client
  BY EndKeepsClients DEF ThrottleSound
<1>1. /\ now \in Nat
      /\ \A u \in Tasks : task'[u].st # "free" => task'[u].client \in Clients
  BY EndKeepsClients DEF ClientInv, Typed, ThrottleSound
<1>2. plans[c] = Never \/ now - plans[c] >= Interval
  BY <1>1, <1>c, PlanIsOld
<1>3. /\ Checked(c) \in Seq(Entry) /\ Distinct(Checked(c))
      /\ \A d : d # c => EntryOf(Checked(c), d) = EntryOf(throttle, d)
  BY <1>1, CheckRecords DEF ThrottleSound
<1>4. /\ throttle' \in Seq(Entry) /\ Distinct(throttle')
      /\ \A d : d # c => EntryOf(throttle', d) = EntryOf(throttle, d)
  <2>1. throttle' = Dropped(Checked(c), c)
    BY <1>c
  <2> QED BY <1>3, <2>1, ForgetsOne
<1>5. Remembered(c)'
  BY <1>2 DEF Remembered
<1>6. now =< now' /\ plans' \in [Clients -> Nat \cup {Never}]
  BY <1>1 DEF ThrottleSound, ThrottleTyped
<1> QED BY <1>1, <1>4, <1>5, <1>6, StaysRemembered

\* A call that goes out is remembered at its time.
LEMMA SendRemembers ==
  ASSUME Roomy, ClientInv, ThrottleSound, NEW t \in Tasks, Send(t)
  PROVE  ThrottleSound'
<1>c. PICK c \in Clients : c = task[t].client
  BY DEF Send, ThrottleSound, ThrottleTyped
<1>1. /\ now \in Nat /\ now' = now /\ task \in [Tasks -> Producer]
      /\ plans \in [Clients -> Nat \cup {Never}]
  BY DEF Send, ClientInv, Typed, ThrottleSound, ThrottleTyped
<1>2. \A u \in Tasks : task'[u].st # "free" => task'[u].client \in Clients
  <2>1. /\ task'[t].client = c
        /\ \A u \in Tasks : u # t => task'[u] = task[u]
    BY <1>c, <1>1 DEF Send, Producer
  <2> QED BY <1>1, <2>1 DEF ThrottleSound, ThrottleTyped
<1>3. /\ throttle' \in Seq(Entry) /\ Distinct(throttle')
      /\ [key |-> c, at |-> now] \in EntryOf(throttle', c)
      /\ \A d : d # c => EntryOf(throttle', d) = EntryOf(throttle, d)
  <2>1. throttle' = Checked(c)
    BY <1>c DEF Send
  <2> QED BY <1>1, <2>1, CheckRecords DEF ThrottleSound
<1>4. /\ plans' \in [Clients -> Nat \cup {Never}] /\ plans'[c] = now
      /\ \A d \in Clients : d # c => plans'[d] = plans[d]
  BY <1>c, <1>1 DEF Send
<1>5. Remembered(c)'
  <2>1. \E e \in EntryOf(throttle', c) : plans'[c] =< e.at
    BY <1>1, <1>3, <1>4
  <2> QED BY <2>1 DEF Remembered
<1>6. now =< now' /\ now' \in Nat
  BY <1>1
<1> QED BY <1>1, <1>2, <1>3, <1>4, <1>5, <1>6, StaysRemembered

\* A call that fails is no plan any more, and one that is answered stays one.
LEMMA ReplyRemembers ==
  ASSUME ClientInv, ThrottleSound, NEW t \in Tasks, NEW result \in Results, Reply(t, result)
  PROVE  ThrottleSound'
<1>c. PICK c \in Clients : c = task[t].client
  BY EndKeepsClients DEF Reply, ThrottleSound
<1>1. /\ now \in Nat /\ now' = now
      /\ plans \in [Clients -> Nat \cup {Never}]
      /\ \A u \in Tasks : task'[u].st # "free" => task'[u].client \in Clients
  BY EndKeepsClients DEF Reply, ClientInv, Typed, ThrottleSound, ThrottleTyped
<1>2. throttle \in Seq(Entry) /\ Distinct(throttle)
  BY DEF ThrottleSound, ThrottleTyped, Entry, Distinct
<1>3. CASE result = "ok"
  <2>1. throttle' = throttle /\ plans' = plans
    BY <1>3 DEF Reply
  <2>2. Remembered(c)'
    BY <1>1, <2>1 DEF ThrottleSound, Remembered
  <2> QED BY <1>1, <1>2, <2>1, <2>2, StaysRemembered
<1>4. CASE result # "ok"
  <2>1. throttle' = Dropped(throttle, c) /\ plans' = [plans EXCEPT ![c] = Never]
    BY <1>c, <1>4 DEF Reply
  <2>2. Remembered(c)'
    BY <1>1, <2>1 DEF Remembered
  <2>3. /\ throttle' \in Seq(Entry) /\ Distinct(throttle')
        /\ \A d : d # c => EntryOf(throttle', d) = EntryOf(throttle, d)
    BY <1>2, <2>1, ForgetsOne
  <2>4. /\ plans' \in [Clients -> Nat \cup {Never}]
        /\ \A d \in Clients : d # c => plans'[d] = plans[d]
    BY <1>1, <2>1
  <2> QED BY <1>1, <2>2, <2>3, <2>4, StaysRemembered
<1> QED BY <1>3, <1>4

\* An empty throttle is sound.
LEMMA InitThrottle == ClientInit => ThrottleSound
<1> SUFFICES ASSUME ClientInit PROVE ThrottleSound
  OBVIOUS
<1>1. throttle = <<>> /\ plans = NoPlans /\ \A t \in Tasks : task[t].st = "free"
  BY DEF ClientInit, NoTasks, FreeTask
<1> QED BY <1>1 DEF ThrottleSound, ThrottleTyped, Remembered, NoPlans

\* Every action keeps the throttle's word.
LEMMA NextThrottle ==
  ASSUME Roomy, ClientInv, ThrottleSound, [ClientNext]_clientVars
  PROVE  ThrottleSound'
<1>0. /\ now \in Nat /\ task \in [Tasks -> Producer] /\ plans \in [Clients -> Nat \cup {Never}]
      /\ throttle \in Seq(Entry) /\ Distinct(throttle)
      /\ \A t \in Tasks : task[t].st # "free" => task[t].client \in Clients
  BY DEF ClientInv, Typed, ThrottleSound, ThrottleTyped, Entry, Distinct
<1>a. ASSUME now' \in Nat, now =< now', UNCHANGED <<throttle, plans>>,
             \A t \in Tasks : task'[t].st # "free" => task'[t].client \in Clients
      PROVE  ThrottleSound'
  <2> DEFINE nobody == CHOOSE c : c \notin Clients
  <2>1. nobody \notin Clients
    BY NoSetContainsEverything
  <2> HIDE DEF nobody
  <2> QED BY <1>0, <1>a, <2>1, StaysRemembered
<1>b. ASSUME UNCHANGED <<now, throttle, plans>>,
             \A t \in Tasks : task'[t] = task[t] \/ task'[t].st = "free" \/ task'[t].client \in Clients
      PROVE  ThrottleSound'
  BY <1>0, <1>a, <1>b
<1>1. ASSUME NEW r \in Requests, NEW k \in Keys, Hit(r, k) \/ Join(r, k) PROVE ThrottleSound'
  BY <1>b, <1>1 DEF Hit, Join
<1>2. ASSUME NEW r \in Requests, NEW k \in Keys, Lead(r, k) PROVE ThrottleSound'
  <2>1. PICK t \in Tasks :
          task' = [task EXCEPT ![t] = [FreeTask EXCEPT !.st = "new", !.key = k,
                                                       !.client = ClientOf[r]]]
    BY <1>2 DEF Lead
  <2>2. [FreeTask EXCEPT !.st = "new", !.key = k, !.client = ClientOf[r]].client \in Clients
    BY ClientAssumption DEF FreeTask
  <2>3. \A u \in Tasks : task'[u] = task[u] \/ task'[u].client \in Clients
    BY <1>0, <2>1, <2>2
  <2> QED BY <1>2, <1>b, <2>3 DEF Lead
<1>3. ASSUME NEW r \in Requests, Leave(r) PROVE ThrottleSound'
  BY <1>3, <1>b DEF Leave
<1>4. ASSUME NEW t \in Tasks, TooSoon(t) PROVE ThrottleSound'
  <2>1. \A u \in Tasks : task'[u].st # "free" => task'[u].client \in Clients
    BY <1>4, EndKeepsClients DEF TooSoon, ThrottleSound
  <2> QED BY <1>4, <1>0, <1>a, <2>1 DEF TooSoon, Quiet
<1>5. ASSUME NEW t \in Tasks,
             CircuitOpen(t) \/ Exhausted(t) \/ TrialTaken(t) \/ NeverSent(t)
      PROVE  ThrottleSound'
  BY <1>5, TurnGivenBack DEF CircuitOpen, Exhausted, TrialTaken, NeverSent, Quiet
<1>6. ASSUME NEW t \in Tasks, Send(t) PROVE ThrottleSound'
  BY <1>6, SendRemembers
<1>7. ASSUME NEW t \in Tasks, NEW result \in {"ok", "refused", "failed"}, Reply(t, result)
      PROVE  ThrottleSound'
  BY <1>7, ReplyRemembers DEF Results
<1>8. ASSUME NEW t \in Tasks, Settle(t) PROVE ThrottleSound'
  <2>1. FreeTask.st = "free"
    BY DEF FreeTask
  <2>2. \A u \in Tasks : task'[u] = task[u] \/ task'[u].st = "free"
    BY <1>0, <1>8, <2>1 DEF Settle
  <2> QED BY <1>8, <1>b, <2>2 DEF Settle
<1>9. CASE Tick
  <2>1. now' \in Nat /\ now =< now' /\ UNCHANGED <<throttle, plans, task>>
    BY <1>0, <1>9 DEF Tick
  <2> QED BY <1>0, <1>a, <2>1
<1>10. CASE Restart
  <2>1. throttle' = <<>> /\ plans' = NoPlans /\ \A t \in Tasks : task'[t].st = "free"
    BY <1>10 DEF Restart, NoTasks, FreeTask
  <2> QED BY <2>1 DEF ThrottleSound, ThrottleTyped, Remembered, NoPlans
<1>11. CASE UNCHANGED clientVars
  BY <1>11, <1>b DEF clientVars
<1> QED BY <1>1, <1>2, <1>3, <1>4, <1>5, <1>6, <1>7, <1>8, <1>9, <1>10, <1>11
        DEF ClientNext, Arrive, RunTask

\* While the throttle has room for every client, no client's plan goes out less
\* than an interval after its last that did not fail, from whichever tab, and
\* whatever other calls were refused, never sent or failed (service.py,
\* ClientThrottle).
THEOREM OnePlanAnInterval ==
  ASSUME Roomy
  PROVE  ClientSpec => OnePlanPerInterval
<1>1. ClientInv /\ ThrottleSound /\ [ClientNext]_clientVars => ThrottleSound'
  BY NextThrottle
<1>2. ClientInv /\ ThrottleSound /\ [ClientNext]_clientVars =>
        [\A t \in Tasks : (task[t].st = "new" /\ task'[t].st = "sent")
           => LET last == plans[task[t].client]
              IN  last = Never \/ now - last >= Interval]_clientVars
  <2> SUFFICES ASSUME ClientInv, ThrottleSound, ClientNext, NEW t \in Tasks,
                      task[t].st = "new", task'[t].st = "sent"
               PROVE  \/ plans[task[t].client] = Never
                      \/ now - plans[task[t].client] >= Interval
    OBVIOUS
  <2>1. ~Asked(task[t].client)
    BY OnlySendSends DEF Send
  <2>2. now \in Nat /\ task[t].client \in Clients
    BY DEF ClientInv, Typed, ThrottleSound, ThrottleTyped
  <2> QED BY <2>1, <2>2, PlanIsOld
<1> QED BY <1>1, <1>2, InitThrottle, ClientInvariance, PTL DEF ClientSpec, OnePlanPerInterval
=============================================================================
