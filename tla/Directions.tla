----------------------------- MODULE Directions -----------------------------
(***************************************************************************)
(* POST /directions (safety/api/directions.py): two points in one city     *)
(* become routes, each annotated with the reported activity along it.  The *)
(* request suspends at every query and provider call, and refreshes commit *)
(* in between; the cells it crosses are fetched in instalments, of which   *)
(* _Scorer remembers what it holds.                                        *)
(*                                                                         *)
(* An action is what runs between two awaits: one SQL statement or one     *)
(* answer, and the code up to the next.                                    *)
(***************************************************************************)
EXTENDS Recommend, TLC

CONSTANTS
  Asks,          \* what a visitor asks: [place, mode, window, slot]
  Street,        \* the routes Valhalla may answer with
  Plans,         \* the itineraries Transitous may answer with
  HourBlocks, WeekDays,   \* hours a day and days a week
  Universe,      \* the cells the map draws
  Near(_),       \* grid_disk of a cell
  Windows(_),    \* generation -> gold.city_window, in display order
  Gold(_, _),    \* generation, track -> the rows of the safety tables
  MaxGen         \* bound of the model: generations of the data

Now    == -1           \* the start of a route that leaves when asked
Runs   == Seq([cell : STRING, len : Nat, at : Nat])
Routes == [dur : Nat, dist : Nat, start : Nat \cup {Now}, runs : Runs]
Failed == [dur |-> 0, dist |-> 0, start |-> Now, runs |-> <<>>]
NoWindow == [id |-> "none", safety |-> FALSE, hourly |-> FALSE, daily |-> FALSE]

Tracks == {"violent", "non_violent"}
Rows   == [Universe -> [sm : Nat, tier : Nat, people : Nat,
                        hour : [0..HourBlocks-1 -> Nat], day : [0..WeekDays-1 -> Nat]]]

Modes  == {"walk", "bike", "drive", "transit"}
Places == {"ok", "same", "outside", "different_cities", "too_far", "bad_time"}

ASSUME DirectionsAssumption ==
  /\ Asks \subseteq [place : Places, mode : Modes, window : STRING, slot : Nat]
  /\ Street \cup Plans \cup {Failed} \subseteq Routes
  /\ NoWindow \in [id : STRING, safety : BOOLEAN, hourly : BOOLEAN, daily : BOOLEAN]
  /\ {HourBlocks, WeekDays, MaxGen} \subseteq Nat \ {0}
  /\ IsFiniteSet(Street) /\ IsFiniteSet(Plans) /\ IsFiniteSet(Universe)
  /\ \A g \in 1..MaxGen :
       /\ \A i \in DOMAIN Windows(g) : Windows(g)[i].id # NoWindow.id
       /\ \A t \in Tracks : Gold(g, t) \in Rows

VARIABLES gen, req
vars == <<gen, req>>

\* A moment is a slot: an hour, on a day.  Time is what _Scorer.times makes of
\* one.
HourOf(slot) == slot % HourBlocks
DayOf(slot)  == (slot \div HourBlocks) % WeekDays
Time(slot)   == <<HourOf(slot), DayOf(slot)>>
-----------------------------------------------------------------------------
(* The windows, and the rows of one.                                       *)

DefaultWindow == "last_1y"

\* Names of the previous release, and the retired 30 days.
Legacy  == [last_90d |-> "last_3m", last_12m |-> "last_1y", last_24m |-> "last_2y"]
Aliases == Legacy @@ [last_30d |-> "last_3m"]

Named(name, windows) == {w \in ToSet(windows) : w.id = name}
Forward(name)  == {Aliases[a] : a \in {a \in DOMAIN Aliases : a = name}}
Backward(name) == {a \in DOMAIN Legacy : Legacy[a] = name}

\* The served window of a name, current or legacy, or none.
MatchWindow(name, windows) ==
  LET First(sets) == CHOOSE i \in 1..4 : sets[i] # {} /\ \A j \in 1..i-1 : sets[j] = {}
      found == <<Named(name, windows),
                 UNION {Named(a, windows) : a \in Forward(name)},
                 UNION {Named(a, windows) : a \in Backward(name)}, {NoWindow}>>
  IN CHOOSE w \in found[First(found)] : TRUE

\* An unserved window falls back to the default, and that to the longest.
WindowFor(name, windows) ==
  LET asked == MatchWindow(name, windows)
      usual == MatchWindow(DefaultWindow, windows)
  IN IF asked # NoWindow THEN asked
     ELSE IF usual # NoWindow THEN usual
     ELSE IF windows # <<>> THEN Last(windows) ELSE NoWindow

\* Whether a generation holds a window's rows of a kind: every cell of the
\* universe has one.
Holds(g, id, kind) == \E w \in Named(id, Windows(g)) :
  CASE kind = "all" -> w.safety [] kind = "hour" -> w.hourly [] kind = "day" -> w.daily
-----------------------------------------------------------------------------
(* The city averages, from the generation the baseline was read at.        *)

CellsWith(g, id, kind) == IF g > 0 /\ Holds(g, id, kind) THEN Universe ELSE {}

Overall(q, track) ==
  LET rows  == Gold(q.base, track)
      cells == CellsWith(q.base, q.window.id, "all")
  IN DomainAverage(cells, [c \in cells |-> rows[c].sm], rows)

Hourly(q, track, h) ==
  LET rows  == Gold(q.base, track)
      cells == CellsWith(q.base, q.window.id, "hour")
  IN DomainAverage(cells, [c \in cells |-> rows[c].hour[h]], rows)

\* The departure's day and the next.
BaselineDays(q) == {DayOf(q.ask.slot), DayOf(q.ask.slot + HourBlocks)}

Timed(q, track, h, d) ==
  LET rows  == Gold(q.base, track)
      cells == IF d \in BaselineDays(q) THEN CellsWith(q.base, q.window.id, "day") ELSE {}
  IN DomainAverage(cells, [c \in cells |-> rows[c].hour[h] * rows[c].day[d]], rows)

\* Whether the day factor is built here at all.
Daily(q) == q.window.hourly /\ \E t \in Tracks, h \in 0..HourBlocks-1, d \in BaselineDays(q) :
                                Timed(q, t, h, d) # NoAverage
-----------------------------------------------------------------------------
(* The ratios of a route's runs.                                           *)

\* When a route leaves: an itinerary at its own time.
StartOf(q, route) == IF route.start = Now THEN q.ask.slot ELSE route.start
SlotOf(q, route, i) == StartOf(q, route) + route.runs[i].at

Times(q, route) ==
  IF q.window.hourly THEN {Time(SlotOf(q, route, i)) : i \in DOMAIN route.runs} ELSE {}

\* The generation a row is held of, or 0.
HeldIn(have, c, kind, n) == IF <<c, kind, n>> \in DOMAIN have THEN have[<<c, kind, n>>] ELSE 0

\* One cell at one time, by the rows held.  The day counts only where the
\* cell's factor and the city's average for that hour and day both exist.
RatioAt(q, have, track, c, slot) ==
  LET h == HourOf(slot)
      d == DayOf(slot)
      Held(kind, n) == HeldIn(have, c, kind, n)
      Row(kind, n)  == Gold(Held(kind, n), track)[c]
      sm    == IF Held("all", 0) > 0 THEN Row("all", 0).sm ELSE Missing
      tier  == IF Held("all", 0) > 0 THEN Row("all", 0).tier ELSE Missing
      hsm   == IF Held("hour", h) > 0 THEN Row("hour", h).hour[h] ELSE Missing
      htier == IF Held("hour", h) > 0 THEN Row("hour", h).tier ELSE Missing
      onDay == hsm # Missing /\ Held("day", d) > 0 /\ Timed(q, track, h, d) # NoAverage
      overall == Overall(q, track)
  IN CASE ~q.window.hourly -> CellRatio(tier, sm, overall, sm, overall)
       [] q.window.hourly /\ onDay ->
            CellRatio(htier, hsm * Row("day", d).day[d], Timed(q, track, h, d), sm, overall)
       [] OTHER -> CellRatio(htier, hsm, Hourly(q, track, h), sm, overall)

Ratio(q, track, c, slot) == RatioAt(q, q.have, track, c, slot)

Ratios(q, track, route) ==
  [i \in DOMAIN route.runs |-> Ratio(q, track, route.runs[i].cell, SlotOf(q, route, i))]
-----------------------------------------------------------------------------
(* Fetching what is not held yet.                                          *)

NoRows == [k \in {} |-> 0]

\* Bug: a cell fetched for one time is taken for fetched for all.
MissingCellsOnly(q, cells, times) == cells \ q.known
MissingFrom(q, cells, times) ==
  {c \in cells : c \notin q.known \/ \E t \in times : <<c, t>> \notin q.knownTimes}

\* load(): nothing to fetch, or the queries, and then on to `then`.
Fetch(q, cells, times, then) ==
  IF q.window = NoWindow \/ MissingFrom(q, cells, times) = {}
  THEN [q EXCEPT !.at = then]
  ELSE [q EXCEPT !.at = "all", !.then = then, !.cells = MissingFrom(q, cells, times),
                 !.times = times]

\* The rows of one statement, merged into what is held.
Merged(q, kind, blocks) ==
  LET found == IF Holds(gen, q.window.id, kind) THEN q.cells \cap Universe ELSE {}
      read  == {<<c, kind, n>> : c \in found, n \in blocks}
  IN [k \in read \cup DOMAIN q.have |-> IF k \in read THEN gen ELSE q.have[k]]

Fetched(q) == [q EXCEPT !.at = q.then, !.then = "", !.cells = {}, !.times = {},
                        !.known = @ \cup q.cells,
                        !.knownTimes = @ \cup (q.cells \X q.times)]

HoursOf(times) == {t[1] : t \in times}
DaysOf(times)  == {t[2] : t \in times}
-----------------------------------------------------------------------------
(* The request.                                                            *)

NoAnswer == [routes |-> <<>>, activity |-> <<>>, picks |-> <<>>]
Ended(q, how) == [q EXCEPT !.at = how]

Idle == [at |-> "idle", ask |-> [place |-> "ok", mode |-> "walk", window |-> "", slot |-> 0],
         asked |-> 0, window |-> NoWindow, base |-> 0, first |-> <<>>, routes |-> <<>>,
         have |-> NoRows, known |-> {}, knownTimes |-> {}, then |-> "", cells |-> {},
         times |-> {}, answer |-> NoAnswer]

Init == gen = 1 /\ req = Idle

Refresh == gen < MaxGen /\ gen' = gen + 1 /\ UNCHANGED req

\* Points outside the map, in two cities or too far apart, and a departure out
\* of bounds, are refused before anything is asked of anyone.
Ask ==
  /\ req.at = "idle"
  /\ \E a \in Asks :
       req' = [req EXCEPT !.ask = a, !.asked = gen,
                          !.at = IF a.place \in {"ok", "same"} THEN "windows" ELSE "refused"]
  /\ UNCHANGED gen

\* A query that waits too long, or is cancelled.
Busy == /\ req.at \in {"windows", "baseline", "all", "hour", "day"}
        /\ req' = Ended(req, "busy") /\ UNCHANGED gen

ReadWindows ==
  LET w == WindowFor(req.ask.window, Windows(gen)) IN
  /\ req.at = "windows"
  /\ req' = [req EXCEPT !.window = IF w.safety THEN w ELSE [w EXCEPT !.hourly = FALSE],
                        !.at = IF w.safety THEN "baseline" ELSE "routing"]
  /\ UNCHANGED gen

\* By way of the stamped cache, so of the generation served now.
ReadBaseline == /\ req.at = "baseline"
                /\ req' = [req EXCEPT !.base = gen, !.at = "routing"]
                /\ UNCHANGED gen

\* A stable sort: of two that take as long, the one that stood first.
Quicker(routes) ==
  {p \in (DOMAIN routes) \X (DOMAIN routes) :
     \/ routes[p[1]].dur < routes[p[2]].dur
     \/ routes[p[1]].dur = routes[p[2]].dur /\ p[1] < p[2]}
FastestFirst(routes) == InOrder(routes, DOMAIN routes, Quicker(routes))

\* The routes are settled: what is not held of their cells is fetched.
Settled(q, routes) ==
  Fetch([q EXCEPT !.routes = routes],
        UNION {RouteCells(routes[i].runs) : i \in DOMAIN routes},
        UNION {Times(q, routes[i]) : i \in DOMAIN routes}, "scoring")

\* Valhalla answers in any order.  A drive takes its routes as they come; a
\* walk whose alternates are one route looks for detours, past the worst
\* stretch of it.
Routed ==
  /\ req.at = "routing" /\ req.ask.mode # "transit"
  /\ \E found \in (SUBSET Street) \ {{}} : \E trips \in SetToSeqs(found) :
       LET routes == FastestFirst(trips)
           kept   == DistinctRoutes(routes)
           q      == [req EXCEPT !.first = routes]
       IN req' = IF req.ask.mode = "drive" THEN Settled(q, routes)
                 ELSE IF Len(kept) >= 2 THEN Settled(q, kept)
                 ELSE Fetch([q EXCEPT !.routes = routes], RouteCells(routes[1].runs),
                            Times(q, routes[1]), "worst")
  /\ UNCHANGED gen

Planned ==
  /\ req.at = "routing" /\ req.ask.mode = "transit"
  /\ \E found \in (SUBSET Plans) \ {{}} : \E trips \in SetToSeqs(found) :
       LET routes == FastestFirst(trips)
       IN req' = Settled([req EXCEPT !.first = routes], routes)
  /\ UNCHANGED gen

\* No route, or a provider that does not answer.
NotRouted == /\ req.at = "routing"
             /\ req' = Ended(req, "no_route") /\ UNCHANGED gen

\* The statements of route_cells; the next is made only for hours, or days.
ReadCells ==
  LET q == [req EXCEPT !.have = Merged(req, "all", {0})] IN
  /\ req.at = "all"
  /\ req' = IF req.times = {} THEN Fetched(q) ELSE [q EXCEPT !.at = "hour"]
  /\ UNCHANGED gen

ReadHours ==
  LET q == [req EXCEPT !.have = Merged(req, "hour", HoursOf(req.times))] IN
  /\ req.at = "hour"
  /\ req' = IF Daily(req) THEN [q EXCEPT !.at = "day"] ELSE Fetched(q)
  /\ UNCHANGED gen

ReadDays == /\ req.at = "day"
            /\ req' = Fetched([req EXCEPT !.have = Merged(req, "day", DaysOf(req.times))])
            /\ UNCHANGED gen

\* The fastest route's worst stretch, and the cells around it.
Fastest(q)  == q.routes[1]
AnyRated(q) == \E i \in DOMAIN Fastest(q).runs : Ratios(q, "violent", Fastest(q))[i] # Unrated
Worst(q)    == WorstRun(Fastest(q).runs, Ratios(q, "violent", Fastest(q)))

LookAround ==
  /\ req.at = "worst"
  /\ req' = IF ~AnyRated(req) THEN [req EXCEPT !.at = "detours"]
            ELSE LET worst == Worst(req)
                     when  == SlotOf(req, Fastest(req), worst)
                 IN Fetch(req, Near(Fastest(req).runs[worst].cell),
                          IF req.window.hourly THEN {Time(when)} ELSE {}, "detours")
  /\ UNCHANGED gen

\* Whether a rated cell near the worst stretch is quieter than it.
QuieterNear(q) ==
  /\ AnyRated(q)
  /\ LET worst == Worst(q)
         cell  == Fastest(q).runs[worst].cell
         when  == SlotOf(q, Fastest(q), worst)
     IN \E c \in Near(cell) : /\ Ratio(q, "violent", c, when) # Unrated
                              /\ Ratio(q, "violent", c, when) < Ratio(q, "violent", cell, when)

\* A point to either side of the trip, and the quieter cell.
Vias(q) == (IF q.ask.place = "same" THEN 0 ELSE 2) + (IF QuieterNear(q) THEN 1 ELSE 0)

WithinDetour(fastest, route) == 10 * route.dist =< 13 * fastest.dist

\* Bug: detours are offered after the routes Valhalla found.
DetoursLast(routes, detours) == DistinctRoutes(routes \o detours)
WithDetours(routes, detours) == DistinctRoutes(FastestFirst(routes \o detours))

\* The detours' calls are gathered; one that fails is left out.
Detoured ==
  /\ req.at = "detours"
  /\ \E results \in [1..Vias(req) -> Street \cup {Failed}] :
       LET found == {i \in DOMAIN results :
                       results[i] # Failed /\ WithinDetour(Fastest(req), results[i])}
       IN req' = Settled(req, WithDetours(req.routes, InOrder(results, found, AsListed(results))))
  /\ UNCHANGED gen

\* The answer.
Answer ==
  LET Activity(t) == [i \in DOMAIN req.routes |->
                        TrackActivity(req.routes[i].runs, Ratios(req, t, req.routes[i]))]
  IN /\ req.at = "scoring"
     /\ req' = [req EXCEPT !.at = "answered", !.answer =
                  [routes   |-> req.routes,
                   activity |-> [t \in Tracks |-> Activity(t)],
                   picks    |-> [t \in Tracks |-> Pick(req.ask.mode, req.routes, Activity(t))]]]
     /\ UNCHANGED gen

Next == \/ Refresh \/ Ask \/ Busy \/ ReadWindows \/ ReadBaseline
        \/ Routed \/ Planned \/ NotRouted \/ ReadCells \/ ReadHours \/ ReadDays
        \/ LookAround \/ Detoured \/ Answer

Spec == Init /\ [][Next]_vars
-----------------------------------------------------------------------------
(* Properties.                                                             *)

Answered == req.at = "answered"

\* Every figure is the map's own comparison: where nothing was committed while
\* the request ran, the ratios of a route fetched in up to three instalments,
\* by cell and by time, are those of the whole layer.
WholeLayer(q) ==
  LET Served(kind) == IF Holds(gen, q.window.id, kind) THEN Universe ELSE {}
  IN [k \in (Served("all") \X {"all"} \X {0})
             \cup (Served("hour") \X {"hour"} \X (0..HourBlocks-1))
             \cup (Served("day") \X {"day"} \X (0..WeekDays-1)) |-> gen]
MapRatios(q, track, route) ==
  [i \in DOMAIN route.runs |->
     RatioAt(q, WholeLayer(q), track, route.runs[i].cell, SlotOf(q, route, i))]
MapsOwnComparison ==
  Answered /\ req.asked = gen =>
    \A t \in Tracks : \A i \in DOMAIN req.answer.routes :
      req.answer.activity[t][i] =
        TrackActivity(req.answer.routes[i].runs, MapRatios(req, t, req.answer.routes[i]))

\* Offers are fastest first, no two of a walk's or a ride's are one route, no detour
\* is longer than 1.3 times the fastest route found, and that route itself, or
\* a faster one, is offered first.
OffersInOrder ==
  Answered =>
    LET offers == req.answer.routes
        given  == ToSet(req.first)
    IN /\ \A i, j \in DOMAIN offers : i < j => offers[i].dur =< offers[j].dur
       /\ req.ask.mode \in {"walk", "bike"} =>
            \A i, j \in DOMAIN offers : i # j => ~Same(offers[i].runs, offers[j].runs)
       /\ \A i \in DOMAIN offers :
            offers[i] \in given \/ 10 * offers[i].dist =< 13 * req.first[1].dist
       /\ offers # <<>> /\ \A r \in given : offers[1].dur =< r.dur

\* The alternative offered is rated, within the time allowed and lower on both
\* counts, and lower than every other that is; none is offered only where none
\* is; and "not lower" is said only where no route of any length is.
Clears(activity, i) == activity[i].comparable /\ ClearlyLower(activity[1].mean, activity[i].mean)
Qualifies(routes, activity, mode, i) ==
  /\ i > 1 /\ activity[1].comparable /\ Clears(activity, i)
  /\ routes[i].dur =< routes[1].dur + ExtraAllowance(mode, routes[1].dur)
PickQualifies ==
  Answered => \A t \in Tracks :
    LET routes   == req.answer.routes
        activity == req.answer.activity[t]
        pick     == req.answer.picks[t]
        able     == {i \in DOMAIN routes : Qualifies(routes, activity, req.ask.mode, i)}
    IN /\ pick.lower # Nobody => /\ pick.lower \in able
                                 /\ \A i \in able : activity[pick.lower].mean =< activity[i].mean
       /\ pick.lower = Nobody => able = {}
       /\ pick.why = "not_lower" => \A i \in 2..Len(routes) : ~Clears(activity, i)
=============================================================================
