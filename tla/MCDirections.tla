---------------------------- MODULE MCDirections ----------------------------
(* A small town: two streets, a quiet one and a river nobody draws.        *)
EXTENDS Directions

Run(c, len, at) == [cell |-> c, len |-> len, at |-> at]
Line(dur, dist, start, runs) == [dur |-> dur, dist |-> dist, start |-> start, runs |-> runs]

\* The main street; a variant of it; the quiet street; along the river.
MCStreet == {
  Line(600, 400, Now, <<Run("main", 200, 0), Run("mill", 200, 1)>>),
  Line(660, 420, Now, <<Run("main", 180, 0), Run("mill", 220, 1), Run("park", 20, 1)>>),
  Line(760, 500, Now, <<Run("main", 100, 0), Run("park", 400, 1)>>),
  Line(640, 560, Now, <<Run("mill", 100, 1), Run("river", 460, 1)>>)}

\* Two itineraries that leave later than asked, one past midnight.
MCPlans == {
  Line(900, 4000, 1, <<Run("main", 60, 0), Run("park", 200, 1)>>),
  Line(1500, 5000, 3, <<Run("park", 60, 0), Run("mill", 60, 1)>>)}

MCAsks ==
  [place : {"ok", "same"}, mode : {"walk", "drive", "transit"},
   window : {"last_12m", "last_3m"}, slot : {0, 1}]
  \cup {[place |-> p, mode |-> "walk", window |-> "last_1y", slot |-> 0] :
         p \in {"outside", "different_cities", "too_far", "bad_time"}}

MCUniverse == {"main", "mill", "park"}
MCNear(c) == {"main", "mill", "park", "river"}

W(id, safety, hourly, daily) == [id |-> id, safety |-> safety, hourly |-> hourly, daily |-> daily]
\* The second generation drops the short window, and builds no hours.
MCWindows(g) ==
  IF g = 1 THEN <<W("last_3m", TRUE, FALSE, FALSE), W("last_1y", TRUE, TRUE, TRUE)>>
  ELSE <<W("last_1y", TRUE, FALSE, FALSE)>>

Cell(sm, tier, people, hour, day) ==
  [sm |-> sm, tier |-> tier, people |-> people, hour |-> hour, day |-> day]
Hour(a, b) == [h \in {0, 1} |-> IF h = 0 THEN a ELSE b]
Day(a, b, c) == [d \in 0..2 |-> IF d = 0 THEN a ELSE IF d = 1 THEN b ELSE c]

\* Nothing violent was ever reported in the park.
MCGold(g, t) ==
  IF t = "violent"
  THEN [main |-> Cell(9 * g, 1, 2, Hour(12, 3), Day(8, 12, 10)),
        mill |-> Cell(5, 1, 1, Hour(2, 9), Day(10, 10, 10)),
        park |-> Cell(2, 0, 0, Hour(1, 2), Day(10, 5, 15))]
  ELSE [main |-> Cell(4, 1, 2, Hour(5, 3), Day(11, 9, 10)),
        mill |-> Cell(6, 1, 1, Hour(5, 7), Day(10, 10, 10)),
        park |-> Cell(5, 1, 0, Hour(1, 9), Day(10, 10, 10))]
=============================================================================
