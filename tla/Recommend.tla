----------------------------- MODULE Recommend -----------------------------
(***************************************************************************)
(* How a route is compared with its city and an alternative picked         *)
(* (safety/routing/scoring.py), without state.  A route is                 *)
(* [dur, dist, start, runs], a run [cell, len, at]: a stretch of the line  *)
(* in one cell, its metres, and when it is reached.  Ratios and means are  *)
(* in thousandths; lengths are multiples of PieceM.                        *)
(***************************************************************************)
EXTENDS Integers, Sequences, FiniteSets, SequencesExt

PieceM     == 20
PeakPieces == 15            \* PEAK_WINDOW_M of pieces
Unrated    == -1            \* a ratio that is None
Missing    == -1            \* a column with no row
NoAverage  == <<0, 1>>      \* an average that is None

\* The values of a function, added up.
SumOf(f) == MapThenSumSet(LAMBDA x : f[x], DOMAIN f)

\* What a sequence has at some places, in an order: the n-th is the one with
\* n - 1 of them before it.
InOrder(s, places, before) ==
  [n \in 1..Cardinality(places) |->
     s[CHOOSE i \in places : Cardinality({j \in places : <<j, i>> \in before}) = n - 1]]

AsListed(s) == {p \in (DOMAIN s) \X (DOMAIN s) : p[1] < p[2]}

-----------------------------------------------------------------------------
(* The comparison the map makes.                                           *)

\* An average is kept as the fraction it is.
Average(weighted, people, total, painted) ==
  LET average == IF people > 0 THEN <<weighted, people>> ELSE <<total, painted>>
  IN IF painted = 0 \/ average[1] =< 0 THEN NoAverage ELSE average

\* Per person over the cells with something reported; where nobody lives in
\* any of them, per cell.
DomainAverage(cells, value, rows) ==
  LET painted  == {c \in cells : rows[c].tier # 0}
      populous == {c \in painted : rows[c].people > 0}
  IN Average(SumOf([c \in populous |-> value[c] * rows[c].people]),
             SumOf([c \in populous |-> rows[c].people]),
             SumOf([c \in painted |-> value[c]]), Cardinality(painted))

Multiple(value, average) ==
  IF average = NoAverage THEN Unrated ELSE (1000 * value * average[2]) \div average[1]

\* A cell with something reported in the hour asked for is compared at that
\* hour; any other borrows its all-hours rate.
CellRatio(tier, value, own, sm, overall) ==
  IF tier \notin {0, Missing} THEN Multiple(value, own)
  ELSE IF sm # Missing THEN Multiple(sm, overall) ELSE Unrated
-----------------------------------------------------------------------------
(* One route, one track.                                                   *)

RouteCells(runs) == {runs[i].cell : i \in DOMAIN runs}
Length(runs)     == SumOf([i \in DOMAIN runs |-> runs[i].len])

LengthIn(runs, cells) ==
  SumOf([i \in {j \in DOMAIN runs : runs[j].cell \in cells} |-> runs[i].len])

\* Whether SAME_ROUTE_OVERLAP of either lies in cells the other crosses; of no
\* length, no share does.
Within(a, b) == Length(a) > 0 /\ 20 * LengthIn(a, RouteCells(b)) >= 17 * Length(a)
Same(a, b)   == Within(a, b) \/ Within(b, a)

\* The routes to keep: each that is not the same as one already kept.
KeepsFirst(routes, kept) ==
  \A i \in DOMAIN routes :
    i \in kept <=> \A j \in kept : j < i => ~Same(routes[i].runs, routes[j].runs)
DistinctRoutes(routes) ==
  InOrder(routes, CHOOSE kept \in SUBSET DOMAIN routes : KeepsFirst(routes, kept),
          AsListed(routes))

Rounded(num, den) == (2 * num + den) \div (2 * den)

\* The mean of the rated pieces from lo to hi, if half of them are rated.
PieceMean(pieces, lo, hi) ==
  LET rated == {i \in lo..hi : pieces[i] # Unrated}
  IN IF rated # {} /\ 2 * Cardinality(rated) >= hi - lo + 1
     THEN Rounded(MapThenSumSet(LAMBDA i : pieces[i], rated), Cardinality(rated))
     ELSE Unrated

\* The window slides a piece at a time and is the whole of a shorter line.
Peak(pieces) ==
  LET n == Len(pieces) IN
  IF n =< PeakPieces THEN PieceMean(pieces, 1, n)
  ELSE Max({PieceMean(pieces, hi - PeakPieces + 1, hi) : hi \in PeakPieces..n})

Pieces(runs, ratios) ==
  FlattenSeq([i \in DOMAIN runs |-> [k \in 1..(runs[i].len \div PieceM) |-> ratios[i]]])

\* The figures of a route; none of them where MIN_RATED_SHARE is not rated.
TrackActivity(runs, ratios) ==
  LET known      == {i \in DOMAIN runs : ratios[i] # Unrated}
      rated      == SumOf([i \in known |-> runs[i].len])
      comparable == rated > 0 /\ 10 * rated >= 6 * Length(runs)
      If(value) == IF comparable THEN value ELSE Unrated
  IN [comparable |-> comparable,
      mean  |-> If(Rounded(SumOf([i \in known |-> runs[i].len * ratios[i]]), rated)),
      peak  |-> If(Peak(Pieces(runs, ratios))),
      above |-> If(Rounded(1000 * SumOf([i \in {j \in known : ratios[j] >= 2000} |->
                                           runs[i].len]), rated))]

\* The first run with the highest ratio by its length, up to a window of it.
WorstRun(runs, ratios) ==
  LET Heat(i) == ratios[i] * Min({runs[i].len, PieceM * PeakPieces})
      rated   == {i \in DOMAIN runs : ratios[i] # Unrated}
  IN Min({i \in rated : \A j \in rated : Heat(j) =< Heat(i)})
-----------------------------------------------------------------------------
(* The alternative.                                                        *)

\* Seconds beyond the fastest route.
ExtraCap == [walk |-> 600, bike |-> 480, drive |-> 480, transit |-> 900]
ExtraAllowance(mode, fastest) == Min({Max({fastest \div 5, 180}), ExtraCap[mode]})

ClearlyLower(fastest, mean) == 10 * mean =< 9 * fastest /\ fastest - mean >= 100

\* Bug: the quickest alternative within the time is the one tried.
Quickest(activity, within) == Min(within)
Lowest(activity, within) ==
  Min({i \in within : \A j \in within : activity[i].mean =< activity[j].mean})

Nobody == 0
Picked(lower, why) == [lower |-> lower, why |-> why]

\* Routes are fastest first.
Pick(mode, routes, activity) ==
  LET base   == activity[1]
      others == {i \in 2..Len(routes) : activity[i].comparable}
      within == {i \in others : routes[i].dur - routes[1].dur
                                  =< ExtraAllowance(mode, routes[1].dur)}
      best   == Lowest(activity, within)
  IN IF Len(routes) < 2 THEN Picked(Nobody, "single_route")
     ELSE IF ~base.comparable THEN Picked(Nobody, "not_rated")
     ELSE IF within = {} THEN Picked(Nobody, "too_slow")
     ELSE IF ClearlyLower(base.mean, activity[best].mean) THEN Picked(best, "none")
     ELSE IF \E i \in others : ClearlyLower(base.mean, activity[i].mean)
          THEN Picked(Nobody, "too_slow") ELSE Picked(Nobody, "not_lower")
=============================================================================
