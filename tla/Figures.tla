------------------------------ MODULE Figures ------------------------------
(***************************************************************************)
(* One city's rankings.  The ETL ranks the stored windows from silver      *)
(* (safety/etl/gold.py), and keeps each day's weights (gold.cell_daily)    *)
(* from which the API ranks any other range of dates on request            *)
(* (safety/api/repository.py).  Between the two stand what a refresh is    *)
(* allowed to leave as it was: days before the first changed one, long     *)
(* windows, the hour layer, schemes that are off.                          *)
(*                                                                         *)
(* An action is a transaction: a write to silver, a deploy's reload of     *)
(* reference/severity, an operator's command, or a refresh.                *)
(***************************************************************************)
EXTENDS Ranking, Pending

CONSTANTS
  Reports,      \* incidents: [cell, day, track, kind, hour]
  Days,         \* days, the oldest first loaded
  ShortSpan, LongSpan,     \* days of last_1y and of last_2y
  MaxAge,       \* LONG_WINDOW_MAX_AGE
  Hours, NoHour,           \* hour blocks, and no published clock time
  WeekDays,     \* days of a week
  Schemes, PerCapita,      \* severity schemes, and those per person
  WeightOf(_, _, _),       \* scheme, tuning, kind -> weight
  Area(_), People(_),      \* of a cell
  Prior(_),     \* eb_prior of a scheme, in its own unit
  HourPrior, DayPrior,     \* HOUR_SHAPE_PRIOR, DAY_SHAPE_PRIOR
  Absent,       \* no rows
  MaxChanges, MaxTunings, MaxBuilds   \* bounds of the model

\* The rest are CHECKs of the tables: weights are positive, priors too where
\* an exposure may be nothing, and every cell has an area.
ASSUME FiguresAssumption ==
  /\ Days # {} /\ IsFiniteSet(Days) /\ Days \subseteq Nat /\ Days = 0..Max(Days)
  /\ IsFiniteSet(Reports)
  /\ Reports \subseteq [cell : Cells, day : Days, track : {"violent", "non_violent"},
                        kind : STRING, hour : Hours \cup {NoHour}]
  /\ {WeekDays, ShortSpan, LongSpan, MaxAge} \subseteq Nat \ {0}
  /\ WeekDays =< ShortSpan /\ ShortSpan < LongSpan
  /\ PerCapita \subseteq Schemes /\ Absent \notin Schemes
  /\ IsFiniteSet(Hours) /\ NoHour \notin Hours
  /\ {MaxChanges, MaxTunings, MaxBuilds} \subseteq Nat /\ {HourPrior, DayPrior} \subseteq Nat \ {0}
  /\ \A s \in Schemes, g \in 0..MaxTunings, r \in Reports : WeightOf(s, g, r.kind) \in Nat \ {0}
  /\ \A c \in Cells : Area(c) \in Nat \ {0} /\ People(c) \in Nat
  /\ \A s \in Schemes : Prior(s) \in Nat /\ (s \in PerCapita => Prior(s) # 0)

VARIABLES
  silver,       \* the reports silver.incident holds
  pending,      \* etl.gold_pending
  tuning,       \* generation of the weight tables, edited in place
  enabled,      \* severity_scheme.enabled
  served,       \* source_registry.severity_scheme_version
  census,       \* gold.cell_exposure is built
  windows,      \* gold.city_window: the dates of each window
  safety,       \* gold.cell_safety, by scheme and window
  hourly,       \* gold.cell_hour_safety, by scheme
  weekly,       \* gold.cell_dow_factor, by scheme
  daily,        \* gold.cell_daily, by day
  dailyScheme,  \* city_snapshot.daily_scheme_version
  together,     \* auxiliary: the served windows ranked by the commit that last wrote daily
  tuned,        \* auxiliary: weights edited since daily was last rebuilt whole
  changes,      \* writes to silver, deploys and activations, up to MaxChanges
  builds        \* refreshes and rankings, up to MaxBuilds

reference == <<tuning, enabled, served, census>>
layers    == <<windows, safety, hourly, weekly, daily, dailyScheme>>
vars      == <<silver, pending, reference, layers, together, tuned, changes, builds>>

Tracks  == {"violent", "non_violent"}
Names   == {"last_1y", "last_2y"}
Long    == {"last_2y"}
Nothing == [n \in Names |-> Absent]
-----------------------------------------------------------------------------
(* Evidence.                                                               *)

\* How many of some incidents are one cell's of one track, and their weights.
Evidence(incidents, scheme, c, track) ==
  LET there == {r \in incidents : r.cell = c /\ r.track = track}
  IN [n |-> Cardinality(there), w |-> SumOf([r \in there |-> WeightOf(scheme, tuning, r.kind)])]

Exposure(scheme, c) ==
  IF scheme \notin PerCapita THEN Area(c) ELSE IF census THEN People(c) ELSE 0

\* Every cell of the universe, with what was found in it.
Universe(scheme, found) ==
  LET Of(c, e) == [n |-> e.n, w |-> e.w, ex |-> Exposure(scheme, c)]
  IN [c \in Cells |-> Of(c, found[c])]

Between(lo, hi) == {r \in silver : lo =< r.day /\ r.day =< hi}

Anchor == Max({r.day : r \in silver})

\* The list stops at the first window that reaches back to the first day.
Resolved ==
  [n \in Names |-> IF n \in Long /\ Anchor < ShortSpan THEN Absent
                   ELSE [start |-> Anchor - (IF n \in Long THEN LongSpan ELSE ShortSpan) + 1,
                         end   |-> Anchor]]

\* A per-capita ranking is not built without a population.
Buildable(scheme) == scheme \in PerCapita => census

RankingOf(scheme, w) ==
  [start |-> w.start, end |-> w.end,
   rows  |-> [t \in Tracks |->
     LET found == [c \in Cells |-> Evidence(Between(w.start, w.end), scheme, c, t)]
     IN Ranked(Universe(scheme, found), Prior(scheme))]]
-----------------------------------------------------------------------------
(* The layers, as a refresh leaves them.                                   *)

\* Deleted but for what is kept, and built again; a scheme that is off or
\* cannot be built keeps the rows it has.
Reranked(schemes, list, rebuild, keep) ==
  [s \in Schemes |->
     IF s \notin schemes \/ ~Buildable(s) THEN safety[s]
     ELSE [n \in Names |-> IF n \in rebuild THEN RankingOf(s, list[n])
                           ELSE IF n \in keep THEN safety[s][n] ELSE Absent]]

\* The stored ranking's rate, times the factor of each hour.
HourRows(scheme, w, base, t) ==
  LET At(h)   == {r \in Between(w.start, w.end) : r.hour = h}
      shape   == [p \in Cells \X Hours |-> Evidence(At(p[2]), scheme, p[1], t)]
      factors == Factors(shape, Hours, HourPrior)
      Rated(c, f) == [num |-> f.num, den |-> f.den, base |-> base[c].rate]
  IN [p \in Cells \X Hours |-> Rated(p[1], factors[p])]

\* Weights per occurrence of the weekday in the window, over a common multiple.
Weekdays    == 0..WeekDays-1
Times(w)    == [d \in Weekdays |-> Cardinality({x \in w.start..w.end : x % WeekDays = d})]
WeekRows(scheme, w, t) ==
  LET times    == Times(w)
      each     == ProductOf(times)
      On(d)    == {r \in Between(w.start, w.end) : r.day % WeekDays = d}
      Row(d, ev) == [n |-> ev.n, w |-> ev.w * (each \div times[d])]
      shape    == [p \in Cells \X Weekdays |-> Row(p[2], Evidence(On(p[2]), scheme, p[1], t))]
  IN Factors(shape, Weekdays, DayPrior)

Reweek(schemes, list) ==
  [s \in Schemes |-> IF s \notin schemes THEN weekly[s]
                     ELSE [t \in Tracks |-> WeekRows(s, list["last_1y"], t)]]

\* Left alone where no incident has a clock time; empty where there is no
\* ranking to scale.
Rehour(schemes, list, ranked) ==
  [s \in Schemes |->
     IF s \notin schemes \/ ~Buildable(s) \/ \A r \in silver : r.hour = NoHour THEN hourly[s]
     ELSE IF ranked[s]["last_1y"] = Absent THEN Absent
     ELSE [t \in Tracks |-> HourRows(s, list["last_1y"], ranked[s]["last_1y"].rows[t], t)]]

DailyRow(scheme, day) ==
  LET Of(v, o) == [all |-> v.n + o.n, violent |-> v.n, wViolent |-> v.w, wNonViolent |-> o.w]
      on == Between(day, day)
  IN [c \in Cells |-> Of(Evidence(on, scheme, c, "violent"),
                         Evidence(on, scheme, c, "non_violent"))]

\* Bug: the stored days keep the weights of the scheme before.
SinceAsMarked(from) == from
\* Days are left as stored only under the scheme they were weighted under.
Since(from) == IF from = Everything \/ dailyScheme # served THEN Everything ELSE from

Redaily(from) ==
  [d \in Days |-> IF Since(from) = Everything \/ from =< d THEN DailyRow(served, d) ELSE daily[d]]
-----------------------------------------------------------------------------
(* The steps.                                                              *)

Init ==
  /\ silver = {} /\ pending = NotPending /\ tuning = 0
  /\ enabled \in SUBSET Schemes /\ served \in enabled /\ census = FALSE
  /\ windows = Nothing /\ safety = [s \in Schemes |-> Nothing]
  /\ hourly = [s \in Schemes |-> Absent] /\ weekly = [s \in Schemes |-> Absent]
  /\ daily = [d \in Days |-> DailyRow(served, d)] /\ dailyScheme = Absent
  /\ together = {} /\ tuned = FALSE /\ changes = 0 /\ builds = 0

Counted == changes < MaxChanges /\ changes' = changes + 1 /\ UNCHANGED builds
Built   == builds < MaxBuilds /\ builds' = builds + 1 /\ UNCHANGED changes

\* A pull publishes or withdraws a report, and marks its day.
Change(r) ==
  /\ Counted
  /\ silver' = IF r \in silver THEN silver \ {r} ELSE silver \cup {r}
  /\ pending' = Mark(pending, r.day)
  /\ UNCHANGED <<reference, layers, together, tuned>>

\* A deploy reloads weights edited under the versions in use.
Retune ==
  /\ Counted /\ tuning < MaxTunings
  /\ tuning' = tuning + 1 /\ tuned' = TRUE
  /\ UNCHANGED <<silver, pending, enabled, served, census, layers, together>>

\* A deploy reloads which schemes are on, and prunes the rankings of one that
\* is off unless the city is served it.
LoadSchemes ==
  /\ Counted
  /\ enabled' \in SUBSET Schemes \ {{}}
  /\ LET gone == Schemes \ (enabled' \cup {served}) IN
     /\ safety' = [s \in Schemes |-> IF s \in gone THEN Nothing ELSE safety[s]]
     /\ hourly' = [s \in Schemes |-> IF s \in gone THEN Absent ELSE hourly[s]]
  /\ UNCHANGED <<silver, pending, tuning, served, census, windows, weekly, daily,
                 dailyScheme, together, tuned>>

\* migrate --activate.
Activate ==
  /\ Counted
  /\ served' \in enabled \ {served} /\ together' = {}
  /\ UNCHANGED <<silver, pending, tuning, enabled, census, layers, tuned>>

\* cmd_census, and its undated mark.
LoadCensus ==
  /\ census' = TRUE /\ pending' = Mark(pending, Everything)
  /\ UNCHANGED <<silver, tuning, enabled, served, layers, together, tuned, changes, builds>>

\* refresh_all, of the days since a mark and, unless they are due, but for the
\* long windows.
LongDue(list) ==
  \/ \E n \in Long : (list[n] = Absent) # (windows[n] = Absent)
  \/ \E n \in Long : list[n] # Absent /\ Anchor - windows[n].end >= MaxAge

RefreshAll(from, withHours) ==
  LET list    == Resolved
      offered == {n \in Names : list[n] # Absent}
      keep    == IF from = Everything \/ LongDue(list) THEN {} ELSE offered \cap Long
      rebuild == offered \ keep
      ranked  == Reranked(enabled, list, rebuild, keep)
  IN /\ silver # {} /\ Built
     /\ safety' = ranked
     /\ weekly' = IF withHours THEN Reweek(enabled, list) ELSE weekly
     /\ hourly' = IF withHours THEN Rehour(enabled, list, ranked) ELSE hourly
     /\ windows' = [n \in Names |-> IF n \in keep THEN windows[n] ELSE list[n]]
     /\ daily' = Redaily(from) /\ dailyScheme' = served
     /\ pending' = NotPending
     /\ together' = IF served \in enabled THEN rebuild ELSE {}
     /\ tuned' = (tuned /\ Since(from) # Everything)
     /\ UNCHANGED <<silver, reference>>

\* The timer's, where a mark calls for it; gold's is always whole.
Incremental == pending # NotPending /\ \E withHours \in BOOLEAN : RefreshAll(pending, withHours)
Gold        == \E withHours \in BOOLEAN : RefreshAll(Everything, withHours)

\* One scheme, or every enabled one.
Asked == {enabled} \cup {{s} : s \in Schemes}

\* cmd_safety: every window as it now stands, and every day; the recorded
\* dates, the hours and the mark stay.
Safety ==
  /\ silver # {} /\ Built
  /\ \E which \in Asked :
       LET offered == {n \in Names : Resolved[n] # Absent} IN
       /\ safety' = Reranked(which, Resolved, offered, {})
       /\ together' = IF served \in which THEN offered ELSE {}
  /\ daily' = Redaily(Everything) /\ dailyScheme' = served /\ tuned' = FALSE
  /\ UNCHANGED <<silver, pending, reference, windows, hourly, weekly>>

\* cmd_hourly.
Hourly ==
  /\ silver # {} /\ Built
  /\ \E which \in Asked : /\ weekly' = Reweek(which, Resolved)
                            /\ hourly' = Rehour(which, Resolved, safety)
  /\ UNCHANGED <<silver, pending, reference, windows, safety, daily, dailyScheme,
                 together, tuned>>

Next == \/ \E r \in Reports : Change(r)
        \/ Retune \/ LoadSchemes \/ Activate \/ LoadCensus
        \/ Incremental \/ Gold \/ Safety \/ Hourly

Spec == Init /\ [][Next]_vars
-----------------------------------------------------------------------------
(* The range path.                                                         *)

\* The scheme a range is ranked under: the served one, if the days were
\* weighted under it and the ETL could build its ranking.
RangeScheme == dailyScheme = served /\ safety[served] # Nothing

RangeEvidence(lo, hi, c, track) ==
  LET days == Days \cap (lo..hi)
      Of(d) == IF track = "violent"
               THEN [n |-> daily[d][c].violent, w |-> daily[d][c].wViolent]
               ELSE [n |-> daily[d][c].all - daily[d][c].violent, w |-> daily[d][c].wNonViolent]
  IN [n |-> SumOf([d \in days |-> Of(d).n]), w |-> SumOf([d \in days |-> Of(d).w])]

RankRange(lo, hi, track) ==
  LET found == [c \in Cells |-> RangeEvidence(lo, hi, c, track)]
  IN Ranked(Universe(served, found), Prior(served))
-----------------------------------------------------------------------------
(* Properties.                                                             *)

\* A range of dates ranks every cell as the stored window of those dates does,
\* whatever has since been reported: for each window the last refresh of the
\* days ranked, once a reloaded census or an edited weight has reached gold.
RangeRanksAsWindow ==
  RangeScheme /\ ~tuned /\ pending # Everything =>
    \A n \in together, t \in Tracks :
      LET stored == safety[served][n] IN
      stored # Absent => RankRange(stored.start, stored.end, t) = stored.rows[t]

\* No evidence makes a cell look riskier than more: of two cells as exposed and
\* with neighbours as risky, the one with less reported is the safer, and with
\* as much, as safe.
LessIsSafer(rows, prior) ==
  LET city    == City(rows, prior)
      Ring(c) == <<Cardinality(Near(c)), NeighborSum(c, rows, city, prior)>>
  IN \A c, d \in Cells :
       rows[c].ex = rows[d].ex /\ Ring(c) = Ring(d) =>
         /\ rows[c].w = rows[d].w => rows[c].standing = rows[d].standing
         /\ rows[c].w < rows[d].w => rows[c].standing > rows[d].standing

\* The factors of a cell average exactly one, so that a rate is spread over the
\* day or the week without growing or shrinking.
AverageOne(rows, blocks) ==
  \A c \in Cells, b \in blocks :
    SumOf([x \in blocks |-> rows[<<c, x>>].num]) = Cardinality(blocks) * rows[<<c, b>>].den

\* Every stored ranking puts the cell with less reported safer, and every hour
\* and weekday layer keeps each cell's rate.
RanksByEvidence ==
  \A s \in Schemes, t \in Tracks :
    /\ \A n \in Names : safety[s][n] # Absent => LessIsSafer(safety[s][n].rows[t], Prior(s))
    /\ hourly[s] # Absent => AverageOne(hourly[s][t], Hours)
    /\ weekly[s] # Absent => AverageOne(weekly[s][t], Weekdays)
=============================================================================
