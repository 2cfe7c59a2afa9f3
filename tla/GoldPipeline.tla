---------------------------- MODULE GoldPipeline ----------------------------
(***************************************************************************)
(* One city's path from its portal to the layers the map reads:            *)
(* safety.etl.run pulls the portal into silver.incident, and               *)
(* safety.etl.gold turns silver into gold.*.  One action per database      *)
(* transaction; the process may die between any two of them.               *)
(*                                                                         *)
(* Every scheduled unit and every documented operator command runs under   *)
(* the instance's flock (data/.etl.lock), so at most one job exists: pc    *)
(* and job are its program counter and locals.                             *)
(***************************************************************************)
EXTENDS Pending, FiniteSetsExt

CONSTANTS
  Keys,            \* incident keys
  Oldest, Today,   \* the registry's history_start_date, and the newest day
  BackfillStart,   \* where the trailing backfill window begins
  Lookback,        \* registry.revision_lookback_days
  SliceDays,       \* length of one history slice
  LongSpan,        \* days of history per long window offered
  MaxAge,          \* LONG_WINDOW_MAX_AGE
  Revs,            \* contents a record is published with
  BadRev,          \* the content the validator rejects
  DeleteWithdrawn, \* WITHDRAWN_RECONCILE = delete
  NoDay,           \* SQL NULL for a date
  MaxChanges, MaxStops, MaxCommands, MaxEdits   \* bounds of the model

ASSUME PipelineAssumption ==
  /\ Oldest \in Int /\ Today \in Int /\ BackfillStart \in Oldest..Today
  /\ Lookback \in Nat /\ SliceDays \in Nat \ {0}
  /\ LongSpan \in Nat \ {0} /\ MaxAge \in Nat \ {0}
  /\ NoDay \notin Int /\ DeleteWithdrawn \in BOOLEAN
  /\ {MaxChanges, MaxStops, MaxCommands, MaxEdits} \subseteq Nat

Day == Oldest..Today
Row == [key : Keys, day : Day, rev : Revs]

VARIABLES
  feed,       \* what the portal publishes now: one row per key
  silver,     \* silver.incident, one row per key
  label,      \* the crosswalk content each key was classified under in silver
  crosswalk,  \* reference.offense_crosswalk's content under the city's version
  pending,    \* etl.gold_pending
  covered,    \* min(window_start) over completed pulls in etl.pull_run
  watermark,  \* source_registry.last_success_watermark
  bronze,     \* the newest succeeded backfill or incremental kept on disk
  exposure,   \* generation of gold.cell_exposure
  recent,     \* the silver rows the short-window layers were built from
  recentLabel,\* their classifications
  ranked,     \* the exposure generation the rankings divide by
  long,       \* gold.city_window's long rows: how many, and built through when
  daily,      \* the silver rows gold.cell_daily counts
  pc, job, spent

sources == <<feed, crosswalk>>
store   == <<silver, label>>
ledger  == <<covered, watermark, bronze>>
layers  == <<recent, recentLabel, ranked, long, daily>>
vars    == <<sources, store, ledger, layers, pending, exposure, pc, job, spent>>

KeysOf(rows)     == {r.key : r \in rows}
DaysOf(rows)     == {r.day : r \in rows}
Valid(r)         == r.rev # BadRev
UniqueKeys(rows) == \A r, q \in rows : r.key = q.key => r = q
Between(rows, lo, hi) == {r \in rows : lo =< r.day /\ r.day =< hi}
Earlier(a, b)    == IF a < b THEN a ELSE b
Later(a, b)      == IF a < b THEN b ELSE a

Spend(what) ==
  /\ spent[what] < [changes |-> MaxChanges, stops |-> MaxStops,
                    commands |-> MaxCommands, edits |-> MaxEdits][what]
  /\ spent' = [spent EXCEPT ![what] = @ + 1]

NoJob == [kind |-> "none", since |-> Oldest, until |-> Today,
          fetched |-> {}, gone |-> {}, from |-> Everything]

Init ==
  /\ feed \in SUBSET Row
  /\ UniqueKeys(feed)
  /\ \A r \in feed : Valid(r)
  /\ silver = {} /\ label = [k \in Keys |-> 0] /\ crosswalk = 0
  /\ pending = NotPending
  /\ covered = NoDay /\ watermark = NoDay
  /\ bronze = [since |-> NoDay, rows |-> {}]
  /\ exposure = 0 /\ ranked = 0
  /\ recent = {} /\ recentLabel = [k \in Keys |-> 0]
  /\ long = [count |-> 0, end |-> Oldest] /\ daily = {}
  /\ pc = "idle" /\ job = NoJob
  /\ spent = [changes |-> 0, stops |-> 0, commands |-> 0, edits |-> 0]

-----------------------------------------------------------------------------
(* The world outside the job.                                              *)

\* The agency publishes, revises, re-dates or withdraws one record.
Publish(k) ==
  /\ Spend("changes")
  /\ \E new \in {{}} \cup {{r} : r \in {q \in Row : q.key = k}} :
       feed' = {r \in feed : r.key # k} \cup new
  /\ UNCHANGED <<crosswalk, store, ledger, layers, pending, exposure, pc, job>>

\* A deploy loads an edited crosswalk CSV under the version already in use:
\* migrate runs outside the ETL lock and marks nothing.
LoadCrosswalk ==
  /\ Spend("edits")
  /\ crosswalk' = crosswalk + 1
  /\ UNCHANGED <<feed, store, ledger, layers, pending, exposure, pc, job>>

\* The process is killed, raises, or reaches its deadline: what it committed
\* stays, its etl.pull_run row is left running or becomes failed, the flock
\* is released.
Stop ==
  /\ pc # "idle"
  /\ Spend("stops")
  /\ pc' = "idle" /\ job' = NoJob
  /\ UNCHANGED <<sources, store, ledger, layers, pending, exposure>>

-----------------------------------------------------------------------------
(* Pulls: _ingest and the commands around it.                              *)

\* Bug: any pull row counts as covered, whatever its status.
OpenPullCounted(kind, since, until) ==
  /\ pc' = "fetch"
  /\ job' = [NoJob EXCEPT !.kind = kind, !.since = since, !.until = until]
  /\ covered' = IF covered = NoDay THEN since ELSE Earlier(covered, since)
  /\ UNCHANGED <<sources, store, watermark, bronze, layers, pending, exposure>>

\* _open_pull, committed as 'running' before anything is fetched.
OpenPull(kind, since, until) ==
  /\ pc' = "fetch"
  /\ job' = [NoJob EXCEPT !.kind = kind, !.since = since, !.until = until]
  /\ UNCHANGED <<sources, store, ledger, layers, pending, exposure>>

StartBackfill ==
  /\ pc = "idle" /\ Spend("commands")
  /\ OpenPull("backfill", BackfillStart, Today)

StartIncremental ==
  /\ pc = "idle" /\ spent' = spent
  /\ OpenPull("incremental",
              IF watermark = NoDay THEN BackfillStart ELSE watermark - Lookback,
              Today)

\* The newest slice not covered yet, re-reading the day it starts from.
Slice == [since |-> Later(Oldest, covered - SliceDays), until |-> covered]

StartHistory ==
  /\ pc = "idle" /\ Spend("commands")
  /\ covered # NoDay /\ covered > Oldest
  /\ OpenPull("history", Slice.since, Slice.until)

Window == Between(feed, job.since, job.until)

\* The pull completed: its window counts as covered.
Cover == covered' = IF covered = NoDay THEN job.since ELSE Earlier(covered, job.since)

\* Where each command goes once its pull is recorded as completed.
AfterPull == CASE job.kind = "backfill"    -> "rebuild"
               [] job.kind = "reprocess"   -> "rebuild"
               [] job.kind = "incremental" -> "refresh"
               [] job.kind = "history"     -> "slice"

\* Bug: an incremental that fetched nothing skips its refresh.
FetchNothingNoRefresh ==
  /\ pc = "fetch" /\ Window = {}
  /\ Cover
  /\ pc' = IF job.kind = "history" THEN AfterPull ELSE "idle"
  /\ job' = IF job.kind = "history" THEN job ELSE NoJob
  /\ UNCHANGED <<sources, store, watermark, bronze, layers, pending, exposure, spent>>

\* no_new_data: nothing published in the window.  A backfill ends there.
FetchNothing ==
  /\ pc = "fetch" /\ Window = {}
  /\ Cover
  /\ pc' = IF job.kind = "backfill" THEN "idle" ELSE AfterPull
  /\ job' = IF job.kind = "backfill" THEN NoJob ELSE job
  /\ UNCHANGED <<sources, store, watermark, bronze, layers, pending, exposure, spent>>

\* blocked: the validator rejected every fetched record.  The command stops.
FetchBlocked ==
  /\ pc = "fetch" /\ Window # {}
  /\ \A r \in Window : ~Valid(r)
  /\ pc' = "idle" /\ job' = NoJob
  /\ UNCHANGED <<sources, store, ledger, layers, pending, exposure, spent>>

\* The dates an incremental re-read completely: a day in from each edge.
Reread == Between(silver, job.since + 1, job.until - 1)

\* Bug: only the records the validator accepted count as seen upstream.
WithdrawnUnlessValid(fetched) ==
  LET absent == {r \in Reread : r.key \notin KeysOf({q \in fetched : Valid(q)})}
  IN  IF /\ DeleteWithdrawn /\ job.kind = "incremental" /\ watermark # NoDay
         /\ absent # Reread
      THEN {{}, KeysOf(absent)} ELSE {{}}

\* withdrawn.assess, before promotion: what silver holds there and the pull
\* did not return.  Not on the backfill fallback, nor when the whole window
\* vanished; otherwise the outage guard's shares, the mode and an assessment
\* that raised are a free choice between deleting and not.
Withdrawn(fetched) ==
  LET absent == {r \in Reread : r.key \notin KeysOf(fetched)}
  IN  IF /\ DeleteWithdrawn /\ job.kind = "incremental" /\ watermark # NoDay
         /\ absent # Reread
      THEN {{}, KeysOf(absent)} ELSE {{}}

FetchRows ==
  /\ pc = "fetch"
  /\ \E r \in Window : Valid(r)
  /\ \E gone \in Withdrawn(Window) :
       job' = [job EXCEPT !.fetched = Window, !.gone = gone]
  /\ pc' = "promote"
  /\ UNCHANGED <<sources, store, ledger, layers, pending, exposure, spent>>

Accepted == {r \in job.fetched : Valid(r)}

\* _CHANGES_SQL: accepted rows new to silver or differing in a staged column.
\* The crosswalk is compared by version, which an edit in place leaves alone.
Changed == Accepted \ silver

\* Bug: dirty_from looks at the incoming dates only.
ChangedDaysIncoming == DaysOf(Changed)

\* Its dirty_from: the earliest day on either side of a change.
ChangedDays == DaysOf(Changed) \cup DaysOf({r \in silver : r.key \in KeysOf(Changed)})

\* Bug: a new mark replaces the one already there.
MarkDaysAfresh(days) == pending' = IF days = {} THEN pending ELSE Min(days)

MarkDays(days) == pending' = IF days = {} THEN pending ELSE Mark(pending, Min(days))

\* Bug: the upsert replaces a row only on its own date.
UpsertedByDate ==
  {r \in silver : \A q \in Accepted : r.key # q.key \/ r.day # q.day} \cup Accepted

\* The upsert, and the removal of the row a re-dated key left in another year.
Upserted == {r \in silver : r.key \notin KeysOf(Accepted)} \cup Accepted

\* promote_to_silver: upsert, classify and mark the change, in one transaction.
Promote ==
  /\ pc = "promote"
  /\ silver' = Upserted
  /\ label' = [k \in Keys |-> IF k \in KeysOf(Accepted) THEN crosswalk ELSE label[k]]
  /\ MarkDays(ChangedDays)
  /\ pc' = IF job.kind = "reprocess" THEN "finish" ELSE "reconcile"
  /\ UNCHANGED <<sources, ledger, layers, exposure, job, spent>>

Deleted == {r \in Reread : r.key \in job.gone}

\* withdrawn.apply, in its own transaction after promotion.
Reconcile ==
  /\ pc = "reconcile"
  /\ silver' = silver \ Deleted
  /\ MarkDays(DaysOf(Deleted))
  /\ pc' = "finish"
  /\ UNCHANGED <<sources, label, ledger, layers, exposure, job, spent>>

\* _finish_pull('succeeded').
Finish ==
  /\ pc = "finish"
  /\ Cover
  /\ bronze' = IF job.kind = "history" THEN bronze
               ELSE [since |-> job.since, rows |-> job.fetched]
  /\ pc' = IF job.kind = "reprocess" THEN AfterPull ELSE "watermark"
  /\ UNCHANGED <<sources, store, watermark, layers, pending, exposure, job, spent>>

\* _mark_source_success.
MarkSuccess ==
  /\ pc = "watermark"
  /\ watermark' = Max(DaysOf(silver))
  /\ pc' = AfterPull
  /\ UNCHANGED <<sources, store, covered, bronze, layers, pending, exposure, job, spent>>

\* cmd_history between slices: the next one, the end of the run's budget, or
\* the closing full rebuild once nothing is left to load.
NextSlice ==
  /\ pc = "slice" /\ spent' = spent
  /\ covered > Oldest
  /\ OpenPull("history", Slice.since, Slice.until)

EndHistory ==
  /\ pc = "slice"
  /\ pc' = IF covered > Oldest THEN "idle" ELSE "rebuild"
  /\ job' = NoJob
  /\ UNCHANGED <<sources, store, ledger, layers, pending, exposure, spent>>

\* cmd_reprocess replays the newest stored pull without fetching.
StartReprocess ==
  /\ pc = "idle" /\ Spend("commands")
  /\ bronze.since # NoDay
  /\ job' = [NoJob EXCEPT !.kind = "reprocess", !.since = bronze.since,
                          !.fetched = bronze.rows]
  /\ pc' = "promote"
  /\ UNCHANGED <<sources, store, ledger, layers, pending, exposure>>

-----------------------------------------------------------------------------
(* Gold.                                                                   *)

\* gold.data_anchor and gold.history_floor.
Anchor == Max(DaysOf(silver))
Floor  == Later(Oldest, IF covered = NoDay THEN Min(DaysOf(silver)) ELSE covered)

\* Bug: a city whose last record precedes its floor is offered -1 windows.
LongCountUnguarded == (Anchor - Floor) \div LongSpan

\* How many long windows the city is offered (resolve_windows, coarsely).
LongCount == IF Anchor < Floor THEN 0 ELSE (Anchor - Floor) \div LongSpan

\* Bug: > for >=.
LongDueLate(from) ==
  \/ from = Everything
  \/ LongCount # long.count
  \/ LongCount > 0 /\ Anchor - long.end > MaxAge

\* Whether an incremental rebuilds the long windows too (long_windows_due).
LongDue(from) ==
  \/ from = Everything
  \/ LongCount # long.count
  \/ LongCount > 0 /\ Anchor - long.end >= MaxAge

\* Bug: the first dirty day is taken for clean.
RebuiltDailyAfter(from) ==
  LET lower == IF from = Everything THEN Floor ELSE Later(from, Floor)
      kept  == IF from = Everything THEN {} ELSE {r \in daily : r.day =< lower}
  IN  kept \cup {r \in silver : lower < r.day}

\* refresh_cell_daily: from the first dirty day, or everything from the floor.
RebuiltDaily(from) ==
  LET lower == IF from = Everything THEN Floor ELSE Later(from, Floor)
      kept  == IF from = Everything THEN {} ELSE {r \in daily : r.day < lower}
  IN  kept \cup {r \in silver : lower =< r.day}

StartGold ==
  /\ pc = "idle" /\ Spend("commands")
  /\ pc' = "rebuild" /\ job' = NoJob
  /\ UNCHANGED <<sources, store, ledger, layers, pending, exposure>>

\* refresh_all(incremental): the mark decides, before anything is written.
RefreshSkipped ==
  /\ pc = "refresh" /\ pending = NotPending
  /\ pc' = "idle" /\ job' = NoJob
  /\ UNCHANGED <<sources, store, ledger, layers, pending, exposure, spent>>

RefreshPlanned ==
  /\ pc = "refresh" /\ pending # NotPending
  /\ pc' = "rebuild" /\ job' = [NoJob EXCEPT !.from = pending]
  /\ UNCHANGED <<sources, store, ledger, layers, pending, exposure, spent>>

\* data_anchor found no silver: LookupError before anything is written.
RebuildImpossible ==
  /\ pc = "rebuild" /\ silver = {}
  /\ pc' = "idle" /\ job' = NoJob
  /\ UNCHANGED <<sources, store, ledger, layers, pending, exposure, spent>>

\* refresh_all's own transaction; build_cell_universe committed before it.
Rebuild ==
  /\ pc = "rebuild" /\ silver # {}
  /\ recent' = silver /\ recentLabel' = label
  /\ ranked' = exposure
  /\ long' = IF LongDue(job.from) THEN [count |-> LongCount, end |-> Anchor] ELSE long
  /\ daily' = RebuiltDaily(job.from)
  /\ pending' = NotPending
  /\ pc' = "idle" /\ job' = NoJob
  /\ UNCHANGED <<sources, store, ledger, exposure, spent>>

\* cmd_safety: the rankings and the whole daily rollup; the mark stays.
Safety ==
  /\ pc = "idle" /\ Spend("commands")
  /\ silver # {}
  /\ ranked' = exposure
  /\ daily' = RebuiltDaily(Everything)
  /\ UNCHANGED <<sources, store, ledger, recent, recentLabel, long,
                 pending, exposure, pc, job>>

\* The closing transaction of cmd_census: reapportion, and mark undated.
Census ==
  /\ pc = "idle" /\ Spend("commands")
  /\ exposure' = exposure + 1
  /\ pending' = Mark(pending, Everything)
  /\ UNCHANGED <<sources, store, ledger, layers, pc, job>>

-----------------------------------------------------------------------------
Pull == \/ FetchNothing \/ FetchBlocked \/ FetchRows \/ Promote \/ Reconcile
        \/ Finish \/ MarkSuccess \/ NextSlice \/ EndHistory
Refresh == RefreshSkipped \/ RefreshPlanned \/ RebuildImpossible \/ Rebuild
Command == StartBackfill \/ StartHistory \/ StartReprocess \/ StartGold \/ Safety \/ Census

Next == \/ \E k \in Keys : Publish(k)
        \/ LoadCrosswalk \/ Stop \/ StartIncremental
        \/ Pull \/ Refresh \/ Command

\* The timer keeps firing and a started job runs on: systemd's job, both.
\* Nothing obliges the portal, a deploy, an operator or a crash.
Fairness == WF_vars(StartIncremental) /\ WF_vars(Pull) /\ WF_vars(Refresh)

Spec == Init /\ [][Next]_vars
FairSpec == Spec /\ Fairness
-----------------------------------------------------------------------------
(* Properties.                                                             *)

TypeOK ==
  /\ feed \subseteq Row /\ silver \subseteq Row
  /\ recent \subseteq Row /\ daily \subseteq Row
  /\ label \in [Keys -> Nat] /\ recentLabel \in [Keys -> Nat] /\ crosswalk \in Nat
  /\ pending \in PendingMark
  /\ covered \in Int \cup {NoDay} /\ watermark \in Day \cup {NoDay}
  /\ bronze \in [since : Int \cup {NoDay}, rows : SUBSET Row]
  /\ exposure \in Nat /\ ranked \in Nat
  /\ long \in [count : Nat, end : Day]
  /\ pc \in {"idle", "fetch", "promote", "reconcile", "finish", "watermark",
             "slice", "refresh", "rebuild"}
  /\ job \in [kind : {"none", "backfill", "incremental", "history", "reprocess"},
              since : Int, until : Int, fetched : SUBSET Row, gone : SUBSET Keys,
              from : PendingMark]
  /\ spent \in [{"changes", "stops", "commands", "edits"} -> Nat]

\* silver's primary key: however pulls, re-dated records, withdrawals and
\* replays follow each other, an incident is stored once.
OneRowPerKey == UniqueKeys(silver)

\* What a running job may rely on: it knows what it is, a pull that got past
\* the validator holds a valid record, the records it is about to withdraw are
\* none it saw upstream, and what it promoted is in silver until it ends.
JobSound ==
  /\ pc \in {"fetch", "promote", "reconcile", "finish", "watermark"} => job.kind # "none"
  /\ pc \in {"promote", "reconcile", "finish"} => \E r \in job.fetched : Valid(r)
  /\ pc \in {"reconcile", "finish"} => Accepted \subseteq silver
  /\ pc \in {"watermark", "slice"} => covered # NoDay
  /\ pc = "watermark" => silver # {}
  /\ job.gone \cap KeysOf(job.fetched) = {}

\* The inductive invariant behind the theorems of GoldPipelineProofs.
IInv ==
  /\ TypeOK /\ JobSound /\ OneRowPerKey
  /\ UniqueKeys(feed) /\ UniqueKeys(job.fetched) /\ UniqueKeys(bronze.rows)
  /\ bronze.since # NoDay => \E r \in bronze.rows : Valid(r)

\* pending.py: nothing before the mark's date changed since gold was built.
\* Every day on which silver differs from what the short-window layers were
\* built from is covered by the mark, whatever crashed in between.
MarkCoversSilver ==
  \A r \in (silver \ recent) \cup (recent \ silver) : Dirty(pending, r.day)

\* "A mark with no date always wins": while the rankings still divide by an
\* older census generation, the mark asks for a full rebuild.
MarkCoversExposure == ranked # exposure => pending = Everything

\* What the API lets a visitor sum: from the first stored day (and the floor)
\* on, the daily rollup counts exactly silver's rows, except on marked days.
SelectableDaysExact ==
  \A r \in (silver \ daily) \cup (daily \ silver) :
    (Floor =< r.day /\ \E q \in daily : q.day =< r.day) => Dirty(pending, r.day)

\* gold.py LONG_WINDOW_MAX_AGE: a long window kept by incrementals trails the
\* short ones by less than a week.
LongWindowsTrailBounded ==
  (recent # {} /\ long.count > 0) => Max(DaysOf(recent)) - long.end < MaxAge

\* A completed pull's window is loaded: as long as the portal has not changed,
\* every valid row published since the covered date is in silver -- no slice
\* that crashed, was retried or found nothing leaves a hole behind.
CoveredIsLoaded ==
  (spent.changes = 0 /\ covered # NoDay)
    => \A r \in feed : (r.day >= covered /\ Valid(r)) => r \in silver

\* Withdrawal never removes a record the same pull saw upstream, not even one
\* the validator rejected, and never one dated before the re-read window.
NeverDropsPublished ==
  [][\A r \in silver : r.key \notin KeysOf(silver')
        => r.key \notin KeysOf(job.fetched) /\ job.since < r.day]_vars

\* The pipeline implements the mirror: no step, whatever crashed before it,
\* writes silver without the mark covering the days it touched, or narrows the
\* mark other than by rebuilding gold.
MirrorOf == INSTANCE GoldMirror
  WITH stored <- silver, shown <- recent, stale <- {d \in Day : Dirty(pending, d)}
ImplementsMirror == MirrorOf!MirrorSpec

\* Once the portal, deploys, operators and crashes leave it alone, and the
\* records are valid, the six-hourly incremental brings silver up to date
\* over the revision window and gold up to date with silver.
Current ==
  /\ \A r \in feed : (watermark # NoDay /\ r.day >= watermark - Lookback) => r \in silver
  /\ silver # {} => pending = NotPending /\ recent = silver
EventuallyCurrent == <>[](\A r \in feed : Valid(r)) => <>[]Current

\* pending.get: no mark means "gold is up to date with silver" -- over the
\* whole history the city claims, once no job is running.
UpToDateWhenUnmarked ==
  (pc = "idle" /\ pending = NotPending)
    => \A r \in (silver \ daily) \cup (daily \ silver) : r.day < Floor
=============================================================================
