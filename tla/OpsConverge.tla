---------------------------- MODULE OpsConverge ----------------------------
(***************************************************************************)
(* safety.ops: a run reads what is missing for every enabled city, plans   *)
(* the commands that bring it up to date, and runs them city by city,      *)
(* with a ledger (etl.ops_run) that holds back what was just tried.        *)
(*                                                                         *)
(* ops, the six-hourly pull and the weekly rebuild take the same flock: a  *)
(* pull or a rebuild happens only while no ops run does, and is one action *)
(* here (GoldPipeline has its transactions).  A deploy takes no lock.      *)
(***************************************************************************)
EXTENDS Integers

CONSTANTS
  Cities,       \* the enabled cities
  NoCity,
  Slices,       \* history slices a city may have to load
  MaxVersion,   \* PIPELINE_VERSIONs of the releases: 1..MaxVersion
  MaxFails, MaxCommands, MaxForces, MaxDeploys   \* bounds of the model

ASSUME OpsAssumption ==
  /\ NoCity \notin Cities
  /\ Slices \in Nat /\ MaxVersion \in Nat \ {0}
  /\ {MaxFails, MaxCommands, MaxForces, MaxDeploys} \subseteq Nat

Versions == 1..MaxVersion
Tasks    == {"backfill", "census", "gold", "hourly", "history"}

\* The documented onboarding order.
Rank == [backfill |-> 1, census |-> 2, gold |-> 3, hourly |-> 4, history |-> 5]

\* What a city's tables hold.
City ==
  [rows     : BOOLEAN,   \* silver.incident has rows
   clock    : BOOLEAN,   \* the portal publishes a clock hour
   pulled   : BOOLEAN,   \* a backfill or incremental completed
   behind   : BOOLEAN,   \* ... after the snapshot was last refreshed
   mark     : {"none", "dated", "full"},             \* etl.gold_pending
   census   : {"none", "blocks", "jobs", "loaded"},  \* how far cmd_census got
   exposure : {"none", "blocks", "loaded"},  \* what gold.cell_exposure apportions
   ranked   : {"none", "blocks", "loaded"},  \* what the newest rankings divide by
   hours    : {"none", "old", "built"},      \* old: without the weekday factor
   snap     : 0..MaxVersion,  \* gold.city_snapshot.pipeline_version, 0: no row
   made     : 0..MaxVersion,  \* the version of the last refresh of every layer
   left     : 0..Slices]      \* history slices still to load

VARIABLES
  db,       \* each city's tables
  attempt,  \* newest etl.ops_run row of a city and task within the cooldown
  version,  \* PIPELINE_VERSION of the current release
  plan,     \* of the ops run: each city's steps, and which of them builds hours
  run,      \* the ops run's place in its loop; version 0: no run
  result,   \* what the last run reported of each step (CityResult)
  spent

vars == <<db, attempt, version, plan, run, result, spent>>

NoPlan    == [steps |-> {}, fold |-> "none"]
NoRun     == [version |-> 0, forced |-> FALSE, todo |-> {}, city |-> NoCity,
              queue |-> {}, step |-> "none", blocks |-> {}]
NoAttempt == [status |-> "none", version |-> 0]
NoResult  == [t \in Tasks |-> "none"]

Idle == run = NoRun

Spend(what) ==
  /\ spent[what] < [fails |-> MaxFails, commands |-> MaxCommands,
                    forces |-> MaxForces, deploys |-> MaxDeploys][what]
  /\ spent' = [spent EXCEPT ![what] = @ + 1]

\* A city enabled a moment ago, of the instance's configuration.
NewCity(clock, left) ==
  [rows |-> FALSE, clock |-> clock, pulled |-> FALSE, behind |-> FALSE,
   mark |-> "none", census |-> "none", exposure |-> "none", ranked |-> "none",
   hours |-> "none", snap |-> 0, made |-> 0, left |-> left]

Init ==
  /\ db \in [Cities -> {NewCity(clock, left) : clock \in BOOLEAN, left \in 0..Slices}]
  /\ attempt = [c \in Cities |-> [t \in Tasks |-> NoAttempt]]
  /\ version = 1
  /\ plan = [c \in Cities |-> NoPlan] /\ run = NoRun
  /\ result = [c \in Cities |-> NoResult]
  /\ spent = [fails |-> 0, commands |-> 0, forces |-> 0, deploys |-> 0]

-----------------------------------------------------------------------------
(* plan_from_state: what a city needs, judged by release v.                *)

NeedsBackfill(d) == ~d.pulled
NeedsCensus(d)   == d.census = "none"
HasClock(d)      == d.rows /\ d.clock

NeedsHourly(d) ==
  \/ d.hours = "none" /\ (HasClock(d) \/ NeedsBackfill(d))
  \/ d.hours = "old"

\* _gold_reason
GoldReason(d, v) == NeedsCensus(d) \/ d.snap # v \/ d.behind

\* A backfill refreshes gold itself, but not on a census loaded after it.
NeedsGold(d, v) == IF NeedsBackfill(d) THEN NeedsCensus(d) ELSE GoldReason(d, v)

\* The step that also builds the time-of-day layers, if one does.
FoldInto(d, v) ==
  CASE NeedsHourly(d) /\ NeedsGold(d, v) -> "gold"
    [] NeedsHourly(d) /\ ~NeedsGold(d, v) /\ NeedsBackfill(d) -> "backfill"
    [] OTHER -> "none"

NeedsHistory(d) == d.pulled /\ d.left > 0

Steps(d, v) ==
  {t \in Tasks : \/ t = "backfill" /\ NeedsBackfill(d)
                 \/ t = "census"   /\ NeedsCensus(d)
                 \/ t = "gold"     /\ NeedsGold(d, v)
                 \/ t = "hourly"   /\ NeedsHourly(d) /\ FoldInto(d, v) = "none"
                 \/ t = "history"  /\ NeedsHistory(d)}

PlanFor(d, v) == [steps |-> Steps(d, v), fold |-> FoldInto(d, v)]

Quiet(c) == Steps(db[c], version) = {}

-----------------------------------------------------------------------------
(* What the commands do to a city's tables.                                *)

\* refresh_cell_exposure: only cells with no figure yet are apportioned.
Topped(d) ==
  [d EXCEPT !.exposure = CASE d.exposure # "none" -> d.exposure
                           [] d.exposure = "none" /\ d.census \in {"jobs", "loaded"} -> "loaded"
                           [] OTHER -> d.census]

\* refresh_hourly_layer scales the all-hours ranking: without that, or without
\* a clock hour, it writes nothing.
WithHours(d) ==
  IF HasClock(d) /\ d.ranked # "none" THEN [d EXCEPT !.hours = "built"] ELSE d

\* refresh_city_snapshot
Stamped(d, v) == [d EXCEPT !.snap = v, !.behind = FALSE]

\* refresh_all in full.
Rebuilt(d, v, hourly) ==
  LET e == Stamped(Topped(d), v)
      f == [e EXCEPT !.ranked = e.exposure, !.made = v, !.mark = "none"]
  IN  IF hourly THEN WithHours(f) ELSE f

\* refresh_all from a dated mark: older days and long windows stay as built.
Freshened(d, v) ==
  [Rebuilt(d, v, FALSE) EXCEPT !.made = IF d.made = 0 THEN v ELSE d.made]

\* refresh_all(incremental): nothing, a part, or everything.
Refreshed(d, v) ==
  CASE d.mark = "none"  -> d
    [] d.mark = "dated" -> Freshened(d, v)
    [] d.mark = "full"  -> IF d.rows THEN Rebuilt(d, v, FALSE) ELSE d

\* promote_to_silver changed something.
Promoted(d) == [d EXCEPT !.rows = TRUE, !.mark = IF @ = "full" THEN @ ELSE "dated"]

\* _finish_pull of a backfill or an incremental.
PullDone(d) == [d EXCEPT !.pulled = TRUE, !.behind = TRUE]

\* History loaded by one command, up to `left` slices remaining.
Loaded(d, left) == {[e EXCEPT !.left = left] : e \in {d, Promoted(d)}}

\* Bug: a census reload leaves no mark for the next incremental.
CensusUnmarked(d) ==
  [d EXCEPT !.census = "loaded",
            !.exposure = IF d.snap = 0 THEN "none" ELSE "loaded"]

\* cmd_census's closing transaction.  Before the first refresh there are no
\* cells to apportion into.
CensusLoaded(d) ==
  [d EXCEPT !.census = "loaded",
            !.exposure = IF d.snap = 0 THEN "none" ELSE "loaded",
            !.mark = "full"]

\* The tables after a command that exits 0.
Completed(t, d, v, hourly) ==
  CASE t = "backfill" -> {PullDone(d)} \cup
                         {Rebuilt(PullDone(Promoted(d)), v, hourly)}
    [] t = "census"   -> {CensusLoaded(d)}
    [] t = "gold"     -> IF d.rows THEN {Rebuilt(d, v, hourly)} ELSE {}
    [] t = "hourly"   -> IF d.rows THEN {Stamped(WithHours(d), v)} ELSE {}
    [] t = "history"  ->
         (UNION {Loaded(d, n) : n \in 1..(d.left - 1)}) \cup
         {Rebuilt(e, v, FALSE) : e \in {l \in Loaded(d, 0) : l.rows}}

\* The tables after a command that was killed, raised or exited non-zero.
Interrupted(t, d) ==
  {d} \cup
  CASE t = "backfill" -> {Promoted(d), PullDone(Promoted(d))}
    [] t = "census"   -> {[d EXCEPT !.census = how] : how \in {"blocks", "jobs"}}
    [] t = "history"  -> {Promoted(d)} \cup UNION {Loaded(d, n) : n \in 0..(d.left - 1)}
    [] OTHER          -> {}

-----------------------------------------------------------------------------
(* The ops run: converge.                                                  *)

\* The state of every city asked for is read before anything runs.  With
\* nothing to do the run exits.  --force ignores the ledger.
StartRun(cities, forced) ==
  /\ Idle
  /\ IF forced THEN Spend("forces") ELSE spent' = spent
  /\ \E c \in cities : ~Quiet(c)
  /\ plan' = [c \in Cities |-> IF c \in cities THEN PlanFor(db[c], version) ELSE NoPlan]
  /\ run' = [NoRun EXCEPT !.version = version, !.forced = forced,
                          !.todo = {c \in cities : ~Quiet(c)}]
  /\ result' = [c \in Cities |-> NoResult]
  /\ UNCHANGED <<db, attempt, version>>

\* A run against a healthy deployment: it reads, and exits.
NothingToDo == Idle /\ (\A c \in Cities : Quiet(c)) /\ UNCHANGED vars

\* The hourly timer, or the run a deploy starts, over every enabled city.
StartTimer == StartRun(Cities, FALSE)

\* An operator's `ops --city`, with or without --force.
StartByHand == \E c \in Cities, forced \in BOOLEAN : StartRun({c}, forced)

\* Bug: any row of the cooldown is passed over once the step is planned again.
HeldBackNever(row, t, v) == row.status = "running"

\* _cooldown_block
HeldBack(row, t, v) ==
  /\ row # NoAttempt
  /\ ~(row.status = "succeeded" /\ (t = "history" \/ row.version # v))

\* The next city of the plan: its cooldowns are read once, before its steps.
EnterCity(c) ==
  /\ run.queue = {} /\ run.step = "none" /\ c \in run.todo
  /\ run' = [run EXCEPT
       !.todo = @ \ {c}, !.city = c, !.queue = plan[c].steps,
       !.blocks = IF run.forced THEN {}
                  ELSE {t \in plan[c].steps : HeldBack(attempt[c][t], t, run.version)}]
  /\ UNCHANGED <<db, attempt, version, plan, result, spent>>

First(steps) == CHOOSE t \in steps : \A u \in steps : Rank[t] =< Rank[u]

\* The report when step t ends the way it did: what follows is blocked.
Reported(t, how, rest) ==
  [result EXCEPT ![run.city] =
     [u \in Tasks |-> IF u = t THEN how ELSE IF u \in rest THEN "blocked" ELSE @[u]]]

\* Bug: a step on cooldown is passed over and the next one run.
SkipStepOnly ==
  /\ run.queue # {} /\ run.step = "none"
  /\ LET t == First(run.queue) IN
       /\ t \in run.blocks
       /\ run' = [run EXCEPT !.queue = @ \ {t}]
       /\ result' = Reported(t, "skipped", {})
  /\ UNCHANGED <<db, attempt, version, plan, spent>>

SkipStep ==
  /\ run.queue # {} /\ run.step = "none"
  /\ LET t == First(run.queue) IN
       /\ t \in run.blocks
       /\ run' = [run EXCEPT !.queue = {}]
       /\ result' = Reported(t, "skipped", run.queue \ {t})
  /\ UNCHANGED <<db, attempt, version, plan, spent>>

\* _ledger_open, committed before the command starts.
StartStep ==
  /\ run.queue # {} /\ run.step = "none"
  /\ LET t == First(run.queue) IN
       /\ t \notin run.blocks
       /\ attempt' = [attempt EXCEPT ![run.city][t] =
                         [status |-> "running", version |-> run.version]]
       /\ run' = [run EXCEPT !.step = t, !.queue = @ \ {t}]
  /\ UNCHANGED <<db, version, plan, result, spent>>

\* Bug: the status is written whether or not the row counts any more.
ClosedAlways(status) ==
  attempt' = [attempt EXCEPT ![run.city][run.step].status = status]

\* _ledger_close; the row may have outlived the cooldown meanwhile.
Closed(status) ==
  attempt' = IF attempt[run.city][run.step] = NoAttempt THEN attempt
             ELSE [attempt EXCEPT ![run.city][run.step].status = status]

\* Whether the running step builds the time-of-day layers too.
Folded == plan[run.city].fold = run.step

\* run_step: exit code 0.
FinishStep ==
  /\ run.step # "none"
  /\ \E d \in Completed(run.step, db[run.city], run.version, Folded) :
       db' = [db EXCEPT ![run.city] = d]
  /\ Closed("succeeded")
  /\ run' = [run EXCEPT !.step = "none"]
  /\ result' = Reported(run.step, "done", {})
  /\ UNCHANGED <<version, plan, spent>>

\* cmd_backfill exits 0 as well when validation blocked the whole pull.
BackfillBlocked ==
  /\ run.step = "backfill"
  /\ Spend("fails")
  /\ Closed("succeeded")
  /\ run' = [run EXCEPT !.step = "none"]
  /\ result' = Reported("backfill", "done", {})
  /\ UNCHANGED <<db, version, plan>>

\* It raised, SystemExit included, or its exit code was not 0.  A command
\* that cannot complete fails at no cost to the bound.
FailStep ==
  /\ run.step # "none"
  /\ IF Completed(run.step, db[run.city], run.version, Folded) = {}
       THEN spent' = spent ELSE Spend("fails")
  /\ \E d \in Interrupted(run.step, db[run.city]) : db' = [db EXCEPT ![run.city] = d]
  /\ Closed("failed")
  /\ run' = [run EXCEPT !.step = "none", !.queue = {}]
  /\ result' = Reported(run.step, "failed", run.queue)
  /\ UNCHANGED <<version, plan>>

\* The last city is done: the summary is printed.
EndRun ==
  /\ ~Idle
  /\ run.todo = {} /\ run.queue = {} /\ run.step = "none"
  /\ run' = NoRun /\ plan' = [c \in Cities |-> NoPlan]
  /\ UNCHANGED <<db, attempt, version, result, spent>>

\* The process is killed: no summary, and the open row stays running.
Kill ==
  /\ ~Idle
  /\ Spend("fails")
  /\ IF run.step = "none" THEN db' = db
     ELSE \E d \in Interrupted(run.step, db[run.city]) : db' = [db EXCEPT ![run.city] = d]
  /\ run' = NoRun /\ plan' = [c \in Cities |-> NoPlan]
  /\ result' = [c \in Cities |-> NoResult]
  /\ UNCHANGED <<attempt, version>>

-----------------------------------------------------------------------------
(* Everything else that happens to a city.                                 *)

\* A command outside ops leaves city c as one of `outcomes`.
Command(c, outcomes) ==
  /\ Idle
  /\ Spend("commands")
  /\ \E d \in outcomes : db' = [db EXCEPT ![c] = d]
  /\ result' = [result EXCEPT ![c] = NoResult]
  /\ UNCHANGED <<attempt, version, plan, run>>

\* The six-hourly pull: it may fail, die before its refresh commits, find
\* nothing new, or change silver; the refresh follows the mark.
Incremental(c) ==
  LET completed == {PullDone(db[c]), PullDone(Promoted(db[c]))}
  IN  Command(c, {Promoted(db[c])} \cup completed
                 \cup {Refreshed(d, version) : d \in completed})

\* The weekly rebuild of the time-of-day layers.
WeeklyHourly(c) == Command(c, Completed("hourly", db[c], version, FALSE))

\* The yearly census reload by hand, which may die on the way.
CensusByHand(c) ==
  Command(c, Completed("census", db[c], version, FALSE)
             \cup (Interrupted("census", db[c]) \ {db[c]}))

\* A release under another PIPELINE_VERSION, or a rollback; it may bring the
\* weekday factor or other names for the time-of-day windows.  install.sh
\* looks for running ETL units once, before it builds: one may start after.
Deploy ==
  /\ Spend("deploys")
  /\ version' \in Versions \ {version}
  /\ \E lost \in {"built", "old", "none"} :
       db' = [c \in Cities |-> IF db[c].hours = "built"
                               THEN [db[c] EXCEPT !.hours = lost] ELSE db[c]]
  /\ UNCHANGED <<attempt, plan, run, result>>

\* Bug: an attempt that died is taken for a live one for ever.  (A row is
\* dropped from `attempt` once the cooldown is over.)
ForgettableEnded(row) == row.status \in {"succeeded", "failed"}

\* Rows older than the cooldown hold nothing back, whatever their status.
Forgettable(row) == row # NoAttempt

\* The cooldown of an attempt is over.
Forget(c, t) ==
  /\ Forgettable(attempt[c][t])
  /\ attempt' = [attempt EXCEPT ![c][t] = NoAttempt]
  /\ UNCHANGED <<db, version, plan, run, result, spent>>

-----------------------------------------------------------------------------
Step == SkipStep \/ StartStep \/ FinishStep \/ BackfillBlocked \/ FailStep \/ EndRun

Next ==
  \/ NothingToDo \/ StartTimer \/ StartByHand
  \/ \E c \in Cities : EnterCity(c)
  \/ Step \/ Kill
  \/ \E c \in Cities : Incremental(c) \/ WeeklyHourly(c) \/ CensusByHand(c)
  \/ Deploy
  \/ \E c \in Cities, t \in Tasks : Forget(c, t)

Spec == Init /\ [][Next]_vars

\* The hourly timer fires again and again, a started run goes on, cooldowns end.
Fairness ==
  /\ WF_vars(StartTimer)
  /\ WF_vars(\E c \in Cities : EnterCity(c))
  /\ WF_vars(Step)
  /\ \A c \in Cities, t \in Tasks : WF_vars(Forget(c, t))

FairSpec == Spec /\ Fairness

-----------------------------------------------------------------------------
(* Properties.                                                             *)

Attempt ==
  {NoAttempt} \cup [status : {"running", "failed", "succeeded"}, version : Versions]

TypeOK ==
  /\ db \in [Cities -> City]
  /\ attempt \in [Cities -> [Tasks -> Attempt]]
  /\ version \in Versions
  /\ plan \in [Cities -> [steps : SUBSET Tasks, fold : {"none", "backfill", "gold"}]]
  /\ run \in [version : 0..MaxVersion, forced : BOOLEAN, todo : SUBSET Cities,
              city : Cities \cup {NoCity}, queue : SUBSET Tasks,
              step : Tasks \cup {"none"}, blocks : SUBSET Tasks]
  /\ result \in [Cities -> [Tasks -> {"none", "done", "skipped", "failed", "blocked"}]]

\* A run of ops is through with city c.
Through(c) ==
  /\ ~Idle
  /\ c \notin run.todo
  /\ c = run.city => run.queue = {} /\ run.step = "none"

\* One city's bad day does not stop the others (ops.py, end of converge): when
\* the run is through with a city, each of its steps was taken, skipped or
\* failed, or is reported as blocked by an earlier step of that same city.
OthersGoOn ==
  \A c \in Cities : Through(c) =>
    \A t \in plan[c].steps :
      /\ result[c][t] # "none"
      /\ result[c][t] = "blocked" <=>
           \E u \in plan[c].steps :
             Rank[u] < Rank[t] /\ result[c][u] \in {"failed", "skipped"}

\* Whatever failed or was skipped before it: no ranking is built by ops before
\* census blocks are there to divide by, no time-of-day layer alone before the
\* all-hours ranking is current, no history before a backfill is on record.
DependencyOrder ==
  /\ run.step \in {"gold", "hourly"} => db[run.city].census # "none"
  /\ run.step = "backfill" /\ Folded => db[run.city].census # "none"
  /\ run.step = "hourly" => /\ db[run.city].snap = run.version
                           /\ ~db[run.city].behind
  /\ run.step = "history" => db[run.city].pulled

\* Once a census load ran to its end, a city whose rankings do not divide by
\* it is known to be unfinished: ops plans it, or the mark makes the next
\* incremental rebuild it in full.
UnrankedIsNoticed ==
  \A c \in Cities :
    /\ Idle /\ db[c].snap # 0 /\ db[c].ranked # "loaded"
    /\ db[c].census \notin {"blocks", "jobs"}
    => ~Quiet(c) \/ db[c].mark = "full"

\* Unforced, a step that failed, or whose run died, is not tried again before
\* its cooldown is over, however often ops is started.
NoHotLoop ==
  [][ run.step = "none" /\ run'.step # "none" /\ ~run.forced =>
        attempt[run.city][run'.step].status \notin {"running", "failed"} ]_vars

\* Once nothing disturbs it, ops alone brings every city with rows up to date
\* and leaves it so: no attempt left running wedges a city, and no layer that
\* cannot be built is asked for for ever.  A census not yet ranked by (a full
\* mark) is the next incremental's to rebuild; a census load that died on the
\* way is left out: nothing plans it again.
EventuallyQuiet ==
  \A c \in Cities :
    <>[](\/ Quiet(c) \/ ~db[c].rows
         \/ db[c].mark = "full" \/ db[c].census \in {"blocks", "jobs"})
=============================================================================
