# Formal models of the safety map

TLA+ models of the parts of this repository whose correctness depends on the
order in which things happen, or on two computations agreeing: how a city's
portal is read, the ETL pipeline that keeps the map's gold layers in step with
it and the figures in those layers, the loop that keeps every city converged,
migration, and the API: its serving path, its directions and the providers
behind them. Each module names the file it models; `PROJECT.json` maps every
definition to its lines.

    cd tla
    tlc -workers 2 -config MCGoldPipeline.cfg MCGoldPipeline.tla   # model-check
    tlapm GoldPipelineProofs.tla                                   # check proofs

## The system

| Component | State it keeps | Operations | Talks to |
|---|---|---|---|
| ETL pipeline (`safety/etl/run.py`, `transform.py`, `withdrawn.py`, `pending.py`, `gold.py`) | `silver.incident`, `gold.*`, `etl.pull_run`, `etl.gold_pending`, the registry's watermark, bronze files | backfill, incremental, history, reprocess, gold, safety, hourly, census | portals (HTTP), PostgreSQL |
| Ops convergence (`safety/ops.py`) | `etl.ops_run` | hourly and after every deploy: plan what is missing per city, run it | runs the ETL commands in-process |
| Migration (`safety/migrate.py`) | `schema_migrations`, reference tables | apply migrations, load CSVs, backfill columns | runs at deploy, outside the ETL lock |
| API cache and pool (`safety/api/main.py`) | response cache, in-flight table, 8 connections | map, ranking and meta endpoints on a thread pool | reads `gold.*` while refreshes commit |
| Rate limit (`safety/api/ratelimit.py`) | token buckets, LRU | every request | |
| Routing providers (`safety/routing`) | TTL cache, throttle, daily budget, circuit breaker | directions, geocoding on the event loop | Valhalla, Transitous, Photon |
| Directions (`safety/api/directions.py`, `routing/scoring.py`) | none | score routes, pick a recommendation | providers, `gold.cell_*` |
| Deploy (`deploy/`) | release directories, `current` link, held releases, tiles, dumps | autodeploy, install, smoke, rollback, backup, tile build and fetch | systemd |
| Frontend (`web/`) | page state, service-worker cache | map, filters, directions | API |

Shared state and who guards it. Everything that writes silver or gold runs
under `flock data/.etl.lock` (`deploy/systemd/safety-{etl,etl-hourly,ops}@.service`,
`docs/OPERATIONS.md`), so one command runs at a time; but a command is many
transactions, it may die between any two, and migrate runs beside it. The API
reads gold at any moment. Provider calls share one event loop and interleave at
every `await`.

What makes each component correct:

* pipeline: an incident is stored once; withdrawal removes only what the portal
  withdrew; a covered window is loaded; every difference between silver and gold
  is on a day the pending mark covers; gold catches up.
* ops: every enabled city is eventually loaded and built by the current version;
  one city's failures delay no other; no step is retried in a hot loop, or run
  before what it depends on.
* migration: each migration applied once, in order, by one migrator.
* API cache: no answer older than what was served when its request came; a layer
  built once per refresh; every waiter answered; the byte budget holds.
* figures: a range of dates ranks as the stored window of those dates does; less
  reported never looks riskier.
* directions: every figure is the map's own comparison; a suggestion is lower.
* sources: what stood still at the portal is read, kept and never withdrawn.
* providers: one call per key, within budget, throttle and breaker; no waiter
  forgotten.
* deploy: a release that fails its smoke test does not stay current.

## Modules

| Module | Models | Form |
|---|---|---|
| `Pending` | `etl/pending.py`: the mark and how marks combine | operators |
| `GoldMirror` | what the mark promises: gold equals silver except on stale days | abstract specification |
| `GoldPipeline` | one city's pulls, promotion, withdrawal, census and gold refreshes, with crashes | one action per transaction |
| `DataLemmas` | extrema of integers, induction on and bounds of finite sets, sums and products over sets and their parts, sequences with an element removed, the tables of `Lru` | lemmas |
| `GoldPipelineProofs` | theorems about `GoldPipeline` and `GoldMirror` | proofs |
| `SourcePull` | one source read part by part: the adapters, bronze, validation, the withdrawal guard, replay | one action per portal answer or transaction |
| `SourcePullProofs` | theorems about `SourcePull` | proofs |
| `Ranking` | `ranking_sql.py` and the shapes of day and week in `gold.py` | operators on functions |
| `Figures` | the numbers gold holds and the API's ranking of a range, beside each other | one action per transaction |
| `FiguresProofs` | theorems about `Figures` and the operators of `Ranking` | proofs |
| `OpsConverge` | `ops.py`: plan, ledger, cooldowns and the loop over cities and steps, beside pulls, rebuilds and releases | one action per ledger or table commit |
| `OpsConvergeProofs` | theorems about `OpsConverge` | proofs |
| `Migrate` | `migrate.py`: migrations, reference data, pruning and backfills under the advisory lock | one action per transaction |
| `MigrateProofs` | theorems about `Migrate` | proofs |
| `Lru` | the bounded tables of `ttlcache.py`, `service.py` and the response cache | operators on sequences |
| `ReadThrough` | what the response cache promises: an answer served since it was asked | abstract specification |
| `Serving` | `api/main.py`: threads, pool, response cache, flights and the endpoints' reads, beside refreshes | one action per statement or critical section |
| `ServingProofs` | theorems about `Serving` | proofs |
| `CircuitBreaker` | `routing/breaker.py` | operators on a record |
| `ProviderClient` | single flight, throttle, budget, breaker and call of `TransitousClient.plan` | one action per run between two `await`s |
| `Recommend` | `routing/scoring.py`: comparing a route with its city, telling routes apart, picking | operators |
| `Directions` | `POST /directions` from its checks to its response | one action per run between two `await`s |
| `RoutingProofs` | theorems about `ProviderClient`, `Directions` and the operators of `Recommend` | proofs |
| `MC*` | instances for TLC | |

How they fit: `SourcePull` opens up the one step `FetchRows` of `GoldPipeline`;
`GoldPipeline` says which rows a layer was built from, `Figures` what a layer
then says; `OpsConverge` takes a command of theirs as its effect, and `Serving`
a refresh as a new generation of rows. `Directions` takes a provider's answer
from a set, `ProviderClient` is how it was come by.

### GoldPipeline

`pc` and `job` are the program counter and locals of the one ETL process; every
other variable is a table, a file or a figure that survives it. `feed` is what
the portal publishes: any record may be published, revised, re-dated or
withdrawn between any two steps. A pull is the chain

    OpenPull -> FetchRows -> Promote -> Reconcile -> Finish -> MarkSuccess

of `_ingest`, one action per commit; `Stop` is a crash, an exception or a
deadline at any of them and throws away `pc` and `job` only. A record is a key,
a day and a content; `label` keeps the category a key was classified with, so
that a category changed in place can be told from a changed record. `recent`,
`daily`, `long` and `ranked` say *from which silver* the short-window layers,
the daily rollup, the long windows and the exposure-based rankings were built,
instead of the counts in them: two layers built from the same rows are equal.

Abstracted: the SQL of each layer (a layer is the rows it was built from); how
many long windows a span offers (`LongCount` divides by one constant); the
withdrawal guard's shares (its verdict is a free choice between deleting and
not, which includes every real verdict); the two loads inside `cmd_census` (its
closing transaction is the one other components see); local dates against UTC
(a day is a day). Left out: the hourly layer, several cities (nothing is shared
between cities but the lock), the archive of withdrawn rows, reprocess of any
pull but the newest.

### ProviderClient

`request` is what each browser tab waits for, `task` the producers on the event
loop, `inflight` the key's registered producer. A producer is `new` until its
first turn, then `sent` while `httpx` has it, then `done` until `_settle` runs.
`before_call`, `_call` up to its `await`, and `after_failure` on a refusal are
one action, as nothing else can run in between; so `Send` is the throttle check,
the charge and the claim together, and the refusals are actions of their own.
`plans`, `lastSent` and `sentToday` are history variables.

The model assumes what `settings.routing_timeout_seconds = 8` is there for: a
call is over before the breaker's cooldown (120 s) and the client's interval
(20 s) are. `httpx` applies that timeout to each connect, read and write, so a
provider that trickles its body can outlast it; then a late answer could be
taken for the trial's. That case is outside the model.

### OpsConverge

`db` holds of each city what `_STATE_SQL` reads, and how the layers it cannot
see were built (`exposure`, `ranked`, `made`). `plan` is the list a run computed
before anything ran; `run` is its place in the loop: cities to do, the city it
is at, the steps left there, the step under way, the cooldowns read for the
city. `attempt` is the newest ledger row of a city and task. A run is

    StartRun -> per city: EnterCity -> (SkipStep | StartStep -> FinishStep
      | BackfillBlocked | FailStep) ... -> EndRun

and `Kill` ends it anywhere, leaving the row `running`. `Steps`, `FoldInto` and
the `Needs*` operators are `plan_from_state`, judged
with the version the *process* started under: `Deploy` may change `version`
while a run goes on, since `install.sh` looks for running ETL units once, before
it builds, and takes no lock.

A step's command is its effect on `db`: `Completed` is the set of outcomes of an
exit 0, `Interrupted` of one that raised, exited non-zero or was killed, after
whichever of its transactions had committed. Pulls, the weekly rebuild and a
census reload by hand share the flock with ops, so each is one action between
runs; their own transactions are `GoldPipeline`'s. A row is dropped from
`attempt` when its cooldown ends, in any order, which covers every length of
cooldown. Cities are taken in any order. Left out: `--dry-run`, which changes
nothing, the advisories, the exit code, and the number of rows behind each flag.

### SourcePull

The portal is a sequence of ids per part; the agency adds, removes, moves and
revises between any two requests. A Carto or Socrata part is a month, answered
whole (an answer at `PageLimit` fails the pull); an Esri part is a layer, read by
pages from an offset, and a page may come short or, once, wrongly empty. Every
answer is a chunk of the pull's bronze. Promotion, `withdrawn.assess` with its
mode and its two shares, and `_finish_pull` follow, each its own transaction;
`Reprocess` replays a stored pull, paged chunks in the order of their names.
`stood`, `shrunk`, `dark` and `orphaned` are history variables. The guard's
thresholds are scaled down to three rows. A record re-dated out of the window
stays until its new day is read, as `docs/DEPLOYMENT.md` says: the model says
nothing of rows that moved. Left out: what `normalize` makes of one record.

### Ranking and Figures

`Ranking` is the SQL, a table being a function of its key: the shrunk rate, the
blend with the neighbours, Hazen's midrank, tiers, and the day's and week's shapes.
Rates are numerators of one common denominator, so comparisons are exact where
the code's are floating point; exact ties are therefore ties here. The blend, with
the code's `self_weight` of 0.6, is kept as 600 of it, which a ring of any size up
to a hexagon's six divides. A city nobody is in has no rate to shrink toward, as
the SQL's `COALESCE` has it.

`Figures` rebuilds them as the commands do: an incremental refresh re-weighs days
from the mark, may leave long windows, the hour layer and disabled schemes as they
were, and the API ranks any range from the days kept. `together` and `tuned` are
auxiliary: which stored windows the days were last written with, and whether
weights changed under them. Two windows stand for the list, the second long; the
floors and the mark's clamp are `GoldPipeline`'s; the pre-aggregation into buckets
is the sum it equals; an activation, made outside the ETL lock, is atomic.

### Migrate

A run takes the advisory lock or gives up after its timeout, verifies the
checksums of what was applied, applies each new file in a transaction of its own,
loads schemes, weights, inherited weights, crosswalk and registry, promotes a
scheme if asked, prunes disabled schemes (listed in one transaction, deleted in
the next) and backfills cells and hours. `Kill` drops the lock and keeps the
commits; the ETL loads rows and rebuilds gold beside it. Rows are counted in
classes alike in all a backfill looks at, so the share by which it tells a
local clock from UTC is a share here too. A file's content is its checksum; a
previous release's missing checksum is adopted as found.

### Serving

A request waits for a thread and a connection (or 503 after the pool's timeout),
keeps both, resolves its period, and reads. `Endpoint` gives each the reads it
makes, every data endpoint of `main.py` being one such pair. A cached read takes
the city's stamp, looks, and hits, leads a flight or follows one; a leader builds
in one or two statements, each seeing the generation then committed, and lands:
the entry stored, the oldest evicted, the followers answered. `Cancel` is a
statement timeout or any other error. A value is the span of generations it was
built from: what `ReadThrough` is about. Left out: the token buckets of
`ratelimit.py`, ETag and compression.

### Directions

One request, suspended at every query and provider call, while a refresh may drop
the very window it resolved. It resolves points and window, reads the baseline,
asks for routes, fetches the cells they cross, in up to three instalments of which
`_Scorer` remembers what it holds, looks around the fastest for a quieter way,
asks for detours (any of which may fail), and answers. `Recommend` has what is
computed in between, in thousandths, on lines cut every 20 m. The provider's cache
and breaker are `ProviderClient`'s. Generations mix only where a refresh
commits mid-request, and `MapsOwnComparison` is about requests where none did.

## Runs

| Run | Bounds | What it shows |
|---|---|---|
| `pipeline` | 2 keys, 4 days, 2 contents (one invalid), 1 change, 1 crash, 2 commands, 1 edit | type, one row per key, the mark covers silver and exposure, selectable days are exact, withdrawal, a covered window is loaded while the portal stands still, refinement of `GoldMirror` |
| `live` | 1 key, 6 days, long windows of 3 days, `MaxAge` 2, 2 changes and commands, 1 crash, fairness of the timer | silver and gold become current; kept long windows trail the anchor by less than `MaxAge` |
| `unmarked` | as `pipeline` | a counterexample, see Findings |
| `source` | 2 parts, 3 ids, pages of 2, a limit of 3, 2 changes, 1 outage, 2 pulls, 1 crash | what stood still is read, promoted and never withdrawn; replaying the newest pull changes nothing |
| `figures` | 3 cells, 5 days, 3 reports, 2 schemes (one per person), 3 changes, 1 retuning, 2 builds | a range ranks as the stored window of those dates; less reported is never riskier, shapes average one |
| `ops` | 1 city, 1 history slice, 2 versions, 1 failure or kill, 1 outside command, 1 forced run, 1 deploy, any number of timer runs | type, order of steps, a census not ranked by is noticed, no hot loop; ops becomes quiet |
| `migrate` | 2 runs, 3 checkouts, one editing an applied file, 60 rows in 3 classes, 2 schemes, 1 kill | each migration once and in order, a verified tree stays so, a finished run left what its tree says, hours and the served scheme's rows are right |
| `serving` | 3 requests, two for one layer and one for a range, 2 threads, 2 connections, 2 entries, 5 bytes, 3 generations | hits are current, the byte counter is exact, flights are sound, refinement of `ReadThrough` |
| `serving_live` | 4 requests, 2 threads, 2 connections, 1 refresh, fairness of each request | every request is answered |
| `provider` | 3 tabs of 2 clients, 2 keys, 2 producers, limit 2 a day of 3 ticks, cooldown and interval 2, threshold 2, 5 ticks | single flight, throttle, budget over a midnight, trial and cooldown |
| `provider_live` | 2 tabs, 1 key, a restart | every waiter is answered |
| `directions` | 4 street routes, 2 itineraries, 4 cells (one not drawn), 2 hour blocks, 3 weekdays, 2 generations | figures are the map's, offers are ordered and distinct, the pick qualifies and beats the rest |

Why the bounds are enough: every hazard of the pipeline is between one change,
one crash and the command after it; two keys make a window that is partly
withdrawn, four days a day before, on and after every boundary. Reading goes
wrong between one page and the next: three rows make a full page, a short one
and a second part, and a second change undoes the first. The figures disagree
over one window's edge, one stale layer and one cell nobody lives in; three
cells give two rings and a tie. A second half-open trial needs two
producers and one cooldown after a failed trial, which five ticks hold; two
clients and two keys make every kind of follower. What ops can get wrong is
between one disturbance and the runs that follow, whose number is not bounded.
Migrate's shares fall on either side of both thresholds as its classes load.
Two requests make a flight, a third a second key and an eviction, and three
generations a leader slower than two refreshes. `serving` asks for `/cells` by
window and by dates, the only reads that are all of cached, shared and ranked in
two statements; the theorems cover every endpoint. The directions instance has a
variant to drop, a detour too long, a rated and an unrated cell and a midnight.
Deadlock is not checked where the bounds end the world: `source`, `figures`,
`directions`, `serving`.

**Fairness.** `FairSpec` of `GoldPipeline` lets the six-hourly timer fire and a
started job run on (systemd); nothing obliges the portal, a deploy, an operator
or a crash. `EventuallyCurrent` assumes the published records are valid from
some point on. `FairClientSpec` of `ProviderClient` is the event loop running ready
tasks and `httpx` ending calls. `FairSpec` of `Serving` is weak fairness of each
request's own work: threads are scheduled, statements end (`statement_timeout`),
the pool's and the followers' waits time out. `FairSpec` of `OpsConverge` is the
hourly timer (`safety-ops@.timer`, where an instance enables it; elsewhere only
deploys start a run, and convergence waits for them), a started run going on and
cooldowns ending; nothing obliges pulls, deploys, kills or operators.
`EventuallyQuiet` leaves out a city without rows (its portal published nothing
yet), a full mark (the next incremental rebuilds) and a census load that died
(noted below).

## Findings

`UpToDateWhenUnmarked` (run `unmarked`): a history slice promoted and marked,
then a crash before its pull row completes. The next incremental rebuilds from
the mark, clamped to the history floor, and clears the mark. The retried slice
changes nothing, so marks nothing, and now lowers the floor: its days are
missing from `gold.cell_daily` until a full rebuild (which `cmd_history` runs
only when the whole history is loaded).

Other places where the code and what is written about it part, met while
modelling and kept in the modules as the code has them, without a run:

* pipeline: a crosswalk CSV edited under its version relabels re-read rows,
  which count as unchanged (`transform.py:245`). Weights edited under their
  scheme, then an incremental, leave days weighed both ways, and a range over
  them unlike its window (`ranking_sql.py:6`) until a full build. City windows
  "cannot disagree" (`gold.py:2291`), but do where a scheme has no census, was
  enabled while long windows were kept, or with `--skip-hourly`; `cmd_safety`
  re-ranks windows without their dates in `gold.city_window`.
* ops: after a first backfill whose census or gold step failed, the next run does
  not pick up gold (`ops.py:724` against `:378`); a pull that found nothing is
  later than the refresh, so a healthy city is rebuilt (`ops.py:24`); an
  incremental stamps the new version on a snapshot of which it rebuilt a part
  (`safety/__init__.py:29`, `gold.py:2539`).
* migrate: the clock-hour backfill gives date-only rows the hour 0
  (`migrate.py:793`); a disabled scheme keeps its weekday factors
  (`migrate.py:502`); loads only upsert, so a row taken out of a CSV stays.
* sources: a small Austin layer answered empty can be withdrawn whole, which
  `src/safety/etl/adapters/austin.py` says the guard prevents.
* providers: a visitor who joined another's producer is told 429 "too soon" for
  that visitor's sake (`ttlcache.py:107`).
* directions: "too slow" is also said where the alternatives in time are merely
  unrated (`scoring.py:430`); a comparable route may have no peak.

## Proofs

`tlapm` checks every theorem for all values of the constants, from the
assumptions the modules name. Each is an inductive invariant, found with TLC
first: one lemma per action or group of actions, then the temporal step.

`GoldPipelineProofs`: the invariant `IInv` (type, `JobSound`, unique keys of
silver, portal, job and bronze) and from it `OneRowPerKey`, `MarkCoversSilver`,
`MarkCoversExposure`, `NeverDropsPublished` and the refinement of `GoldMirror`.
`JobSound` is what the plain invariants lack: that the rows a job is about to
delete are none it saw, that what it promoted is still in silver, and that a pull
that got this far holds a valid row, so `MarkSuccess` takes the maximum of a
non-empty set. The mark's theorems go through one lemma (`MarkWidens`): a mark
combined with another covers what either covered. A step that writes
silver marks the days on which it differs before and after; only `Rebuild`
narrows the mark, and it copies silver.

It goes on to what readers of gold rely on. `LongWindowsTrailBounded` needs `IInv`
only. `CoveredIsLoaded` needs how far a pull reaches (`ReachSound`: to today, or back
to what is covered) and that what it fetched is still what the portal publishes
(`FetchedStands`). `SelectableDaysExact` is the deepest: from its first day on, the
rollup is silver except on marked days (`DailyExact`); it holds nothing below the
floor (`DailyAboveFloor`), so a dated rebuild clamped to the floor leaves no unmarked
gap above it; a rebuild's date is the mark itself (`RefreshSound`); and before a first
window is covered everything comes from the backfill (`FirstWindow`).

`ServingProofs` proves `FlightsSound`, `HitIsCurrent` and `ReadsThrough` for any
requests, endpoints, threads, connections, sizes and limits of the cache. The
first invariant ties flights to leaders: a flight's leader is building it, whoever
builds for the cache is listed, a layer and stamp have one flight, a follower has
one. The second dates things: a stamp is no older than the request that read it,
what is built or stored under a stamp spans generations from the stamp on. So a
follower may take a leader's value, their stamps being equal, and a late store is
an entry nobody looks up under the new stamp. For these, eviction and replacement
matter only in that they leave a table of entries that were in it (`StoreOf`). For
`CacheBounded` they are all that matters: no two entries of the table are alike, so
what it weighs is a sum over the set of them; the entry a store replaces and each one
it evicts leave the table and the counter together, and the loop that evicts stops
within both limits or at an empty table.

`FiguresProofs` proves both properties of `Figures` for any city of hexagons, any
reports, schemes, weights, priors and spans, from what the tables `CHECK`: weights
and areas are positive, priors not negative, and positive where an exposure may be
nothing. `RanksByEvidence` is arithmetic under a small invariant (the types): the
common denominator is a product of every cell's, so dividing it by one cell's leaves
a positive whole number (`ProductIsLarge`), with which a shrunk rate, the blend and
the standing follow what was reported (`AdjustedFollows`, `SmoothedFollows`,
`StandingFalls`); and the factors of a layer average one because a cell's blocks and
the city's are parts of one sum (`SumOfParts`), blended by a share and its complement
(`BlendIsWhole`). The weekday layer needs that a year holds every weekday
(`EveryWeekday`). `RangeRanksAsWindow` is not inductive: an incremental builds on
days it does not look at. The invariant adds that every stored day outside the mark
is what silver gives under the scheme it was weighed by, until a weight is edited
(`DailyExact`), and that a scheme that cannot be ranked has no ranking
(`UnbuiltEmpty`). Then a refresh leaves all days exact, and the evidence of a range
is the sum of its days' (`EvidenceByDay`).

`MigrateProofs` proves `SchemaHistory`, `VerifiedTree`, `ServedIsKept`,
`FinishedIsComplete` and `HourIsOwn` for any runs, checkouts, schemes and rows. The
lock's holder is the only run past its wait, so what it read in one transaction (the
files applied, the schemes to prune) stands in the next; the one thing others change
meanwhile, what the city serves, only ever turns to an enabled scheme. Completeness
says of every step of a run what the steps before it left, and that nobody undoes it
(`LoadInv`): the lock keeps other runs out, and the ETL, which has a lock of its own,
loads rows with their cell and hour. `HourIsOwn` rests on what `migrate.py` says of
its floor, that the evening is about a fifth of the rows (`EveningAssumption`): read
as UTC, too few then fall on their own day for the audit to take the clock for a local
one.

`RoutingProofs` proves of `ProviderClient` `OneTrial`, `TrialIsOut`, `BudgetExact`,
`OneCallPerKey` and `OneCallPerCooldown` for any number of requests, keys, tasks
and any limits. The invariant's heart is `TrialSound`: a call sent while the
breaker was closed was sent no later than it opened, a trial no earlier than a
cooldown after; as no call lives that long, the two are never out together, so
what a call reports is its own. `OnePlanPerInterval` has an invariant beside it,
`ThrottleSound`: a plan the client may not repeat yet has its entry in the throttle,
whatever else was refused, never sent or failed. A full throttle forgets the client
seen least recently and lets it through early, as `service.py` says it may; the
theorem is therefore about a throttle with room for every client (`Roomy`, which the
run's instance satisfies).

`OpsConvergeProofs` proves `DependencyOrder`, `UnrankedIsNoticed`, `NoHotLoop` and
`OthersGoOn` (one city's failures leave the others' steps alone; proved only, for
any number of cities) from the assumption on the constants alone. The invariant
ties the run's place to its
plan (`InPlan`), says of every city no longer to do that the steps left rank
above those gone and those gone are done, or that it is accounted for
(`Accounted`), and of every step still to come that what it needs is in the
tables or comes before it (`Supplied`): the plan is computed once, and what it
relied on then must still hold hours and releases later. `Sound` is what the
tables keep on their own (a census loaded to its end is ranked by, or a full
mark stands), shown once for every command (`CommandsKeep`).

`SourcePullProofs` proves all three properties of `SourcePull`, for any ids, parts,
page sizes and thresholds. The invariant says how far a pull has come: of every place
in a part before the page it will ask for next (`Passed`), what stood still there has
been read (`PassedIsRead`), unless the part lost a row under the pages. That holds
through the agency's changes because taking a row out moves only what is behind it,
and a row that is added comes last. A pull that is through its parts has then seen
all that stood (`SureIsSeen`), so what promotion leaves out of its rows could have
been missed, and `Reconcile` takes out nothing else. For the replay, silver agrees
with the chunks of the pull that promoted last (`ReplaySound`), and the order of the
chunks matters only where one id is in two of them (`ReplayAccepts`).

Of `Directions`, `RoutingProofs` proves the three properties for any city, asks,
providers' routes, numbers of hours and days, and refreshes, on the assumptions that
the routes a provider may give and the cells of the data are finitely many, a Gold row
holds counts, and no stored window is named "none". The invariant follows a request
from query to query: what is offered (`Offering`) is sorted and distinct once settled,
and the fastest route found, or a faster one, is never lost; while no refresh commits,
the rows held are the served ones (`Holding`) of every cell said to be known, at every
time said to be known, a query's rows being due before its cells count as known; and
once the routes are settled every cell they cross is known or being fetched at the
time it is reached (`Covering`). From the last two a figure of the rows held is the
figure of the whole layer. Sorting rests on one lemma (`OrderIs`): any total order of
finitely many places lists each of them once, in that order. That the routes to keep
are determined (`KeptExists`) is shown along the sequence. `PickQualifies` is about
`Pick` alone, but needs that every figure is a number, hence the types of the rows
held and that an average divides by something (`AverageIs`).

`DataLemmas` is what these rest on: the theorems of the library that take an operator
cannot be instantiated, so induction over finite sets is stated for a *set* of
subsets (`FiniteInduction`), and a fold, sum or product, is reasoned about as the
recursive function it is defined by.

Only model-checked: liveness (`EventuallyCurrent`, `EventuallyQuiet`,
`EventuallyAnswered`, `EveryoneAnswered`), which is out of the prover's reach, as is
`ENABLED`. Neither checked nor proved: a throttle that has to forget clients, where
`OnePlanPerInterval` does not hold. `UpToDateWhenUnmarked` is refuted (see Findings).

## Plan

Left, in order: the token buckets of `ratelimit.py` as a component beside
`Serving`; the autodeploy state (held releases, smoke, rollback) and the tile
swap; the archive and restore of withdrawn rows; the fan-out of one pull over
several cities; superseded requests in `web/app.js`.

## Not modelled

* Deploy, backups, tile build: shell over systemd, git, `pg_dump` and the file
  system, where a model would assume what matters, that each external command
  does what it says.
* Census, boundary and location loaders, route geometry and polylines: floating
  point and polygons. What they leave is a generation in `GoldPipeline`.
* Normalisation of single records in the source adapters: data.
* The read-only SQL of `repository.py` other than the ranking of a range and the
  directions' reads; geocoding; rate limiting; headers and static files.
* The frontend, which reads the API and keeps nothing others read; CI and the
  one-off scripts.

Assumed throughout: the ETL lock (`flock`) admits one command; a PostgreSQL
transaction is atomic and a statement reads what was committed before it; a
provider's call ends within its timeout.
