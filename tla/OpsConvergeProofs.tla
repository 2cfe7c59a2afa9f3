------------------------- MODULE OpsConvergeProofs -------------------------
(***************************************************************************)
(* What a run of ops keeps for any cities, history, releases and           *)
(* cooldowns, however often it is started, fails or is killed.             *)
(***************************************************************************)
EXTENDS OpsConverge, TLAPS

-----------------------------------------------------------------------------
(* The inductive invariant.                                                *)

\* A census loaded to its end is what the rankings divide by, or a full mark
\* stands; what was apportioned before it has been apportioned again.
Sound(d) ==
  d.census = "loaded" =>
    /\ d.exposure \in {"none", "loaded"}
    /\ d.mark = "full" \/ d.ranked = "loaded"

SoundCity == {d \in City : Sound(d)}

\* The steps of city c that the run still has to get through.
Remaining(c) ==
  IF c \in run.todo THEN plan[c].steps
  ELSE IF c = run.city THEN run.queue \cup ({run.step} \ {"none"}) ELSE {}

\* The run's place in its loop is a place in the plan it follows.
InPlan ==
  /\ ~Idle => run.version \in Versions
  /\ run.city \notin run.todo
  /\ run.city = NoCity => run.queue = {} /\ run.step = "none"
  /\ run.city \in Cities => Remaining(run.city) \subseteq plan[run.city].steps
  /\ run.step # "none" => \A u \in run.queue : Rank[run.step] < Rank[u]

\* What OthersGoOn says of one city.
CityAccounted(c) ==
  \A t \in plan[c].steps :
    /\ result[c][t] # "none"
    /\ result[c][t] = "blocked" <=>
         \E u \in plan[c].steps :
           Rank[u] < Rank[t] /\ result[c][u] \in {"failed", "skipped"}

\* While steps of a city remain, the earlier ones are done; then it is
\* accounted for.
Accounted ==
  ~Idle => \A c \in Cities \ run.todo :
    /\ \A t \in plan[c].steps \ Remaining(c), u \in Remaining(c) :
         Rank[t] < Rank[u] /\ result[c][t] = "done"
    /\ Remaining(c) = {} => CityAccounted(c)

\* What a step needs before it is there already, or comes before it.
Supplied(c) ==
  /\ "gold" \in Remaining(c) /\ db[c].census = "none" => "census" \in Remaining(c)
  /\ "hourly" \in Remaining(c) =>
       /\ plan[c].steps \subseteq {"hourly", "history"}
       /\ db[c].census # "none" /\ db[c].snap = run.version /\ ~db[c].behind
  /\ "backfill" \in Remaining(c) /\ plan[c].fold = "backfill" => db[c].census # "none"
  /\ "history" \in Remaining(c) => db[c].pulled

\* A step about to be taken unforced has no attempt that still counts.
Cooled ==
  ~run.forced => \A t \in run.queue \ run.blocks :
                   attempt[run.city][t].status \notin {"running", "failed"}

IInv ==
  /\ TypeOK
  /\ InPlan
  /\ \A c \in Cities : Sound(db[c])
  /\ Accounted
  /\ \A c \in Cities : Supplied(c)
  /\ Cooled

-----------------------------------------------------------------------------
(* What the commands keep of a city's tables.                              *)

\* The layers a refresh derives are of their type, and follow the census.
LEMMA RefreshKeeps ==
  ASSUME NEW d \in SoundCity, NEW v \in Versions
  PROVE  /\ WithHours(d) \in SoundCity /\ Stamped(d, v) \in SoundCity
         /\ \A h \in BOOLEAN : Rebuilt(d, v, h) \in SoundCity
         /\ d.mark = "dated" => Freshened(d, v) \in SoundCity
         /\ Refreshed(d, v) \in SoundCity
<1>1. v \in 0..MaxVersion
  BY OpsAssumption DEF Versions
<1>2. d \in City /\ Sound(d)
  BY DEF SoundCity
<1>3. ASSUME NEW e \in SoundCity PROVE WithHours(e) \in SoundCity
  BY DEF WithHours, SoundCity, City, Sound
<1>4. Stamped(d, v) \in SoundCity
  BY <1>1 DEF Stamped, SoundCity, City, Sound
<1>5. /\ Topped(d) \in City /\ Topped(d).census = d.census
      /\ d.census = "loaded" => Topped(d).exposure = "loaded"
      /\ Topped(d).made = d.made
  BY <1>2 DEF Topped, City, Sound
<1> DEFINE e == Stamped(Topped(d), v)
           f == [e EXCEPT !.ranked = e.exposure, !.made = v, !.mark = "none"]
<1>6. /\ e \in City /\ e.census = d.census
      /\ d.census = "loaded" => e.exposure = "loaded"
  BY <1>1, <1>5 DEF Stamped, City
<1>7. f \in City /\ f.census = d.census /\ f.ranked = e.exposure /\ f.exposure = e.exposure
  BY <1>1, <1>6 DEF City
<1>8. f \in SoundCity
  BY <1>6, <1>7 DEF SoundCity, Sound
<1>9. \A h \in BOOLEAN : Rebuilt(d, v, h) \in SoundCity
  BY <1>3, <1>8 DEF Rebuilt
<1>10. Freshened(d, v) \in SoundCity
  <2>1. Rebuilt(d, v, FALSE) \in SoundCity
    BY <1>9
  <2>2. d.made \in 0..MaxVersion
    BY <1>2 DEF City
  <2> QED BY <1>1, <2>1, <2>2 DEF Freshened, SoundCity, City, Sound
<1>11. Refreshed(d, v) \in SoundCity
  <2>1. d.mark \in {"none", "dated", "full"}
    BY <1>2 DEF City
  <2> QED BY <1>9, <1>10, <2>1 DEF Refreshed
<1> QED BY <1>3, <1>4, <1>9, <1>10, <1>11

\* What a pull does to silver, and what history loads.
LEMMA PullKeeps ==
  ASSUME NEW d \in SoundCity
  PROVE  /\ Promoted(d) \in SoundCity /\ PullDone(d) \in SoundCity
         /\ \A n \in 0..Slices : Loaded(d, n) \subseteq SoundCity
<1>1. ASSUME NEW e \in SoundCity, NEW n \in 0..Slices PROVE [e EXCEPT !.left = n] \in SoundCity
  BY DEF SoundCity, City, Sound
<1>2. Promoted(d) \in SoundCity /\ PullDone(d) \in SoundCity
  BY DEF Promoted, PullDone, SoundCity, City, Sound
<1> QED BY <1>1, <1>2 DEF Loaded

\* A command leaves a city's tables sound, however it ends.
LEMMA CommandsKeep ==
  ASSUME NEW d \in SoundCity, NEW v \in Versions, NEW h \in BOOLEAN, NEW t \in Tasks
  PROVE  Completed(t, d, v, h) \subseteq SoundCity /\ Interrupted(t, d) \subseteq SoundCity
<1>1. d.left \in 0..Slices
  BY DEF SoundCity, City
<1>2. CensusLoaded(d) \in SoundCity
  BY DEF CensusLoaded, SoundCity, City, Sound
<1>3. \A how \in {"blocks", "jobs"} : [d EXCEPT !.census = how] \in SoundCity
  BY DEF SoundCity, City, Sound
<1>4. \A n \in 0..(d.left - 1) : n \in 0..Slices
  BY <1>1, OpsAssumption
<1>5. \A n \in 1..(d.left - 1) : n \in 0..Slices
  BY <1>1, OpsAssumption
<1>6. 0 \in 0..Slices
  BY OpsAssumption
<1>7. \A e \in SoundCity : /\ Promoted(e) \in SoundCity /\ PullDone(e) \in SoundCity
                           /\ \A n \in 0..Slices : Loaded(e, n) \subseteq SoundCity
  BY PullKeeps
<1>8. \A e \in SoundCity : /\ WithHours(e) \in SoundCity /\ Stamped(e, v) \in SoundCity
                           /\ \A k \in BOOLEAN : Rebuilt(e, v, k) \in SoundCity
  BY RefreshKeeps
<1>9. Completed(t, d, v, h) \subseteq SoundCity
  <2>1. CASE t = "backfill"
    BY <1>7, <1>8, <2>1 DEF Completed
  <2>2. CASE t = "census"
    BY <1>2, <2>2 DEF Completed
  <2>3. CASE t = "gold"
    BY <1>8, <2>3 DEF Completed
  <2>4. CASE t = "hourly"
    BY <1>8, <2>4 DEF Completed
  <2>5. CASE t = "history"
    BY <1>5, <1>6, <1>7, <1>8, <2>5 DEF Completed
  <2> QED BY <2>1, <2>2, <2>3, <2>4, <2>5 DEF Tasks
<1>10. Interrupted(t, d) \subseteq SoundCity
  <2>1. CASE t = "backfill"
    BY <1>7, <2>1 DEF Interrupted
  <2>2. CASE t = "census"
    BY <1>3, <2>2 DEF Interrupted
  <2>5. CASE t = "history"
    BY <1>4, <1>7, <2>5 DEF Interrupted
  <2> QED BY <2>1, <2>2, <2>5 DEF Tasks, Interrupted
<1> QED BY <1>9, <1>10

\* No command takes back a census or a pull, and a census that completes is
\* there.
LEMMA CommandsSupply ==
  ASSUME NEW d \in City, NEW v \in Versions, NEW h \in BOOLEAN, NEW t \in Tasks,
         NEW e \in Completed(t, d, v, h) \cup Interrupted(t, d)
  PROVE  /\ d.census # "none" => e.census # "none"
         /\ d.pulled => e.pulled
         /\ t = "census" /\ e \in Completed(t, d, v, h) => e.census # "none"
<1> DEFINE Keeps(x, y) == (x.census # "none" => y.census # "none") /\ (x.pulled => y.pulled)
<1>1. ASSUME NEW x \in City PROVE Promoted(x) \in City /\ Keeps(x, Promoted(x))
  <2>1. (IF x.mark = "full" THEN x.mark ELSE "dated") \in {"none", "dated", "full"}
    BY DEF City
  <2> QED BY <2>1 DEF Promoted, City
<1>2. \A x \in City : PullDone(x) \in City /\ Keeps(x, PullDone(x))
  BY DEF PullDone, City
<1>3. \A x \in City : Keeps(x, Stamped(x, v)) /\ Keeps(x, WithHours(x))
  BY DEF Stamped, WithHours, City
<1>4. \A x \in City, k \in BOOLEAN : Keeps(x, Rebuilt(x, v, k))
  <2> SUFFICES ASSUME NEW x \in City, NEW k \in BOOLEAN PROVE Keeps(x, Rebuilt(x, v, k))
    OBVIOUS
  <2>1. Topped(x) \in City /\ Keeps(x, Topped(x))
    BY DEF Topped, City
  <2> DEFINE s == Stamped(Topped(x), v)
             f == [s EXCEPT !.ranked = s.exposure, !.made = v, !.mark = "none"]
  <2>2. v \in 0..MaxVersion
    BY OpsAssumption DEF Versions
  <2>3. s \in City /\ Keeps(x, s)
    BY <2>1, <2>2 DEF Stamped, City
  <2>4. f \in City /\ Keeps(x, f)
    <3>1. s.exposure \in {"none", "blocks", "loaded"}
      BY <2>3 DEF City
    <3>2. f \in City
      BY <2>2, <2>3, <3>1 DEF City
    <3>3. f.census = s.census /\ f.pulled = s.pulled
      BY <2>3 DEF City
    <3> QED BY <2>3, <3>2, <3>3
  <2>5. Keeps(f, WithHours(f))
    BY <1>3, <2>4
  <2> QED BY <2>4, <2>5 DEF Rebuilt
<1>5. ASSUME NEW x \in City, NEW n \in 0..Slices, NEW y \in Loaded(x, n)
      PROVE  y \in City /\ Keeps(x, y)
  <2>1. ASSUME NEW z \in City PROVE [z EXCEPT !.left = n] \in City /\ Keeps(z, [z EXCEPT !.left = n])
    BY DEF City
  <2>2. PICK z \in {x, Promoted(x)} : y = [z EXCEPT !.left = n]
    BY DEF Loaded
  <2>3. z \in City /\ Keeps(x, z)
    BY <1>1
  <2> QED BY <2>1, <2>2, <2>3
<1>6. d.left \in 0..Slices /\ \A n \in 0..(d.left - 1) : n \in 0..Slices
  BY OpsAssumption DEF City
<1>7. \A n \in 1..(d.left - 1) : n \in 0..Slices
  BY <1>6, OpsAssumption
<1>8. 0 \in 0..Slices
  BY OpsAssumption
<1>9. CASE t = "backfill"
  <2>1. Keeps(d, PullDone(d)) /\ Keeps(d, Promoted(d))
    BY <1>1, <1>2
  <2>2. PullDone(Promoted(d)) \in City /\ Keeps(d, PullDone(Promoted(d)))
    BY <1>1, <1>2
  <2>3. Keeps(d, Rebuilt(PullDone(Promoted(d)), v, h))
    BY <1>4, <2>2
  <2> QED BY <1>9, <2>1, <2>2, <2>3 DEF Completed, Interrupted
<1>10. CASE t = "census"
  BY <1>10 DEF Completed, Interrupted, CensusLoaded, City
<1>11. CASE t = "gold"
  BY <1>4, <1>11 DEF Completed, Interrupted
<1>12. CASE t = "hourly"
  <2>1. WithHours(d) \in City /\ Keeps(d, WithHours(d))
    BY DEF WithHours, City
  <2>2. Keeps(d, Stamped(WithHours(d), v))
    BY <1>3, <2>1
  <2> QED BY <1>12, <2>2 DEF Completed, Interrupted
<1>13. CASE t = "history"
  <2>1. ASSUME e \in Completed(t, d, v, h) PROVE Keeps(d, e)
    <3>1. ASSUME NEW l \in Loaded(d, 0) PROVE Keeps(d, Rebuilt(l, v, FALSE))
      BY <1>4, <1>5, <1>8
    <3>2. CASE \E n \in 0..Slices : e \in Loaded(d, n)
      BY <1>5, <3>2
    <3>3. CASE \E l \in Loaded(d, 0) : e = Rebuilt(l, v, FALSE)
      BY <3>1, <3>3
    <3> QED BY <1>7, <1>13, <2>1, <3>2, <3>3 DEF Completed
  <2>2. ASSUME e \in Interrupted(t, d) PROVE Keeps(d, e)
    <3>1. PICK n \in 0..Slices : e \in {d, Promoted(d)} \cup Loaded(d, n)
      BY <1>6, <1>8, <1>13, <2>2 DEF Interrupted
    <3>2. CASE e \in Loaded(d, n)
      BY <1>5, <3>2
    <3>3. CASE e \in {d, Promoted(d)}
      BY <1>1, <3>3
    <3> QED BY <3>1, <3>2, <3>3
  <2> QED BY <1>13, <2>1, <2>2
<1> QED BY <1>9, <1>10, <1>11, <1>12, <1>13 DEF Tasks

\* The loop takes the lowest-ranking step that is left.
LEMMA FirstIsLeast ==
  ASSUME NEW steps \in SUBSET Tasks, steps # {}
  PROVE  /\ First(steps) \in steps
         /\ \A u \in steps \ {First(steps)} : Rank[First(steps)] < Rank[u]
<1>1. \E t \in steps : \A u \in steps : Rank[t] =< Rank[u]
  <2>1. CASE "backfill" \in steps
    BY <2>1 DEF Tasks, Rank
  <2>2. CASE "backfill" \notin steps /\ "census" \in steps
    BY <2>2 DEF Tasks, Rank
  <2>3. CASE "backfill" \notin steps /\ "census" \notin steps /\ "gold" \in steps
    BY <2>3 DEF Tasks, Rank
  <2>4. CASE steps \subseteq {"hourly", "history"} /\ "hourly" \in steps
    BY <2>4 DEF Tasks, Rank
  <2>5. CASE steps = {"history"}
    BY <2>5 DEF Tasks, Rank
  <2> QED BY <2>1, <2>2, <2>3, <2>4, <2>5 DEF Tasks
<1>2. First(steps) \in steps /\ \A u \in steps : Rank[First(steps)] =< Rank[u]
  BY <1>1 DEF First
<1>3. \A t, u \in Tasks : /\ Rank[t] \in Int /\ Rank[u] \in Int
                          /\ Rank[t] = Rank[u] => t = u
  BY DEF Tasks, Rank
<1> QED BY <1>2, <1>3

\* Rank orders the steps strictly.
LEMMA RankOrders ==
  /\ \A t \in Tasks : Rank[t] \in 1..5
  /\ \A t, u \in Tasks : Rank[t] = Rank[u] => t = u
  BY DEF Tasks, Rank

-----------------------------------------------------------------------------
(* Each action keeps the invariant.                                        *)

\* The plan for a city's tables is one the release can carry out.
LEMMA PlanIsSupplied ==
  ASSUME NEW d \in City, NEW v \in Versions
  PROVE  /\ PlanFor(d, v) \in [steps : SUBSET Tasks, fold : {"none", "backfill", "gold"}]
         /\ PlanFor(d, v).steps = Steps(d, v) /\ PlanFor(d, v).fold = FoldInto(d, v)
         /\ "gold" \in Steps(d, v) /\ d.census = "none" => "census" \in Steps(d, v)
         /\ "hourly" \in Steps(d, v) =>
              /\ Steps(d, v) \subseteq {"hourly", "history"}
              /\ d.census # "none" /\ d.snap = v /\ ~d.behind
         /\ FoldInto(d, v) = "backfill" => d.census # "none"
         /\ "history" \in Steps(d, v) => d.pulled
<1>1. FoldInto(d, v) \in {"none", "backfill", "gold"} /\ Steps(d, v) \subseteq Tasks
  BY DEF FoldInto, Steps
<1>2. "gold" \in Steps(d, v) /\ d.census = "none" => "census" \in Steps(d, v)
  BY DEF Steps, NeedsCensus, Tasks
<1>3. ASSUME "hourly" \in Steps(d, v)
      PROVE  /\ Steps(d, v) \subseteq {"hourly", "history"}
             /\ d.census # "none" /\ d.snap = v /\ ~d.behind
  <2>1. FoldInto(d, v) = "none" /\ NeedsHourly(d)
    BY <1>3 DEF Steps
  <2>2. ~NeedsGold(d, v) /\ ~NeedsBackfill(d)
    BY <2>1 DEF FoldInto
  <2>3. ~NeedsCensus(d) /\ d.snap = v /\ ~d.behind
    BY <2>2 DEF NeedsGold, GoldReason
  <2> QED BY <2>2, <2>3 DEF Steps, Tasks, NeedsCensus
<1>4. FoldInto(d, v) = "backfill" => d.census # "none"
  BY DEF FoldInto, NeedsGold, NeedsCensus
<1>5. "history" \in Steps(d, v) => d.pulled
  BY DEF Steps, NeedsHistory
<1> QED BY <1>1, <1>2, <1>3, <1>4, <1>5 DEF PlanFor

\* Nothing runs at first, and no census is loaded.
LEMMA InitKeeps == Init => IInv
<1> SUFFICES ASSUME Init PROVE IInv
  OBVIOUS
<1>1. run = NoRun /\ run.todo = {} /\ run.queue = {} /\ run.step = "none" /\ Idle
  BY DEF Init, NoRun, Idle
<1>2. \A clock \in BOOLEAN, left \in 0..Slices : NewCity(clock, left) \in SoundCity
  BY OpsAssumption DEF NewCity, SoundCity, City, Sound
<1>3. db \in [Cities -> SoundCity]
  BY <1>2 DEF Init
<1>4. TypeOK
  <2>1. db \in [Cities -> City]
    BY <1>3 DEF SoundCity
  <2>2. NoRun \in [version : 0..MaxVersion, forced : BOOLEAN, todo : SUBSET Cities,
              city : Cities \cup {NoCity}, queue : SUBSET Tasks,
              step : Tasks \cup {"none"}, blocks : SUBSET Tasks]
    BY OpsAssumption DEF NoRun
  <2>3. 1 \in Versions
    BY OpsAssumption DEF Versions
  <2> QED BY <1>1, <2>1, <2>2, <2>3 DEF Init, TypeOK, NoPlan, NoResult, Attempt
<1>5. \A c \in Cities : Remaining(c) = {}
  BY <1>1 DEF Remaining
<1>6. InPlan /\ Accounted /\ Cooled
  BY <1>1, <1>5 DEF InPlan, Accounted, Cooled, Init, NoRun, OpsAssumption
<1>7. \A c \in Cities : Supplied(c) /\ Sound(db[c])
  BY <1>3, <1>5 DEF Supplied, SoundCity
<1> QED BY <1>4, <1>6, <1>7 DEF IInv

\* A run begins with every city's plan, as its tables are.
LEMMA StartKeeps ==
  ASSUME IInv, NEW cities \in SUBSET Cities, NEW forced \in BOOLEAN, StartRun(cities, forced)
  PROVE  IInv'
<1> DEFINE todo == {c \in cities : ~Quiet(c)}
<1>1. run' = [NoRun EXCEPT !.version = version, !.forced = forced, !.todo = todo]
  BY DEF StartRun
<1>2. /\ run'.version = version /\ run'.forced = forced /\ run'.todo = todo
      /\ run'.city = NoCity /\ run'.queue = {} /\ run'.step = "none" /\ run'.blocks = {}
  BY <1>1 DEF NoRun
<1>3. /\ db \in [Cities -> City] /\ version \in Versions
      /\ db' = db /\ attempt' = attempt /\ version' = version
  BY DEF IInv, TypeOK, StartRun
<1>4. /\ \A c \in cities : plan'[c] = PlanFor(db[c], version)
      /\ \A c \in Cities \ cities : plan'[c] = NoPlan
  BY DEF StartRun
<1>5. TypeOK'
  <2>1. plan' \in [Cities -> [steps : SUBSET Tasks, fold : {"none", "backfill", "gold"}]]
    <3>1. \A c \in Cities : PlanFor(db[c], version)
                              \in [steps : SUBSET Tasks, fold : {"none", "backfill", "gold"}]
      BY <1>3, PlanIsSupplied
    <3> QED BY <3>1 DEF StartRun, NoPlan
  <2>2. run' \in [version : 0..MaxVersion, forced : BOOLEAN, todo : SUBSET Cities,
              city : Cities \cup {NoCity}, queue : SUBSET Tasks,
              step : Tasks \cup {"none"}, blocks : SUBSET Tasks]
    <3>1. version \in 0..MaxVersion
      BY <1>3, OpsAssumption DEF Versions
    <3> QED BY <1>1, <3>1 DEF NoRun
  <2>3. result' \in [Cities -> [Tasks -> {"none", "done", "skipped", "failed", "blocked"}]]
    BY DEF StartRun, NoResult
  <2> QED BY <1>3, <2>1, <2>2, <2>3 DEF IInv, TypeOK
<1>6. \A c \in Cities : Remaining(c)' = IF c \in todo THEN plan'[c].steps ELSE {}
  BY <1>2, OpsAssumption DEF Remaining
<1>7. \A c \in Cities \ todo : plan'[c].steps = {}
  <2>1. \A c \in cities \ todo : plan'[c].steps = {}
    BY <1>3, <1>4, PlanIsSupplied DEF Quiet
  <2> QED BY <1>4, <2>1 DEF NoPlan
<1>8. InPlan' /\ Cooled'
  BY <1>2, <1>3, OpsAssumption DEF InPlan, Cooled
<1>9. Accounted'
  BY <1>2, <1>6, <1>7 DEF Accounted, CityAccounted
<1>10. \A c \in Cities : Supplied(c)'
  <2> SUFFICES ASSUME NEW c \in todo PROVE Supplied(c)'
    BY <1>6 DEF Supplied
  <2>1. plan'[c].steps = Steps(db[c], version) /\ plan'[c].fold = FoldInto(db[c], version)
    BY <1>3, <1>4, PlanIsSupplied
  <2>2. Remaining(c)' = Steps(db[c], version)
    BY <1>6, <2>1
  <2> QED BY <1>2, <1>3, <2>1, <2>2, PlanIsSupplied DEF Supplied
<1> QED BY <1>3, <1>5, <1>8, <1>9, <1>10 DEF IInv

\* The run turns to its next city.
LEMMA EnterKeeps ==
  ASSUME IInv, NEW c \in Cities, EnterCity(c)
  PROVE  IInv'
<1> DEFINE blocks == IF run.forced THEN {}
                     ELSE {t \in plan[c].steps : HeldBack(attempt[c][t], t, run.version)}
<1>1. /\ run.queue = {} /\ run.step = "none" /\ c \in run.todo
      /\ run' = [run EXCEPT !.todo = @ \ {c}, !.city = c, !.queue = plan[c].steps,
                            !.blocks = blocks]
      /\ UNCHANGED <<db, attempt, version, plan, result>>
  BY DEF EnterCity
<1>2. plan[c].steps \subseteq Tasks /\ blocks \subseteq Tasks
  BY DEF IInv, TypeOK
<1>3. /\ run'.version = run.version /\ run'.forced = run.forced
      /\ run'.todo = run.todo \ {c} /\ run'.city = c /\ run'.queue = plan[c].steps
      /\ run'.step = "none" /\ run'.blocks = blocks
  BY <1>1 DEF IInv, TypeOK
<1>4. ~Idle /\ ~Idle'
  <2>1. NoRun.todo = {} /\ NoRun.city = NoCity
    BY DEF NoRun
  <2>2. run.todo # {} /\ run'.city # NoCity
    BY <1>1, <1>3, OpsAssumption
  <2> QED BY <2>1, <2>2 DEF Idle
<1>5. TypeOK'
  <2>1. run' \in [version : 0..MaxVersion, forced : BOOLEAN, todo : SUBSET Cities,
              city : Cities \cup {NoCity}, queue : SUBSET Tasks,
              step : Tasks \cup {"none"}, blocks : SUBSET Tasks]
    BY <1>1, <1>2 DEF IInv, TypeOK
  <2> QED BY <1>1, <2>1 DEF IInv, TypeOK
<1>6. /\ Remaining(c)' = plan[c].steps /\ Remaining(c) = plan[c].steps
      /\ \A b \in Cities \ {c} : /\ b \notin run.todo => Remaining(b)' = {} /\ Remaining(b) = {}
                                 /\ Remaining(b)' = Remaining(b)
  BY <1>1, <1>3 DEF Remaining
<1>7. InPlan'
  BY <1>1, <1>3, <1>4, <1>6, OpsAssumption DEF InPlan, IInv, Versions
<1>8. Accounted'
  <2>1. \A b \in Cities : CityAccounted(b)' = CityAccounted(b)
    BY <1>1 DEF CityAccounted
  <2>2. plan[c].steps = {} => CityAccounted(c)
    BY DEF CityAccounted
  <2> QED BY <1>1, <1>3, <1>4, <1>6, <2>1, <2>2 DEF Accounted, IInv
<1>9. \A b \in Cities : Supplied(b)'
  BY <1>1, <1>3, <1>6 DEF Supplied, IInv
<1>10. Cooled'
  <2> SUFFICES ASSUME ~run.forced, NEW t \in plan[c].steps,
                      ~HeldBack(attempt[c][t], t, run.version)
               PROVE  attempt[c][t].status \notin {"running", "failed"}
    BY <1>1, <1>3 DEF Cooled
  <2> QED BY DEF HeldBack, NoAttempt
<1> QED BY <1>1, <1>5, <1>7, <1>8, <1>9, <1>10 DEF IInv

\* With a step to take or under way, the run is at a city of the plan.
LEMMA AtCity ==
  ASSUME IInv, run.queue # {} \/ run.step # "none"
  PROVE  /\ run.city \in Cities /\ run.city \notin run.todo /\ ~Idle
         /\ Remaining(run.city) = run.queue \cup ({run.step} \ {"none"})
         /\ run.queue \subseteq plan[run.city].steps
         /\ run.step # "none" => run.step \in plan[run.city].steps \ run.queue
         /\ plan[run.city].steps \subseteq Tasks
<1>1. run.city \in Cities /\ run.city \notin run.todo
  BY DEF IInv, InPlan, TypeOK
<1>2. ~Idle
  BY DEF Idle, NoRun
<1>3. Remaining(run.city) = run.queue \cup ({run.step} \ {"none"})
  BY <1>1 DEF Remaining
<1>4. Remaining(run.city) \subseteq plan[run.city].steps
  BY <1>1 DEF IInv, InPlan
<1>5. plan[run.city].steps \subseteq Tasks
  BY <1>1 DEF IInv, TypeOK
<1>6. run.step # "none" => run.step \notin run.queue
  BY <1>3, <1>4, <1>5, RankOrders DEF IInv, InPlan
<1> QED BY <1>1, <1>2, <1>3, <1>4, <1>5, <1>6

\* A step on cooldown ends its city's chain, with the rest blocked by it.
LEMMA SkipKeeps ==
  ASSUME IInv, SkipStep
  PROVE  IInv'
<1>0. PICK c \in Cities, t \in Tasks : c = run.city /\ t = First(run.queue)
  BY AtCity, FirstIsLeast DEF SkipStep, IInv, TypeOK
<1>1. run.queue # {} /\ run.step = "none" /\ run.queue \in SUBSET Tasks
  BY DEF SkipStep, IInv, TypeOK
<1>2. /\ run' = [run EXCEPT !.queue = {}]
      /\ result' = Reported(t, "skipped", run.queue \ {t})
      /\ UNCHANGED <<db, attempt, version, plan>>
  BY <1>0 DEF SkipStep
<1>3. /\ c \in Cities /\ c \notin run.todo /\ Remaining(c) = run.queue
      /\ run.queue \subseteq plan[c].steps /\ plan[c].steps \subseteq Tasks
  BY <1>0, <1>1, AtCity
<1>4. /\ t \in run.queue
      /\ \A u \in run.queue \ {t} : Rank[t] < Rank[u]
  BY <1>0, <1>1, FirstIsLeast
<1>5. /\ run'.version = run.version /\ run'.forced = run.forced
      /\ run'.todo = run.todo /\ run'.city = c /\ run'.queue = {}
      /\ run'.step = "none" /\ run'.blocks = run.blocks
  BY <1>0, <1>1, <1>2 DEF IInv, TypeOK
<1>6. ~Idle
  BY <1>1, AtCity
<1>7. /\ \A b \in Cities \ {c} : result'[b] = result[b]
      /\ \A u \in Tasks : result'[c][u] = IF u = t THEN "skipped"
                                          ELSE IF u \in run.queue THEN "blocked" ELSE result[c][u]
      /\ result' \in [Cities -> [Tasks -> {"none", "done", "skipped", "failed", "blocked"}]]
  BY <1>0, <1>2, <1>3 DEF Reported, IInv, TypeOK
<1>8. TypeOK'
  <2>1. run' \in [version : 0..MaxVersion, forced : BOOLEAN, todo : SUBSET Cities,
              city : Cities \cup {NoCity}, queue : SUBSET Tasks,
              step : Tasks \cup {"none"}, blocks : SUBSET Tasks]
    BY <1>2 DEF IInv, TypeOK
  <2> QED BY <1>2, <1>7, <2>1 DEF IInv, TypeOK
<1>9. /\ Remaining(c)' = {}
      /\ \A b \in Cities \ {c} : Remaining(b)' = Remaining(b)
  BY <1>0, <1>1, <1>2, <1>3, <1>5 DEF Remaining
<1>10. InPlan' /\ Cooled'
  BY <1>2, <1>5, <1>6, <1>9 DEF InPlan, IInv, Cooled, Idle
<1>11. Accounted'
  <2>1. ASSUME NEW b \in Cities \ {c} PROVE CityAccounted(b)' <=> CityAccounted(b)
    <3>1. plan'[b] = plan[b] /\ result'[b] = result[b]
      BY <1>2, <1>7
    <3> QED BY <3>1 DEF CityAccounted
  <2>2. \A u \in plan[c].steps \ run.queue, w \in run.queue :
          Rank[u] < Rank[w] /\ result[c][u] = "done"
    BY <1>3, <1>6 DEF IInv, Accounted
  <2>3. CityAccounted(c)'
    <3> SUFFICES ASSUME NEW u \in plan[c].steps
                 PROVE  /\ result'[c][u] # "none"
                        /\ result'[c][u] = "blocked" <=>
                             \E w \in plan[c].steps :
                               Rank[w] < Rank[u] /\ result'[c][w] \in {"failed", "skipped"}
      <4>1. plan'[c] = plan[c]
        BY <1>2
      <4> QED BY <4>1 DEF CityAccounted
    <3>1. \A w \in plan[c].steps : result'[c][w] \in {"failed", "skipped"} <=> w = t
      BY <1>3, <1>4, <1>7, <2>2
    <3>2. result'[c][u] = "blocked" <=> u \in run.queue \ {t}
      BY <1>3, <1>4, <1>7, <2>2
    <3>3. u \in run.queue \ {t} <=> Rank[t] < Rank[u]
      BY <1>3, <1>4, <2>2, RankOrders
    <3>4. result'[c][u] # "none"
      BY <1>3, <1>4, <1>7, <2>2
    <3> QED BY <1>3, <1>4, <3>1, <3>2, <3>3, <3>4
  <2> SUFFICES ASSUME NEW b \in Cities \ run.todo
               PROVE  /\ \A u \in plan'[b].steps \ Remaining(b)', w \in Remaining(b)' :
                           Rank[u] < Rank[w] /\ result'[b][u] = "done"
                      /\ Remaining(b)' = {} => CityAccounted(b)'
    BY <1>5 DEF Accounted
  <2>4. CASE b = c
    BY <1>9, <2>3, <2>4
  <2>5. CASE b # c
    <3>1. /\ \A u \in plan[b].steps \ Remaining(b), w \in Remaining(b) :
               Rank[u] < Rank[w] /\ result[b][u] = "done"
          /\ Remaining(b) = {} => CityAccounted(b)
      BY <1>6 DEF IInv, Accounted
    <3>2. Remaining(b)' = Remaining(b) /\ result'[b] = result[b] /\ plan' = plan
      BY <1>2, <1>7, <1>9, <2>5
    <3> QED BY <2>1, <2>5, <3>1, <3>2
  <2> QED BY <2>4, <2>5
<1>12. \A b \in Cities : Supplied(b)'
  BY <1>2, <1>5, <1>9 DEF Supplied, IInv
<1> QED BY <1>2, <1>8, <1>10, <1>11, <1>12 DEF IInv

\* The first step left is taken; what remains is the same.
LEMMA TakeKeeps ==
  ASSUME IInv, StartStep
  PROVE  IInv'
<1> DEFINE t == First(run.queue)
           c == run.city
           row == [status |-> "running", version |-> run.version]
<1>1. run.queue # {} /\ run.step = "none" /\ run.queue \in SUBSET Tasks
  BY DEF StartStep, IInv, TypeOK
<1>2. /\ run' = [run EXCEPT !.step = t, !.queue = @ \ {t}]
      /\ attempt' = [attempt EXCEPT ![c][t] = row]
      /\ UNCHANGED <<db, version, plan, result>>
  BY DEF StartStep
<1>3. /\ c \in Cities /\ c \notin run.todo /\ Remaining(c) = run.queue /\ ~Idle
      /\ run.queue \subseteq plan[c].steps /\ plan[c].steps \subseteq Tasks
  BY <1>1, AtCity
<1>4. /\ t \in run.queue /\ t # "none"
      /\ \A u \in run.queue \ {t} : Rank[t] < Rank[u]
  BY <1>1, FirstIsLeast DEF Tasks
<1>5. /\ run'.version = run.version /\ run'.forced = run.forced
      /\ run'.todo = run.todo /\ run'.city = c /\ run'.queue = run.queue \ {t}
      /\ run'.step = t /\ run'.blocks = run.blocks
  BY <1>1, <1>2 DEF IInv, TypeOK
<1>6. ~Idle'
  BY <1>4, <1>5 DEF Idle, NoRun
<1>7. /\ attempt' \in [Cities -> [Tasks -> Attempt]]
      /\ \A u \in Tasks \ {t} : attempt'[c][u] = attempt[c][u]
  <2>1. row \in Attempt
    BY <1>3 DEF IInv, InPlan, Attempt
  <2>2. attempt[c] \in [Tasks -> Attempt] /\ attempt \in [Cities -> [Tasks -> Attempt]]
    BY <1>3 DEF IInv, TypeOK
  <2>3. attempt' = [attempt EXCEPT ![c] = [attempt[c] EXCEPT ![t] = row]]
    BY <1>2
  <2>4. [attempt[c] EXCEPT ![t] = row] \in [Tasks -> Attempt]
    BY <2>1, <2>2
  <2> QED BY <1>3, <2>2, <2>3, <2>4
<1>8. TypeOK'
  <2>1. run' \in [version : 0..MaxVersion, forced : BOOLEAN, todo : SUBSET Cities,
              city : Cities \cup {NoCity}, queue : SUBSET Tasks,
              step : Tasks \cup {"none"}, blocks : SUBSET Tasks]
    <3>1. t \in Tasks /\ run.queue \ {t} \in SUBSET Tasks
      BY <1>1, <1>4
    <3> QED BY <1>2, <3>1 DEF IInv, TypeOK
  <2> QED BY <1>2, <1>7, <2>1 DEF IInv, TypeOK
<1>9. \A b \in Cities : Remaining(b)' = Remaining(b)
  BY <1>1, <1>2, <1>3, <1>4, <1>5 DEF Remaining
<1>10. InPlan'
  BY <1>2, <1>3, <1>4, <1>5, <1>9 DEF InPlan, IInv
<1>11. Cooled'
  BY <1>1, <1>5, <1>7 DEF Cooled, IInv
<1>12. Accounted'
  <2>1. \A b \in Cities : CityAccounted(b)' = CityAccounted(b)
    BY <1>2 DEF CityAccounted
  <2> QED BY <1>2, <1>3, <1>5, <1>9, <2>1 DEF Accounted, IInv
<1>13. \A b \in Cities : Supplied(b)'
  BY <1>2, <1>5, <1>9 DEF Supplied, IInv
<1> QED BY <1>2, <1>8, <1>10, <1>11, <1>12, <1>13 DEF IInv

\* A step ends, its city's tables sound: done, or failed with the rest blocked.
LEMMA EndsKeeps ==
  ASSUME IInv, run.step # "none",
         NEW e \in SoundCity, db' = [db EXCEPT ![run.city] = e],
         db[run.city].census # "none" => e.census # "none",
         db[run.city].pulled => e.pulled,
         NEW status \in {"succeeded", "failed"}, Closed(status),
         UNCHANGED <<version, plan>>,
         \/ /\ run' = [run EXCEPT !.step = "none"]
            /\ result' = Reported(run.step, "done", {})
            /\ run.step = "census" => e.census # "none"
         \/ /\ run' = [run EXCEPT !.step = "none", !.queue = {}]
            /\ result' = Reported(run.step, "failed", run.queue)
  PROVE  IInv'
<1>0. PICK c \in Cities, t \in Tasks : c = run.city /\ t = run.step
  BY AtCity DEF IInv, TypeOK
<1>1. run.queue \in SUBSET Tasks
  BY DEF IInv, TypeOK
<1>2. /\ c \in Cities /\ c \notin run.todo /\ Remaining(c) = run.queue \cup {t} /\ ~Idle
      /\ run.queue \subseteq plan[c].steps /\ plan[c].steps \subseteq Tasks
      /\ t \in plan[c].steps /\ t \notin run.queue
  BY <1>0, AtCity
<1>3. \A u \in run.queue : Rank[t] < Rank[u]
  BY <1>0 DEF IInv, InPlan
<1>4. /\ run'.version = run.version /\ run'.forced = run.forced
      /\ run'.todo = run.todo /\ run'.city = c
      /\ run'.step = "none" /\ run'.blocks = run.blocks
      /\ run'.queue = run.queue \/ run'.queue = {}
  BY <1>0, <1>1 DEF IInv, TypeOK
<1>5. ~Idle'
  BY <1>2, <1>4, OpsAssumption DEF Idle, NoRun
<1>6. /\ attempt' \in [Cities -> [Tasks -> Attempt]]
      /\ \A u \in Tasks \ {t} : attempt'[c][u] = attempt[c][u]
  <2>1. attempt[c] \in [Tasks -> Attempt] /\ attempt \in [Cities -> [Tasks -> Attempt]]
    BY DEF IInv, TypeOK
  <2>2. CASE attempt[c][t] = NoAttempt
    BY <1>0, <2>1, <2>2 DEF Closed
  <2>3. CASE attempt[c][t] # NoAttempt
    <3> DEFINE row == [attempt[c][t] EXCEPT !.status = status]
    <3>1. row \in Attempt
      BY <2>1, <2>3 DEF Attempt
    <3>2. attempt' = [attempt EXCEPT ![c] = [attempt[c] EXCEPT ![t] = row]]
      BY <1>0, <2>3 DEF Closed
    <3>3. [attempt[c] EXCEPT ![t] = row] \in [Tasks -> Attempt]
      BY <2>1, <3>1
    <3> HIDE DEF row
    <3> QED BY <2>1, <3>2, <3>3
  <2> QED BY <2>2, <2>3
<1>7. /\ db' \in [Cities -> City] /\ \A b \in Cities : Sound(db[b])'
      /\ db'[c] = e /\ \A b \in Cities \ {c} : db'[b] = db[b]
  BY <1>0 DEF IInv, TypeOK, SoundCity
<1>8. /\ \A b \in Cities \ {c} : result'[b] = result[b]
      /\ result' \in [Cities -> [Tasks -> {"none", "done", "skipped", "failed", "blocked"}]]
  <2>1. PICK how \in {"done", "failed"}, rest \in SUBSET Tasks : result' = Reported(t, how, rest)
    BY <1>0, <1>1
  <2>2. result \in [Cities -> [Tasks -> {"none", "done", "skipped", "failed", "blocked"}]]
    BY DEF IInv, TypeOK
  <2> DEFINE reported == [u \in Tasks |-> IF u = t THEN how ELSE IF u \in rest THEN "blocked"
                                          ELSE result[c][u]]
  <2>3. reported \in [Tasks -> {"none", "done", "skipped", "failed", "blocked"}]
    BY <2>2
  <2>4. result' = [result EXCEPT ![c] = reported]
    BY <1>0, <2>1 DEF Reported
  <2> HIDE DEF reported
  <2> QED BY <2>2, <2>3, <2>4
<1>9. TypeOK'
  <2>1. run' \in [version : 0..MaxVersion, forced : BOOLEAN, todo : SUBSET Cities,
              city : Cities \cup {NoCity}, queue : SUBSET Tasks,
              step : Tasks \cup {"none"}, blocks : SUBSET Tasks]
    BY DEF IInv, TypeOK
  <2> QED BY <1>6, <1>7, <1>8, <2>1 DEF IInv, TypeOK
<1>10. /\ Remaining(c)' = run'.queue
       /\ \A b \in Cities \ {c} : Remaining(b)' = Remaining(b)
  BY <1>0, <1>2, <1>4 DEF Remaining
<1>11. InPlan'
  BY <1>2, <1>4, <1>5, <1>10, OpsAssumption DEF InPlan, IInv
<1>12. Cooled'
  BY <1>0, <1>1, <1>2, <1>4, <1>6 DEF Cooled, IInv
<1>13. \A u \in plan[c].steps \ Remaining(c), w \in Remaining(c) :
         Rank[u] < Rank[w] /\ result[c][u] = "done"
  BY <1>2 DEF IInv, Accounted
<1>14. /\ \A u \in plan[c].steps \ run'.queue, w \in run'.queue :
            Rank[u] < Rank[w] /\ result'[c][u] = "done"
       /\ run'.queue = {} => CityAccounted(c)'
  <2>1. plan'[c] = plan[c] /\ result \in [Cities -> [Tasks -> {"none", "done", "skipped", "failed", "blocked"}]]
    BY DEF IInv, TypeOK
  <2>2. ASSUME \A u \in plan[c].steps \ run'.queue : result'[c][u] = "done", run'.queue = {}
        PROVE  CityAccounted(c)'
    BY <2>1, <2>2 DEF CityAccounted
  <2>3. CASE run'.queue = run.queue /\ result' = Reported(run.step, "done", {})
    <3>1. \A u \in Tasks : result'[c][u] = IF u = t THEN "done" ELSE result[c][u]
      BY <1>0, <2>1, <2>3 DEF Reported
    <3>2. \A u \in plan[c].steps \ run'.queue : result'[c][u] = "done"
      <4>1. \A u \in plan[c].steps \ Remaining(c) : result[c][u] = "done"
        BY <1>2, <1>13
      <4> QED BY <1>2, <2>3, <3>1, <4>1
    <3>3. \A u \in plan[c].steps \ run'.queue, w \in run'.queue : Rank[u] < Rank[w]
      BY <1>2, <1>3, <1>13, <2>3
    <3> QED BY <2>2, <3>2, <3>3
  <2>4. CASE run'.queue = {} /\ result' = Reported(run.step, "failed", run.queue)
    <3>1. \A u \in Tasks : result'[c][u] = IF u = t THEN "failed"
                                          ELSE IF u \in run.queue THEN "blocked" ELSE result[c][u]
      BY <1>0, <2>1, <2>4 DEF Reported
    <3>2. \A w \in plan[c].steps : result'[c][w] \in {"failed", "skipped"} <=> w = t
      BY <1>2, <1>13, <3>1
    <3>3. \A u \in plan[c].steps : result'[c][u] = "blocked" <=> Rank[t] < Rank[u]
      <4>1. \A u \in plan[c].steps \ Remaining(c) : Rank[u] < Rank[t] /\ result'[c][u] = "done"
        BY <1>2, <1>13, <3>1
      <4> QED BY <1>2, <1>3, <3>1, <4>1, RankOrders
    <3>4. \A u \in plan[c].steps : result'[c][u] # "none"
      BY <1>2, <1>13, <3>1
    <3>5. CityAccounted(c)'
      BY <1>2, <2>1, <3>2, <3>3, <3>4 DEF CityAccounted
    <3> QED BY <2>4, <3>5
  <2> QED BY <2>3, <2>4 DEF IInv, TypeOK
<1>15. Accounted'
  <2> SUFFICES ASSUME NEW b \in Cities \ run.todo
               PROVE  /\ \A u \in plan'[b].steps \ Remaining(b)', w \in Remaining(b)' :
                           Rank[u] < Rank[w] /\ result'[b][u] = "done"
                      /\ Remaining(b)' = {} => CityAccounted(b)'
    BY <1>4 DEF Accounted
  <2>1. CASE b = c
    BY <1>10, <1>14, <2>1
  <2>2. CASE b # c
    <3>1. /\ \A u \in plan[b].steps \ Remaining(b), w \in Remaining(b) :
               Rank[u] < Rank[w] /\ result[b][u] = "done"
          /\ Remaining(b) = {} => CityAccounted(b)
      BY <1>2 DEF IInv, Accounted
    <3>2. Remaining(b)' = Remaining(b) /\ result'[b] = result[b] /\ plan' = plan
      BY <1>8, <1>10, <2>2
    <3>3. CityAccounted(b)' <=> CityAccounted(b)
      BY <3>2 DEF CityAccounted
    <3> QED BY <3>1, <3>2, <3>3
  <2> QED BY <2>1, <2>2
<1>16. \A b \in Cities : Supplied(b)'
  <2>1. ASSUME NEW b \in Cities \ {c} PROVE Supplied(b)'
    BY <1>4, <1>7, <1>10, <2>1 DEF Supplied, IInv
  <2>2. Supplied(c)'
    <3>1. CASE run'.queue = {}
      BY <1>10, <3>1 DEF Supplied
    <3>2. CASE run'.queue = run.queue /\ (t = "census" => e.census # "none")
      <4>1. "hourly" \notin run.queue
        <5> SUFFICES ASSUME "hourly" \in run.queue PROVE FALSE
          OBVIOUS
        <5>1. t = "history"
          BY <1>2 DEF IInv, Supplied
        <5> QED BY <1>3, <5>1 DEF Rank
      <4>2. Supplied(c)
        BY DEF IInv
      <4> QED BY <1>0, <1>2, <1>7, <1>10, <3>2, <4>1, <4>2 DEF Supplied
    <3> QED BY <1>0, <3>1, <3>2 DEF IInv, TypeOK
  <2> QED BY <2>1, <2>2
<1> QED BY <1>7, <1>9, <1>11, <1>12, <1>15, <1>16 DEF IInv

\* The run is over, or its process gone; a command that was under way has left
\* its city sound.
LEMMA GoneKeeps ==
  ASSUME IInv, run' = NoRun, plan' = [c \in Cities |-> NoPlan],
         UNCHANGED <<attempt, version>>,
         result' \in [Cities -> [Tasks -> {"none", "done", "skipped", "failed", "blocked"}]],
         \/ db' = db
         \/ \E b \in Cities, e \in SoundCity : db' = [db EXCEPT ![b] = e]
  PROVE  IInv'
<1>1. run'.todo = {} /\ run'.city = NoCity /\ run'.queue = {} /\ run'.step = "none" /\ Idle'
  BY DEF NoRun, Idle
<1>2. db' \in [Cities -> City] /\ \A b \in Cities : Sound(db[b])'
  BY DEF IInv, TypeOK, SoundCity
<1>3. TypeOK'
  <2>1. NoRun \in [version : 0..MaxVersion, forced : BOOLEAN, todo : SUBSET Cities,
              city : Cities \cup {NoCity}, queue : SUBSET Tasks,
              step : Tasks \cup {"none"}, blocks : SUBSET Tasks]
    BY OpsAssumption DEF NoRun
  <2> QED BY <1>2, <2>1 DEF IInv, TypeOK, NoPlan
<1>4. \A b \in Cities : Remaining(b)' = {}
  BY <1>1 DEF Remaining
<1>5. InPlan' /\ Accounted' /\ Cooled'
  BY <1>1, <1>4, OpsAssumption DEF InPlan, Accounted, Cooled
<1>6. \A b \in Cities : Supplied(b)'
  BY <1>4 DEF Supplied
<1> QED BY <1>2, <1>3, <1>5, <1>6 DEF IInv

\* Between runs a city's tables may change, as long as they stay sound.
LEMMA IdleKeeps ==
  ASSUME IInv, Idle, UNCHANGED <<attempt, version, plan, run>>,
         NEW c \in Cities, NEW e \in SoundCity, db' = [db EXCEPT ![c] = e],
         result' = [result EXCEPT ![c] = NoResult]
  PROVE  IInv'
<1>1. run.todo = {} /\ run.city = NoCity /\ run.queue = {} /\ run.step = "none" /\ Idle'
  BY DEF NoRun, Idle
<1>2. db' \in [Cities -> City] /\ \A b \in Cities : Sound(db[b])'
  BY DEF IInv, TypeOK, SoundCity
<1>3. TypeOK'
  BY <1>2 DEF IInv, TypeOK, NoResult
<1>4. \A b \in Cities : Remaining(b)' = {}
  BY <1>1 DEF Remaining
<1>5. InPlan' /\ Accounted' /\ Cooled'
  BY <1>1, <1>4, OpsAssumption DEF InPlan, Accounted, Cooled
<1>6. \A b \in Cities : Supplied(b)'
  BY <1>4 DEF Supplied
<1> QED BY <1>2, <1>3, <1>5, <1>6 DEF IInv

\* A command outside ops leaves its city sound.
LEMMA CommandKeeps ==
  ASSUME IInv, NEW c \in Cities, NEW outcomes \in SUBSET SoundCity, Command(c, outcomes)
  PROVE  IInv'
<1>1. PICK e \in outcomes : db' = [db EXCEPT ![c] = e]
  BY DEF Command
<1> QED BY <1>1, IdleKeeps DEF Command

\* A release changes what is missing, not what a run under way relies on.
LEMMA DeployKeeps ==
  ASSUME IInv, Deploy
  PROVE  IInv'
<1>1. PICK lost \in {"built", "old", "none"} :
        db' = [c \in Cities |-> IF db[c].hours = "built"
                                THEN [db[c] EXCEPT !.hours = lost] ELSE db[c]]
  BY DEF Deploy
<1>2. UNCHANGED <<attempt, plan, run, result>> /\ version' \in Versions
  BY DEF Deploy
<1>3. ASSUME NEW c \in Cities
      PROVE  /\ db'[c] \in City /\ Sound(db[c])'
             /\ db'[c].census = db[c].census /\ db'[c].snap = db[c].snap
             /\ db'[c].behind = db[c].behind /\ db'[c].pulled = db[c].pulled
  <2>1. db[c] \in City /\ Sound(db[c])
    BY DEF IInv, TypeOK
  <2>2. db'[c] = db[c] \/ db'[c] = [db[c] EXCEPT !.hours = lost]
    BY <1>1
  <2> QED BY <2>1, <2>2 DEF City, Sound
<1>4. TypeOK'
  <2>1. db' \in [Cities -> City]
    BY <1>1, <1>3
  <2> QED BY <1>2, <2>1 DEF IInv, TypeOK
<1>5. \A c \in Cities : Remaining(c)' = Remaining(c)
  BY <1>2 DEF Remaining
<1>6. InPlan' /\ Cooled'
  <2>1. Remaining(run.city)' = Remaining(run.city)
    BY <1>2 DEF Remaining
  <2> QED BY <1>2, <2>1 DEF IInv, InPlan, Cooled, Idle
<1>7. Accounted'
  <2>1. \A c \in Cities : CityAccounted(c)' <=> CityAccounted(c)
    BY <1>2 DEF CityAccounted
  <2> QED BY <1>2, <1>5, <2>1 DEF IInv, Accounted, Idle
<1>8. \A c \in Cities : Supplied(c)'
  BY <1>2, <1>3, <1>5 DEF IInv, Supplied
<1> QED BY <1>3, <1>4, <1>6, <1>7, <1>8 DEF IInv

\* The end of a cooldown only lets more be taken.
LEMMA ForgetKeeps ==
  ASSUME IInv, NEW c \in Cities, NEW t \in Tasks, Forget(c, t)
  PROVE  IInv'
<1>1. UNCHANGED <<db, version, plan, run, result>>
  BY DEF Forget
<1>2. /\ attempt' \in [Cities -> [Tasks -> Attempt]]
      /\ \A b \in Cities, u \in Tasks : attempt'[b][u] \in {attempt[b][u], NoAttempt}
  <2>1. attempt[c] \in [Tasks -> Attempt] /\ attempt \in [Cities -> [Tasks -> Attempt]]
    BY DEF IInv, TypeOK
  <2>2. [attempt[c] EXCEPT ![t] = NoAttempt] \in [Tasks -> Attempt]
    BY <2>1 DEF Attempt
  <2>3. attempt' = [attempt EXCEPT ![c] = [attempt[c] EXCEPT ![t] = NoAttempt]]
    BY DEF Forget
  <2> QED BY <2>1, <2>2, <2>3
<1>3. TypeOK'
  BY <1>1, <1>2 DEF IInv, TypeOK
<1>4. InPlan'
  BY <1>1 DEF IInv, InPlan, Idle, Remaining
<1>5. Cooled'
  <2> SUFFICES ASSUME ~run.forced, NEW u \in run.queue \ run.blocks
               PROVE  attempt'[run.city][u].status \notin {"running", "failed"}
    BY <1>1 DEF Cooled
  <2>1. run.city \in Cities /\ u \in Tasks
    BY AtCity DEF IInv, TypeOK
  <2>2. attempt[run.city][u].status \notin {"running", "failed"}
    BY DEF IInv, Cooled
  <2> QED BY <1>2, <2>1, <2>2 DEF NoAttempt
<1>6. Accounted' /\ \A b \in Cities : Supplied(b)' /\ Sound(db[b])'
  BY <1>1 DEF IInv, Accounted, CityAccounted, Supplied, Remaining, Idle
<1> QED BY <1>3, <1>4, <1>5, <1>6 DEF IInv

\* The step under way ends, or the process does.
LEMMA RunningKeeps ==
  ASSUME IInv, FinishStep \/ BackfillBlocked \/ FailStep \/ EndRun \/ Kill
  PROVE  IInv'
<1> DEFINE c == run.city
<1>1. db \in [Cities -> SoundCity]
  BY DEF IInv, TypeOK, SoundCity
<1>2. ASSUME run.step # "none"
      PROVE  /\ c \in Cities /\ run.step \in Tasks /\ run.version \in Versions
             /\ db[c] \in SoundCity
             /\ Completed(run.step, db[c], run.version, Folded) \subseteq SoundCity
             /\ Interrupted(run.step, db[c]) \subseteq SoundCity
             /\ \A e \in Completed(run.step, db[c], run.version, Folded)
                         \cup Interrupted(run.step, db[c]) :
                  /\ db[c].census # "none" => e.census # "none"
                  /\ db[c].pulled => e.pulled
             /\ \A e \in Completed(run.step, db[c], run.version, Folded) :
                  run.step = "census" => e.census # "none"
  <2>1. c \in Cities /\ run.step \in Tasks /\ run.version \in Versions
    BY <1>2, AtCity DEF IInv, InPlan, TypeOK
  <2>2. db[c] \in SoundCity /\ db[c] \in City /\ Folded \in BOOLEAN
    BY <1>1, <2>1 DEF SoundCity, Folded
  <2> QED BY <2>1, <2>2, CommandsKeep, CommandsSupply
<1>3. CASE FinishStep
  <2>1. PICK e \in Completed(run.step, db[c], run.version, Folded) : db' = [db EXCEPT ![c] = e]
    BY <1>3 DEF FinishStep
  <2>2. run.step # "none" /\ Closed("succeeded") /\ UNCHANGED <<version, plan>>
        /\ run' = [run EXCEPT !.step = "none"] /\ result' = Reported(run.step, "done", {})
    BY <1>3 DEF FinishStep
  <2> QED BY <1>2, <2>1, <2>2, EndsKeeps
<1>4. CASE BackfillBlocked
  <2>1. run.step = "backfill" /\ Closed("succeeded") /\ UNCHANGED <<db, version, plan>>
        /\ run' = [run EXCEPT !.step = "none"] /\ result' = Reported("backfill", "done", {})
    BY <1>4 DEF BackfillBlocked
  <2>2. db[c] \in SoundCity /\ db' = [db EXCEPT ![c] = db[c]]
    BY <1>1, <1>2, <2>1
  <2> QED BY <2>1, <2>2, EndsKeeps
<1>5. CASE FailStep
  <2>1. PICK e \in Interrupted(run.step, db[c]) : db' = [db EXCEPT ![c] = e]
    BY <1>5 DEF FailStep
  <2>2. run.step # "none" /\ Closed("failed") /\ UNCHANGED <<version, plan>>
        /\ run' = [run EXCEPT !.step = "none", !.queue = {}]
        /\ result' = Reported(run.step, "failed", run.queue)
    BY <1>5 DEF FailStep
  <2> QED BY <1>2, <2>1, <2>2, EndsKeeps
<1>6. CASE EndRun
  BY <1>6, GoneKeeps DEF EndRun, IInv, TypeOK
<1>7. CASE Kill
  <2>1. result' \in [Cities -> [Tasks -> {"none", "done", "skipped", "failed", "blocked"}]]
    BY <1>7 DEF Kill, NoResult
  <2>2. db' = db \/ \E b \in Cities, e \in SoundCity : db' = [db EXCEPT ![b] = e]
    BY <1>2, <1>7 DEF Kill
  <2> QED BY <1>7, <2>1, <2>2, GoneKeeps DEF Kill
<1> QED BY <1>3, <1>4, <1>5, <1>6, <1>7

\* What happens to a city outside ops keeps its tables sound.
LEMMA OutsideKeeps ==
  ASSUME IInv, NEW c \in Cities, Incremental(c) \/ WeeklyHourly(c) \/ CensusByHand(c)
  PROVE  IInv'
<1>1. db[c] \in SoundCity /\ version \in Versions
  BY DEF IInv, TypeOK, SoundCity
<1>2. CASE Incremental(c)
  <2> DEFINE completed == {PullDone(db[c]), PullDone(Promoted(db[c]))}
  <2>1. Promoted(db[c]) \in SoundCity /\ completed \subseteq SoundCity
    BY <1>1, PullKeeps
  <2>2. {Promoted(db[c])} \cup completed \cup {Refreshed(d, version) : d \in completed}
          \in SUBSET SoundCity
    BY <1>1, <2>1, RefreshKeeps
  <2> QED BY <1>2, <2>2, CommandKeeps DEF Incremental
<1>3. CASE WeeklyHourly(c)
  <2>1. Completed("hourly", db[c], version, FALSE) \in SUBSET SoundCity
    BY <1>1, CommandsKeep DEF Tasks
  <2> QED BY <1>3, <2>1, CommandKeeps DEF WeeklyHourly
<1>4. CASE CensusByHand(c)
  <2>1. Completed("census", db[c], version, FALSE)
          \cup (Interrupted("census", db[c]) \ {db[c]}) \in SUBSET SoundCity
    BY <1>1, CommandsKeep DEF Tasks
  <2> QED BY <1>4, <2>1, CommandKeeps DEF CensusByHand
<1> QED BY <1>2, <1>3, <1>4

\* Every step, of ops or of anything else, keeps the invariant.
LEMMA NextKeeps == IInv /\ [Next]_vars => IInv'
<1> SUFFICES ASSUME IInv, [Next]_vars PROVE IInv'
  OBVIOUS
<1>1. CASE UNCHANGED vars
  <2>1. UNCHANGED <<db, attempt, version, plan, run, result>>
    BY <1>1 DEF vars
  <2>2. TypeOK' /\ \A c \in Cities : Sound(db[c])'
    BY <2>1 DEF IInv, TypeOK
  <2>3. /\ \A c \in Cities : Remaining(c)' = Remaining(c) /\ CityAccounted(c)' = CityAccounted(c)
        /\ Idle' = Idle
    BY <2>1 DEF Remaining, CityAccounted, Idle
  <2>4. InPlan' /\ Cooled'
    BY <2>1 DEF IInv, InPlan, Cooled, Idle, Remaining
  <2>5. Accounted' /\ \A c \in Cities : Supplied(c)'
    BY <2>1, <2>3 DEF IInv, Accounted, Supplied
  <2> QED BY <2>2, <2>4, <2>5 DEF IInv
<1>2. ASSUME NEW cities \in SUBSET Cities, NEW forced \in BOOLEAN, StartRun(cities, forced)
      PROVE  IInv'
  BY <1>2, StartKeeps
<1>3. CASE StartTimer \/ StartByHand
  BY <1>2, <1>3 DEF StartTimer, StartByHand
<1>4. CASE \E c \in Cities : EnterCity(c)
  BY <1>4, EnterKeeps
<1>5. CASE Step \/ Kill
  BY <1>5, SkipKeeps, TakeKeeps, RunningKeeps DEF Step
<1>6. CASE \E c \in Cities : Incremental(c) \/ WeeklyHourly(c) \/ CensusByHand(c)
  BY <1>6, OutsideKeeps
<1>7. CASE Deploy
  BY <1>7, DeployKeeps
<1>8. CASE \E c \in Cities, t \in Tasks : Forget(c, t)
  BY <1>8, ForgetKeeps
<1>9. CASE NothingToDo
  BY <1>1, <1>9 DEF NothingToDo
<1> QED BY <1>1, <1>3, <1>4, <1>5, <1>6, <1>7, <1>8, <1>9 DEF Next

\* The invariant holds always.
LEMMA Invariance == Spec => []IInv
  BY InitKeeps, NextKeeps, PTL DEF Spec

-----------------------------------------------------------------------------
(* The properties.                                                         *)

\* converge: its loop never leaves its plan, and the ledger and report hold
\* only what their columns allow.
THEOREM TypeCorrect == Spec => []TypeOK
<1>1. IInv => TypeOK
  BY DEF IInv
<1> QED BY <1>1, Invariance, PTL

\* converge: whatever happens to one city, every other one's steps are taken,
\* skipped, failed or blocked on their own account.
THEOREM CitiesAreIndependent == Spec => []OthersGoOn
<1>1. IInv => OthersGoOn
  <2> SUFFICES ASSUME IInv, NEW c \in Cities, Through(c) PROVE CityAccounted(c)
    BY DEF OthersGoOn, CityAccounted
  <2>1. ~Idle /\ c \notin run.todo /\ Remaining(c) = {}
    BY DEF Through, Remaining
  <2> QED BY <2>1 DEF IInv, Accounted
<1> QED BY <1>1, Invariance, PTL

\* plan_from_state, converge: no step runs before what it builds on, in
\* whatever order failures, cooldowns, kills and releases come.
THEOREM StepsAreInOrder == Spec => []DependencyOrder
<1>1. IInv => DependencyOrder
  <2> SUFFICES ASSUME IInv, run.step # "none" PROVE DependencyOrder
    BY DEF DependencyOrder
  <2>1. PICK c \in Cities : c = run.city
    BY AtCity
  <2>2. /\ Remaining(c) = run.queue \cup {run.step} /\ Supplied(c)
        /\ run.queue \subseteq Tasks /\ run.step \in Tasks
    BY <2>1, AtCity DEF IInv, TypeOK
  <2>3. \A u \in run.queue : Rank[run.step] < Rank[u]
    BY DEF IInv, InPlan
  <2>4. run.step = "gold" => db[c].census # "none"
    BY <2>2, <2>3 DEF Supplied, Rank
  <2> QED BY <2>1, <2>2, <2>4 DEF Supplied, DependencyOrder, Folded
<1> QED BY <1>1, Invariance, PTL

\* cmd_census, _gold_reason: rankings that do not divide by a census that was
\* loaded to its end do not go unnoticed.
THEOREM UnrankedIsPlanned == Spec => []UnrankedIsNoticed
<1>1. IInv => UnrankedIsNoticed
  <2> SUFFICES ASSUME IInv, NEW c \in Cities, db[c].ranked # "loaded",
                      db[c].census \notin {"blocks", "jobs"}
               PROVE  ~Quiet(c) \/ db[c].mark = "full"
    BY DEF UnrankedIsNoticed
  <2>1. db[c] \in City /\ Sound(db[c])
    BY DEF IInv, TypeOK
  <2>2. CASE db[c].census = "none"
    BY <2>2 DEF Quiet, Steps, NeedsCensus, Tasks
  <2>3. CASE db[c].census = "loaded"
    BY <2>1, <2>3 DEF Sound
  <2> QED BY <2>1, <2>2, <2>3 DEF City
<1> QED BY <1>1, Invariance, PTL

\* _cooldown_block: no hour's timer or deploy repeats a step that just failed
\* or died.
THEOREM FailuresCoolDown == Spec => NoHotLoop
<1>1. IInv /\ [Next]_vars =>
        [run.step = "none" /\ run'.step # "none" /\ ~run.forced =>
           attempt[run.city][run'.step].status \notin {"running", "failed"}]_vars
  <2> SUFFICES ASSUME IInv, Next, run.step = "none", run'.step # "none", ~run.forced
               PROVE  attempt[run.city][run'.step].status \notin {"running", "failed"}
    OBVIOUS
  <2>1. ASSUME UNCHANGED run PROVE FALSE
    BY <2>1
  <2>2. run \in [version : 0..MaxVersion, forced : BOOLEAN, todo : SUBSET Cities,
              city : Cities \cup {NoCity}, queue : SUBSET Tasks,
              step : Tasks \cup {"none"}, blocks : SUBSET Tasks]
    BY DEF IInv, TypeOK
  <2>3. StartStep
    <3>1. ~StartTimer /\ ~StartByHand
      BY DEF StartTimer, StartByHand, StartRun, NoRun
    <3>2. ASSUME NEW c \in Cities PROVE ~EnterCity(c)
      BY <2>2 DEF EnterCity
    <3>3. ~SkipStep /\ ~FinishStep /\ ~BackfillBlocked /\ ~FailStep /\ ~EndRun /\ ~Kill
      BY <2>2 DEF SkipStep, FinishStep, BackfillBlocked, FailStep, EndRun, Kill, NoRun
    <3>4. ASSUME NEW c \in Cities
          PROVE  ~Incremental(c) /\ ~WeeklyHourly(c) /\ ~CensusByHand(c)
      BY <2>1 DEF Incremental, WeeklyHourly, CensusByHand, Command
    <3>5. ~Deploy /\ ~NothingToDo /\ ~\E c \in Cities, t \in Tasks : Forget(c, t)
      BY <2>1 DEF Deploy, NothingToDo, vars, Forget
    <3> QED BY <3>1, <3>2, <3>3, <3>4, <3>5 DEF Next, Step
  <2>4. run.queue # {} /\ run.queue \in SUBSET Tasks
    BY <2>2, <2>3 DEF StartStep
  <2>5. run'.step = First(run.queue) /\ First(run.queue) \notin run.blocks
    BY <2>2, <2>3 DEF StartStep
  <2>6. run'.step \in run.queue \ run.blocks
    BY <2>4, <2>5, FirstIsLeast
  <2> QED BY <2>6 DEF IInv, Cooled
<1> QED BY <1>1, Invariance, PTL DEF Spec, NoHotLoop
=============================================================================
