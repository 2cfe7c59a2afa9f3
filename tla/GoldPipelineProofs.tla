------------------------- MODULE GoldPipelineProofs -------------------------
(***************************************************************************)
(* What GoldPipeline promises for every value of its constants: any number *)
(* of incidents, days, revisions, crashes and commands.                    *)
(***************************************************************************)
EXTENDS GoldPipeline, DataLemmas

USE DEF sources, store, ledger, layers

-----------------------------------------------------------------------------
(* Lemmas about the operators of the model.                                *)

\* A mark stays a mark, and never forgets a day: neither one it covered nor
\* one the new mark covers.
LEMMA MarkWidens ==
  ASSUME NEW p \in PendingMark, NEW q \in Int \cup {Everything}
  PROVE  /\ Mark(p, q) \in Int \cup {Everything}
         /\ \A d \in Int : Dirty(p, d) \/ Dirty(q, d) => Dirty(Mark(p, q), d)
  BY PendingAssumption DEF PendingMark, Mark, Dirty

\* Silver's newest day, and that the two extrema gold reads are days.
LEMMA SilverDays ==
  ASSUME NEW rows \in SUBSET Row, rows # {}
  PROVE  /\ Max(DaysOf(rows)) \in Day
         /\ Min(DaysOf(rows)) \in Day
         /\ \A r \in rows : Min(DaysOf(rows)) =< r.day /\ r.day =< Max(DaysOf(rows))
<1>1. DaysOf(rows) \in SUBSET Int /\ DaysOf(rows) \subseteq Day /\ DaysOf(rows) # {}
  BY PipelineAssumption DEF DaysOf, Row, Day
<1>2. \A d \in DaysOf(rows) : Oldest =< d /\ d =< Today
  BY <1>1 DEF Day
<1>3. Max(DaysOf(rows)) \in DaysOf(rows) /\ \A d \in DaysOf(rows) : d =< Max(DaysOf(rows))
  BY <1>1, <1>2, PipelineAssumption, MaxIsGreatest
<1>4. Min(DaysOf(rows)) \in DaysOf(rows) /\ \A d \in DaysOf(rows) : Min(DaysOf(rows)) =< d
  BY <1>1, <1>2, PipelineAssumption, MinIsLeast
<1> QED BY <1>1, <1>3, <1>4 DEF DaysOf

\* Marking a set of days keeps every day marked before and covers the new ones.
LEMMA MarkDaysWidens ==
  ASSUME pending \in PendingMark, NEW days \in SUBSET Day, MarkDays(days)
  PROVE  /\ pending' \in PendingMark
         /\ \A d \in Int : Dirty(pending, d) => Dirty(pending', d)
         /\ \A d \in days : Dirty(pending', d)
         /\ pending = Everything => pending' = Everything
<1>1. CASE days = {}
  BY <1>1 DEF MarkDays
<1>2. CASE days # {}
  <2>1. days \in SUBSET Int /\ \A d \in days : Oldest =< d
    BY PipelineAssumption DEF Day
  <2>2. Min(days) \in Int /\ \A d \in days : Min(days) =< d
    BY <1>2, <2>1, PipelineAssumption, MinIsLeast
  <2>3. pending' = Mark(pending, Min(days))
    BY <1>2 DEF MarkDays
  <2>4. /\ pending' \in PendingMark
        /\ \A d \in Int : Dirty(pending, d) \/ Dirty(Min(days), d) => Dirty(pending', d)
    BY <2>2, <2>3, MarkWidens DEF PendingMark
  <2>5. \A d \in days : Dirty(Min(days), d)
    BY <2>1, <2>2 DEF Dirty
  <2>6. pending = Everything => pending' = Everything
    BY <2>3, PendingAssumption DEF Mark
  <2> QED BY <2>1, <2>4, <2>5, <2>6
<1> QED BY <1>1, <1>2

-----------------------------------------------------------------------------
(* The inductive invariant.                                                *)

\* An empty store satisfies the invariant.
LEMMA InitIInv == Init => IInv
  BY PipelineAssumption, PendingAssumption
  DEF Init, IInv, TypeOK, JobSound, OneRowPerKey, UniqueKeys, KeysOf, NoJob, PendingMark, Day

\* The publisher, a crosswalk load and a stop keep the invariant.
LEMMA WorldStep ==
  ASSUME IInv, (\E k \in Keys : Publish(k)) \/ LoadCrosswalk \/ Stop
  PROVE  IInv'
<1> USE DEF IInv, TypeOK, JobSound, OneRowPerKey
<1>1. ASSUME NEW k \in Keys, Publish(k) PROVE IInv'
  <2>1. feed' \subseteq Row
    BY <1>1 DEF Publish
  <2>2. UniqueKeys(feed)'
    BY <1>1 DEF Publish, UniqueKeys
  <2> QED BY <1>1, <2>1, <2>2 DEF Publish, Spend, UniqueKeys, KeysOf, Accepted
<1>2. CASE LoadCrosswalk
  BY <1>2 DEF LoadCrosswalk, Spend, UniqueKeys, KeysOf, Accepted
<1>3. CASE Stop
  BY <1>3, PipelineAssumption DEF Stop, Spend, NoJob, PendingMark, UniqueKeys, KeysOf, Accepted
<1> QED BY <1>1, <1>2, <1>3

\* A command opening its pull: the job it starts is sound.
LEMMA OpenStep ==
  ASSUME IInv, NEW kind \in {"backfill", "incremental", "history"},
         NEW since \in Int, NEW until \in Int, OpenPull(kind, since, until),
         spent' \in [{"changes", "stops", "commands", "edits"} -> Nat]
  PROVE  IInv'
  BY PendingAssumption
  DEF OpenPull, NoJob, PendingMark, UniqueKeys, KeysOf, Accepted,
      IInv, TypeOK, JobSound, OneRowPerKey

\* Every command that opens a pull keeps it.
LEMMA StartStep ==
  ASSUME IInv, StartBackfill \/ StartIncremental \/ StartHistory \/ NextSlice
  PROVE  IInv'
<1>1. spent' \in [{"changes", "stops", "commands", "edits"} -> Nat]
  BY DEF StartBackfill, StartIncremental, StartHistory, NextSlice, Spend, IInv, TypeOK
<1>2. CASE StartBackfill
  BY <1>1, <1>2, OpenStep, PipelineAssumption DEF StartBackfill
<1>3. CASE StartIncremental
  <2>1. (IF watermark = NoDay THEN BackfillStart ELSE watermark - Lookback) \in Int
    BY PipelineAssumption DEF IInv, TypeOK, Day
  <2> QED BY <1>1, <1>3, <2>1, OpenStep, PipelineAssumption DEF StartIncremental
<1>4. CASE StartHistory \/ NextSlice
  <2>1. covered \in Int
    BY <1>4 DEF StartHistory, NextSlice, IInv, TypeOK, JobSound
  <2>2. Slice.since \in Int /\ Slice.until \in Int
    BY <2>1, PipelineAssumption DEF Slice, Later
  <2> QED BY <1>1, <1>4, <2>2, OpenStep DEF StartHistory, NextSlice
<1> QED BY <1>2, <1>3, <1>4

\* A fetch keeps it, whether it brought rows, nothing, or a blocked feed.
LEMMA FetchStep ==
  ASSUME IInv, FetchNothing \/ FetchBlocked \/ FetchRows
  PROVE  IInv'
<1> USE DEF IInv, TypeOK, JobSound, OneRowPerKey
<1>1. CASE FetchNothing
  <2>1. covered' \in Int
    BY <1>1, PipelineAssumption DEF FetchNothing, Cover, Earlier
  <2>2. pc' \in {"idle", "rebuild", "refresh", "slice"}
    BY <1>1 DEF FetchNothing, AfterPull
  <2>3. job' = job \/ job' = NoJob
    BY <1>1 DEF FetchNothing
  <2>4. NoJob \in [kind : {"none"}, since : Int, until : Int, fetched : {{}}, gone : {{}},
                   from : PendingMark]
    BY PipelineAssumption DEF NoJob, PendingMark
  <2> QED BY <1>1, <2>1, <2>2, <2>3, <2>4, PipelineAssumption
          DEF FetchNothing, UniqueKeys, KeysOf, Accepted
<1>2. CASE FetchBlocked
  BY <1>2, PipelineAssumption DEF FetchBlocked, NoJob, PendingMark, UniqueKeys, KeysOf, Accepted
<1>3. CASE FetchRows
  <2>1. PICK gone \in Withdrawn(Window) :
             job' = [job EXCEPT !.fetched = Window, !.gone = gone]
    BY <1>3 DEF FetchRows
  <2>2. Window \subseteq feed
    BY DEF Window, Between
  <2>3. gone \subseteq Keys /\ gone \cap KeysOf(Window) = {}
    BY DEF Withdrawn, KeysOf, Reread, Between, Row
  <2>4. UniqueKeys(Window)
    BY <2>2 DEF UniqueKeys
  <2>5. \E r \in Window : Valid(r)
    BY <1>3 DEF FetchRows
  <2> QED BY <1>3, <2>1, <2>2, <2>3, <2>4, <2>5 DEF FetchRows, UniqueKeys
<1> QED BY <1>1, <1>2, <1>3

\* The days a promotion marks are days of the calendar.
LEMMA ChangedDaysAreDays ==
  ASSUME IInv
  PROVE  ChangedDays \subseteq Day
<1>1. Accepted \subseteq Row /\ silver \subseteq Row
  BY DEF Accepted, IInv, TypeOK
<1> QED BY <1>1 DEF ChangedDays, Changed, DaysOf, Row

\* Promotion keeps it: an accepted row replaces every row of its key.
LEMMA PromoteStep ==
  ASSUME IInv, Promote
  PROVE  IInv'
<1> USE DEF IInv, TypeOK, JobSound, OneRowPerKey
<1>1. Accepted \subseteq Row /\ UniqueKeys(Accepted)
  BY DEF Accepted, UniqueKeys
<1>2. silver' \subseteq Row /\ Accepted \subseteq silver'
  BY <1>1 DEF Promote, Upserted
<1>3. UniqueKeys(silver')
  BY <1>1 DEF Promote, Upserted, UniqueKeys, KeysOf
<1>4. ChangedDays \subseteq Day
  BY ChangedDaysAreDays
<1>5. pending' \in PendingMark
  BY <1>4, MarkDaysWidens DEF Promote
<1>6. label' \in [Keys -> Nat]
  BY DEF Promote
<1>7. Accepted' = Accepted
  BY DEF Promote, Accepted
<1>8. \E r \in job.fetched : Valid(r)
  BY DEF Promote
<1> QED BY <1>2, <1>3, <1>5, <1>6, <1>7, <1>8 DEF Promote, UniqueKeys, KeysOf

\* Reconciliation keeps it: it only takes rows out.
LEMMA ReconcileStep ==
  ASSUME IInv, Reconcile
  PROVE  IInv'
<1> USE DEF IInv, TypeOK, JobSound, OneRowPerKey
<1>1. Deleted \subseteq silver /\ \A r \in Deleted : r.key \in job.gone
  BY DEF Deleted, Reread, Between
<1>2. DaysOf(Deleted) \subseteq Day
  BY <1>1 DEF DaysOf, Row
<1>3. pending' \in PendingMark
  BY <1>2, MarkDaysWidens DEF Reconcile
<1>4. Accepted \subseteq silver'
  <2>1. \A r \in Accepted : r.key \in KeysOf(job.fetched) /\ r \in silver
    BY DEF Accepted, KeysOf, Reconcile
  <2> QED BY <1>1, <2>1 DEF Reconcile
<1>5. Accepted' = Accepted
  BY DEF Reconcile, Accepted
<1> QED BY <1>3, <1>4, <1>5 DEF Reconcile, UniqueKeys, KeysOf

\* Closing a pull, or starting a reprocess, keeps it.
LEMMA PullEndStep ==
  ASSUME IInv, Finish \/ MarkSuccess \/ EndHistory \/ StartReprocess
  PROVE  IInv'
<1> USE DEF IInv, TypeOK, JobSound, OneRowPerKey
<1>1. CASE Finish
  <2>1. covered' \in Int /\ covered' # NoDay
    BY <1>1, PipelineAssumption DEF Finish, Cover, Earlier
  <2>2. pc' \in {"rebuild", "watermark"}
    BY <1>1 DEF Finish, AfterPull
  <2>3. /\ bronze' \in [since : Int \cup {NoDay}, rows : SUBSET Row]
        /\ UniqueKeys(bronze'.rows)
        /\ bronze'.since # NoDay => \E r \in bronze'.rows : Valid(r)
    BY <1>1 DEF Finish
  <2>4. silver # {}
    BY <1>1 DEF Finish, Accepted
  <2> QED BY <1>1, <2>1, <2>2, <2>3, <2>4 DEF Finish, UniqueKeys, KeysOf, Accepted
<1>2. CASE MarkSuccess
  <2>1. watermark' \in Day
    BY <1>2, SilverDays DEF MarkSuccess
  <2>2. pc' \in {"rebuild", "refresh", "slice"}
    BY <1>2 DEF MarkSuccess, AfterPull
  <2> QED BY <1>2, <2>1, <2>2 DEF MarkSuccess, UniqueKeys, KeysOf, Accepted
<1>3. CASE EndHistory
  BY <1>3, PipelineAssumption DEF EndHistory, NoJob, PendingMark, UniqueKeys, KeysOf, Accepted
<1>4. CASE StartReprocess
  <2>1. bronze.since \in Int /\ bronze.rows \subseteq Row
    BY <1>4 DEF StartReprocess
  <2>2. job' = [kind |-> "reprocess", since |-> bronze.since, until |-> Today,
                fetched |-> bronze.rows, gone |-> {}, from |-> Everything]
    BY <1>4 DEF StartReprocess, NoJob
  <2>3. spent' \in [{"changes", "stops", "commands", "edits"} -> Nat]
    BY <1>4 DEF StartReprocess, Spend
  <2>4. \E r \in bronze.rows : Valid(r)
    BY <1>4 DEF StartReprocess
  <2>5. TypeOK'
    BY <1>4, <2>1, <2>2, <2>3, PipelineAssumption DEF StartReprocess, PendingMark
  <2>6. JobSound'
    <3>1. pc' = "promote"
      BY <1>4 DEF StartReprocess
    <3>2. job'.kind = "reprocess" /\ job'.gone = {}
      BY <2>2
    <3>3. \E r \in job'.fetched : Valid(r)
      BY <2>2, <2>4
    <3> QED BY <3>1, <3>2, <3>3 DEF Valid
  <2> QED BY <1>4, <2>2, <2>5, <2>6 DEF StartReprocess, UniqueKeys
<1> QED BY <1>1, <1>2, <1>3, <1>4

\* The history floor is a day whenever silver holds anything.
LEMMA FloorIsInt ==
  ASSUME IInv, silver # {}
  PROVE  Floor \in Int /\ Anchor \in Day
<1>1. Max(DaysOf(silver)) \in Day /\ Min(DaysOf(silver)) \in Day
  BY SilverDays DEF IInv, TypeOK
<1> QED BY <1>1, PipelineAssumption DEF Floor, Anchor, Later, Day, IInv, TypeOK

\* The number of long windows is a natural number.
LEMMA LongCountIsNat ==
  ASSUME IInv, silver # {}
  PROVE  LongCount \in Nat
<1>1. Floor \in Int /\ Anchor \in Int
  BY FloorIsInt, PipelineAssumption DEF Day
<1>2. CASE Anchor < Floor
  BY <1>2 DEF LongCount
<1>3. CASE ~(Anchor < Floor)
  <2>1. Anchor - Floor \in Nat
    BY <1>1, <1>3
  <2>2. \A n \in Nat, m \in Nat \ {0} : n \div m \in Nat
    OBVIOUS
  <2> QED BY <1>3, <2>1, <2>2, PipelineAssumption DEF LongCount
<1> QED BY <1>2, <1>3

\* The daily table is rebuilt from rows.
LEMMA RebuiltDailyRows ==
  ASSUME IInv, NEW from
  PROVE  RebuiltDaily(from) \subseteq Row
  BY DEF RebuiltDaily, IInv, TypeOK

\* The gold refresh, the safety refresh and a census load keep it.
LEMMA GoldStep ==
  ASSUME IInv, Refresh \/ StartGold \/ Safety \/ Census
  PROVE  IInv'
<1> USE DEF IInv, TypeOK, JobSound, OneRowPerKey
<1>1. CASE RefreshSkipped \/ RebuildImpossible
  BY <1>1, PipelineAssumption
  DEF RefreshSkipped, RebuildImpossible, NoJob, PendingMark, UniqueKeys, KeysOf, Accepted
<1>2. CASE RefreshPlanned
  BY <1>2, PipelineAssumption DEF RefreshPlanned, NoJob, UniqueKeys, KeysOf, Accepted
<1>3. CASE StartGold
  BY <1>3, PipelineAssumption DEF StartGold, Spend, NoJob, PendingMark, UniqueKeys, KeysOf, Accepted
<1>4. CASE Rebuild
  <2>1. daily' \subseteq Row /\ recent' \subseteq Row
    BY <1>4, RebuiltDailyRows DEF Rebuild
  <2>2. long' \in [count : Nat, end : Day]
    BY <1>4, LongCountIsNat, FloorIsInt DEF Rebuild
  <2>3. pending' \in PendingMark /\ recentLabel' \in [Keys -> Nat] /\ ranked' \in Nat
    BY <1>4 DEF Rebuild, PendingMark
  <2> QED BY <1>4, <2>1, <2>2, <2>3, PipelineAssumption
          DEF Rebuild, NoJob, PendingMark, UniqueKeys, KeysOf, Accepted
<1>5. CASE Safety
  <2>1. daily' \subseteq Row
    BY <1>5, RebuiltDailyRows DEF Safety
  <2> QED BY <1>5, <2>1 DEF Safety, Spend, UniqueKeys, KeysOf, Accepted
<1>6. CASE Census
  <2>1. pending' \in PendingMark
    BY <1>6, MarkWidens DEF Census, PendingMark
  <2> QED BY <1>6, <2>1 DEF Census, Spend, UniqueKeys, KeysOf, Accepted
<1> QED BY <1>1, <1>2, <1>3, <1>4, <1>5, <1>6 DEF Refresh

\* A stuttering step keeps it.
LEMMA StutterStep ==
  ASSUME IInv, UNCHANGED vars
  PROVE  IInv'
  BY DEF vars, IInv, TypeOK, JobSound, OneRowPerKey, UniqueKeys, KeysOf, Accepted

\* The inductive invariant holds in every reachable state.
THEOREM Invariance == Spec => []IInv
<1>1. IInv /\ [Next]_vars => IInv'
  BY WorldStep, StartStep, FetchStep, PromoteStep, ReconcileStep, PullEndStep, GoldStep,
     StutterStep
  DEF Next, Pull, Command
<1> QED BY InitIInv, <1>1, PTL DEF Spec

\* Every variable keeps its type.
THEOREM TypeCorrect == Spec => []TypeOK
<1>1. IInv => TypeOK
  BY DEF IInv
<1> QED BY Invariance, <1>1, PTL

\* An incident is stored once, whatever re-dated, withdrawn or replayed it.
THEOREM StoredOnce == Spec => []OneRowPerKey
<1>1. IInv => OneRowPerKey
  BY DEF IInv
<1> QED BY Invariance, <1>1, PTL
-----------------------------------------------------------------------------
(* The pipeline implements the mirror.                                     *)

\* A step that leaves silver, gold and the mark alone.
LEMMA StutterMaps ==
  ASSUME UNCHANGED <<silver, recent, pending>>
  PROVE  UNCHANGED MirrorOf!mirrorVars
  BY DEF MirrorOf!mirrorVars

\* A write to silver under a mark that widened over the days it touched.
LEMMA WriteMaps ==
  ASSUME silver' \subseteq Row, recent' = recent,
         \A d \in Int : Dirty(pending, d) => Dirty(pending', d),
         \A r \in (silver \ silver') \cup (silver' \ silver) : r.day \in Day /\ Dirty(pending', r.day)
  PROVE  MirrorOf!Write
  BY PipelineAssumption DEF MirrorOf!Write, MirrorOf!Differ, Day

\* Promotion: every row it adds or removes lies on a changed day.  A row loses
\* its place only to an accepted row with its key, which silver did not hold.
LEMMA PromoteMaps ==
  ASSUME IInv, Promote
  PROVE  MirrorOf!Write
<1>1. ChangedDays \subseteq Day
  BY ChangedDaysAreDays
<1>2. \A d \in Int : Dirty(pending, d) => Dirty(pending', d)
  BY <1>1, MarkDaysWidens DEF Promote, IInv, TypeOK
<1>3. \A d \in ChangedDays : Dirty(pending', d)
  BY <1>1, MarkDaysWidens DEF Promote, IInv, TypeOK
<1>4. ASSUME NEW r \in silver' \ silver PROVE r.day \in ChangedDays
  BY <1>4 DEF Promote, Upserted, ChangedDays, Changed, DaysOf
<1>5. ASSUME NEW r \in silver \ silver' PROVE r.day \in ChangedDays
  <2>1. PICK q \in Accepted : q.key = r.key /\ q # r
    BY <1>5 DEF Promote, Upserted, KeysOf
  <2>2. q \in Changed
    BY <1>5, <2>1 DEF Changed, IInv, OneRowPerKey, UniqueKeys
  <2> QED BY <1>5, <2>1, <2>2 DEF ChangedDays, DaysOf, KeysOf
<1>6. silver' \subseteq Row
  BY PromoteStep DEF IInv, TypeOK
<1>7. recent' = recent
  BY DEF Promote
<1> QED BY <1>1, <1>2, <1>3, <1>4, <1>5, <1>6, <1>7, WriteMaps

\* A reconciliation is a write of the mirror.
LEMMA ReconcileMaps ==
  ASSUME IInv, Reconcile
  PROVE  MirrorOf!Write
<1>1. Deleted \subseteq silver /\ DaysOf(Deleted) \subseteq Day
  BY DEF Deleted, Reread, Between, DaysOf, Row, IInv, TypeOK
<1>2. \A d \in Int : Dirty(pending, d) => Dirty(pending', d)
  BY <1>1, MarkDaysWidens DEF Reconcile, IInv, TypeOK
<1>3. \A d \in DaysOf(Deleted) : Dirty(pending', d)
  BY <1>1, MarkDaysWidens DEF Reconcile, IInv, TypeOK
<1>4. silver' = silver \ Deleted /\ recent' = recent
  BY DEF Reconcile
<1> QED BY <1>1, <1>2, <1>3, <1>4, WriteMaps DEF DaysOf, IInv, TypeOK

\* A rebuild is the mirror catching up.
LEMMA RebuildMaps ==
  ASSUME IInv, Rebuild
  PROVE  MirrorOf!Mirror
<1>1. \A d \in Day : ~Dirty(pending', d)
  BY PendingAssumption DEF Rebuild, Dirty
<1>2. silver' = silver /\ recent' = silver
  BY DEF Rebuild
<1> QED BY <1>1, <1>2 DEF MirrorOf!Mirror

\* A census load only widens the mark: a write of the mirror that changes no row.
LEMMA CensusMaps ==
  ASSUME IInv, Census
  PROVE  MirrorOf!Write
<1>1. \A d \in Int : Dirty(pending, d) => Dirty(pending', d)
  BY MarkWidens DEF Census, IInv, TypeOK
<1>2. silver' = silver /\ recent' = recent
  BY DEF Census
<1> QED BY <1>1, <1>2, WriteMaps DEF IInv, TypeOK

\* Only four actions touch silver, the mark or the layers built from them.
LEMMA StepKinds ==
  ASSUME [Next]_vars
  PROVE  UNCHANGED <<silver, recent, pending>> \/ Promote \/ Reconcile \/ Rebuild \/ Census
<1>1. CASE \E k \in Keys : Publish(k)
  BY <1>1 DEF Publish
<1>2. CASE LoadCrosswalk \/ Stop
  BY <1>2 DEF LoadCrosswalk, Stop
<1>3. CASE StartIncremental \/ StartBackfill \/ StartHistory \/ NextSlice
  BY <1>3 DEF StartIncremental, StartBackfill, StartHistory, NextSlice, OpenPull
<1>4. CASE FetchNothing \/ FetchBlocked \/ FetchRows
  BY <1>4 DEF FetchNothing, FetchBlocked, FetchRows
<1>5. CASE Finish \/ MarkSuccess \/ EndHistory \/ StartReprocess
  BY <1>5 DEF Finish, MarkSuccess, EndHistory, StartReprocess
<1>6. CASE RefreshSkipped \/ RefreshPlanned \/ RebuildImpossible \/ StartGold \/ Safety
  BY <1>6 DEF RefreshSkipped, RefreshPlanned, RebuildImpossible, StartGold, Safety
<1>7. CASE UNCHANGED vars
  BY <1>7 DEF vars
<1> QED BY <1>1, <1>2, <1>3, <1>4, <1>5, <1>6, <1>7 DEF Next, Pull, Refresh, Command

\* Every step of the pipeline is a step of the mirror or a stutter.
LEMMA StepMaps ==
  ASSUME IInv, [Next]_vars
  PROVE  [MirrorOf!Write \/ MirrorOf!Mirror]_MirrorOf!mirrorVars
<1>1. CASE UNCHANGED <<silver, recent, pending>>
  BY <1>1, StutterMaps
<1>2. CASE Promote
  BY <1>2, PromoteMaps
<1>3. CASE Reconcile
  BY <1>3, ReconcileMaps
<1>4. CASE Rebuild
  BY <1>4, RebuildMaps
<1>5. CASE Census
  BY <1>5, CensusMaps
<1>6. UNCHANGED <<silver, recent, pending>> \/ Promote \/ Reconcile \/ Rebuild \/ Census
  BY StepKinds
<1> QED BY <1>1, <1>2, <1>3, <1>4, <1>5, <1>6

\* Every step of the pipeline is a step of the mirror or a stutter: silver
\* never changes ahead of its mark, and the mark narrows only with a rebuild.
THEOREM Refinement == Spec => ImplementsMirror
<1>1. Init => MirrorOf!MirrorInit
  BY PendingAssumption DEF Init, MirrorOf!MirrorInit, Dirty
<1> QED BY <1>1, StepMaps, Invariance, PTL DEF Spec, ImplementsMirror, MirrorOf!MirrorSpec

\* The mirror keeps gold faithful: days are forgotten only by a rebuild, so an
\* unmarked day is one on which gold still shows what silver holds.
THEOREM Fidelity == ImplementsMirror => []MirrorOf!Faithful
<1>1. MirrorOf!MirrorInit => MirrorOf!Faithful
  BY DEF MirrorOf!MirrorInit, MirrorOf!Faithful, MirrorOf!Differ
<1>2. MirrorOf!Faithful /\ [MirrorOf!Write \/ MirrorOf!Mirror]_MirrorOf!mirrorVars
        => MirrorOf!Faithful'
  BY DEF MirrorOf!Faithful, MirrorOf!Differ, MirrorOf!Write, MirrorOf!Mirror, MirrorOf!mirrorVars
<1> QED BY <1>1, <1>2, PTL DEF ImplementsMirror, MirrorOf!MirrorSpec

\* What the mirror gives the pipeline: the mark covers every day on which
\* silver and the layers built from it differ, whatever crashed in between.
THEOREM MarkSound == Spec => []MarkCoversSilver
<1>1. MirrorOf!Faithful => MarkCoversSilver
  BY DEF MirrorOf!Faithful, MirrorOf!Differ, MarkCoversSilver
<1> QED BY <1>1, Refinement, Fidelity, PTL
-----------------------------------------------------------------------------
(* Two more promises, from the same invariant.                             *)

\* Until the rankings are rebuilt over the newest census generation, the mark
\* asks for a full rebuild: no dated mark narrows it in between.
LEMMA ExposureStep ==
  ASSUME IInv, MarkCoversExposure, [Next]_vars
  PROVE  MarkCoversExposure'
<1> USE DEF MarkCoversExposure
<1>1. CASE Promote
  <2>1. pending = Everything => pending' = Everything
    BY <1>1, ChangedDaysAreDays, MarkDaysWidens DEF Promote, IInv, TypeOK
  <2> QED BY <1>1, <2>1 DEF Promote
<1>2. CASE Reconcile
  <2>1. DaysOf(Deleted) \subseteq Day
    BY DEF Deleted, Reread, Between, DaysOf, Row, IInv, TypeOK
  <2>2. pending = Everything => pending' = Everything
    BY <1>2, <2>1, MarkDaysWidens DEF Reconcile, IInv, TypeOK
  <2> QED BY <1>2, <2>2 DEF Reconcile
<1>3. CASE Rebuild
  BY <1>3 DEF Rebuild
<1>4. CASE Safety
  BY <1>4 DEF Safety
<1>5. CASE Census
  BY <1>5, PendingAssumption DEF Census, Mark, IInv, TypeOK, PendingMark
<1>6. CASE UNCHANGED <<ranked, exposure, pending>>
  BY <1>6
<1>7. UNCHANGED <<ranked, exposure, pending>> \/ Promote \/ Reconcile \/ Rebuild \/ Safety \/ Census
  <2>1. CASE \E k \in Keys : Publish(k)
    BY <2>1 DEF Publish
  <2>2. CASE LoadCrosswalk \/ Stop
    BY <2>2 DEF LoadCrosswalk, Stop
  <2>3. CASE StartIncremental \/ StartBackfill \/ StartHistory \/ NextSlice
    BY <2>3 DEF StartIncremental, StartBackfill, StartHistory, NextSlice, OpenPull
  <2>4. CASE FetchNothing \/ FetchBlocked \/ FetchRows
    BY <2>4 DEF FetchNothing, FetchBlocked, FetchRows
  <2>5. CASE Finish \/ MarkSuccess \/ EndHistory \/ StartReprocess
    BY <2>5 DEF Finish, MarkSuccess, EndHistory, StartReprocess
  <2>6. CASE RefreshSkipped \/ RefreshPlanned \/ RebuildImpossible \/ StartGold
    BY <2>6 DEF RefreshSkipped, RefreshPlanned, RebuildImpossible, StartGold
  <2>7. CASE UNCHANGED vars
    BY <2>7 DEF vars
  <2> QED BY <2>1, <2>2, <2>3, <2>4, <2>5, <2>6, <2>7 DEF Next, Pull, Refresh, Command
<1> QED BY <1>1, <1>2, <1>3, <1>4, <1>5, <1>6, <1>7

\* A census generation the rankings do not divide by yet is pending as a full
\* rebuild (run.py, cmd_census): no interleaving of pulls and refreshes clears it.
THEOREM ExposureMarked == Spec => []MarkCoversExposure
<1>1. Init => MarkCoversExposure
  BY DEF Init, MarkCoversExposure
<1> QED BY <1>1, ExposureStep, Invariance, PTL DEF Spec

\* An incident leaves silver only by a withdrawal that did not see it upstream
\* and re-read the whole of its day.
THEOREM OnlyWithdrawnAreDropped == Spec => NeverDropsPublished
<1> DEFINE Kept(r) == r.key \notin KeysOf(silver')
                        => r.key \notin KeysOf(job.fetched) /\ job.since < r.day
<1>1. ASSUME IInv, [Next]_vars, NEW r \in silver PROVE Kept(r)
  <2>1. CASE silver' = silver
    BY <2>1 DEF KeysOf
  <2>2. CASE Promote
    <3>1. r.key \in KeysOf(silver')
      BY <2>2 DEF Promote, Upserted, KeysOf
    <3> QED BY <3>1
  <2>3. CASE Reconcile
    <3>1. SUFFICES ASSUME r.key \notin KeysOf(silver')
                   PROVE  r.key \notin KeysOf(job.fetched) /\ job.since < r.day
      OBVIOUS
    <3>2. r \in Deleted
      BY <2>3, <3>1 DEF Reconcile, KeysOf
    <3>3. r.key \in job.gone /\ job.since + 1 =< r.day
      BY <3>2 DEF Deleted, Reread, Between
    <3>4. job.since \in Int /\ r.day \in Int
      BY <1>1, PipelineAssumption DEF IInv, TypeOK, Row, Day
    <3>5. r.key \notin KeysOf(job.fetched)
      BY <1>1, <3>3 DEF IInv, JobSound
    <3> QED BY <3>3, <3>4, <3>5
  <2>4. silver' = silver \/ Promote \/ Reconcile
    <3>1. UNCHANGED <<silver, recent, pending>> \/ Promote \/ Reconcile \/ Rebuild \/ Census
      BY <1>1, StepKinds
    <3> QED BY <3>1 DEF Rebuild, Census
  <2> QED BY <2>1, <2>2, <2>3, <2>4
<1>2. IInv /\ [Next]_vars => [\A r \in silver : Kept(r)]_vars
  BY <1>1
<1> QED BY <1>2, Invariance, PTL DEF Spec, NeverDropsPublished
-----------------------------------------------------------------------------
(* What a reader of gold relies on: kept long windows trail the short ones *)
(* by less than a week, a covered window is loaded, and the daily rollup   *)
(* counts exactly silver on every day it lets a visitor sum.               *)

\* The steps that fill the layers, or write what the layers are filled from.
LEMMA LayerSteps ==
  ASSUME [Next]_vars
  PROVE  \/ UNCHANGED <<silver, recent, long, daily, pending>>
         \/ Promote \/ Reconcile \/ Rebuild \/ Safety \/ Census
<1>1. CASE \E k \in Keys : Publish(k)
  BY <1>1 DEF Publish
<1>2. CASE LoadCrosswalk \/ Stop
  BY <1>2 DEF LoadCrosswalk, Stop
<1>3. CASE StartIncremental \/ StartBackfill \/ StartHistory \/ NextSlice
  BY <1>3 DEF StartIncremental, StartBackfill, StartHistory, NextSlice, OpenPull
<1>4. CASE FetchNothing \/ FetchBlocked \/ FetchRows
  BY <1>4 DEF FetchNothing, FetchBlocked, FetchRows
<1>5. CASE Finish \/ MarkSuccess \/ EndHistory \/ StartReprocess
  BY <1>5 DEF Finish, MarkSuccess, EndHistory, StartReprocess
<1>6. CASE RefreshSkipped \/ RefreshPlanned \/ RebuildImpossible \/ StartGold
  BY <1>6 DEF RefreshSkipped, RefreshPlanned, RebuildImpossible, StartGold
<1>7. CASE UNCHANGED vars
  BY <1>7 DEF vars
<1> QED BY <1>1, <1>2, <1>3, <1>4, <1>5, <1>6, <1>7 DEF Next, Pull, Refresh, Command

-----------------------------------------------------------------------------
(* The long windows.                                                       *)

\* A rebuild either brings the long windows to the anchor, or keeps them
\* because they trail it by less than LONG_WINDOW_MAX_AGE.
LEMMA LongStep ==
  ASSUME IInv, LongWindowsTrailBounded, [Next]_vars
  PROVE  LongWindowsTrailBounded'
<1> USE DEF LongWindowsTrailBounded
<1>1. CASE Rebuild
  <2>1. Anchor \in Int /\ Anchor = Max(DaysOf(silver)) /\ LongCount \in Nat
    BY <1>1, FloorIsInt, LongCountIsNat, PipelineAssumption DEF Rebuild, Day, Anchor
  <2>2. Max(DaysOf(recent')) = Anchor
    BY <1>1, <2>1 DEF Rebuild
  <2>3. CASE LongDue(job.from)
    <3>1. long'.end = Anchor
      BY <1>1, <2>3 DEF Rebuild
    <3> QED BY <2>1, <2>2, <3>1, PipelineAssumption
  <2>4. CASE ~LongDue(job.from)
    <3>1. long' = long /\ LongCount = long.count /\ ~(LongCount > 0 /\ Anchor - long.end >= MaxAge)
      BY <1>1, <2>4 DEF Rebuild, LongDue
    <3>2. long.end \in Int
      BY PipelineAssumption DEF IInv, TypeOK, Day
    <3> QED BY <2>1, <2>2, <3>1, <3>2, PipelineAssumption
  <2> QED BY <2>3, <2>4
<1>2. CASE UNCHANGED <<recent, long>>
  BY <1>2
<1>3. Rebuild \/ UNCHANGED <<recent, long>>
  BY LayerSteps DEF Promote, Reconcile, Safety, Census
<1> QED BY <1>1, <1>2, <1>3

\* However incrementals keep the long windows, they end less than MaxAge days
\* before the short ones.
THEOREM LongTrailBounded == Spec => []LongWindowsTrailBounded
<1>1. Init => LongWindowsTrailBounded
  BY DEF Init, LongWindowsTrailBounded
<1> QED BY <1>1, LongStep, Invariance, PTL DEF Spec

-----------------------------------------------------------------------------
(* Covered windows.                                                        *)

\* How far a running pull reaches: to today, or back to what is covered.
ReachSound ==
  pc \in {"fetch", "promote", "reconcile", "finish"} =>
    IF job.kind = "history" THEN covered # NoDay /\ job.until = covered
                            ELSE job.until = Today

\* While the portal stands still, what a job fetched and what bronze kept are
\* what the portal publishes in their windows.
FetchedStands ==
  spent.changes = 0 =>
    /\ pc \in {"promote", "reconcile", "finish"} => job.fetched = Window
    /\ bronze.since # NoDay => bronze.rows = Between(feed, bronze.since, Today)

LoadInv == ReachSound /\ FetchedStands /\ CoveredIsLoaded

\* A step after which nothing was published yet found nothing published and
\* left the feed alone.
LEMMA ChangesStay ==
  ASSUME IInv, [Next]_vars, spent'.changes = 0
  PROVE  spent.changes = 0 /\ feed' = feed
<1> USE DEF IInv, TypeOK
<1>1. CASE \E k \in Keys : Publish(k)
  BY <1>1, PipelineAssumption DEF Publish, Spend
<1>2. CASE LoadCrosswalk \/ Stop
  BY <1>2 DEF LoadCrosswalk, Stop, Spend
<1>3. CASE StartIncremental \/ StartBackfill \/ StartHistory \/ NextSlice
  BY <1>3 DEF StartIncremental, StartBackfill, StartHistory, NextSlice, OpenPull, Spend
<1>4. CASE FetchNothing \/ FetchBlocked \/ FetchRows
  BY <1>4 DEF FetchNothing, FetchBlocked, FetchRows
<1>5. CASE Promote \/ Reconcile \/ Finish \/ MarkSuccess \/ EndHistory \/ StartReprocess
  BY <1>5 DEF Promote, Reconcile, Finish, MarkSuccess, EndHistory, StartReprocess, Spend
<1>6. CASE Refresh \/ StartGold \/ Safety \/ Census
  BY <1>6 DEF Refresh, RefreshSkipped, RefreshPlanned, RebuildImpossible, Rebuild, StartGold,
              Safety, Census, Spend
<1>7. CASE UNCHANGED vars
  BY <1>7 DEF vars
<1> QED BY <1>1, <1>2, <1>3, <1>4, <1>5, <1>6, <1>7 DEF Next, Pull, Command

\* The steps of a pull, and the ones that leave a pull's tables alone.
LEMMA PullSteps ==
  ASSUME [Next]_vars
  PROVE  \/ /\ UNCHANGED <<silver, covered, bronze>>
            /\ pc' \in {"idle", "refresh", "rebuild", "slice"} \/ UNCHANGED <<pc, job>>
         \/ UNCHANGED <<silver, covered, bronze>> /\ \/ StartBackfill \/ StartIncremental
                                                     \/ StartHistory \/ NextSlice
         \/ FetchNothing \/ FetchRows \/ Promote \/ Reconcile \/ Finish \/ MarkSuccess
         \/ StartReprocess
<1>1. CASE \E k \in Keys : Publish(k)
  BY <1>1 DEF Publish
<1>2. CASE LoadCrosswalk \/ Stop \/ FetchBlocked \/ EndHistory
  BY <1>2 DEF LoadCrosswalk, Stop, FetchBlocked, EndHistory
<1>3. CASE StartIncremental \/ StartBackfill \/ StartHistory \/ NextSlice
  BY <1>3 DEF StartIncremental, StartBackfill, StartHistory, NextSlice, OpenPull
<1>4. CASE Refresh \/ StartGold \/ Safety \/ Census
  BY <1>4 DEF Refresh, RefreshSkipped, RefreshPlanned, RebuildImpossible, Rebuild, StartGold,
              Safety, Census
<1>5. CASE UNCHANGED vars
  BY <1>5 DEF vars
<1> QED BY <1>1, <1>2, <1>3, <1>4, <1>5 DEF Next, Pull, Command

\* A running pull still reaches to today, or back to what is covered.
LEMMA ReachStep ==
  ASSUME IInv, ReachSound, [Next]_vars
  PROVE  ReachSound'
<1> USE DEF ReachSound
<1>1. CASE UNCHANGED covered /\ (pc' \in {"idle", "refresh", "rebuild", "slice"} \/ UNCHANGED <<pc, job>>)
  BY <1>1
<1>2. CASE StartBackfill \/ StartIncremental
  BY <1>2 DEF StartBackfill, StartIncremental, OpenPull, NoJob
<1>3. CASE StartHistory \/ NextSlice
  BY <1>3 DEF StartHistory, NextSlice, OpenPull, NoJob, Slice, IInv, JobSound
<1>4. CASE FetchNothing \/ Finish
  <2>1. pc' \in {"idle", "refresh", "rebuild", "slice", "watermark"}
    BY <1>4 DEF FetchNothing, Finish, AfterPull, IInv, TypeOK, JobSound
  <2> QED BY <2>1
<1>5. CASE FetchRows
  <2>1. pc = "fetch" /\ covered' = covered /\ job'.kind = job.kind /\ job'.until = job.until
    BY <1>5 DEF FetchRows, IInv, TypeOK
  <2> QED BY <2>1
<1>6. CASE Promote \/ Reconcile
  BY <1>6 DEF Promote, Reconcile
<1>7. CASE MarkSuccess
  <2>1. pc' \in {"refresh", "rebuild", "slice"}
    BY <1>7 DEF MarkSuccess, AfterPull, IInv, TypeOK, JobSound
  <2> QED BY <2>1
<1>8. CASE StartReprocess
  BY <1>8 DEF StartReprocess, NoJob
<1> QED BY <1>1, <1>2, <1>3, <1>4, <1>5, <1>6, <1>7, <1>8, PullSteps

\* While the publisher is still, what a pull fetched is its whole window.
LEMMA FetchedStep ==
  ASSUME IInv, ReachSound, FetchedStands, [Next]_vars
  PROVE  FetchedStands'
<1> SUFFICES ASSUME spent'.changes = 0
             PROVE  /\ pc' \in {"promote", "reconcile", "finish"} => job'.fetched = Window'
                    /\ bronze'.since # NoDay => bronze'.rows = Between(feed', bronze'.since, Today)
  BY DEF FetchedStands
<1>0. feed' = feed /\ /\ pc \in {"promote", "reconcile", "finish"} => job.fetched = Window
                      /\ bronze.since # NoDay => bronze.rows = Between(feed, bronze.since, Today)
  BY ChangesStay DEF FetchedStands
<1> USE DEF Window
<1>1. CASE UNCHANGED bronze /\ (pc' \in {"idle", "refresh", "rebuild", "slice"} \/ UNCHANGED <<pc, job>>)
  BY <1>0, <1>1
<1>2. CASE StartBackfill \/ StartIncremental \/ StartHistory \/ NextSlice
  BY <1>0, <1>2 DEF StartBackfill, StartIncremental, StartHistory, NextSlice, OpenPull
<1>3. CASE FetchNothing
  <2>1. pc' \in {"idle", "refresh", "rebuild", "slice"} /\ bronze' = bronze
    BY <1>3 DEF FetchNothing, AfterPull, IInv, TypeOK, JobSound
  <2> QED BY <1>0, <2>1
<1>4. CASE FetchRows
  <2>1. bronze' = bronze /\ job'.fetched = Window /\ job'.since = job.since /\ job'.until = job.until
    BY <1>4 DEF FetchRows, IInv, TypeOK
  <2> QED BY <1>0, <2>1
<1>5. CASE Promote \/ Reconcile
  BY <1>0, <1>5 DEF Promote, Reconcile
<1>6. CASE Finish
  <2>1. job.fetched = Window /\ pc' \notin {"promote", "reconcile", "finish"}
    BY <1>0, <1>6 DEF Finish, AfterPull
  <2>2. CASE job.kind = "history"
    BY <1>0, <1>6, <2>1, <2>2 DEF Finish
  <2>3. CASE job.kind # "history"
    <3>1. job.until = Today /\ bronze' = [since |-> job.since, rows |-> job.fetched]
      BY <1>6, <2>3 DEF Finish, ReachSound
    <3> QED BY <1>0, <2>1, <3>1
  <2> QED BY <2>2, <2>3
<1>7. CASE MarkSuccess
  <2>1. pc' \in {"refresh", "rebuild", "slice"} /\ bronze' = bronze
    BY <1>7 DEF MarkSuccess, AfterPull, IInv, TypeOK, JobSound
  <2> QED BY <1>0, <2>1
<1>8. CASE StartReprocess
  <2>1. bronze' = bronze /\ bronze.since # NoDay
    BY <1>8 DEF StartReprocess
  <2>2. job'.since = bronze.since /\ job'.until = Today /\ job'.fetched = bronze.rows
    BY <1>8 DEF StartReprocess, NoJob
  <2> QED BY <1>0, <2>1, <2>2
<1> QED BY <1>1, <1>2, <1>3, <1>4, <1>5, <1>6, <1>7, <1>8, PullSteps

\* A pull's completion lowers the covered date only over rows it promoted.
LEMMA CoverLoads ==
  ASSUME IInv, ReachSound, Cover, pc \in {"fetch", "finish"},
         NEW r \in feed, Valid(r), r.day >= covered',
         r \in Window => r \in silver,
         covered # NoDay /\ r.day >= covered => r \in silver
  PROVE  r \in silver
<1> USE PipelineAssumption DEF IInv, TypeOK, Day
<1>1. r.day \in Int /\ r.day =< Today /\ job.since \in Int /\ job.until \in Int
  BY DEF Row
<1>2. CASE covered # NoDay /\ r.day >= covered
  BY <1>2
<1>3. CASE ~(covered # NoDay /\ r.day >= covered)
  <2>1. job.since =< r.day
    BY <1>1, <1>3 DEF Cover, Earlier
  <2>2. r.day =< job.until
    BY <1>1, <1>3 DEF ReachSound
  <2> QED BY <2>1, <2>2 DEF Window, Between
<1> QED BY <1>2, <1>3

\* While the publisher is still, every valid row of the covered span is in silver.
LEMMA LoadedStep ==
  ASSUME IInv, LoadInv, [Next]_vars
  PROVE  CoveredIsLoaded'
<1> SUFFICES ASSUME spent'.changes = 0, covered' # NoDay,
                    NEW r \in feed', r.day >= covered', Valid(r)
             PROVE  r \in silver'
  BY DEF CoveredIsLoaded, Valid
<1>0. spent.changes = 0 /\ r \in feed /\ (covered # NoDay /\ r.day >= covered => r \in silver)
  BY ChangesStay DEF LoadInv, CoveredIsLoaded
<1>1. CASE UNCHANGED <<silver, covered>>
  BY <1>0, <1>1
<1>2. CASE FetchNothing
  <2>1. Window = {} /\ Cover /\ silver' = silver /\ pc = "fetch"
    BY <1>2 DEF FetchNothing
  <2> QED BY <1>0, <2>1, CoverLoads DEF LoadInv
<1>3. CASE Promote
  <2>1. pc = "promote" /\ covered' = covered /\ silver' = Upserted
    BY <1>3 DEF Promote
  <2>2. job.fetched \subseteq feed
    BY <1>0, <2>1 DEF LoadInv, FetchedStands, Window, Between
  <2>3. r.key \in KeysOf(Accepted) => r \in Accepted
    BY <1>0, <2>2 DEF Accepted, KeysOf, IInv, UniqueKeys
  <2> QED BY <1>0, <2>1, <2>3 DEF Upserted
<1>4. CASE Reconcile
  <2>1. pc = "reconcile" /\ covered' = covered /\ silver' = silver \ Deleted
    BY <1>4 DEF Reconcile
  <2>2. job.fetched = Window
    BY <1>0, <2>1 DEF LoadInv, FetchedStands
  <2>3. r \notin Deleted
    <3>1. SUFFICES ASSUME r \in Deleted PROVE FALSE
      OBVIOUS
    <3>2. r.key \in job.gone /\ job.since + 1 =< r.day /\ r.day =< job.until - 1
      BY <3>1 DEF Deleted, Reread, Between
    <3>3. job.since \in Int /\ job.until \in Int /\ r.day \in Int
      BY <1>0, PipelineAssumption DEF IInv, TypeOK, Row, Day
    <3>4. r \in Window
      BY <1>0, <3>2, <3>3 DEF Window, Between
    <3> QED BY <2>2, <3>2, <3>4 DEF KeysOf, IInv, JobSound
  <2> QED BY <1>0, <2>1, <2>3
<1>5. CASE Finish
  <2>1. pc = "finish" /\ Cover /\ silver' = silver
    BY <1>5 DEF Finish
  <2>2. job.fetched = Window /\ Accepted \subseteq silver
    BY <1>0, <2>1 DEF LoadInv, FetchedStands, IInv, JobSound
  <2>3. r \in Window => r \in silver
    BY <2>2 DEF Accepted
  <2> QED BY <1>0, <2>1, <2>3, CoverLoads DEF LoadInv
<1> QED BY <1>1, <1>2, <1>3, <1>4, <1>5, PullSteps DEF FetchRows, MarkSuccess, StartReprocess

\* While the portal stands still every valid row since the covered date is in
\* silver: a slice that crashed, was retried or found nothing left no hole.
THEOREM CoveredLoaded == Spec => []CoveredIsLoaded
<1>1. Init => LoadInv
  BY DEF Init, LoadInv, ReachSound, FetchedStands, CoveredIsLoaded
<1>2. IInv /\ LoadInv /\ [Next]_vars => LoadInv'
  BY ReachStep, FetchedStep, LoadedStep DEF LoadInv
<1>3. LoadInv => CoveredIsLoaded
  BY DEF LoadInv
<1> QED BY <1>1, <1>2, <1>3, Invariance, PTL DEF Spec

-----------------------------------------------------------------------------
(* The daily rollup.                                                       *)

\* Until a first window is covered, everything stored or about to be comes
\* from the trailing backfill.
FromBackfill(rows) == \A r \in rows : BackfillStart =< r.day

FirstWindow ==
  covered = NoDay =>
    /\ watermark = NoDay /\ bronze.since = NoDay
    /\ pc \in {"fetch", "promote", "reconcile", "finish"} => job.since = BackfillStart
    /\ pc \in {"promote", "reconcile", "finish"} => FromBackfill(job.fetched)
    /\ FromBackfill(silver)

\* A refresh runs over a covered window, and rebuilds from the mark it read.
RefreshSound ==
  /\ pc = "refresh" => covered # NoDay
  /\ job.from # Everything => pc = "rebuild" /\ job.from = pending /\ covered # NoDay

\* The first day the rollup may hold.
DailyFrom == IF covered = NoDay THEN BackfillStart ELSE Later(Oldest, covered)

DailyAboveFloor == \A r \in daily : DailyFrom =< r.day

\* From its first stored day on the rollup is silver, except on marked days.
DailyExact ==
  \A r \in (silver \ daily) \cup (daily \ silver) :
    (\E q \in daily : q.day =< r.day) => Dirty(pending, r.day)

DailyInv == FirstWindow /\ RefreshSound /\ DailyAboveFloor /\ DailyExact

\* Until a window is covered, what is stored came from the trailing backfill.
LEMMA FirstWindowStep ==
  ASSUME IInv, FirstWindow, [Next]_vars
  PROVE  FirstWindow'
<1> SUFFICES ASSUME covered' = NoDay
             PROVE  /\ watermark' = NoDay /\ bronze'.since = NoDay
                    /\ pc' \in {"fetch", "promote", "reconcile", "finish"}
                         => job'.since = BackfillStart
                    /\ pc' \in {"promote", "reconcile", "finish"} => FromBackfill(job'.fetched)
                    /\ FromBackfill(silver')
  BY DEF FirstWindow, FromBackfill
<1> USE DEF FirstWindow, FromBackfill
<1>1. ~Cover
  BY PipelineAssumption DEF Cover, Earlier, IInv, TypeOK
<1>2. CASE \E k \in Keys : Publish(k)
  BY <1>2 DEF Publish
<1>3. CASE LoadCrosswalk \/ Stop \/ FetchBlocked \/ EndHistory
  BY <1>3 DEF LoadCrosswalk, Stop, FetchBlocked, EndHistory
<1>4. CASE StartIncremental \/ StartBackfill
  BY <1>4 DEF StartIncremental, StartBackfill, OpenPull, NoJob
<1>5. CASE StartHistory \/ NextSlice
  BY <1>5 DEF StartHistory, NextSlice, OpenPull, IInv, JobSound
<1>6. CASE FetchNothing \/ Finish
  BY <1>1, <1>6 DEF FetchNothing, Finish
<1>7. CASE FetchRows
  <2>1. pc = "fetch" /\ UNCHANGED <<covered, watermark, bronze, silver>>
    BY <1>7 DEF FetchRows
  <2>2. job'.fetched = Window /\ job'.since = job.since
    BY <1>7 DEF FetchRows, IInv, TypeOK
  <2> QED BY <2>1, <2>2 DEF Window, Between
<1>8. CASE Promote
  <2>1. FromBackfill(silver')
    BY <1>8 DEF Promote, Upserted, Accepted
  <2> QED BY <1>8, <2>1 DEF Promote
<1>9. CASE Reconcile
  BY <1>9 DEF Reconcile
<1>10. CASE MarkSuccess
  BY <1>10 DEF MarkSuccess, IInv, JobSound
<1>11. CASE StartReprocess
  BY <1>11 DEF StartReprocess
<1>12. CASE Refresh \/ StartGold \/ Safety \/ Census
  BY <1>12 DEF Refresh, RefreshSkipped, RefreshPlanned, RebuildImpossible, Rebuild, StartGold,
               Safety, Census
<1>13. CASE UNCHANGED vars
  BY <1>13 DEF vars
<1> QED BY <1>2, <1>3, <1>4, <1>5, <1>6, <1>7, <1>8, <1>9, <1>10, <1>11, <1>12, <1>13
        DEF Next, Pull, Command

\* A refresh rebuilds from the mark it read, over a covered window.
LEMMA RefreshSoundStep ==
  ASSUME IInv, RefreshSound, [Next]_vars
  PROVE  RefreshSound'
<1> USE DEF RefreshSound
<1>1. CASE \E k \in Keys : Publish(k)
  BY <1>1 DEF Publish
<1>2. CASE LoadCrosswalk \/ Stop \/ FetchBlocked \/ EndHistory
  BY <1>2 DEF LoadCrosswalk, Stop, FetchBlocked, EndHistory, NoJob
<1>3. CASE StartIncremental \/ StartBackfill \/ StartHistory \/ NextSlice
  BY <1>3 DEF StartIncremental, StartBackfill, StartHistory, NextSlice, OpenPull, NoJob
<1>4. CASE FetchNothing \/ Finish
  <2>1. covered' # NoDay
    BY <1>4, PipelineAssumption DEF FetchNothing, Finish, Cover, Earlier, IInv, TypeOK
  <2>2. job.from = Everything /\ (job' = job \/ job' = NoJob)
    BY <1>4 DEF FetchNothing, Finish
  <2> QED BY <2>1, <2>2 DEF NoJob
<1>5. CASE FetchRows \/ Promote \/ Reconcile
  <2>1. job.from = Everything /\ job'.from = job.from
    BY <1>5 DEF FetchRows, Promote, Reconcile, IInv, TypeOK
  <2>2. pc' # "refresh"
    BY <1>5 DEF FetchRows, Promote, Reconcile
  <2> QED BY <2>1, <2>2
<1>6. CASE MarkSuccess
  <2>1. job.from = Everything /\ job' = job /\ covered' = covered /\ covered # NoDay
    BY <1>6 DEF MarkSuccess, IInv, JobSound
  <2> QED BY <2>1
<1>7. CASE RefreshSkipped \/ RebuildImpossible \/ Rebuild \/ StartGold \/ StartReprocess
  <2>1. job'.from = Everything
    <3>1. CASE StartReprocess
      BY <3>1 DEF StartReprocess, NoJob
    <3>2. CASE RefreshSkipped \/ RebuildImpossible \/ Rebuild \/ StartGold
      <4>1. job' = NoJob
        BY <3>2 DEF RefreshSkipped, RebuildImpossible, Rebuild, StartGold
      <4> QED BY <4>1 DEF NoJob
    <3> QED BY <1>7, <3>1, <3>2
  <2>2. pc' # "refresh"
    BY <1>7 DEF RefreshSkipped, RebuildImpossible, Rebuild, StartGold, StartReprocess
  <2> QED BY <2>1, <2>2
<1>8. CASE RefreshPlanned
  BY <1>8 DEF RefreshPlanned, NoJob
<1>9. CASE Safety \/ Census
  <2>1. pc = "idle" /\ pc' = "idle" /\ job' = job
    BY <1>9 DEF Safety, Census
  <2> QED BY <2>1
<1>10. CASE UNCHANGED vars
  BY <1>10 DEF vars
<1> QED BY <1>1, <1>2, <1>3, <1>4, <1>5, <1>6, <1>7, <1>8, <1>9, <1>10
        DEF Next, Pull, Refresh, Command

\* A rebuild's first day is never before the first day the rollup may hold.
LEMMA FloorIsFirst ==
  ASSUME IInv, FirstWindow, silver # {}
  PROVE  /\ Floor \in Int /\ DailyFrom =< Floor
         /\ covered # NoDay => Floor = DailyFrom
<1>1. Min(DaysOf(silver)) \in Day /\ \E r \in silver : r.day = Min(DaysOf(silver))
  <2>1. DaysOf(silver) \in SUBSET Int /\ DaysOf(silver) # {}
    BY PipelineAssumption DEF DaysOf, IInv, TypeOK, Row, Day
  <2>2. \A d \in DaysOf(silver) : Oldest =< d
    BY DEF DaysOf, IInv, TypeOK, Row, Day
  <2>3. Min(DaysOf(silver)) \in DaysOf(silver)
    BY <2>1, <2>2, PipelineAssumption, MinIsLeast
  <2> QED BY <2>3, SilverDays DEF DaysOf, IInv, TypeOK
<1>2. CASE covered = NoDay
  <2>1. BackfillStart =< Min(DaysOf(silver))
    BY <1>1, <1>2 DEF FirstWindow, FromBackfill
  <2> QED BY <1>1, <1>2, <2>1, PipelineAssumption DEF Floor, DailyFrom, Later, Day
<1>3. CASE covered # NoDay
  BY <1>3, PipelineAssumption DEF Floor, DailyFrom, Later, IInv, TypeOK
<1> QED BY <1>2, <1>3

\* Where a rollup differs from silver, it holds nothing up to that day.
NothingBefore(rows) ==
  \A r \in (silver \ rows) \cup (rows \ silver), q \in rows : ~(q.day =< r.day)

\* A full rebuild: silver from the floor on, and nothing before it.
LEMMA FullDaily ==
  ASSUME IInv, FirstWindow, silver # {}
  PROVE  /\ \A r \in RebuiltDaily(Everything) : DailyFrom =< r.day
         /\ NothingBefore(RebuiltDaily(Everything))
<1> DEFINE new == RebuiltDaily(Everything)
<1>1. new = {r \in silver : Floor =< r.day}
  BY DEF RebuiltDaily
<1>2. Floor \in Int /\ DailyFrom \in Int /\ DailyFrom =< Floor
  BY FloorIsFirst, PipelineAssumption DEF DailyFrom, Later, IInv, TypeOK, Day
<1>3. \A r \in silver : r.day \in Int
  BY PipelineAssumption DEF IInv, TypeOK, Row, Day
<1> QED BY <1>1, <1>2, <1>3 DEF NothingBefore

\* A rebuild from the mark keeps the rollup before its first day, where it
\* already agreed with silver.
LEMMA DatedDaily ==
  ASSUME IInv, DailyInv, silver # {}, pending \in Int, covered # NoDay
  PROVE  /\ \A r \in RebuiltDaily(pending) : DailyFrom =< r.day
         /\ NothingBefore(RebuiltDaily(pending))
<1> DEFINE lower == Later(pending, Floor)
           new == RebuiltDaily(pending)
<1>1. new = {r \in daily : r.day < lower} \cup {r \in silver : lower =< r.day}
  BY PendingAssumption DEF RebuiltDaily
<1>2. Floor \in Int /\ DailyFrom = Floor
  BY FloorIsFirst DEF DailyInv
<1>3. lower \in Int /\ Floor =< lower /\ (lower = pending \/ lower = Floor)
  BY <1>2 DEF Later
<1>4. \A r \in silver \cup daily : r.day \in Int
  BY PipelineAssumption DEF IInv, TypeOK, Row, Day
<1>5. \A r \in new : DailyFrom =< r.day
  BY <1>1, <1>2, <1>3, <1>4 DEF DailyInv, DailyAboveFloor
<1>6. ASSUME NEW r \in (silver \ new) \cup (new \ silver), NEW q \in new, q.day =< r.day
      PROVE  FALSE
  <2>1. r \in (silver \ daily) \cup (daily \ silver) /\ r.day < lower
    BY <1>1, <1>3, <1>4, <1>6
  <2>2. q \in daily
    BY <1>1, <1>3, <1>4, <1>6, <2>1
  <2>3. pending =< r.day
    BY <1>6, <2>1, <2>2, PendingAssumption DEF DailyInv, DailyExact, Dirty
  <2>4. r.day < Floor
    BY <1>2, <1>3, <1>4, <2>1, <2>3
  <2> QED BY <1>2, <1>4, <1>5, <1>6, <2>1, <2>2, <2>4
<1> QED BY <1>5, <1>6 DEF NothingBefore

\* The daily table holds no day before the first it may hold.
LEMMA AboveFloorStep ==
  ASSUME IInv, DailyInv, [Next]_vars
  PROVE  DailyAboveFloor'
<1> USE DEF DailyInv, DailyAboveFloor
<1>0. \A r \in daily : r.day \in Int
  BY PipelineAssumption DEF IInv, TypeOK, Row, Day
<1>1. CASE UNCHANGED <<daily, covered>>
  BY <1>1 DEF DailyFrom
<1>2. CASE FetchNothing \/ Finish
  <2>1. Cover /\ daily' = daily /\ (covered = NoDay => job.since = BackfillStart)
    BY <1>2 DEF FetchNothing, Finish, FirstWindow
  <2>2. covered' \in Int /\ DailyFrom \in Int /\ DailyFrom' =< DailyFrom
    BY <2>1, PipelineAssumption DEF Cover, Earlier, DailyFrom, Later, IInv, TypeOK
  <2>3. DailyFrom' \in Int
    BY <2>2, PipelineAssumption DEF DailyFrom, Later
  <2> QED BY <1>0, <2>1, <2>2, <2>3
<1>3. CASE Rebuild
  <2>1. silver # {} /\ daily' = RebuiltDaily(job.from) /\ DailyFrom' = DailyFrom
    BY <1>3 DEF Rebuild, DailyFrom
  <2>2. CASE job.from = Everything
    BY <2>1, <2>2, FullDaily
  <2>3. CASE job.from # Everything
    <3>1. job.from = pending /\ pending \in Int /\ covered # NoDay
      BY <2>3 DEF RefreshSound, IInv, TypeOK, PendingMark
    <3> QED BY <2>1, <3>1, DatedDaily
  <2> QED BY <2>2, <2>3
<1>4. CASE Safety
  <2>1. silver # {} /\ daily' = RebuiltDaily(Everything) /\ DailyFrom' = DailyFrom
    BY <1>4 DEF Safety, DailyFrom
  <2> QED BY <2>1, FullDaily
<1>5. UNCHANGED <<daily, covered>> \/ FetchNothing \/ Finish \/ Rebuild \/ Safety
  <2>1. UNCHANGED daily \/ Rebuild \/ Safety
    BY LayerSteps DEF Promote, Reconcile, Census
  <2>2. UNCHANGED covered \/ FetchNothing \/ Finish
    BY PullSteps DEF FetchRows, Promote, Reconcile, MarkSuccess, StartReprocess
  <2> QED BY <2>1, <2>2
<1> QED BY <1>1, <1>2, <1>3, <1>4, <1>5

\* From its first stored day on, the daily table is silver except on marked days.
LEMMA ExactStep ==
  ASSUME IInv, DailyInv, [Next]_vars
  PROVE  DailyExact'
<1> USE DEF DailyInv, DailyExact
<1>1. CASE UNCHANGED <<silver, daily, pending>>
  BY <1>1
<1>2. CASE MirrorOf!Write /\ daily' = daily
  <2>1. ASSUME NEW r \in (silver' \ daily') \cup (daily' \ silver'), NEW q \in daily',
               q.day =< r.day
        PROVE  Dirty(pending', r.day)
    <3>1. r.day \in Day
      BY <1>2, <2>1 DEF MirrorOf!Write, IInv, TypeOK, Row
    <3>2. CASE r \in (silver \ silver') \cup (silver' \ silver)
      BY <1>2, <3>2 DEF MirrorOf!Write, MirrorOf!Differ
    <3>3. CASE r \in (silver \ daily) \cup (daily \ silver)
      <4>1. Dirty(pending, r.day)
        BY <1>2, <2>1, <3>3
      <4> QED BY <1>2, <3>1, <4>1 DEF MirrorOf!Write
    <3> QED BY <1>2, <2>1, <3>2, <3>3
  <2> QED BY <2>1
<1>3. CASE Rebuild
  <2>1. silver # {} /\ daily' = RebuiltDaily(job.from) /\ silver' = silver
    BY <1>3 DEF Rebuild
  <2>2. CASE job.from = Everything
    BY <2>1, <2>2, FullDaily DEF NothingBefore
  <2>3. CASE job.from # Everything
    <3>1. job.from = pending /\ pending \in Int /\ covered # NoDay
      BY <2>3 DEF RefreshSound, IInv, TypeOK, PendingMark
    <3> QED BY <2>1, <3>1, DatedDaily DEF NothingBefore
  <2> QED BY <2>2, <2>3
<1>4. CASE Safety
  <2>1. silver # {} /\ daily' = RebuiltDaily(Everything) /\ silver' = silver
    BY <1>4 DEF Safety
  <2> QED BY <2>1, FullDaily DEF NothingBefore
<1>5. CASE Promote
  BY <1>2, <1>5, PromoteMaps DEF Promote
<1>6. CASE Reconcile
  BY <1>2, <1>6, ReconcileMaps DEF Reconcile
<1>7. CASE Census
  BY <1>2, <1>7, CensusMaps DEF Census
<1> QED BY <1>1, <1>3, <1>4, <1>5, <1>6, <1>7, LayerSteps

\* The daily rollup counts exactly silver's rows on every day a visitor may
\* sum, except on marked days, whatever was loaded, dropped or stopped before.
THEOREM DailyCorrect == Spec => []SelectableDaysExact
<1>1. Init => DailyInv
  BY DEF Init, DailyInv, FirstWindow, RefreshSound, DailyAboveFloor, DailyExact, FromBackfill, NoJob
<1>2. IInv /\ DailyInv /\ [Next]_vars => DailyInv'
  BY FirstWindowStep, RefreshSoundStep, AboveFloorStep, ExactStep DEF DailyInv
<1>3. DailyInv => SelectableDaysExact
  BY DEF DailyInv, DailyExact, SelectableDaysExact
<1> QED BY <1>1, <1>2, <1>3, Invariance, PTL DEF Spec
=============================================================================
