--------------------------- MODULE MigrateProofs ---------------------------
(***************************************************************************)
(* Theorems about Migrate: for any number of runs, checkouts and crashes,  *)
(* and whatever the ETL does meanwhile.  All rest on the advisory lock:    *)
(* what a run read before a commit still holds after it, and what it       *)
(* loaded is still there when it ends.                                     *)
(***************************************************************************)
EXTENDS Migrate, DataLemmas

Place == [at : Steps, tree : Trees, activate : Schemes \cup {NoScheme},
          already : SUBSET Nat, doomed : SUBSET Schemes, skip : BOOLEAN]

Typed == /\ recorded \in Seq(Nat) /\ ran \in Seq([file : Nat, content : Nat])
         /\ run \in [Runs -> Place]

Outside  == {"idle", "waiting"}
Starting == Outside \cup {"verify"}

\* A run at work holds the lock.
Holding == \A m \in Runs : run[m].at \notin Outside => lock = m

\* What a run that applies migrations read is what the table still lists.
ReadStands == \A m \in Runs : run[m].at = "apply" => run[m].already = DOMAIN recorded

\* No city came to serve a scheme since it was found prunable.
DoomStands == \A m \in Runs : run[m].at = "pruning" => serves \notin run[m].doomed

IInv == Typed /\ Holding /\ SchemaHistory /\ VerifiedTree /\ ReadStands /\ DoomStands
-----------------------------------------------------------------------------
\* A new database, with no run started, satisfies the invariant.
LEMMA InitIInv == Init => IInv
<1> SUFFICES ASSUME Init PROVE IInv
  OBVIOUS
<1>1. Idle \in Place /\ Idle.at = "idle"
  BY MigrateAssumption DEF Idle, Place, Steps
<1>2. run = [m \in Runs |-> Idle] /\ \A m \in Runs : run[m].at = "idle"
  BY <1>1 DEF Init
<1>3. Typed
  BY <1>1, <1>2 DEF Init, Typed, Null
<1>4. SchemaHistory
  BY DEF Init, SchemaHistory
<1>5. Holding /\ VerifiedTree /\ ReadStands /\ DoomStands
  BY <1>2 DEF Holding, VerifiedTree, ReadStands, DoomStands, Outside
<1> QED BY <1>3, <1>4, <1>5 DEF IInv

\* A run's step that applies no migration: it is outside, or alone at work;
\* what it knows of its tree it knew before; and only the lock's holder says
\* what a city serves.
LEMMA Moves ==
  ASSUME IInv, NEW m \in Runs, NEW q \in Place, run' = [run EXCEPT ![m] = q],
         UNCHANGED schema,
         \/ q.at \in Outside /\ (lock' = lock \/ Frees(m))
         \/ lock' = m /\ lock \in {NoRun, m},
         q.at \notin Starting => run[m].at \notin Starting /\ q.tree = run[m].tree,
         q.at # "apply",
         q.at = "pruning" => serves' \notin q.doomed,
         serves' = serves \/ run[m].at \notin Outside
  PROVE  IInv'
<1>1. /\ run' \in [Runs -> Place] /\ run'[m] = q
      /\ \A p \in Runs \ {m} : run'[p] = run[p]
  BY DEF IInv, Typed
<1>2. \A p \in Runs \ {m} : run[p].at \notin Outside => lock = p /\ lock' = p
  BY MigrateAssumption DEF IInv, Holding, Frees
<1>3. Typed' /\ SchemaHistory'
  BY <1>1 DEF IInv, Typed, SchemaHistory, schema
<1>4. Holding'
  BY <1>1, <1>2 DEF Holding
<1>5. VerifiedTree'
  BY <1>1 DEF IInv, VerifiedTree, Files, schema, Starting, Outside
<1>6. ReadStands'
  BY <1>1 DEF IInv, ReadStands, schema
<1>7. DoomStands'
  <2> SUFFICES ASSUME NEW p \in Runs \ {m}, run[p].at = "pruning"
               PROVE  serves' \notin run[p].doomed
    BY <1>1 DEF DoomStands
  <2>1. serves' = serves
    BY <1>2 DEF IInv, Holding, Outside
  <2> QED BY <2>1 DEF IInv, DoomStands
<1> QED BY <1>3, <1>4, <1>5, <1>6, <1>7 DEF IInv

\* A run at work goes from one step to another, or ends.
LEMMA GoesOn ==
  ASSUME IInv, NEW m \in Runs, NEW at \in Steps \ (Starting \cup {"apply", "pruning"}),
         To(m, at), run[m].at \notin Starting, UNCHANGED <<schema, lock>>
  PROVE  IInv'
<1> DEFINE q == [run[m] EXCEPT !.at = at]
<1>1. /\ q \in Place /\ q.at = at /\ q.tree = run[m].tree
      /\ run' = [run EXCEPT ![m] = q]
  BY DEF IInv, Typed, Place, To
<1>2. lock = m
  BY DEF IInv, Holding, Starting
<1> HIDE DEF q
<1> QED BY <1>1, <1>2, Moves DEF Starting

\* A run that ends, giving up the lock if it was the holder, keeps it.
LEMMA Ends ==
  ASSUME IInv, NEW m \in Runs, run' = [run EXCEPT ![m] = Idle],
         lock' = lock \/ Frees(m), UNCHANGED <<schema, serves>>
  PROVE  IInv'
<1>1. Idle \in Place /\ Idle.at = "idle"
  BY MigrateAssumption DEF Idle, Place, Steps
<1> QED BY <1>1, Moves DEF Outside, Starting

\* Whatever leaves the runs, the lock, the table and what is served alone.
LEMMA Elsewhere ==
  ASSUME IInv, UNCHANGED <<schema, serves, lock, run>>
  PROVE  IInv'
BY DEF IInv, Typed, Holding, SchemaHistory, VerifiedTree, ReadStands, DoomStands, Files, schema
-----------------------------------------------------------------------------
(* Coming, going and the lock.                                             *)

\* Starting a run keeps it.
LEMMA StartStep ==
  ASSUME IInv, NEW m \in Runs, Start(m)
  PROVE  IInv'
<1>1. PICK t \in Trees, s \in Schemes \cup {NoScheme} :
        run' = [run EXCEPT ![m] = [Idle EXCEPT !.at = "waiting", !.tree = t, !.activate = s]]
  BY DEF Start
<1> DEFINE q == [Idle EXCEPT !.at = "waiting", !.tree = t, !.activate = s]
<1>2. q \in Place /\ q.at = "waiting"
  BY MigrateAssumption DEF Idle, Place, Steps
<1>3. lock' = lock /\ UNCHANGED <<schema, serves>>
  BY DEF Start, database, schema, reference
<1> HIDE DEF q
<1> QED BY <1>1, <1>2, <1>3, Moves DEF q, Outside, Starting

\* Taking the advisory lock keeps it: the taker is the only holder.
LEMMA LockStep ==
  ASSUME IInv, NEW m \in Runs, Lock(m)
  PROVE  IInv'
<1> DEFINE q == [run[m] EXCEPT !.at = "verify"]
<1>1. q \in Place /\ q.at = "verify" /\ run' = [run EXCEPT ![m] = q]
  BY DEF IInv, Typed, Place, Lock, To, Steps
<1>2. lock = NoRun /\ lock' = m /\ UNCHANGED <<schema, serves>>
  BY DEF Lock, LockFree, database, schema, reference
<1> HIDE DEF q
<1> QED BY <1>1, <1>2, Moves DEF Outside, Starting

\* The four ways a run ends keep it.
LEMMA EndSteps ==
  ASSUME IInv, NEW m \in Runs, LockTimeout(m) \/ Refuse(m) \/ Unlock(m) \/ Kill(m)
  PROVE  IInv'
<1>1. /\ run' = [run EXCEPT ![m] = Idle] /\ (lock' = lock \/ Frees(m))
      /\ UNCHANGED <<schema, serves>>
  BY DEF LockTimeout, Refuse, Unlock, Kill, database, schema, reference
<1> QED BY <1>1, Ends
-----------------------------------------------------------------------------
(* Migrations.                                                             *)

\* Verification keeps it: what it read is what is recorded.
LEMMA VerifyStep ==
  ASSUME IInv, NEW m \in Runs, Verify(m)
  PROVE  IInv'
<1> DEFINE q == [run[m] EXCEPT !.at = "apply", !.already = DOMAIN recorded]
<1>1. /\ q \in Place /\ q.at = "apply" /\ q.tree = run[m].tree /\ q.already = DOMAIN recorded
      /\ run' = [run EXCEPT ![m] = q]
  <2>1. DOMAIN recorded \in SUBSET Nat
    BY DEF IInv, Typed
  <2>2. run' = [run EXCEPT ![m] = q]
    BY DEF Verify
  <2> QED BY <2>1, <2>2 DEF IInv, Typed, Place, Steps
<1> HIDE DEF q
<1>2. /\ run' \in [Runs -> Place] /\ run'[m] = q
      /\ \A p \in Runs \ {m} : run'[p] = run[p]
  BY <1>1 DEF IInv, Typed
<1>3. lock = m /\ UNCHANGED <<ran, lock, serves>>
  BY DEF IInv, Holding, Outside, Verify, reference
<1>4. \A p \in Runs \ {m} : run'[p].at \in Outside
  BY <1>2, <1>3 DEF IInv, Holding
<1>5. Files(m) \in Seq(Nat \ {Null})
  BY MigrateAssumption DEF IInv, Typed, Place, Files
<1>6. /\ recorded' \in Seq(Nat) /\ Len(recorded') = Len(recorded)
      /\ DOMAIN recorded' = DOMAIN recorded
  <2> DEFINE Adopted(f) == IF recorded[f] = Null /\ f \in DOMAIN Files(m)
                           THEN Files(m)[f] ELSE recorded[f]
  <2>1. recorded' = [f \in 1..Len(recorded) |-> Adopted(f)] /\ Len(recorded) \in Nat
    BY DEF IInv, Typed, Verify
  <2>2. \A f \in 1..Len(recorded) : Adopted(f) \in Nat
    BY <1>5 DEF IInv, Typed
  <2> HIDE DEF Adopted
  <2> QED BY <2>1, <2>2 DEF IInv, Typed
<1>7. \A f \in DOMAIN recorded \cap DOMAIN Files(m) : recorded'[f] = Files(m)[f]
  BY DEF Verify, Edited
<1>8. Typed' /\ SchemaHistory'
  BY <1>2, <1>3, <1>6 DEF IInv, Typed, SchemaHistory
<1>9. Holding'
  BY <1>2, <1>3, <1>4 DEF Holding
<1>10. VerifiedTree'
  BY <1>1, <1>2, <1>4, <1>6, <1>7 DEF VerifiedTree, Files, Outside
<1>11. ReadStands' /\ DoomStands'
  BY <1>1, <1>2, <1>4, <1>6 DEF ReadStands, DoomStands, Outside
<1> QED BY <1>8, <1>9, <1>10, <1>11 DEF IInv

\* The first migration left is the next of the table.
LEMMA NextInOrder ==
  ASSUME IInv, NEW m \in Runs, run[m].at = "apply", Left(m) # {}
  PROVE  /\ Files(m) \in Seq(Nat \ {Null}) /\ Len(recorded) + 1 \in DOMAIN Files(m)
         /\ Min(Left(m)) = Len(recorded) + 1
<1>1. Files(m) \in Seq(Nat \ {Null}) /\ DOMAIN Files(m) = 1..Len(Files(m)) /\ Len(Files(m)) \in Nat
  BY MigrateAssumption DEF IInv, Typed, Place, Files
<1>2. DOMAIN recorded = 1..Len(recorded) /\ Len(recorded) \in Nat
  BY DEF IInv, Typed
<1>3. Left(m) = {f \in 1..Len(Files(m)) : f > Len(recorded)}
  BY <1>1, <1>2 DEF Left, IInv, ReadStands
<1>4. Len(recorded) + 1 \in Left(m) /\ \A f \in Left(m) : Len(recorded) + 1 =< f
  BY <1>1, <1>2, <1>3
<1>5. Min(Left(m)) \in Left(m) /\ \A f \in Left(m) : Min(Left(m)) =< f
  BY <1>4 DEF Min
<1>6. Min(Left(m)) \in Nat
  BY <1>3, <1>5
<1>7. Min(Left(m)) = Len(recorded) + 1
  <2> HIDE DEF Left
  <2>1. Min(Left(m)) =< Len(recorded) + 1 /\ Len(recorded) + 1 =< Min(Left(m))
    BY <1>4, <1>5
  <2> QED BY <2>1, <1>2, <1>6
<1> QED BY <1>1, <1>3, <1>4, <1>7

\* Applying the next file keeps it: the prefix grows by that file.
LEMMA ApplyStep ==
  ASSUME IInv, NEW m \in Runs, Apply(m)
  PROVE  IInv'
<1> DEFINE n == Len(recorded) + 1
           q == [run[m] EXCEPT !.already = @ \cup {n}]
<1>1. run[m].at = "apply" /\ Files(m) \in Seq(Nat \ {Null}) /\ n \in DOMAIN Files(m) /\ Min(Left(m)) = n
  BY NextInOrder DEF Apply
<1>2. n \in Nat /\ Files(m)[n] \in Nat
  BY <1>1 DEF IInv, Typed
<1>3. /\ recorded' = Append(recorded, Files(m)[n])
      /\ ran' = Append(ran, [file |-> n, content |-> Files(m)[n]])
      /\ UNCHANGED <<lock, serves>>
  BY <1>1 DEF Apply, reference
<1>4. /\ q \in Place /\ q.at = "apply" /\ q.tree = run[m].tree
      /\ q.already = run[m].already \cup {n} /\ run' = [run EXCEPT ![m] = q]
  BY <1>1, <1>2 DEF IInv, Typed, Place, Apply
<1> HIDE DEF q
<1>5. /\ run' \in [Runs -> Place] /\ run'[m] = q
      /\ \A p \in Runs \ {m} : run'[p] = run[p]
  BY <1>4 DEF IInv, Typed
<1>6. lock = m /\ \A p \in Runs \ {m} : run'[p].at \in Outside
  BY <1>1, <1>5 DEF IInv, Holding, Outside
<1>7. /\ recorded' \in Seq(Nat) /\ Len(recorded') = n /\ DOMAIN recorded' = DOMAIN recorded \cup {n}
      /\ recorded'[n] = Files(m)[n] /\ \A f \in DOMAIN recorded : recorded'[f] = recorded[f]
  BY <1>2, <1>3 DEF IInv, Typed
<1>8. /\ ran' \in Seq([file : Nat, content : Nat])
      /\ Len(ran') = n /\ \A i \in DOMAIN ran' : ran'[i].file = i
  BY <1>2, <1>3 DEF IInv, Typed, SchemaHistory
<1> HIDE DEF n
<1>9. Typed' /\ SchemaHistory'
  BY <1>5, <1>7, <1>8 DEF Typed, SchemaHistory
<1>10. Holding'
  BY <1>3, <1>5, <1>6 DEF Holding
<1>11. VerifiedTree'
  BY <1>1, <1>4, <1>5, <1>6, <1>7 DEF IInv, VerifiedTree, Files, Outside
<1>12. ReadStands' /\ DoomStands'
  BY <1>1, <1>4, <1>5, <1>6, <1>7 DEF IInv, ReadStands, DoomStands, Outside
<1> QED BY <1>9, <1>10, <1>11, <1>12 DEF IInv
-----------------------------------------------------------------------------
(* Reference data and backfills.                                           *)

\* The reference loads keep it: the schema is not theirs to change.
LEMMA LoadSteps ==
  ASSUME IInv, NEW m \in Runs,
         \/ Applied(m) \/ LoadSchemes(m) \/ LoadWeights(m) \/ CopyInherited(m)
         \/ LoadCrosswalks(m) \/ Point(m)
  PROVE  IInv'
<1>1. PICK at \in {"schemes", "weights", "inherit", "crosswalk", "point", "prune", "activate"} :
        To(m, at) /\ run[m].at \notin Starting /\ UNCHANGED <<schema, lock>>
  BY DEF Applied, LoadSchemes, LoadWeights, CopyInherited, LoadCrosswalks, Point,
         Starting, Outside, database
<1>2. at \in Steps \ (Starting \cup {"apply", "pruning"})
  BY DEF Steps, Starting, Outside
<1> QED BY <1>1, <1>2, GoesOn

\* A run refused its scheme ends with nothing changed.
LEMMA ActivateStep ==
  ASSUME IInv, NEW m \in Runs, Activate(m)
  PROVE  IInv'
<1>1. CASE run[m].activate \in enabled
  BY <1>1, GoesOn DEF Activate, Steps, Starting, Outside
<1>2. CASE run[m].activate \notin enabled
  BY <1>2, Ends DEF Activate
<1> QED BY <1>1, <1>2

\* Pruning keeps it.
LEMMA PruneSteps ==
  ASSUME IInv, NEW m \in Runs, PruneRead(m) \/ PruneDelete(m)
  PROVE  IInv'
<1>1. lock = m /\ run[m].at \notin Starting
  BY DEF PruneRead, PruneDelete, IInv, Holding, Outside, Starting
<1>2. CASE PruneRead(m)
  <2> DEFINE q == [run[m] EXCEPT !.at = "pruning", !.doomed = Prunable]
  <2>1. /\ q \in Place /\ q.at = "pruning" /\ q.tree = run[m].tree /\ q.doomed = Prunable
        /\ run' = [run EXCEPT ![m] = q]
    BY <1>2 DEF IInv, Typed, Place, PruneRead, Steps, Prunable
  <2>2. serves' = serves /\ serves \notin Prunable /\ UNCHANGED <<schema, lock>>
    BY <1>2 DEF PruneRead, Prunable, database, reference, schema
  <2> HIDE DEF q
  <2> QED BY <1>1, <2>1, <2>2, Moves
<1>3. CASE PruneDelete(m)
  <2> DEFINE q == [run[m] EXCEPT !.at = "cells", !.doomed = {}]
  <2>1. q \in Place /\ q.at = "cells" /\ q.tree = run[m].tree /\ run' = [run EXCEPT ![m] = q]
    BY <1>3 DEF IInv, Typed, Place, PruneDelete, Steps
  <2>2. serves' = serves /\ UNCHANGED <<schema, lock>>
    BY <1>3 DEF PruneDelete, reference
  <2> HIDE DEF q
  <2> QED BY <1>1, <2>1, <2>2, Moves
<1> QED BY <1>2, <1>3

\* The backfills of cells and hours keep it.
LEMMA FillSteps ==
  ASSUME IInv, NEW m \in Runs, FillCells(m) \/ AuditHours(m) \/ FillHours(m)
  PROVE  IInv'
<1>1. /\ lock = m /\ run[m].at \notin Starting /\ UNCHANGED <<schema, lock, serves>>
  BY DEF FillCells, AuditHours, FillHours, IInv, Holding, Outside, Starting, database, reference
<1>2. CASE run' = run
  BY <1>1, <1>2, Elsewhere
<1>3. CASE \E at \in {"hours", "unlock"} : To(m, at)
  BY <1>1, <1>3, GoesOn DEF Steps, Starting, Outside
<1>4. CASE run' = [run EXCEPT ![m].at = "filling",
                              ![m].skip = Midnights * 100 > Ceiling * Count(Loaded)]
  <2> DEFINE share == Midnights * 100 > Ceiling * Count(Loaded)
             q == [run[m] EXCEPT !.at = "filling", !.skip = share]
  <2>1. share \in BOOLEAN
    OBVIOUS
  <2> HIDE DEF share
  <2>2. q \in Place /\ q.at = "filling" /\ q.tree = run[m].tree /\ run' = [run EXCEPT ![m] = q]
    BY <1>4, <2>1 DEF IInv, Typed, Place, Steps, share
  <2> HIDE DEF q
  <2> QED BY <1>1, <2>2, Moves
<1> QED BY <1>2, <1>3, <1>4 DEF FillCells, AuditHours, FillHours
-----------------------------------------------------------------------------
\* Every step keeps the invariant.
LEMMA StepIInv == IInv /\ [Next]_vars => IInv'
<1> SUFFICES ASSUME IInv, [Next]_vars PROVE IInv'
  OBVIOUS
<1>1. ASSUME NEW m \in Runs, Transaction(m) PROVE IInv'
  BY <1>1, VerifyStep, EndSteps, ApplyStep, LoadSteps, ActivateStep, PruneSteps, FillSteps
     DEF Transaction
<1>2. ASSUME NEW m \in Runs, Start(m) \/ Lock(m) \/ LockTimeout(m) \/ Unlock(m) \/ Kill(m)
      PROVE  IInv'
  BY <1>2, StartStep, LockStep, EndSteps
<1>3. CASE LoadRows \/ Rebuild \/ UNCHANGED vars
  BY <1>3, Elsewhere DEF LoadRows, Rebuild, vars, database, schema, reference
<1> QED BY <1>1, <1>2, <1>3 DEF Next

\* However runs overlap, wait, fail or die, each migration runs once and in
\* order, in the transaction that lists it (migrate.py, apply_migrations).
THEOREM AppliedOnce == Spec => []SchemaHistory
BY InitIInv, StepIInv, PTL DEF Spec, IInv

\* What a run found unedited stays so until it ends: nobody applies another
\* checkout's file under it.
THEOREM TreeStaysVerified == Spec => []VerifiedTree
BY InitIInv, StepIInv, PTL DEF Spec, IInv

\* Gold rows go only by a scheme that no city serves, though the list of them
\* is read in one transaction and they are deleted in the next (migrate.py,
\* prune_disabled_schemes).
THEOREM ServedIsNeverPruned == Spec => ServedIsKept
<1>1. IInv /\ [Next]_vars => [\A s \in built : s = serves => s \in built']_vars
  <2> SUFFICES ASSUME IInv, Next, NEW s \in built, s = serves PROVE s \in built'
    OBVIOUS
  <2>1. CASE \E m \in Runs : PruneDelete(m)
    BY <2>1 DEF PruneDelete, IInv, DoomStands
  <2>2. CASE built' = built
    BY <2>2
  <2>3. CASE Rebuild
    BY <2>3 DEF Rebuild
  <2> QED BY <2>1, <2>2, <2>3
      DEF Next, Start, Lock, LockTimeout, Transaction, Unlock, Kill, LoadRows, Verify, Refuse,
          Apply, Applied, LoadSchemes, LoadWeights, CopyInherited, LoadCrosswalks, Point,
          Activate, PruneRead, FillCells, AuditHours, FillHours, database
<1> QED BY <1>1, InitIInv, StepIInv, PTL DEF Spec, ServedIsKept
-----------------------------------------------------------------------------
(* What a run has loaded.  The holder of the lock alone writes the         *)
(* reference data, so each load stands until the run ends.                 *)

AfterCells     == {"hours", "filling", "unlock"}
AfterCrosswalk == {"point", "activate", "prune", "pruning", "cells"} \cup AfterCells
AfterInherit   == {"crosswalk"} \cup AfterCrosswalk
AfterWeights   == {"inherit"} \cup AfterInherit
AfterSchemes   == {"weights"} \cup AfterWeights
AfterApply     == {"schemes"} \cup AfterSchemes

LoadedBy(m) ==
  /\ run[m].at \in AfterApply => DOMAIN Files(m) \subseteq DOMAIN recorded
  /\ run[m].at \in AfterSchemes => enabled = run[m].tree.enabled
  /\ run[m].at \in AfterWeights => weights[Parent] = run[m].tree.csv
  /\ run[m].at \in AfterInherit => weights[Child] = run[m].tree.csv
  /\ run[m].at \in AfterCrosswalk => crosswalk = run[m].tree.csv

\* Rows: every hour of a timed row is its own; a run fills hours only of local
\* clocks, and leaves none behind.
HoursSound ==
  /\ hour \in [Classes -> {Absent, "none", "own", "zero", "wrong"}]
  /\ Legacy \subseteq Loaded
  /\ \A c \in Timed : hour[c] \in {Absent, "none", "own"}
FilledBy(m) ==
  /\ run[m].at \in AfterCells => Loaded \subseteq celled
  /\ run[m].at = "filling" => wallClock
  /\ run[m].at = "unlock" /\ wallClock => \A c \in Loaded \cap Timed : hour[c] = "own"

LoadInv == /\ DOMAIN weights = Schemes /\ HoursSound
           /\ \A m \in Runs : LoadedBy(m) /\ FilledBy(m)
-----------------------------------------------------------------------------
(* Counting rows.                                                          *)

\* A count of incidents is a natural number.
LEMMA CountIsNat ==
  ASSUME NEW S \in SUBSET Classes
  PROVE  Count(S) \in Nat
<1>1. Count(S) = SumOver(Rows, S)
  BY DEF Count, SumOver, MapThenSumSet, MapThenFoldSet
<1>2. IsFiniteSet(S) /\ \A c \in S : Rows[c] \in Nat
  BY MigrateAssumption, FS_Subset
<1> QED BY <1>1, <1>2, SumIsNat

\* The audit finds a local clock where there is one with times to read, and
\* takes no UTC clock for one.
LEMMA AuditTells ==
  ASSUME HoursSound
  PROVE  /\ LocalClock => wallClock
         /\ wallClock /\ Loaded \cap Timed # {} => LocalClock
<1> DEFINE n == Count(Loaded)
           late == Count(Loaded \cap Late)
<1>1. Loaded \in SUBSET Classes /\ Loaded \cap Late \in SUBSET Classes /\ Legacy \subseteq Loaded
  BY DEF Loaded, HoursSound
<1>2. n \in Nat /\ late \in Nat /\ Floor \in 0..100
  BY <1>1, CountIsNat, MigrateAssumption
<1>3. Aligned = n - (IF wallClock THEN 0 ELSE late)
  BY DEF Aligned
<1>4. Loaded \cap Timed # {} => (n - late) * 100 < Floor * n
  BY <1>1, EveningAssumption
<1>5. LocalClock <=> Loaded \cap Timed # {} /\ Aligned * 100 >= Floor * n
  BY DEF LocalClock
<1> HIDE DEF n, late
<1>6. n * 100 >= Floor * n /\ Floor * n \in Int
  BY <1>2
<1>7. CASE wallClock
  <2>1. Aligned = n
    BY <1>2, <1>3, <1>7
  <2> QED BY <1>5, <1>6, <1>7, <2>1
<1>8. CASE ~wallClock
  <2>1. Aligned = n - late
    BY <1>3, <1>8
  <2>2. Loaded \cap Timed # {} => ~(Aligned * 100 >= Floor * n)
    BY <1>2, <1>4, <1>6, <2>1
  <2> QED BY <1>5, <1>8, <2>2
<1> QED BY <1>7, <1>8
-----------------------------------------------------------------------------
\* A new database satisfies the invariant of the loads.
LEMMA InitLoadInv == Init => LoadInv
<1> SUFFICES ASSUME Init PROVE LoadInv
  OBVIOUS
<1>1. \A m \in Runs : run[m].at = "idle"
  BY DEF Init, Idle
<1>2. \A m \in Runs : LoadedBy(m) /\ FilledBy(m)
  BY <1>1 DEF LoadedBy, FilledBy, AfterApply, AfterSchemes, AfterWeights, AfterInherit,
              AfterCrosswalk, AfterCells
<1>3. HoursSound
  BY MigrateAssumption DEF Init, HoursSound, Loaded, Absent
<1>4. DOMAIN weights = Schemes
  BY DEF Init
<1> QED BY <1>2, <1>3, <1>4 DEF LoadInv

\* The step of a run at work touches nobody else's.
LEMMA AloneAtWork ==
  ASSUME IInv, LoadInv, NEW m \in Runs, run[m].at \notin Outside, NEW q,
         run' = [run EXCEPT ![m] = q], HoursSound', DOMAIN weights' = Schemes,
         LoadedBy(m)', FilledBy(m)'
  PROVE  LoadInv'
<1>1. ASSUME NEW p \in Runs \ {m} PROVE LoadedBy(p)' /\ FilledBy(p)'
  <2>1. run'[p] = run[p] /\ run[p].at \in Outside
    BY DEF IInv, Typed, Holding
  <2> QED BY <2>1 DEF LoadedBy, FilledBy, Outside, AfterApply, AfterSchemes, AfterWeights,
                      AfterInherit, AfterCrosswalk, AfterCells
<1> QED BY <1>1 DEF LoadInv

\* Runs come, wait and end with what is loaded left alone.
LEMMA ComeAndGo ==
  ASSUME IInv, LoadInv, NEW m \in Runs,
         \/ Start(m) \/ Lock(m) \/ LockTimeout(m) \/ Refuse(m) \/ Unlock(m) \/ Kill(m)
  PROVE  LoadInv'
<1>1. /\ UNCHANGED database
      /\ \E q : run' = [run EXCEPT ![m] = q] /\ q.at \in Starting
  <2>1. CASE Start(m)
    <3>1. PICK t \in Trees, s \in Schemes \cup {NoScheme} :
            run' = [run EXCEPT ![m] = [Idle EXCEPT !.at = "waiting", !.tree = t, !.activate = s]]
      BY <2>1 DEF Start
    <3> DEFINE q == [Idle EXCEPT !.at = "waiting", !.tree = t, !.activate = s]
    <3>2. q.at = "waiting" /\ run' = [run EXCEPT ![m] = q]
      BY <3>1 DEF Idle
    <3> QED BY <2>1, <3>2 DEF Start, Starting, Outside
  <2>2. CASE Lock(m)
    <3> DEFINE q == [run[m] EXCEPT !.at = "verify"]
    <3>1. q.at = "verify" /\ run' = [run EXCEPT ![m] = q]
      BY <2>2 DEF Lock, To, IInv, Typed, Place
    <3> QED BY <2>2, <3>1 DEF Lock, Starting
  <2>3. CASE LockTimeout(m) \/ Refuse(m) \/ Unlock(m) \/ Kill(m)
    <3>1. Idle.at = "idle"
      BY DEF Idle
    <3> QED BY <2>3, <3>1 DEF LockTimeout, Refuse, Unlock, Kill, Starting, Outside
  <2> QED BY <2>1, <2>2, <2>3
<1>2. PICK q : run' = [run EXCEPT ![m] = q] /\ q.at \in Starting
  BY <1>1
<1>3. run'[m] = q /\ \A p \in Runs \ {m} : run'[p] = run[p]
  BY <1>2 DEF IInv, Typed
<1>4. /\ UNCHANGED <<recorded, enabled, weights, crosswalk, celled, wallClock, hour>>
      /\ HoursSound' /\ Loaded' = Loaded
  BY <1>1 DEF database, schema, reference, silver, LoadInv, HoursSound, Loaded
<1>5. LoadedBy(m)' /\ FilledBy(m)'
  BY <1>2, <1>3 DEF LoadedBy, FilledBy, Starting, Outside, AfterApply, AfterSchemes,
                    AfterWeights, AfterInherit, AfterCrosswalk, AfterCells
<1>6. ASSUME NEW p \in Runs \ {m} PROVE LoadedBy(p)' /\ FilledBy(p)'
  BY <1>3, <1>4 DEF LoadInv, LoadedBy, FilledBy, Files
<1> QED BY <1>4, <1>5, <1>6 DEF LoadInv

\* A step of a run before its backfills: what it has loaded so far, and one
\* thing more.
LEMMA ReferenceStep ==
  ASSUME IInv, LoadInv, NEW m \in Runs, NEW q,
         run' = [run EXCEPT ![m] = q], run[m].at \notin Outside, q.at \notin {"filling", "unlock"},
         UNCHANGED silver, q.at \in AfterCells => Loaded \subseteq celled,
         DOMAIN weights' = Schemes, LoadedBy(m)'
  PROVE  LoadInv'
<1>1. HoursSound' /\ Loaded' = Loaded /\ UNCHANGED <<celled, wallClock, hour>>
  BY DEF silver, LoadInv, HoursSound, Loaded
<1>2. run'[m] = q
  BY DEF IInv, Typed
<1>3. FilledBy(m)'
  BY <1>1, <1>2 DEF FilledBy
<1> QED BY <1>1, <1>3, AloneAtWork

\* A run that moves on keeps its tree.
LEMMA ToIs ==
  ASSUME IInv, NEW m \in Runs, NEW at, To(m, at)
  PROVE  \E q : run' = [run EXCEPT ![m] = q] /\ run'[m] = q /\ q.at = at /\ q.tree = run[m].tree
<1> DEFINE q == [run[m] EXCEPT !.at = at]
<1>1. run' = [run EXCEPT ![m] = q] /\ run'[m] = q /\ q.at = at /\ q.tree = run[m].tree
  BY DEF IInv, Typed, Place, To
<1> QED BY <1>1

\* The steps before the loads keep the invariant of the loads.
LEMMA MigrationSteps ==
  ASSUME IInv, LoadInv, NEW m \in Runs, Verify(m) \/ Apply(m) \/ Applied(m)
  PROVE  LoadInv'
<1>1. run[m].at \notin Outside /\ UNCHANGED silver /\ DOMAIN weights' = Schemes
  BY DEF Verify, Apply, Applied, Outside, database, reference, LoadInv
<1>2. CASE Verify(m)
  <2> DEFINE q == [run[m] EXCEPT !.at = "apply", !.already = DOMAIN recorded]
  <2>1. q.at = "apply" /\ run' = [run EXCEPT ![m] = q] /\ run'[m] = q
    BY <1>2 DEF Verify, IInv, Typed, Place
  <2> HIDE DEF q
  <2> QED BY <1>1, <2>1, ReferenceStep DEF LoadedBy, AfterApply, AfterSchemes, AfterWeights,
                                          AfterInherit, AfterCrosswalk, AfterCells
<1>3. CASE Apply(m)
  <2> DEFINE q == [run[m] EXCEPT !.already = @ \cup {Min(Left(m))}]
  <2>1. q.at = "apply" /\ run' = [run EXCEPT ![m] = q] /\ run'[m] = q
    BY <1>3 DEF Apply, IInv, Typed, Place
  <2> HIDE DEF q
  <2> QED BY <1>1, <2>1, ReferenceStep DEF LoadedBy, AfterApply, AfterSchemes, AfterWeights,
                                          AfterInherit, AfterCrosswalk, AfterCells
<1>4. CASE Applied(m)
  <2>1. PICK q : /\ run' = [run EXCEPT ![m] = q] /\ run'[m] = q
                 /\ q.at = "schemes" /\ q.tree = run[m].tree
    BY <1>4, ToIs DEF Applied
  <2>2. DOMAIN Files(m) \subseteq DOMAIN recorded /\ recorded' = recorded
    BY <1>4 DEF Applied, Left, IInv, ReadStands, database, schema
  <2>3. LoadedBy(m)'
    BY <2>1, <2>2 DEF LoadedBy, Files, AfterApply, AfterSchemes, AfterWeights,
                      AfterInherit, AfterCrosswalk, AfterCells
  <2> QED BY <1>1, <2>1, <2>3, ReferenceStep DEF AfterCells
<1> QED BY <1>2, <1>3, <1>4

\* The loads, one commit each.
LEMMA ReferenceSteps ==
  ASSUME IInv, LoadInv, NEW m \in Runs,
         \/ LoadSchemes(m) \/ LoadWeights(m) \/ CopyInherited(m) \/ LoadCrosswalks(m)
         \/ Point(m) \/ PruneRead(m) \/ PruneDelete(m)
  PROVE  LoadInv'
<1>1. run[m].at \notin Outside /\ UNCHANGED <<recorded, silver>> /\ DOMAIN weights' = Schemes
  BY DEF LoadSchemes, LoadWeights, CopyInherited, LoadCrosswalks, Point, PruneRead, PruneDelete,
         Outside, database, schema, reference, LoadInv
<1>2. LoadedBy(m) /\ {Parent, Child} \subseteq DOMAIN weights
  BY MigrateAssumption DEF LoadInv
<1> USE <1>1, <1>2
<1> USE DEF LoadedBy, Files, AfterApply, AfterSchemes, AfterWeights, AfterInherit,
            AfterCrosswalk, AfterCells
<1>3. CASE LoadSchemes(m)
  <2>1. PICK q : /\ run' = [run EXCEPT ![m] = q] /\ run'[m] = q
                 /\ q.at = "weights" /\ q.tree = run[m].tree
    BY <1>3, ToIs DEF LoadSchemes
  <2>2. LoadedBy(m)'
    BY <1>3, <2>1 DEF LoadSchemes
  <2> QED BY <2>1, <2>2, ReferenceStep
<1>4. CASE LoadWeights(m)
  <2>1. PICK q : /\ run' = [run EXCEPT ![m] = q] /\ run'[m] = q
                 /\ q.at = "inherit" /\ q.tree = run[m].tree
    BY <1>4, ToIs DEF LoadWeights
  <2>2. LoadedBy(m)'
    BY <1>4, <2>1 DEF LoadWeights
  <2> QED BY <2>1, <2>2, ReferenceStep
<1>5. CASE CopyInherited(m)
  <2>1. PICK q : /\ run' = [run EXCEPT ![m] = q] /\ run'[m] = q
                 /\ q.at = "crosswalk" /\ q.tree = run[m].tree
    BY <1>5, ToIs DEF CopyInherited
  <2>2. LoadedBy(m)'
    BY <1>5, <2>1 DEF CopyInherited, Inherited
  <2> QED BY <2>1, <2>2, ReferenceStep
<1>6. CASE LoadCrosswalks(m)
  <2>1. PICK q : /\ run' = [run EXCEPT ![m] = q] /\ run'[m] = q
                 /\ q.at = "point" /\ q.tree = run[m].tree
    BY <1>6, ToIs DEF LoadCrosswalks
  <2>2. LoadedBy(m)'
    BY <1>6, <2>1 DEF LoadCrosswalks
  <2> QED BY <2>1, <2>2, ReferenceStep
<1>7. CASE Point(m)
  <2>1. PICK at \in {"prune", "activate"} : To(m, at)
    BY <1>7 DEF Point
  <2>2. PICK q : /\ run' = [run EXCEPT ![m] = q] /\ run'[m] = q
                 /\ q.at = at /\ q.tree = run[m].tree
    BY <2>1, ToIs
  <2>3. LoadedBy(m)'
    BY <1>7, <2>2 DEF Point
  <2> QED BY <2>2, <2>3, ReferenceStep
<1>8. CASE PruneRead(m)
  <2> DEFINE q == [run[m] EXCEPT !.at = "pruning", !.doomed = Prunable]
  <2>1. /\ q.at = "pruning" /\ q.tree = run[m].tree
        /\ run' = [run EXCEPT ![m] = q] /\ run'[m] = q
    BY <1>8 DEF PruneRead, IInv, Typed, Place
  <2> HIDE DEF q
  <2>2. LoadedBy(m)'
    BY <1>8, <2>1 DEF PruneRead, database, reference
  <2> QED BY <2>1, <2>2, ReferenceStep
<1>9. CASE PruneDelete(m)
  <2> DEFINE q == [run[m] EXCEPT !.at = "cells", !.doomed = {}]
  <2>1. /\ q.at = "cells" /\ q.tree = run[m].tree
        /\ run' = [run EXCEPT ![m] = q] /\ run'[m] = q
    BY <1>9 DEF PruneDelete, IInv, Typed, Place
  <2> HIDE DEF q
  <2>2. LoadedBy(m)'
    BY <1>9, <2>1 DEF PruneDelete, reference
  <2> QED BY <2>1, <2>2, ReferenceStep
<1> QED BY <1>3, <1>4, <1>5, <1>6, <1>7, <1>8, <1>9

\* --activate promotes a scheme, or ends the run.
LEMMA ActivateLoads ==
  ASSUME IInv, LoadInv, NEW m \in Runs, Activate(m)
  PROVE  LoadInv'
<1> USE DEF LoadedBy, Files, AfterApply, AfterSchemes, AfterWeights, AfterInherit,
            AfterCrosswalk, AfterCells
<1>1. /\ run[m].at = "activate" /\ UNCHANGED <<recorded, enabled, weights, crosswalk, silver>>
      /\ DOMAIN weights' = Schemes /\ LoadedBy(m)
  BY DEF Activate, schema, LoadInv
<1>2. PICK q : /\ run' = [run EXCEPT ![m] = q] /\ run'[m] = q
               /\ (q.at = "prune" /\ q.tree = run[m].tree) \/ q.at = "idle"
  <2>1. CASE run[m].activate \in enabled
    BY <2>1, ToIs DEF Activate
  <2>2. CASE run[m].activate \notin enabled
    <3>1. Idle.at = "idle"
      BY DEF Idle
    <3> QED BY <2>2, <3>1 DEF Activate, IInv, Typed
  <2> QED BY <2>1, <2>2
<1>3. LoadedBy(m)'
  BY <1>1, <1>2
<1> QED BY <1>1, <1>2, <1>3, ReferenceStep DEF Outside
-----------------------------------------------------------------------------
(* The backfills.                                                          *)

\* A step of a run in its backfills, and what it leaves of the rows.
LEMMA BackfillStep ==
  ASSUME IInv, LoadInv, NEW m \in Runs, NEW q,
         run' = [run EXCEPT ![m] = q], q.tree = run[m].tree,
         {run[m].at, q.at} \subseteq {"cells"} \cup AfterCells,
         UNCHANGED <<schema, reference>>, HoursSound', FilledBy(m)'
  PROVE  LoadInv'
<1>1. run'[m] = q /\ run[m].at \notin Outside /\ DOMAIN weights' = Schemes
  BY DEF IInv, Typed, AfterCells, Outside, LoadInv, reference
<1>2. LoadedBy(m)'
  BY <1>1 DEF LoadInv, LoadedBy, Files, schema, reference, AfterApply, AfterSchemes,
              AfterWeights, AfterInherit, AfterCrosswalk, AfterCells
<1> QED BY <1>1, <1>2, AloneAtWork

\* A step that moves no run is one that moves a given run nowhere.
LEMMA StayIs ==
  ASSUME IInv, NEW m \in Runs, run' = run
  PROVE  run' = [run EXCEPT ![m] = run[m]] /\ run'[m] = run[m]
BY DEF IInv, Typed

\* Filling cells keeps the invariant of the loads.
LEMMA CellsStep ==
  ASSUME IInv, LoadInv, NEW m \in Runs, FillCells(m)
  PROVE  LoadInv'
<1>1. /\ run[m].at = "cells" /\ UNCHANGED <<schema, reference, hour, wallClock>>
      /\ HoursSound' /\ Loaded' = Loaded
  BY DEF FillCells, LoadInv, HoursSound, Loaded
<1>2. CASE run' = run
  <2>1. FilledBy(m)'
    BY <1>1, <1>2 DEF FilledBy, AfterCells
  <2> QED BY <1>1, <1>2, <2>1, StayIs, BackfillStep
<1>3. CASE Loaded \subseteq celled /\ celled' = celled /\ To(m, "hours")
  <2>1. PICK q : /\ run' = [run EXCEPT ![m] = q] /\ run'[m] = q
                 /\ q.at = "hours" /\ q.tree = run[m].tree
    BY <1>3, ToIs
  <2>2. FilledBy(m)'
    BY <1>1, <1>3, <2>1 DEF FilledBy
  <2> QED BY <1>1, <2>1, <2>2, BackfillStep DEF AfterCells
<1> QED BY <1>2, <1>3 DEF FillCells

\* A run fills hours only where the audit found a local clock, and leaves the
\* others' rows only where no time was published.
LEMMA AuditStep ==
  ASSUME IInv, LoadInv, NEW m \in Runs, AuditHours(m)
  PROVE  LoadInv'
<1>1. /\ run[m].at = "hours" /\ UNCHANGED <<schema, reference, hour, celled, wallClock>>
      /\ HoursSound' /\ Loaded' = Loaded /\ Loaded \subseteq celled
  BY DEF AuditHours, LoadInv, HoursSound, Loaded, database, silver, FilledBy, AfterCells
<1>2. CASE LocalClock
  <2> DEFINE share == Midnights * 100 > Ceiling * Count(Loaded)
             q == [run[m] EXCEPT !.at = "filling", !.skip = share]
  <2>1. /\ run' = [run EXCEPT ![m] = q] /\ run[m] \in Place
        /\ run \in [Runs -> Place]
    BY <1>2 DEF AuditHours, IInv, Typed
  <2> HIDE DEF share
  <2>2. /\ q.at = "filling" /\ q.tree = run[m].tree
        /\ run' = [run EXCEPT ![m] = q] /\ run'[m] = q
    BY <2>1 DEF Place
  <2> HIDE DEF q
  <2>3. wallClock
    BY <1>2, AuditTells DEF LoadInv
  <2>4. FilledBy(m)'
    BY <1>1, <2>2, <2>3 DEF FilledBy
  <2> QED BY <1>1, <2>2, <2>4, BackfillStep DEF AfterCells
<1>3. CASE ~LocalClock
  <2>1. PICK q : /\ run' = [run EXCEPT ![m] = q] /\ run'[m] = q
                 /\ q.at = "unlock" /\ q.tree = run[m].tree
    BY <1>3, ToIs DEF AuditHours
  <2>2. wallClock => Loaded \cap Timed = {}
    BY <1>3, AuditTells DEF LoadInv
  <2>3. FilledBy(m)'
    BY <1>1, <2>1, <2>2 DEF FilledBy
  <2> QED BY <1>1, <2>1, <2>3, BackfillStep DEF AfterCells
<1> QED BY <1>2, <1>3

\* Filling hours, behind the cells and the audit, keeps it.
LEMMA HoursStep ==
  ASSUME IInv, LoadInv, NEW m \in Runs, FillHours(m)
  PROVE  LoadInv'
<1>1. /\ run[m].at = "filling" /\ UNCHANGED <<schema, reference, celled, wallClock>>
      /\ wallClock /\ Loaded \subseteq celled
  BY DEF FillHours, LoadInv, FilledBy, AfterCells
<1>2. CASE run' = run
  <2>1. PICK c \in Fillable(m) : hour' = [hour EXCEPT ![c] = ClockOf(c)]
    <3>1. "filling" # "unlock" /\ run'[m].at = "filling"
      BY <1>1, <1>2
    <3>2. ~To(m, "unlock")
      BY <3>1, ToIs
    <3> QED BY <3>2 DEF FillHours
  <2>2. /\ c \in Classes /\ hour[c] = "none" /\ ClockOf(c) \in {"zero", "own"}
        /\ (c \in Timed => ClockOf(c) = "own")
    BY <1>1, <2>1 DEF Fillable, Loaded, ClockOf
  <2>3. Loaded' = Loaded
    BY <2>1, <2>2 DEF Loaded, LoadInv, HoursSound, Absent
  <2>4. HoursSound'
    BY <2>1, <2>2, <2>3 DEF LoadInv, HoursSound
  <2>5. FilledBy(m)'
    BY <1>1, <1>2, <2>3 DEF FilledBy, AfterCells
  <2> QED BY <1>1, <1>2, <2>4, <2>5, StayIs, BackfillStep DEF AfterCells
<1>3. CASE Fillable(m) = {} /\ hour' = hour /\ To(m, "unlock")
  <2>1. PICK q : /\ run' = [run EXCEPT ![m] = q] /\ run'[m] = q
                 /\ q.at = "unlock" /\ q.tree = run[m].tree
    BY <1>3, ToIs
  <2>2. HoursSound' /\ Loaded' = Loaded
    BY <1>3 DEF LoadInv, HoursSound, Loaded
  <2>3. \A c \in Loaded \cap Timed : hour[c] = "own"
    BY <1>3 DEF Fillable, LoadInv, HoursSound, Loaded
  <2>4. FilledBy(m)'
    BY <1>1, <1>3, <2>1, <2>2, <2>3 DEF FilledBy
  <2> QED BY <1>1, <2>1, <2>2, <2>4, BackfillStep DEF AfterCells
<1> QED BY <1>2, <1>3 DEF FillHours

\* The ETL loads rows with their cells and their own hours, at any time.
LEMMA EtlSteps ==
  ASSUME IInv, LoadInv, LoadRows \/ Rebuild \/ UNCHANGED vars
  PROVE  LoadInv'
<1>1. UNCHANGED <<recorded, enabled, weights, crosswalk, wallClock, run>>
  BY DEF LoadRows, Rebuild, vars, database, schema, reference, silver
<1>2. \A m \in Runs : LoadedBy(m)'
  BY <1>1 DEF LoadInv, LoadedBy, Files
<1>3. HoursSound' /\ \A m \in Runs : FilledBy(m)'
  <2>1. CASE LoadRows
    <3>1. PICK c \in Classes :
            /\ hour' = [hour EXCEPT ![c] = IF c \in Timed THEN "own" ELSE "none"]
            /\ celled' = celled \cup {c}
      BY <2>1 DEF LoadRows
    <3>2. Loaded' = Loaded \cup {c}
      BY <3>1 DEF LoadInv, HoursSound, Loaded, Absent
    <3>3. HoursSound'
      BY <3>1, <3>2 DEF LoadInv, HoursSound
    <3>4. ASSUME NEW m \in Runs PROVE FilledBy(m)'
      BY <1>1, <3>1, <3>2 DEF LoadInv, FilledBy, HoursSound
    <3> QED BY <3>3, <3>4
  <2>2. CASE Rebuild \/ UNCHANGED vars
    <3>1. UNCHANGED <<hour, celled>> /\ Loaded' = Loaded
      BY <2>2 DEF Rebuild, vars, database, silver, Loaded
    <3> QED BY <1>1, <3>1 DEF LoadInv, HoursSound, FilledBy
  <2> QED BY <2>1, <2>2
<1>4. DOMAIN weights' = Schemes
  BY <1>1 DEF LoadInv
<1> QED BY <1>2, <1>3, <1>4 DEF LoadInv

\* Every step keeps the invariant of the loads.
LEMMA StepLoadInv == IInv /\ LoadInv /\ [Next]_vars => LoadInv'
<1> SUFFICES ASSUME IInv, LoadInv, [Next]_vars PROVE LoadInv'
  OBVIOUS
<1>1. ASSUME NEW m \in Runs, Transaction(m) PROVE LoadInv'
  BY <1>1, MigrationSteps, ReferenceSteps, ActivateLoads, CellsStep, AuditStep, HoursStep,
     ComeAndGo DEF Transaction
<1>2. ASSUME NEW m \in Runs, Start(m) \/ Lock(m) \/ LockTimeout(m) \/ Unlock(m) \/ Kill(m)
      PROVE  LoadInv'
  BY <1>2, ComeAndGo
<1> QED BY <1>1, <1>2, EtlSteps DEF Next

\* A run that gets to its end leaves the database as its checkout says, whatever
\* runs before it left half done and whatever rows the ETL loads meanwhile
\* (migrate.py, main).
THEOREM FinishedRunIsComplete == Spec => []FinishedIsComplete
<1>1. LoadInv => FinishedIsComplete
  BY DEF LoadInv, LoadedBy, FilledBy, FinishedIsComplete, AfterApply, AfterSchemes, AfterWeights,
         AfterInherit, AfterCrosswalk, AfterCells
<1> QED BY <1>1, InitIInv, StepIInv, InitLoadInv, StepLoadInv, PTL DEF Spec

\* No hour comes from a UTC clock, though rows arrive between the audit and the
\* last of its batches (migrate.py, backfill_local_hour).
THEOREM HoursAreOwn == Spec => []HourIsOwn
<1>1. LoadInv => HourIsOwn
  BY DEF LoadInv, HoursSound, HourIsOwn, Absent
<1> QED BY <1>1, InitIInv, StepIInv, InitLoadInv, StepLoadInv, PTL DEF Spec
=============================================================================
