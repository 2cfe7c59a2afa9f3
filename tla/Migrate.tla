------------------------------ MODULE Migrate ------------------------------
(***************************************************************************)
(* safety/migrate.py: migrations and reference data, loaded by a deploy or *)
(* by hand from a checkout (a tree), under one advisory lock, in a series  *)
(* of commits that a crash may cut short, while the ETL goes on loading    *)
(* rows and building the gold layers of the enabled severity schemes.      *)
(*                                                                         *)
(* An action is one transaction.  Rows of silver are taken class by class: *)
(* a class is a number of rows alike in what the backfills look at.        *)
(***************************************************************************)
EXTENDS Integers, Sequences, FiniteSets, FiniteSetsExt, SequencesExt

CONSTANTS
  Runs,        \* the processes that may run safety.migrate at once
  Trees,       \* checkouts: [files: content of each migration, csv: version of the
               \* weights and the crosswalk, enabled]
  Schemes, Parent, Child,    \* severity schemes; Child inherits Parent's weights
  Classes,     \* classes of rows of one city
  Rows,        \* class -> how many rows
  Timed,       \* the classes the source published a clock time for
  Late,        \* of those, the ones of the evening
  Legacy,      \* the classes loaded before the columns existed
  Floor, Ceiling,   \* _HOUR_ALIGNMENT_FLOOR, _MIDNIGHT_SHARE_CEILING, in percent
  MaxKills,    \* bound of the model: crashes
  NoRun, NoScheme

Null == 0   \* no checksum

ASSUME MigrateAssumption ==
  /\ Trees # {}
  /\ Trees \subseteq [files : Seq(Nat \ {Null}), csv : Nat, enabled : SUBSET Schemes]
  /\ {Parent, Child} \subseteq Schemes /\ NoScheme \notin Schemes /\ NoRun \notin Runs
  /\ Late \subseteq Timed /\ Timed \cup Legacy \subseteq Classes
  /\ IsFiniteSet(Classes) /\ Rows \in [Classes -> Nat \ {0}]
  /\ Floor \in 0..100 /\ {Ceiling, MaxKills} \subseteq Nat

VARIABLES
  recorded,   \* schema_migration: the checksum of each file applied
  ran,        \* the migrations that ran, in order: [file, content]
  lock,       \* who holds the advisory lock
  weights,    \* scheme -> version of its severity weights
  crosswalk,  \* version of the offense crosswalk
  enabled,    \* the enabled schemes
  serves,     \* source_registry.severity_scheme_version of the city
  built,      \* the schemes the city has gold rows of
  hour,       \* class -> occurred_local_hour: "none", "own", "zero", "wrong"
  celled,     \* the classes whose H3 columns are filled
  wallClock,  \* the city stores its local clock, not UTC instants
  run,        \* the processes
  kills

schema    == <<recorded, ran>>
reference == <<weights, crosswalk, enabled, serves>>
silver    == <<hour, celled, wallClock>>
database  == <<schema, reference, built, silver>>
vars      == <<database, lock, run, kills>>

Absent == "absent"  \* a class of rows not loaded yet

Idle == [at |-> "idle", tree |-> CHOOSE t \in Trees : TRUE, activate |-> NoScheme,
         already |-> {}, doomed |-> {}, skip |-> FALSE]

\* A city loaded by a release from before checksums, hours and H3 columns.
Init ==
  /\ recorded = <<Null>> /\ ran = <<[file |-> 1, content |-> 1]>>
  /\ lock = NoRun /\ weights = [s \in Schemes |-> 0] /\ crosswalk = 0 /\ enabled = {}
  /\ serves = NoScheme /\ built = {}
  /\ hour = [c \in Classes |-> IF c \in Legacy THEN "none" ELSE Absent]
  /\ celled = {} /\ wallClock \in BOOLEAN
  /\ run = [m \in Runs |-> Idle] /\ kills = 0

To(m, at) == run' = [run EXCEPT ![m].at = at]
Frees(m)  == lock' = IF lock = m THEN NoRun ELSE lock

\* A deploy, or someone by hand, who may also promote a scheme.
Start(m) ==
  /\ run[m].at = "idle"
  /\ \E t \in Trees, s \in Schemes \cup {NoScheme} :
       run' = [run EXCEPT ![m] = [Idle EXCEPT !.at = "waiting", !.tree = t, !.activate = s]]
  /\ UNCHANGED <<database, lock, kills>>

\* Bug: nobody looks whether the lock is held.
AnyLock(m) == TRUE
LockFree(m) == lock = NoRun

Lock(m) == /\ run[m].at = "waiting" /\ LockFree(m)
           /\ lock' = m /\ To(m, "verify")
           /\ UNCHANGED <<database, kills>>

\* migrate_lock_wait_seconds are over.
LockTimeout(m) == /\ run[m].at = "waiting" /\ ~LockFree(m)
                  /\ run' = [run EXCEPT ![m] = Idle]
                  /\ UNCHANGED <<database, lock, kills>>

\* The process dies, or a statement fails: what it had not committed is gone,
\* and its session's lock with it.
Kill(m) == /\ run[m].at # "idle" /\ kills < MaxKills
           /\ Frees(m) /\ run' = [run EXCEPT ![m] = Idle] /\ kills' = kills + 1
           /\ UNCHANGED database
-----------------------------------------------------------------------------
(* Migrations.  A file is its place in filename order.                     *)

Files(m) == run[m].tree.files

\* Bug: an edited file passes.
NoneEdited(m) == {}
Edited(m) == {f \in DOMAIN recorded \cap DOMAIN Files(m) :
                recorded[f] \notin {Null, Files(m)[f]}}

\* Files without a checksum are adopted as they are now.
Verify(m) ==
  /\ run[m].at = "verify" /\ Edited(m) = {}
  /\ recorded' = [f \in DOMAIN recorded |->
       IF recorded[f] = Null /\ f \in DOMAIN Files(m) THEN Files(m)[f] ELSE recorded[f]]
  /\ run' = [run EXCEPT ![m].at = "apply", ![m].already = DOMAIN recorded]
  /\ UNCHANGED <<ran, lock, reference, built, silver, kills>>

Refuse(m) == /\ run[m].at = "verify" /\ Edited(m) # {}
             /\ Frees(m) /\ run' = [run EXCEPT ![m] = Idle]
             /\ UNCHANGED <<database, kills>>

Left(m) == DOMAIN Files(m) \ run[m].already

\* Bug: the row is left to a second transaction.
ApplyUnrecorded(m) ==
  /\ run[m].at = "apply" /\ Left(m) # {}
  /\ ran' = Append(ran, [file |-> Min(Left(m)), content |-> Files(m)[Min(Left(m))]])
  /\ run' = [run EXCEPT ![m].already = @ \cup {Min(Left(m))}]
  /\ UNCHANGED <<recorded, lock, reference, built, silver, kills>>

\* A migration and its row are one transaction.
Apply(m) ==
  /\ run[m].at = "apply" /\ Left(m) # {}
  /\ LET f == Min(Left(m)) IN
       /\ f \notin DOMAIN recorded
       /\ recorded' = Append(recorded, Files(m)[f])
       /\ ran' = Append(ran, [file |-> f, content |-> Files(m)[f]])
       /\ run' = [run EXCEPT ![m].already = @ \cup {f}]
  /\ UNCHANGED <<lock, reference, built, silver, kills>>

Applied(m) == /\ run[m].at = "apply" /\ Left(m) = {} /\ To(m, "schemes")
              /\ UNCHANGED <<database, lock, kills>>
-----------------------------------------------------------------------------
(* Severity schemes.  One commit each; every load is an upsert.            *)

LoadSchemes(m) == /\ run[m].at = "schemes" /\ enabled' = run[m].tree.enabled
                  /\ To(m, "weights")
                  /\ UNCHANGED <<schema, lock, weights, crosswalk, serves, built, silver, kills>>

LoadWeights(m) == /\ run[m].at = "weights"
                  /\ weights' = [weights EXCEPT ![Parent] = run[m].tree.csv]
                  /\ To(m, "inherit")
                  /\ UNCHANGED <<schema, lock, crosswalk, enabled, serves, built, silver, kills>>

\* Bug: a scheme that has weights keeps them.
InheritedOnce == IF weights[Child] = 0 THEN weights[Parent] ELSE weights[Child]
Inherited == weights[Parent]

CopyInherited(m) == /\ run[m].at = "inherit"
                    /\ weights' = [weights EXCEPT ![Child] = Inherited]
                    /\ To(m, "crosswalk")
                    /\ UNCHANGED <<schema, lock, crosswalk, enabled, serves, built, silver, kills>>

LoadCrosswalks(m) == /\ run[m].at = "crosswalk" /\ crosswalk' = run[m].tree.csv
                     /\ To(m, "point")
                     /\ UNCHANGED <<schema, lock, weights, enabled, serves, built, silver, kills>>

\* A city without a scheme gets the enabled one, where there is just one.
Point(m) ==
  /\ run[m].at = "point"
  /\ serves' = IF serves = NoScheme /\ Cardinality(enabled) = 1
               THEN CHOOSE s \in enabled : TRUE ELSE serves
  /\ To(m, IF run[m].activate = NoScheme THEN "prune" ELSE "activate")
  /\ UNCHANGED <<schema, lock, weights, crosswalk, enabled, built, silver, kills>>

\* --activate; promoting a disabled scheme ends the run with an error.
Activate(m) ==
  /\ run[m].at = "activate"
  /\ IF run[m].activate \in enabled
     THEN serves' = run[m].activate /\ To(m, "prune") /\ lock' = lock
     ELSE serves' = serves /\ run' = [run EXCEPT ![m] = Idle] /\ Frees(m)
  /\ UNCHANGED <<schema, weights, crosswalk, enabled, built, silver, kills>>

\* Bug: a disabled scheme goes whoever serves it.
Disabled == Schemes \ enabled
Prunable == Schemes \ (enabled \cup {serves})

PruneRead(m) == /\ run[m].at = "prune"
                /\ run' = [run EXCEPT ![m].at = "pruning", ![m].doomed = Prunable]
                /\ UNCHANGED <<database, lock, kills>>

PruneDelete(m) == /\ run[m].at = "pruning" /\ built' = built \ run[m].doomed
                  /\ run' = [run EXCEPT ![m].at = "cells", ![m].doomed = {}]
                  /\ UNCHANGED <<schema, reference, lock, silver, kills>>
-----------------------------------------------------------------------------
(* Backfills, a batch at a time.                                           *)

Loaded == {c \in Classes : hour[c] # Absent}
Count(classes) == MapThenSumSet(LAMBDA c : Rows[c], classes)

\* Why the audit can tell a local clock from an UTC one, as the floor's comment
\* has it: the evening is roughly a fifth of the rows, so enough of them that
\* on the next day their share shows.
ASSUME EveningAssumption ==
  \A classes \in SUBSET Classes : Legacy \subseteq classes /\ classes \cap Timed # {} =>
    (Count(classes) - Count(classes \cap Late)) * 100 < Floor * Count(classes)

FillCells(m) == /\ run[m].at = "cells"
                /\ \/ /\ \E c \in Loaded \ celled : celled' = celled \cup {c}
                      /\ run' = run
                   \/ Loaded \subseteq celled /\ celled' = celled /\ To(m, "hours")
                /\ UNCHANGED <<schema, reference, built, lock, hour, wallClock, kills>>

\* The audit.  Read as UTC, a UTC clock puts the evening on the next day; a
\* local one puts everything on its own.
Aligned   == Count(Loaded) - (IF wallClock THEN 0 ELSE Count(Loaded \cap Late))
Midnights == Count(Loaded \ Timed)

\* Bug: the timestamps are taken for local whatever they say.
AnyClock == Loaded \cap Timed # {}
LocalClock == Loaded \cap Timed # {} /\ Aligned * 100 >= Floor * Count(Loaded)

AuditHours(m) ==
  /\ run[m].at = "hours"
  /\ IF LocalClock
     THEN run' = [run EXCEPT ![m].at = "filling",
                             ![m].skip = Midnights * 100 > Ceiling * Count(Loaded)]
     ELSE To(m, "unlock")
  /\ UNCHANGED <<database, lock, kills>>

Fillable(m) == {c \in Loaded : hour[c] = "none" /\ (run[m].skip => c \in Timed)}

\* What a timestamp of the class reads as.
ClockOf(c) == IF c \notin Timed THEN "zero" ELSE IF wallClock THEN "own" ELSE "wrong"

FillHours(m) ==
  /\ run[m].at = "filling"
  /\ \/ /\ \E c \in Fillable(m) : hour' = [hour EXCEPT ![c] = ClockOf(c)]
        /\ run' = run
     \/ Fillable(m) = {} /\ hour' = hour /\ To(m, "unlock")
  /\ UNCHANGED <<schema, reference, built, lock, celled, wallClock, kills>>

Unlock(m) == /\ run[m].at = "unlock"
             /\ Frees(m) /\ run' = [run EXCEPT ![m] = Idle]
             /\ UNCHANGED <<database, kills>>
-----------------------------------------------------------------------------
(* The ETL, which takes no notice of the lock.                             *)

\* A pull reads rows, or reads them again: the hour is what the source says.
LoadRows == /\ \E c \in Classes :
                 /\ hour' = [hour EXCEPT ![c] = IF c \in Timed THEN "own" ELSE "none"]
                 /\ celled' = celled \cup {c}
            /\ UNCHANGED <<schema, reference, built, wallClock, lock, run, kills>>

\* A gold refresh builds every enabled scheme.
Rebuild == /\ built' = built \cup enabled
           /\ UNCHANGED <<schema, reference, silver, lock, run, kills>>
-----------------------------------------------------------------------------
Transaction(m) ==
  \/ Verify(m) \/ Refuse(m) \/ Apply(m) \/ Applied(m)
  \/ LoadSchemes(m) \/ LoadWeights(m) \/ CopyInherited(m) \/ LoadCrosswalks(m) \/ Point(m) \/ Activate(m)
  \/ PruneRead(m) \/ PruneDelete(m) \/ FillCells(m) \/ AuditHours(m) \/ FillHours(m)

Next ==
  \/ \E m \in Runs : \/ Start(m) \/ Lock(m) \/ LockTimeout(m)
                      \/ Transaction(m) \/ Unlock(m) \/ Kill(m)
  \/ LoadRows \/ Rebuild

Spec == Init /\ [][Next]_vars
-----------------------------------------------------------------------------
(* Properties.                                                             *)

Steps == {"idle", "waiting", "verify", "apply", "schemes", "weights", "inherit", "crosswalk", "point",
          "activate", "prune", "pruning", "cells", "hours", "filling", "unlock"}

Versions == UNION {ToSet(t.files) : t \in Trees}

\* Every variable has the shape the code gives it.
TypeOK ==
  /\ recorded \in Seq(Versions \cup {Null})
  /\ ran \in Seq([file : Nat, content : Versions])
  /\ lock \in Runs \cup {NoRun}
  /\ weights \in [Schemes -> {0} \cup {t.csv : t \in Trees}]
  /\ crosswalk \in {0} \cup {t.csv : t \in Trees}
  /\ enabled \subseteq Schemes /\ serves \in Schemes \cup {NoScheme} /\ built \subseteq Schemes
  /\ hour \in [Classes -> {Absent, "none", "own", "zero", "wrong"}]
  /\ celled \subseteq Classes /\ wallClock \in BOOLEAN /\ kills \in 0..MaxKills
  /\ run \in [Runs -> [at : Steps, tree : Trees, activate : Schemes \cup {NoScheme},
                        already : SUBSET Nat, doomed : SUBSET Schemes, skip : BOOLEAN]]

\* Each migration ran once, in filename order, and the table lists exactly
\* what ran, wherever a run was cut short and whatever two runs did at once.
SchemaHistory == /\ Len(ran) = Len(recorded)
                 /\ \A i \in DOMAIN ran : ran[i].file = i

\* A run past its verification works on a tree whose applied files are the
\* ones recorded, until it ends: no other run changes them under it.
VerifiedTree ==
  \A m \in Runs : run[m].at \notin {"idle", "waiting", "verify"} =>
    \A f \in DOMAIN recorded \cap DOMAIN Files(m) : recorded[f] = Files(m)[f]

\* A run that gets to its end leaves what its tree says, whatever was left by
\* runs that did not: every migration, the crosswalk, the severity weights, the
\* same in the scheme that inherits them, a cell for every row and an hour for every row
\* whose clock is known.
FinishedIsComplete ==
  \A m \in Runs : run[m].at = "unlock" =>
    /\ DOMAIN Files(m) \subseteq DOMAIN recorded
    /\ enabled = run[m].tree.enabled
    /\ weights[Parent] = run[m].tree.csv /\ weights[Child] = weights[Parent]
    /\ crosswalk = run[m].tree.csv
    /\ Loaded \subseteq celled
    /\ wallClock => \A c \in Loaded \cap Timed : hour[c] = "own"

\* No clock hour is read from a timestamp that is not a local clock's.
HourIsOwn == \A c \in Timed : hour[c] # "wrong"

\* Pruning never takes the rows the city's map is drawn from.
ServedIsKept == [][\A s \in built : s = serves => s \in built']_vars
=============================================================================
