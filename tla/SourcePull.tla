----------------------------- MODULE SourcePull -----------------------------
(***************************************************************************)
(* One source's pulls, request by request: the adapter reads the portal    *)
(* part by part while the agency goes on publishing, every answer is a     *)
(* chunk in bronze, the records are validated and promoted, rows silver    *)
(* holds that the pull did not return are withdrawn, and a stored pull can *)
(* be replayed.  GoldPipeline takes a pull's reading as one step; this is  *)
(* that step.                                                              *)
(*                                                                         *)
(* A part is what the adapter asks for at a time: a calendar month for     *)
(* Carto and Socrata, one answer each; a layer for Esri, page by page.     *)
(***************************************************************************)
EXTENDS FiniteSetsExt, SequencesExt

CONSTANTS
  Ids,              \* the source's incident ids
  Parts,            \* the parts of a pull, in the order they are asked for
  NameOrder,        \* a paged source's parts, in the order of their chunks' names
  FirstPublished,   \* part -> the ids published when the model begins
  PageSize,         \* _PAGE_SIZE, of Esri's pages
  PageLimit,        \* Socrata's ceiling on one answer
  Modes,            \* WITHDRAWN_RECONCILE
  AbsentPercent, StratumMinRows, WholeStratumMinRows,   \* withdrawn.py
  MaxChanges, MaxOutages, MaxPulls, MaxStops            \* bounds of the model

ASSUME SourceAssumption ==
  /\ Parts \in Seq(Range(Parts)) /\ FirstPublished \in [Range(Parts) -> Seq(Ids)]
  /\ \A p \in Range(Parts) : IsInjective(FirstPublished[p])
  /\ IsInjective(Parts) /\ IsInjective(NameOrder) /\ Range(NameOrder) = Range(Parts)
  /\ {PageSize, PageLimit} \subseteq Nat \ {0}
  /\ Modes \subseteq {"off", "report", "delete"}
  /\ {AbsentPercent, StratumMinRows, WholeStratumMinRows,
      MaxChanges, MaxOutages, MaxPulls, MaxStops} \subseteq Nat

VARIABLES
  paged,    \* whether the source is read by pages
  portal,   \* part -> the ids it holds, by month or by OBJECTID
  rev,      \* id -> its content as published: a revision, and whether valid
  silver,   \* id -> the part and content silver.incident holds
  pull,     \* the pull under way
  bronze,   \* the pulls on record, oldest first: their chunks and status
  orphaned, \* history: a pull promoted, died, and none succeeded since
  spent

vars == <<paged, portal, rev, silver, pull, bronze, orphaned, spent>>

Spend(what) ==
  /\ spent[what] < [changes |-> MaxChanges, outages |-> MaxOutages,
                    pulls |-> MaxPulls, stops |-> MaxStops][what]
  /\ spent' = [spent EXCEPT ![what] = @ + 1]

\* stood, shrunk and dark are history: the ids untouched since the pull
\* began, the parts that lost a row since, the parts wrongly answered empty.
NoPull == [at |-> "idle", mode |-> "off", next |-> 1, offset |-> 0, chunks |-> <<>>,
           absent |-> {}, stood |-> {}, shrunk |-> {}, dark |-> {}]
-----------------------------------------------------------------------------
(* What a pull's chunks hold.  A record is known by its place: its chunk,  *)
(* and where it is in it.                                                  *)

Places(chunks) == UNION {{i} \X DOMAIN chunks[i].rows : i \in DOMAIN chunks}
At(chunks, p)  == chunks[p[1]].rows[p[2]]
Records(chunks) == {At(chunks, p) : p \in Places(chunks)}

\* validate_records, over chunks in one order or another: rejects go, and of a
\* repeated id the first is kept.
Accepted(chunks, order) ==
  LET Before(p, q) == <<p[1], q[1]>> \in order \/ (p[1] = q[1] /\ p[2] < q[2])
      Valid(p) == At(chunks, p).rev.valid
      First(p) == \A q \in Places(chunks) :
                    Valid(q) /\ At(chunks, q).id = At(chunks, p).id => ~Before(q, p)
  IN {At(chunks, p) : p \in {p \in Places(chunks) : Valid(p) /\ First(p)}}

\* An order is the pairs of chunks of which the first comes first.
Pairs(chunks)     == (DOMAIN chunks) \X (DOMAIN chunks)
AsFetched(chunks) == {p \in Pairs(chunks) : p[1] < p[2]}

\* Bug: a record the validator rejected counts as gone.
SeenValid(chunks) == {r.id : r \in Accepted(chunks, AsFetched(chunks))}

\* Every record counts as seen, valid or not: it is still upstream.
Seen(chunks) == {r.id : r \in Records(chunks)}

\* stage_records and promote_to_silver: an upsert by id.
Staged(rows) ==
  [id \in {r.id : r \in rows} |-> LET r == CHOOSE r \in rows : r.id = id
                                  IN [part |-> r.part, rev |-> r.rev]]
Upserted(rows) ==
  LET staged == Staged(rows)
  IN [id \in DOMAIN staged \cup DOMAIN silver |->
        IF id \in DOMAIN staged THEN staged[id] ELSE silver[id]]
-----------------------------------------------------------------------------
(* Where it begins.                                                        *)

\* A first backfill, of portals small enough for a chunk a part.
NewRow == [n |-> 0, valid |-> TRUE]
Backfill == [i \in DOMAIN Parts |->
  [part |-> Parts[i],
   rows |-> [j \in DOMAIN FirstPublished[Parts[i]] |->
     [id |-> FirstPublished[Parts[i]][j], part |-> Parts[i], rev |-> NewRow]]]]
Backfilled == Staged(Accepted(Backfill, AsFetched(Backfill)))

\* A source new to the pipeline, or one that has been backfilled.
Init ==
  /\ paged \in BOOLEAN
  /\ portal = FirstPublished
  /\ rev = [id \in Ids |-> NewRow]
  /\ \/ silver = << >> /\ bronze = << >>
     \/ silver = Backfilled /\ bronze = <<[status |-> "succeeded", chunks |-> Backfill]>>
  /\ pull = NoPull /\ orphaned = FALSE
  /\ spent = [changes |-> 0, outages |-> 0, pulls |-> 0, stops |-> 0]
-----------------------------------------------------------------------------
(* The agency.                                                             *)

PartsOf(id) == {p \in DOMAIN portal : id \in Range(portal[p])}
Without(seq, id) == RemoveFirst(seq, id)     \* where it stands, once

\* A record is published, or moves: to another month when it is re-dated, to
\* another layer when it is reclassified, and there it comes last.
Move(id, p) ==
  /\ Spend("changes") /\ p \notin PartsOf(id)
  /\ portal' = [q \in DOMAIN portal |->
                  IF q = p THEN Append(portal[p], id) ELSE Without(portal[q], id)]
  /\ rev' = [rev EXCEPT ![id].n = @ + 1]
  /\ pull' = [pull EXCEPT !.stood = @ \ {id}, !.shrunk = @ \cup PartsOf(id)]
  /\ UNCHANGED <<paged, silver, bronze, orphaned>>

Withdraw(id) ==
  /\ Spend("changes") /\ PartsOf(id) # {}
  /\ portal' = [q \in DOMAIN portal |-> Without(portal[q], id)]
  /\ pull' = [pull EXCEPT !.stood = @ \ {id}, !.shrunk = @ \cup PartsOf(id)]
  /\ UNCHANGED <<paged, rev, silver, bronze, orphaned>>

\* A record is revised where it is, perhaps into one the validator rejects.
Revise(id, valid) ==
  /\ Spend("changes") /\ PartsOf(id) # {}
  /\ rev' = [rev EXCEPT ![id] = [n |-> @.n + 1, valid |-> valid]]
  /\ pull' = [pull EXCEPT !.stood = @ \ {id}]
  /\ UNCHANGED <<paged, portal, silver, bronze, orphaned>>
-----------------------------------------------------------------------------
(* Fetching: fetch_incidents, a request at a time.                         *)

\* An incremental with a watermark compares what it read with silver; a
\* backfill does not.
Open(mode) ==
  /\ pull.at = "idle" /\ Spend("pulls")
  /\ mode # "off" => silver # << >>
  /\ pull' = [NoPull EXCEPT !.at = "fetching", !.mode = mode,
                            !.stood = UNION {Range(portal[p]) : p \in DOMAIN portal}]
  /\ UNCHANGED <<paged, portal, rev, silver, bronze, orphaned>>

Asked == Parts[pull.next]

\* Bug: a page is taken to be full.
NextPageOffset(features) == pull.offset + PageSize
NextOffset(features) == pull.offset + Len(features)

\* A month comes whole; a layer from the offset, a page or less at a time.
Left == SubSeq(portal[Asked], pull.offset + 1, Len(portal[Asked]))
Answers == IF paged /\ Left # << >>
           THEN {SubSeq(Left, 1, n) : n \in {n \in 1..Len(Left) : n =< PageSize}} ELSE {Left}

Written(features) == [i \in DOMAIN features |->
  [id |-> features[i], part |-> Asked, rev |-> rev[features[i]]]]

\* The chunk goes to bronze before it is parsed, and the next request is for
\* the rest of the part or for the next part.
Receive(features, more) ==
  pull' = [pull EXCEPT
    !.chunks = Append(@, [part |-> Asked, rows |-> Written(features)]),
    !.next = IF more THEN @ ELSE @ + 1,
    !.offset = IF more THEN NextOffset(features) ELSE 0]

Fetching == pull.at = "fetching" /\ pull.next \in DOMAIN Parts

\* exceededTransferLimit is set while the layer has rows beyond the page.
Fetch ==
  /\ Fetching /\ (paged \/ Len(Left) < PageLimit)
  /\ \E features \in Answers : Receive(features, Len(features) < Len(Left))
  /\ UNCHANGED <<paged, portal, rev, silver, bronze, orphaned, spent>>

\* Esri answers 200 with no features, whatever the layer holds.
FetchNothing ==
  /\ Fetching /\ paged /\ Spend("outages")
  /\ pull' = [pull EXCEPT !.chunks = Append(@, [part |-> Asked, rows |-> << >>]),
                          !.next = @ + 1, !.offset = 0,
                          !.dark = @ \cup {Asked}]
  /\ UNCHANGED <<paged, portal, rev, silver, bronze, orphaned>>

Recorded(status) == Append(bronze, [status |-> status, chunks |-> pull.chunks])

\* The pull ends before it promoted anything.
Ended(status) == pull' = NoPull /\ bronze' = Recorded(status)

\* A request that failed on every try, a truncated month, a killed process: a
\* failed pull is not on record with its chunks, and keeps what it committed.
Fail ==
  /\ pull.at # "idle" /\ pull' = NoPull
  /\ \/ Spend("stops")
     \/ Fetching /\ ~paged /\ Len(Left) >= PageLimit /\ UNCHANGED spent
  /\ orphaned' = (orphaned \/ pull.at \in {"promoted", "reconciled"})
  /\ UNCHANGED <<paged, portal, rev, silver, bronze>>
-----------------------------------------------------------------------------
(* Validating, promoting and reconciling: _ingest after the fetch.         *)

\* withdrawn.assess: the rows silver held, by stratum, and those not seen.
Stratum(p) == {id \in DOMAIN silver : silver[id].part = p}
Absent(seen) == DOMAIN silver \ seen
TooMany(ids, absent) == 100 * Cardinality(ids \cap absent) > AbsentPercent * Cardinality(ids)

\* withdrawn.decide, the outage guard.
Partial(absent) ==
  \/ TooMany(DOMAIN silver, absent)
  \/ \E p \in DOMAIN portal :
       \/ Cardinality(Stratum(p)) >= StratumMinRows /\ TooMany(Stratum(p), absent)
       \/ Cardinality(Stratum(p)) >= WholeStratumMinRows /\ Stratum(p) \subseteq absent

Decided(absent) == IF pull.mode = "delete" /\ ~Partial(absent) THEN absent ELSE {}

\* Assessed before promotion, so that silver is what it held before this pull.
Promote ==
  LET records == Records(pull.chunks)
      rows    == Accepted(pull.chunks, AsFetched(pull.chunks))
  IN /\ pull.at = "fetching" /\ pull.next \notin DOMAIN Parts
     /\ UNCHANGED <<paged, portal, rev, orphaned, spent>>
     /\ \/ /\ records = {} /\ Ended("no_new_data") /\ UNCHANGED silver
        \/ /\ records # {} /\ rows = {} /\ Ended("blocked") /\ UNCHANGED silver
        \/ /\ rows # {}
           /\ silver' = Upserted(rows)
           /\ pull' = [pull EXCEPT !.at = "promoted",
                                   !.absent = Decided(Absent(Seen(pull.chunks)))]
           /\ UNCHANGED bronze

\* withdrawn.apply in a transaction of its own, which may fail and does not
\* fail the pull.
Reconcile ==
  /\ pull.at = "promoted"
  /\ \/ silver' = Restrict(silver, DOMAIN silver \ pull.absent) /\ UNCHANGED spent
     \/ Spend("stops") /\ UNCHANGED silver
  /\ pull' = [pull EXCEPT !.at = "reconciled"]
  /\ UNCHANGED <<paged, portal, rev, bronze, orphaned>>

Finish ==
  /\ pull.at = "reconciled"
  /\ Ended("succeeded") /\ orphaned' = FALSE
  /\ UNCHANGED <<paged, portal, rev, silver, spent>>

\* Bug: the chunks come in the order the directory lists them.
AsListed(chunks) == {p \in Pairs(chunks) : p[2] < p[1]}

\* iter_chunks, in the order of the chunks' names; a month's name is its date.
AsNamed(chunks) ==
  {p \in Pairs(chunks) :
    IF paged /\ chunks[p[1]].part # chunks[p[2]].part
    THEN \E m, n \in DOMAIN NameOrder :
           m < n /\ NameOrder[m] = chunks[p[1]].part /\ NameOrder[n] = chunks[p[2]].part
    ELSE p[1] < p[2]}

\* cmd_reprocess replays the newest pull that succeeded, or one named, through
\* the same validator; the replay is on record like a pull.
Reprocess(i) ==
  /\ pull.at = "idle" /\ Spend("pulls")
  /\ LET chunks == bronze[i].chunks
     IN silver' = Upserted(Accepted(chunks, AsNamed(chunks)))
  /\ bronze' = Append(bronze, [bronze[i] EXCEPT !.status = "succeeded"])
  /\ UNCHANGED <<paged, portal, rev, pull, orphaned>>
-----------------------------------------------------------------------------
Agency == \/ \E id \in Ids, p \in DOMAIN portal : Move(id, p)
          \/ \E id \in Ids : Withdraw(id) \/ \E valid \in BOOLEAN : Revise(id, valid)

Work == \/ \E mode \in Modes : Open(mode)
        \/ Fetch \/ FetchNothing \/ Fail \/ Promote \/ Reconcile \/ Finish
        \/ \E i \in DOMAIN bronze : Reprocess(i)

Next == Agency \/ Work

Spec == Init /\ [][Next]_vars
-----------------------------------------------------------------------------
(* Properties.                                                             *)

\* Whether the pull was sure to come by this row: it was published where it
\* is when the pull began and nothing touched it since; and, in a source read
\* by pages, no row left its layer under the pages and no page came empty.
SureToRead(id) ==
  /\ id \in pull.stood
  /\ paged => PartsOf(id) \cap (pull.shrunk \cup pull.dark) = {}

\* When a pull has promoted, silver holds every such row as it is published,
\* whatever else was published, moved, revised or withdrawn between its
\* requests, and however the rows were cut into pages.
StandingRowsKept ==
  pull.at \in {"promoted", "reconciled"} =>
    \A id \in Ids : SureToRead(id) /\ rev[id].valid =>
      id \in DOMAIN silver /\ \E p \in PartsOf(id) : silver[id] = [part |-> p, rev |-> rev[id]]

\* A row leaves silver only when its pull could have missed it: one that stood
\* is never withdrawn, be it published with content the validator rejects.
WithdrawsOnlyGone ==
  [][\A id \in DOMAIN silver \ DOMAIN silver' : ~SureToRead(id)]_vars

\* Replaying the newest succeeded pull changes nothing in silver, unless a
\* pull that died after promoting has been there since, or a paged source's
\* pull read one id in two layers.
Succeeded == {i \in DOMAIN bronze : bronze[i].status = "succeeded"}
ReadOnce(chunks) ==
  \A p, q \in Places(chunks) : At(chunks, p).id = At(chunks, q).id => p = q
ReplayChangesNothing ==
  [][pull.at = "idle" /\ bronze' # bronze /\ Succeeded # {} /\ ~orphaned
     /\ Last(bronze').chunks = bronze[Max(Succeeded)].chunks
     /\ (paged => ReadOnce(Last(bronze').chunks))
     => silver' = silver]_vars
=============================================================================
