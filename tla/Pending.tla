------------------------------ MODULE Pending ------------------------------
(***************************************************************************)
(* The per-city mark in etl.gold_pending (safety/etl/pending.py): which    *)
(* days of silver the gold layers do not reflect yet.  A mark is absent    *)
(* (NotPending), a date (nothing before it changed), or undated            *)
(* (Everything: rebuild the city in full).  Days are integers.             *)
(***************************************************************************)
EXTENDS Integers

CONSTANTS NotPending, Everything

ASSUME PendingAssumption ==
  /\ NotPending \notin Int
  /\ Everything \notin Int
  /\ NotPending # Everything

PendingMark == Int \cup {NotPending, Everything}

\* Bug: a dated mark narrows an undated one.
MarkNarrowing(p, from) ==
  IF p \in Int /\ from \in Int /\ p < from THEN p ELSE from

\* _MARK_SQL: insert, or on conflict keep the wider of the two marks.
Mark(p, from) ==
  CASE p = NotPending                                 -> from
    [] p # NotPending /\ Everything \in {p, from}     -> Everything
    [] p # NotPending /\ Everything \notin {p, from}  -> IF from < p THEN from ELSE p

\* The days a mark says gold may be wrong about.
Dirty(p, day) == p = Everything \/ (p \in Int /\ p =< day)
=============================================================================
