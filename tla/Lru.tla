-------------------------------- MODULE Lru --------------------------------
(***************************************************************************)
(* Bounded least-recently-used tables, as the sequence of their entries,   *)
(* oldest first: the OrderedDicts of ttlcache.py, service.py, ratelimit.py *)
(* and the response cache.  An entry is a record with a key.               *)
(***************************************************************************)
EXTENDS Integers, Sequences, SequencesExt

EntryOf(table, key) == {e \in ToSet(table) : e.key = key}
HasKey(table, key)  == EntryOf(table, key) # {}
The(table, key)     == CHOOSE e \in EntryOf(table, key) : TRUE
Dropped(table, key) ==
  IF HasKey(table, key) THEN RemoveFirst(table, The(table, key)) ELSE table

\* The newest entries that fit.
Newest(table, size) ==
  IF Len(table) =< size THEN table ELSE SubSeq(table, Len(table) - size + 1, Len(table))

\* An entry set or touched becomes the newest; the oldest make room.
Put(table, e, size) == Newest(Append(Dropped(table, e.key), e), size)

\* A table of at most size entries, one for each key.
LruOf(Entry, size) ==
  {table \in Seq(Entry) : Len(table) =< size /\ IsInjective([i \in DOMAIN table |-> table[i].key])}
=============================================================================
