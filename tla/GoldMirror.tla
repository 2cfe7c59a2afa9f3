----------------------------- MODULE GoldMirror -----------------------------
(***************************************************************************)
(* What the pending mark promises (safety/etl/pending.py), with the pulls, *)
(* crashes and commands left out: gold mirrors silver except on the days   *)
(* known to be stale, a write to silver makes the days it touches stale,   *)
(* and days stop being stale only when gold is rebuilt from silver.        *)
(***************************************************************************)
EXTENDS Integers

CONSTANTS Row, Day     \* every row has a .day in Day

VARIABLES
  stored,   \* the rows silver holds
  shown,    \* the rows gold was built from
  stale     \* the days gold may be wrong about

mirrorVars == <<stored, shown, stale>>

Differ(a, b) == {r.day : r \in (a \ b) \cup (b \ a)}

MirrorInit == stored = {} /\ shown = {} /\ stale = {}

Write == /\ stored' \subseteq Row
         /\ stale' \subseteq Day
         /\ stale \subseteq stale'
         /\ Differ(stored, stored') \subseteq stale'
         /\ shown' = shown

Mirror == /\ shown' = stored
          /\ stale' = {}
          /\ stored' = stored

MirrorSpec == MirrorInit /\ [][Write \/ Mirror]_mirrorVars

\* Outside the stale days gold shows exactly what silver holds.
Faithful == Differ(stored, shown) \subseteq stale
=============================================================================
