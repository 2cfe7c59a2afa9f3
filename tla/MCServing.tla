----------------------------- MODULE MCServing -----------------------------
(* Visitors on one city: two read the same layer, one asks for dates.      *)
EXTENDS Serving

CONSTANTS ann, bob, cyd, dan

EndpointOf == [r \in Requests |-> Cells(r = cyd)]
\* Two read the same layer, two poll the version.
PollersToo == [r \in Requests |-> IF r \in {ann, bob} THEN Cells(FALSE) ELSE Version]
StartOf == [r \in Requests |-> 0]

\* A layer weighs two, and the second generation's does not fit at all.
WeightOf(v) == 2 * v.high

\* Two visitors do the same thing.
Alike == Permutations({ann, bob})
=============================================================================
