------------------------------ MODULE Ranking ------------------------------
(***************************************************************************)
(* The severity-weighted ranking of one track (safety/ranking_sql.py) and  *)
(* the shapes of the day and of the week (safety/etl/gold.py), without     *)
(* state.  A table is a function of its key: the ranking takes one row     *)
(* [n, w, ex] a cell, how many offences, what they weigh, and the          *)
(* exposure.  Rates are kept as the numerators of one common denominator,  *)
(* so they compare exactly.                                                *)
(***************************************************************************)
EXTENDS Integers, FiniteSetsExt

CONSTANTS
  Cells,     \* the city's universe
  Near(_)    \* gold.cell_neighbor: a cell's ring, in the universe

\* A hexagon has six neighbours, fewer of them in the universe at its edge.
ASSUME RankingAssumption ==
  /\ IsFiniteSet(Cells)
  /\ \A c \in Cells : Near(c) \subseteq Cells \ {c} /\ Cardinality(Near(c)) =< 6

SumOf(f)     == MapThenSumSet(LAMBDA x : f[x], DOMAIN f)
ProductOf(f) == MapThenFoldSet(LAMBDA a, b : a * b, 1, LAMBDA x : f[x],
                             LAMBDA T : CHOOSE x \in T : TRUE, DOMAIN f)

Weight(rows)   == SumOf([x \in DOMAIN rows |-> rows[x].w])
Everyone(rows) == SumOf([c \in DOMAIN rows |-> rows[c].ex])

\* What a cell's rate is shrunk toward, and the denominator all rates share.
City(rows, prior) ==
  [w |-> Weight(rows), ex |-> Everyone(rows),
   scale |-> ProductOf([c \in DOMAIN rows |-> rows[c].ex + prior])]

\* Bug: a cell is shrunk by how little was reported in it, not by how little
\* of it was watched.
ShrunkByCount(row, city, prior) ==
  (row.w * city.ex + city.w * prior) * (city.scale \div (row.n + prior))

\* The posterior rate: the cell's weight plus a prior's worth of the city's
\* rate, over its exposure plus the prior.  A city nobody is in has no rate.
Adjusted(row, city, prior) ==
  (IF city.ex = 0 THEN row.w ELSE row.w * city.ex + city.w * prior)
    * (city.scale \div (row.ex + prior))

NeighborSum(c, rows, city, prior) == SumOf([d \in Near(c) |-> Adjusted(rows[d], city, prior)])

\* The blend of a cell with its ring's mean, six parts to four, as 600 of it;
\* alone, its own.
Smoothed(c, rows, city, prior) ==
  LET own == Adjusted(rows[c], city, prior)
  IN IF Near(c) = {} THEN 600 * own
     ELSE 360 * own + 4 * ((60 * NeighborSum(c, rows, city, prior)) \div Cardinality(Near(c)))

\* Hazen's midrank, the riskiest first: the percentile is standing / 2N.
Standing(rate, rates) ==
  2 * Cardinality({p \in rates : p[2] > rate}) + Cardinality({p \in rates : p[2] = rate})

\* Quarters of the city; 0 says nothing was reported, not that it is safe.
Tier(n, standing) == IF n = 0 THEN 0 ELSE 1 + (2 * standing) \div Cardinality(Cells)

Ranked(rows, prior) ==
  LET city  == City(rows, prior)
      rates == {<<c, Smoothed(c, rows, city, prior)>> : c \in Cells}
      Of(row, rate, s) == [n |-> row.n, w |-> row.w, ex |-> row.ex, rate |-> rate,
                           standing |-> s, tier |-> Tier(row.n, s)]
      Row(c, rate) == Of(rows[c], rate, Standing(rate, rates))
  IN [c \in Cells |-> Row(c, Smoothed(c, rows, city, prior))]
-----------------------------------------------------------------------------
(* Shapes, of a row [n, w] for every cell and block.                       *)

\* What a cell's blocks are shares of.
CellDay(c, shape, blocks) ==
  [n |-> SumOf([b \in blocks |-> shape[<<c, b>>].n]),
   w |-> SumOf([b \in blocks |-> shape[<<c, b>>].w])]

\* What the whole city has in one block.
CityBlock(block, shape) == SumOf([c \in Cells |-> shape[<<c, block>>].w])

\* A cell's share of its own day in one block, times the blocks, blended with
\* the city's share by n / (n + prior).
Factor(own, day, city, whole, many, prior) ==
  LET mine  == IF day.w > 0 THEN <<own.w, day.w>> ELSE <<0, 1>>
      share == IF whole > 0 THEN <<city, whole>> ELSE <<1, many>>
  IN [num |-> many * (day.n * mine[1] * share[2] + prior * share[1] * mine[2]),
      den |-> (day.n + prior) * mine[2] * share[2]]

Factors(shape, blocks, prior) ==
  LET whole == Weight(shape)
      Of(c, b) == Factor(shape[<<c, b>>], CellDay(c, shape, blocks), CityBlock(b, shape), whole,
                         Cardinality(blocks), prior)
  IN [p \in Cells \X blocks |-> Of(p[1], p[2])]
=============================================================================
