--------------------------- MODULE FiguresProofs ---------------------------
(***************************************************************************)
(* Rankings follow the evidence, and a range of dates ranks as the window  *)
(* of those dates does, for every city, scheme, weight, prior, span and    *)
(* number of changes.                                                      *)
(***************************************************************************)
EXTENDS Figures, DataLemmas

(* Rankings.                                                               *)

\* What is ranked: a row a cell, none of them without exposure or a prior.
Tables(prior) ==
  {rows \in [Cells -> [n : Nat, w : Nat, ex : Nat]] : \A c \in Cells : rows[c].ex + prior > 0}

Totals == [w : Nat, ex : Nat, scale : Nat \ {0}]

\* A sum of the values of a function, as one over its domain.
LEMMA SumIs == \A f : SumOf(f) = SumOver(f, DOMAIN f)
BY DEF SumOf, SumOver
\* The fold the ranking multiplies with is the product of DataLemmas.
LEMMA ProductIs == \A f : ProductOf(f) = ProductOver(f, DOMAIN f)
BY DEF ProductOf, ProductOver

\* The city's totals, and a denominator no smaller than any cell's.
LEMMA CityIs ==
  ASSUME NEW prior \in Nat, NEW rows \in Tables(prior)
  PROVE  /\ City(rows, prior) \in Totals
         /\ \A c \in Cells : rows[c].ex + prior \in 1..City(rows, prior).scale
<1> DEFINE w == [x \in DOMAIN rows |-> rows[x].w]
           ex == [x \in DOMAIN rows |-> rows[x].ex]
           each == [x \in DOMAIN rows |-> rows[x].ex + prior]
<1>1. DOMAIN rows = Cells /\ IsFiniteSet(Cells)
  BY RankingAssumption DEF Tables
<1>2. \A c \in Cells : w[c] \in Nat /\ ex[c] \in Nat /\ each[c] \in Nat \ {0}
  <2> TAKE c \in Cells
  <2>1. rows[c] \in [n : Nat, w : Nat, ex : Nat] /\ rows[c].ex + prior > 0
    BY DEF Tables
  <2> QED BY <1>1, <2>1
<1>3. DOMAIN w = Cells /\ DOMAIN ex = Cells /\ DOMAIN each = Cells
  BY <1>1
<1>4. /\ City(rows, prior).w = SumOver(w, Cells) /\ City(rows, prior).ex = SumOver(ex, Cells)
      /\ City(rows, prior).scale = ProductOver(each, Cells)
      /\ City(rows, prior) = [w |-> SumOver(w, Cells), ex |-> SumOver(ex, Cells),
                              scale |-> ProductOver(each, Cells)]
  BY <1>3, SumIs, ProductIs DEF City, Weight, Everyone
<1>5. \A c \in Cells : rows[c].ex + prior = each[c]
  BY <1>1
<1> HIDE DEF w, ex, each
<1>6. SumOver(w, Cells) \in Nat /\ SumOver(ex, Cells) \in Nat
  BY <1>1, <1>2, SumIsNat
<1>7. ProductOver(each, Cells) \in Nat \ {0} /\ \A c \in Cells : each[c] =< ProductOver(each, Cells)
  BY <1>1, <1>2, ProductIsLarge
<1>8. \A c \in Cells : each[c] \in 1..ProductOver(each, Cells)
  BY <1>2, <1>7
<1> QED BY <1>4, <1>5, <1>6, <1>7, <1>8 DEF Totals

\* What does not exceed a number goes into it.
LEMMA DivIsPositive ==
  ASSUME NEW x \in Nat \ {0}, NEW y \in 1..x
  PROVE  x \div y \in Nat \ {0}
<1> DEFINE q == x \div y
           r == x % y
<1>1. y \in Nat \ {0} /\ y =< x
  OBVIOUS
<1>2. x = y * q + r /\ r \in 0..y-1 /\ q \in Int
  BY <1>1
<1> HIDE DEF q, r
<1>3. q > 0
  <2>1. ASSUME q =< 0 PROVE FALSE
    <3>1. y * q =< 0
      BY <1>1, <1>2, <2>1
    <3> QED BY <1>1, <1>2, <3>1
  <2> QED BY <1>2, <2>1
<1> QED BY <1>2, <1>3 DEF q

\* Of two cells as exposed, the one with less reported has the lower rate.
LEMMA AdjustedFollows ==
  ASSUME NEW prior \in Nat, NEW city \in Totals, NEW a, NEW b,
         a.w \in Nat, b.w \in Nat, a.ex \in Nat, a.ex + prior \in 1..city.scale, a.ex = b.ex
  PROVE  /\ Adjusted(a, city, prior) \in Nat
         /\ a.w = b.w => Adjusted(a, city, prior) = Adjusted(b, city, prior)
         /\ a.w < b.w => Adjusted(a, city, prior) < Adjusted(b, city, prior)
<1> DEFINE Numerator(x) == IF city.ex = 0 THEN x ELSE x * city.ex + city.w * prior
           k == city.scale \div (a.ex + prior)
<1>1. k \in Nat \ {0}
  <2> QED BY DivIsPositive DEF Totals
<1>2. \A x, y \in Nat : /\ Numerator(x) \in Nat
                        /\ x < y => Numerator(x) < Numerator(y)
  <2> SUFFICES ASSUME NEW x \in Nat, NEW y \in Nat
               PROVE  Numerator(x) \in Nat /\ (x < y => Numerator(x) < Numerator(y))
    OBVIOUS
  <2>1. city.ex \in Nat /\ city.w \in Nat
    BY DEF Totals
  <2>2. \A e \in Nat, z \in Nat : x * e + z \in Nat
    OBVIOUS
  <2>3. \A e \in Nat \ {0}, z \in Nat : x < y => x * e + z < y * e + z
    <3> TAKE e \in Nat \ {0}, z \in Nat
    <3>1. x < y => (y - x) * e > 0
      OBVIOUS
    <3>2. (y - x) * e = y * e - x * e
      OBVIOUS
    <3> QED BY <3>1, <3>2
  <2>4. city.w * prior \in Nat
    BY <2>1
  <2> QED BY <2>1, <2>2, <2>3, <2>4
<1>3. /\ Adjusted(a, city, prior) = Numerator(a.w) * k
      /\ Adjusted(b, city, prior) = Numerator(b.w) * k
  BY DEF Adjusted
<1>4. Numerator(a.w) \in Nat /\ Numerator(b.w) \in Nat /\ (a.w < b.w => Numerator(a.w) < Numerator(b.w))
  BY <1>2
<1>5. \A x, y \in Nat : x < y => x * k < y * k
  <2> HIDE DEF k
  <2> TAKE x, y \in Nat
  <2>1. x < y => (y - x) * k > 0
    BY <1>1
  <2>2. (y - x) * k = y * k - x * k
    BY <1>1
  <2> QED BY <1>1, <2>1, <2>2
<1> HIDE DEF Numerator, k
<1> QED BY <1>1, <1>3, <1>4, <1>5

\* A cell's rate and its ring's are what the numbers of the ring make them,
LEMMA NeighborSumIs ==
  ASSUME NEW prior \in Nat, NEW rows \in Tables(prior), NEW c \in Cells
  PROVE  /\ Adjusted(rows[c], City(rows, prior), prior) \in Nat
         /\ NeighborSum(c, rows, City(rows, prior), prior) \in Nat
         /\ IsFiniteSet(Near(c))
         /\ Near(c) # {} =>
              4 * ((60 * NeighborSum(c, rows, City(rows, prior), prior)) \div Cardinality(Near(c))) \in Int
<1> DEFINE city == City(rows, prior)
           Own(x) == Adjusted(rows[x], city, prior)
           F == [x \in Near(c) |-> Own(x)]
<1>1. ASSUME NEW x \in Cells PROVE Own(x) \in Nat
  <2>1. /\ rows[x].w \in Nat /\ rows[x].ex \in Nat /\ city \in Totals
        /\ rows[x].ex + prior \in 1..city.scale
    BY CityIs DEF Tables
  <2> HIDE DEF city
  <2> QED BY <2>1, AdjustedFollows
<1>2. IsFiniteSet(Near(c)) /\ Near(c) \subseteq Cells
  BY FS_Subset, RankingAssumption
<1>3. NeighborSum(c, rows, city, prior) \in Nat
  <2>1. \A x \in Near(c) : F[x] \in Nat
    BY <1>1, <1>2
  <2>2. NeighborSum(c, rows, city, prior) = SumOver(F, DOMAIN F) /\ DOMAIN F = Near(c)
    BY SumIs DEF NeighborSum
  <2> HIDE DEF F
  <2> QED BY <1>2, <2>1, <2>2, SumIsNat
<1>4. ASSUME Near(c) # {}
      PROVE  4 * ((60 * NeighborSum(c, rows, city, prior)) \div Cardinality(Near(c))) \in Int
  <2> DEFINE total == NeighborSum(c, rows, city, prior)
             many == Cardinality(Near(c))
  <2>1. total \in Nat /\ many \in Nat \ {0}
    BY <1>2, <1>3, <1>4, SizeOfSome
  <2> HIDE DEF total, many
  <2>2. (60 * total) \div many \in Int
    BY <2>1
  <2>3. 4 * ((60 * total) \div many) \in Int
    BY <2>2
  <2> QED BY <2>3 DEF total, many
<1> QED BY <1>1, <1>2, <1>3, <1>4

\* so the blend of both is a number,
LEMMA SmoothedIsInt ==
  ASSUME NEW prior \in Nat, NEW rows \in Tables(prior), NEW c \in Cells
  PROVE  Smoothed(c, rows, City(rows, prior), prior) \in Int
<1> DEFINE own == Adjusted(rows[c], City(rows, prior), prior)
           rest == 4 * ((60 * NeighborSum(c, rows, City(rows, prior), prior)) \div Cardinality(Near(c)))
<1>1. own \in Nat /\ (Near(c) # {} => rest \in Int)
  BY NeighborSumIs
<1>2. Smoothed(c, rows, City(rows, prior), prior) = IF Near(c) = {} THEN 600 * own ELSE 360 * own + rest
  BY DEF Smoothed
<1> HIDE DEF own, rest
<1> QED BY <1>1, <1>2

\* and of two cells as exposed, in as many and as risky neighbours, follows
\* what was reported in them.
LEMMA SmoothedFollows ==
  ASSUME NEW prior \in Nat, NEW rows \in Tables(prior), NEW c \in Cells, NEW d \in Cells,
         rows[c].ex = rows[d].ex, Cardinality(Near(c)) = Cardinality(Near(d)),
         NeighborSum(c, rows, City(rows, prior), prior) = NeighborSum(d, rows, City(rows, prior), prior)
  PROVE  LET rate(x) == Smoothed(x, rows, City(rows, prior), prior) IN
         /\ rows[c].w = rows[d].w => rate(c) = rate(d)
         /\ rows[c].w < rows[d].w => rate(c) < rate(d)
<1> DEFINE city == City(rows, prior)
           Own(x) == Adjusted(rows[x], city, prior)
           rest == 4 * ((60 * NeighborSum(c, rows, city, prior)) \div Cardinality(Near(c)))
<1>1. \A x \in Cells : rows[x] \in [n : Nat, w : Nat, ex : Nat]
  BY DEF Tables
<1>2. /\ Own(c) \in Nat /\ Own(d) \in Nat
      /\ rows[c].w = rows[d].w => Own(c) = Own(d)
      /\ rows[c].w < rows[d].w => Own(c) < Own(d)
  <2>1. /\ rows[c].w \in Nat /\ rows[d].w \in Nat /\ rows[c].ex \in Nat /\ rows[d].ex \in Nat
        /\ city \in Totals
        /\ rows[c].ex + prior \in 1..city.scale /\ rows[d].ex + prior \in 1..city.scale
    BY <1>1, CityIs
  <2> HIDE DEF city
  <2>2. rows[d].ex = rows[c].ex
    OBVIOUS
  <2>3. /\ Own(c) \in Nat
        /\ rows[c].w = rows[d].w => Own(c) = Own(d)
        /\ rows[c].w < rows[d].w => Own(c) < Own(d)
    BY <2>1, AdjustedFollows
  <2>4. Own(d) \in Nat
    BY <2>1, <2>2, AdjustedFollows
  <2> QED BY <2>3, <2>4
<1>3. Near(c) = {} <=> Near(d) = {}
  <2>1. IsFiniteSet(Near(c)) /\ IsFiniteSet(Near(d))
    BY FS_Subset, RankingAssumption
  <2> QED BY <2>1, FS_EmptySet
<1>4. rest \in Int \/ Near(c) = {}
  BY NeighborSumIs
<1>5. \A x \in {c, d} : Smoothed(x, rows, city, prior) =
                          IF Near(c) = {} THEN 600 * Own(x) ELSE 360 * Own(x) + rest
  BY <1>3 DEF Smoothed
<1> HIDE DEF Own, rest
<1> QED BY <1>2, <1>4, <1>5

\* A higher rate stands lower.
LEMMA StandingFalls ==
  ASSUME NEW rates, IsFiniteSet(rates), \A p \in rates : p[2] \in Int,
         NEW p \in rates, NEW q \in rates, p[2] < q[2]
  PROVE  Standing(q[2], rates) < Standing(p[2], rates)
<1> DEFINE Above(r) == {x \in rates : x[2] > r}
           At(r) == {x \in rates : x[2] = r}
<1>1. \A r : /\ IsFiniteSet(Above(r)) /\ Cardinality(Above(r)) \in Nat
             /\ IsFiniteSet(At(r)) /\ Cardinality(At(r)) \in Nat
  <2>1. \A r : Above(r) \subseteq rates /\ At(r) \subseteq rates
    OBVIOUS
  <2> QED BY <2>1, FS_Subset, FS_CardinalityType
<1>2. Cardinality(At(p[2])) > 0
  <2>1. At(p[2]) # {}
    OBVIOUS
  <2>2. Cardinality(At(p[2])) \in Nat \ {0}
    BY <1>1, <2>1, SizeOfSome
  <2> QED BY <2>2
<1>3. Cardinality(Above(q[2])) + Cardinality(At(q[2])) =< Cardinality(Above(p[2]))
  <2>1. Above(q[2]) \cap At(q[2]) = {} /\ Above(q[2]) \cup At(q[2]) \subseteq Above(p[2])
    OBVIOUS
  <2> HIDE DEF Above, At
  <2>2. Cardinality(Above(q[2]) \cup At(q[2])) = Cardinality(Above(q[2])) + Cardinality(At(q[2]))
    BY <1>1, <2>1, SizeOfDisjoint
  <2>3. Cardinality(Above(q[2]) \cup At(q[2])) =< Cardinality(Above(p[2]))
    BY <1>1, <2>1, FS_Subset
  <2> QED BY <2>2, <2>3
<1>4. \A r : Standing(r, rates) = 2 * Cardinality(Above(r)) + Cardinality(At(r))
  BY DEF Standing
<1>5. Cardinality(At(q[2])) > 0
  <2>1. At(q[2]) # {}
    OBVIOUS
  <2>2. Cardinality(At(q[2])) \in Nat \ {0}
    BY <1>1, <2>1, SizeOfSome
  <2> QED BY <2>2
<1> HIDE DEF Above, At
<1> QED BY <1>1, <1>2, <1>3, <1>4, <1>5

\* A ranking has the evidence it ranks, and stands each cell by its rate.
LEMMA RankedIs ==
  ASSUME NEW prior, NEW rows
  PROVE  LET rates == {<<c, Smoothed(c, rows, City(rows, prior), prior)>> : c \in Cells}
             ranked == Ranked(rows, prior) IN
         /\ DOMAIN ranked = Cells
         /\ \A c \in Cells :
              /\ ranked[c].n = rows[c].n /\ ranked[c].w = rows[c].w /\ ranked[c].ex = rows[c].ex
              /\ ranked[c].rate = Smoothed(c, rows, City(rows, prior), prior)
              /\ ranked[c].standing = Standing(Smoothed(c, rows, City(rows, prior), prior), rates)
BY DEF Ranked

\* Ranking a ranking is ranking what it ranked.
LEMMA RankedKeeps ==
  ASSUME NEW prior, NEW rows, DOMAIN rows = Cells
  PROVE  LET ranked == Ranked(rows, prior) IN
         /\ City(ranked, prior) = City(rows, prior)
         /\ \A city : \A c \in Cells : NeighborSum(c, ranked, city, prior) = NeighborSum(c, rows, city, prior)
<1> DEFINE ranked == Ranked(rows, prior)
<1>1. /\ DOMAIN ranked = Cells
      /\ \A c \in Cells : ranked[c].w = rows[c].w /\ ranked[c].ex = rows[c].ex
  BY DEF Ranked
<1> HIDE DEF ranked
<1>2. /\ [x \in Cells |-> ranked[x].w] = [x \in Cells |-> rows[x].w]
      /\ [x \in Cells |-> ranked[x].ex] = [x \in Cells |-> rows[x].ex]
      /\ [x \in Cells |-> ranked[x].ex + prior] = [x \in Cells |-> rows[x].ex + prior]
  BY <1>1
<1>3. City(ranked, prior) = City(rows, prior)
  BY <1>1, <1>2 DEF City, Weight, Everyone
<1>4. ASSUME NEW c \in Cells, NEW city
      PROVE  NeighborSum(c, ranked, city, prior) = NeighborSum(c, rows, city, prior)
  <2>1. Near(c) \subseteq Cells
    BY RankingAssumption
  <2>2. \A d \in Near(c) : Adjusted(ranked[d], city, prior) = Adjusted(rows[d], city, prior)
    BY <1>1, <2>1 DEF Adjusted
  <2>3. [d \in Near(c) |-> Adjusted(ranked[d], city, prior)]
          = [d \in Near(c) |-> Adjusted(rows[d], city, prior)]
    BY <2>2
  <2> QED BY <2>3 DEF NeighborSum
<1> QED BY <1>3, <1>4 DEF ranked

\* Every ranking puts the cell with less reported safer.
LEMMA RankedIsByEvidence ==
  ASSUME NEW prior \in Nat, NEW rows \in Tables(prior)
  PROVE  LessIsSafer(Ranked(rows, prior), prior)
<1> DEFINE ranked == Ranked(rows, prior)
           city == City(rows, prior)
           Rate(c) == Smoothed(c, rows, city, prior)
           rates == {<<c, Rate(c)>> : c \in Cells}
<1>1. /\ DOMAIN rows = Cells /\ \A c \in Cells : rows[c].w \in Nat /\ rows[c].ex \in Nat
      /\ IsFiniteSet(Cells)
  BY RankingAssumption DEF Tables
<1>2. /\ City(ranked, prior) = city
      /\ \A c \in Cells : NeighborSum(c, ranked, city, prior) = NeighborSum(c, rows, city, prior)
  BY <1>1, RankedKeeps
<1>3. /\ DOMAIN ranked = Cells
      /\ \A c \in Cells : /\ ranked[c].w = rows[c].w /\ ranked[c].ex = rows[c].ex
                          /\ ranked[c].standing = Standing(Rate(c), rates)
  BY RankedIs
<1>4. ASSUME NEW c \in Cells, NEW d \in Cells, rows[c].ex = rows[d].ex,
             Cardinality(Near(c)) = Cardinality(Near(d)),
             NeighborSum(c, rows, city, prior) = NeighborSum(d, rows, city, prior)
      PROVE  /\ rows[c].w = rows[d].w => Standing(Rate(c), rates) = Standing(Rate(d), rates)
             /\ rows[c].w < rows[d].w => Standing(Rate(c), rates) > Standing(Rate(d), rates)
  <2>1. /\ rows[c].w = rows[d].w => Rate(c) = Rate(d)
        /\ rows[c].w < rows[d].w => Rate(c) < Rate(d)
    BY <1>4, SmoothedFollows
  <2>2. \A x \in Cells : Rate(x) \in Int
    BY SmoothedIsInt
  <2>3. IsFiniteSet(rates)
    <3> DEFINE F == [x \in Cells |-> <<x, Rate(x)>>]
    <3>1. F \in [Cells -> rates] /\ \A p \in rates : \E x \in Cells : F[x] = p
      OBVIOUS
    <3>2. F \in Surjection(Cells, rates)
      BY <3>1 DEF Surjection
    <3> HIDE DEF F, rates
    <3> QED BY <1>1, <3>2, FS_Surjection
  <2> HIDE DEF Rate
  <2>4. \A p \in rates : p[2] \in Int
    BY <2>2
  <2>5. <<c, Rate(c)>> \in rates /\ <<d, Rate(d)>> \in rates
    OBVIOUS
  <2>6. ASSUME rows[c].w < rows[d].w PROVE Standing(Rate(c), rates) > Standing(Rate(d), rates)
    <3>1. <<c, Rate(c)>>[2] < <<d, Rate(d)>>[2]
      BY <2>1, <2>6
    <3> HIDE DEF rates
    <3>2. Standing(Rate(d), rates) < Standing(Rate(c), rates)
      BY <2>3, <2>4, <2>5, <3>1, StandingFalls
    <3> QED BY <3>2
  <2> QED BY <2>1, <2>6
<1> HIDE DEF ranked, city, Rate, rates
<1>5. SUFFICES ASSUME NEW c \in Cells, NEW d \in Cells, ranked[c].ex = ranked[d].ex,
                      Cardinality(Near(c)) = Cardinality(Near(d)),
                      NeighborSum(c, ranked, city, prior) = NeighborSum(d, ranked, city, prior)
               PROVE  /\ ranked[c].w = ranked[d].w => ranked[c].standing = ranked[d].standing
                      /\ ranked[c].w < ranked[d].w => ranked[c].standing > ranked[d].standing
  BY <1>2 DEF LessIsSafer, ranked
<1> QED BY <1>2, <1>3, <1>4, <1>5
-----------------------------------------------------------------------------
(* Shapes.                                                                 *)

\* A row a cell and block; every offence weighs something.
Shapes(blocks) ==
  {shape \in [Cells \X blocks -> [n : Nat, w : Nat]] :
     \A p \in Cells \X blocks : shape[p].n > 0 => shape[p].w > 0}

\* The blocks of the city make up all of it.
LEMMA BlocksAreWhole ==
  ASSUME NEW blocks, IsFiniteSet(blocks), NEW shape \in Shapes(blocks)
  PROVE  LET F == [b \in blocks |-> CityBlock(b, shape)] IN
         /\ \A b \in blocks : F[b] \in Nat
         /\ SumOver(F, blocks) = Weight(shape) /\ Weight(shape) \in Nat
<1> DEFINE S == Cells \X blocks
           W == [p \in S |-> shape[p].w]
           At(b) == {p \in S : p[2] = b}
           G == [b \in blocks |-> CityBlock(b, shape)]
           block == [p \in S |-> p[2]]
           cell == [p \in S |-> p[1]]
<1>1. /\ DOMAIN shape = S /\ \A p \in S : W[p] \in Nat
      /\ IsFiniteSet(Cells) /\ IsFiniteSet(S)
  <2>1. DOMAIN shape = S /\ \A p \in S : W[p] \in Nat
    BY DEF Shapes
  <2> QED BY <2>1, RankingAssumption, FS_Product
<1>2. Weight(shape) = SumOver(W, S)
  BY <1>1, SumIs DEF Weight
<1>3. Weight(shape) \in Nat
  <2> HIDE DEF W, S
  <2> QED BY <1>1, <1>2, SumIsNat
<1>4. ASSUME NEW b \in blocks
      PROVE  CityBlock(b, shape) = SumOver(W, At(b)) /\ CityBlock(b, shape) \in Nat
  <2> DEFINE V == [c \in Cells |-> shape[<<c, b>>].w]
  <2>1. CityBlock(b, shape) = SumOver(V, Cells)
    BY SumIs DEF CityBlock
  <2>2. /\ IsFiniteSet(At(b)) /\ \A p \in At(b) : W[p] \in Int /\ cell[p] \in Cells
        /\ \A c \in Cells : V[c] \in Nat /\ V[c] = W[<<c, b>>]
    <3>1. At(b) \subseteq S
      OBVIOUS
    <3>2. IsFiniteSet(At(b))
      BY <1>1, <3>1, FS_Subset
    <3> QED BY <1>1, <3>1, <3>2
  <2>3. ASSUME NEW c \in Cells PROVE V[c] = SumOver(W, PartOf(At(b), cell, c))
    <3>1. PartOf(At(b), cell, c) = {<<c, b>>}
      BY DEF PartOf
    <3>2. W[<<c, b>>] \in Int
      BY <2>2
    <3> HIDE DEF V, W, cell, At
    <3> QED BY <2>2, <3>1, <3>2, SumOfOne
  <2> HIDE DEF V, W, cell, At
  <2>4. SumOver(V, Cells) = SumOver(W, At(b))
    BY <1>1, <2>2, <2>3, SumOfParts
  <2> QED BY <1>1, <2>1, <2>2, <2>4, SumIsNat
<1>5. \A b \in blocks : G[b] = SumOver(W, PartOf(S, block, b))
  <2> TAKE b \in blocks
  <2>1. PartOf(S, block, b) = At(b)
    BY DEF PartOf
  <2> HIDE DEF At, W, block
  <2> QED BY <1>4, <2>1
<1>6. /\ \A p \in S : W[p] \in Int /\ block[p] \in blocks
      /\ \A b \in blocks : G[b] \in Nat
  <2>1. \A p \in S : W[p] \in Int /\ block[p] \in blocks
    BY <1>1
  <2>2. \A b \in blocks : G[b] \in Nat
    BY <1>4
  <2> QED BY <2>1, <2>2
<1> HIDE DEF W, S, At, G, block
<1>7. SumOver(G, blocks) = SumOver(W, S)
  BY <1>1, <1>5, <1>6, SumOfParts
<1> QED BY <1>2, <1>3, <1>6, <1>7 DEF G

\* A cell's day is its blocks'; a day that weighs nothing is of nothing.
LEMMA DayIs ==
  ASSUME NEW blocks, IsFiniteSet(blocks), NEW shape \in Shapes(blocks), NEW c \in Cells
  PROVE  LET day == CellDay(c, shape, blocks) IN
         /\ day.n \in Nat /\ day.w \in Nat /\ (day.w = 0 => day.n = 0)
         /\ day.w = SumOver([b \in blocks |-> shape[<<c, b>>].w], blocks)
<1> DEFINE N == [b \in blocks |-> shape[<<c, b>>].n]
           W == [b \in blocks |-> shape[<<c, b>>].w]
           day == CellDay(c, shape, blocks)
<1>1. day.n = SumOver(N, blocks) /\ day.w = SumOver(W, blocks)
  BY SumIs DEF CellDay
<1>2. \A b \in blocks : N[b] \in Nat /\ W[b] \in Nat /\ (W[b] = 0 => N[b] = 0)
  <2> TAKE b \in blocks
  <2>1. <<c, b>> \in Cells \X blocks
    OBVIOUS
  <2>2. shape[<<c, b>>] \in [n : Nat, w : Nat] /\ (shape[<<c, b>>].n > 0 => shape[<<c, b>>].w > 0)
    BY <2>1 DEF Shapes
  <2> QED BY <2>2
<1> HIDE DEF N, W, day
<1>3. SumOver(N, blocks) \in Nat /\ SumOver(W, blocks) \in Nat
  BY <1>2, SumIsNat
<1>4. SumOver(W, blocks) = 0 => SumOver(N, blocks) = 0
  <2>1. ASSUME SumOver(W, blocks) = 0 PROVE SumOver(N, blocks) = 0
    <3>1. \A b \in blocks : W[b] = 0
      BY <1>2, <2>1, SumIsZero
    <3> QED BY <1>2, <3>1, SumOfZeros
  <2> QED BY <2>1
<1> QED BY <1>1, <1>3, <1>4 DEF day, W

\* Two shares of one whole blended by what each counts for: M sums to m, or
\* counts for nothing, and S to s.
Blend(F, blocks, M, m, n, S, s, prior, many) ==
  /\ m \in Nat /\ s \in Nat /\ n \in Nat /\ prior \in Nat /\ many \in Nat
  /\ \A x \in blocks : /\ M[x] \in Nat /\ S[x] \in Nat
                       /\ F[x] = many * (n * M[x] * s + prior * S[x] * m)
  /\ n = 0 \/ SumOver(M, blocks) = m
  /\ SumOver(S, blocks) = s

\* It sums to what it is blended over.
LEMMA BlendIsWhole ==
  ASSUME NEW blocks, IsFiniteSet(blocks), NEW F, NEW M, NEW m, NEW n, NEW S, NEW s, NEW prior,
         NEW many, Blend(F, blocks, M, m, n, S, s, prior, many)
  PROVE  SumOver(F, blocks) = many * ((n + prior) * m * s)
<1> USE DEF Blend
<1> DEFINE A == many * (n * s)
           B == many * (prior * m)
           P == [x \in blocks |-> A * M[x]]
           Q == [x \in blocks |-> B * S[x]]
<1>1. A \in Int /\ B \in Int
  OBVIOUS
<1>2. \A x \in blocks : F[x] = A * M[x] + B * S[x]
  <2> SUFFICES ASSUME NEW x \in blocks PROVE F[x] = A * M[x] + B * S[x]
    OBVIOUS
  <2> DEFINE u == M[x]
             v == S[x]
  <2>1. u \in Nat /\ v \in Nat /\ F[x] = many * (n * u * s + prior * v * m)
    OBVIOUS
  <2> HIDE DEF u, v
  <2>2. many * (n * u * s + prior * v * m) = (many * (n * s)) * u + (many * (prior * m)) * v
    BY <2>1
  <2> QED BY <2>1, <2>2 DEF u, v
<1>3. A * m + B * s = many * ((n + prior) * m * s) /\ (n = 0 => A = 0)
  OBVIOUS
<1> HIDE DEF A, B
<1>4. \A x \in blocks : P[x] = A * M[x] /\ Q[x] = B * S[x] /\ P[x] \in Int /\ Q[x] \in Int
  BY <1>1
<1> HIDE DEF P, Q
<1>5. SumOver(F, blocks) = SumOver(P, blocks) + SumOver(Q, blocks)
  BY <1>2, <1>4, SumAdds
<1>6. \A x \in blocks : M[x] \in Int /\ S[x] \in Int
  OBVIOUS
<1>7. SumOver(P, blocks) = A * SumOver(M, blocks) /\ SumOver(M, blocks) \in Nat
  BY <1>1, <1>4, <1>6, SumScales, SumIsNat
<1>8. SumOver(Q, blocks) = B * s
  BY <1>1, <1>4, <1>6, SumScales
<1>9. A * SumOver(M, blocks) = A * m
  BY <1>3, <1>7
<1> QED BY <1>3, <1>5, <1>7, <1>8, <1>9

\* The factors of every shape average one.
LEMMA FactorsAverageOne ==
  ASSUME NEW blocks, IsFiniteSet(blocks), NEW shape \in Shapes(blocks), NEW prior \in Nat
  PROVE  AverageOne(Factors(shape, blocks, prior), blocks)
<1> DEFINE rows == Factors(shape, blocks, prior)
           whole == Weight(shape)
           many == Cardinality(blocks)
<1> SUFFICES ASSUME NEW c \in Cells, NEW b \in blocks
             PROVE  SumOf([x \in blocks |-> rows[<<c, x>>].num]) = many * rows[<<c, b>>].den
  BY DEF AverageOne
<1> DEFINE day == CellDay(c, shape, blocks)
           M == [x \in blocks |-> IF day.w > 0 THEN shape[<<c, x>>].w ELSE 0]
           S == [x \in blocks |-> IF whole > 0 THEN CityBlock(x, shape) ELSE 1]
           m == IF day.w > 0 THEN day.w ELSE 1
           s == IF whole > 0 THEN whole ELSE many
           F == [x \in blocks |-> rows[<<c, x>>].num]
<1>1. /\ day.n \in Nat /\ day.w \in Nat /\ (day.w = 0 => day.n = 0)
      /\ day.w = SumOver([x \in blocks |-> shape[<<c, x>>].w], blocks)
  BY DayIs
<1>2. /\ \A x \in blocks : CityBlock(x, shape) \in Nat
      /\ SumOver([x \in blocks |-> CityBlock(x, shape)], blocks) = whole /\ whole \in Nat
  <2>1. \A x \in blocks : [y \in blocks |-> CityBlock(y, shape)][x] \in Nat
    BY BlocksAreWhole
  <2> QED BY <2>1, BlocksAreWhole
<1>3. many \in Nat
  BY FS_CardinalityType
<1>4. ASSUME NEW x \in blocks
      PROVE  /\ rows[<<c, x>>].num = many * (day.n * M[x] * s + prior * S[x] * m)
             /\ rows[<<c, x>>].den = (day.n + prior) * m * s
  BY DEF Factors, Factor
<1> HIDE DEF rows, day, whole, many
<1>5. \A x \in blocks : M[x] \in Nat /\ S[x] \in Nat
  <2> TAKE x \in blocks
  <2>1. shape[<<c, x>>].w \in Nat
    BY DEF Shapes
  <2> QED BY <1>2, <2>1
<1>6. day.n = 0 \/ SumOver(M, blocks) = m
  <2>1. CASE day.w > 0
    BY <1>1, <2>1
  <2>2. CASE ~(day.w > 0)
    BY <1>1, <2>2
  <2> QED BY <2>1, <2>2
<1>7. SumOver(S, blocks) = s
  <2>1. CASE whole > 0
    BY <1>2, <2>1
  <2>2. CASE ~(whole > 0)
    <3>1. \A x \in blocks : S[x] = 1
      BY <2>2
    <3> HIDE DEF S
    <3> QED BY <2>2, <3>1, SumOfOnes DEF many
  <2> QED BY <2>1, <2>2
<1>8. m \in Nat /\ s \in Nat
  BY <1>1, <1>2, <1>3
<1>9. \A x \in blocks : F[x] = many * (day.n * M[x] * s + prior * S[x] * m)
  BY <1>4
<1>10. DOMAIN F = blocks
  OBVIOUS
<1> HIDE DEF M, S, m, s, F
<1>11. SumOver(F, blocks) = many * ((day.n + prior) * m * s)
  <2>1. Blend(F, blocks, M, m, day.n, S, s, prior, many)
    BY <1>1, <1>3, <1>5, <1>6, <1>7, <1>8, <1>9 DEF Blend
  <2> QED BY <2>1, BlendIsWhole
<1>12. SumOf(F) = SumOver(F, blocks)
  BY <1>10, SumIs
<1> QED BY <1>4, <1>11, <1>12 DEF F
-----------------------------------------------------------------------------
(* What a refresh computes.                                                *)

\* The types.
Typed ==
  /\ silver \in SUBSET Reports /\ tuning \in 0..MaxTunings
  /\ enabled \in SUBSET Schemes /\ served \in Schemes /\ census \in BOOLEAN
  /\ pending \in Days \cup {NotPending, Everything}
  /\ dailyScheme \in Schemes \cup {Absent}

\* Incidents are counted and weighed, and every one weighs something.
LEMMA EvidenceIs ==
  ASSUME Typed, NEW incidents \in SUBSET silver, NEW scheme \in Schemes, NEW c, NEW t
  PROVE  LET e == Evidence(incidents, scheme, c, t) IN
         e \in [n : Nat, w : Nat] /\ (e.n > 0 => e.w > 0)
<1> DEFINE there == {r \in incidents : r.cell = c /\ r.track = t}
           F == [r \in there |-> WeightOf(scheme, tuning, r.kind)]
<1>1. IsFiniteSet(there) /\ there \subseteq Reports
  BY FS_Subset, FiguresAssumption DEF Typed
<1>2. \A r \in there : F[r] \in Nat \ {0}
  BY <1>1, FiguresAssumption DEF Typed
<1>3. SumOf(F) = SumOver(F, there)
  BY SumIs
<1>4. Evidence(incidents, scheme, c, t) = [n |-> Cardinality(there), w |-> SumOver(F, there)]
  BY <1>3 DEF Evidence
<1> HIDE DEF there, F
<1>5. SumOver(F, there) \in Nat /\ Cardinality(there) \in Nat
  BY <1>1, <1>2, SumIsNat, FS_CardinalityType
<1>6. SumOver(F, there) = 0 => Cardinality(there) = 0
  <2>1. ASSUME SumOver(F, there) = 0 PROVE there = {}
    <3>1. \A r \in there : F[r] = 0
      BY <1>1, <1>2, <2>1, SumIsZero
    <3> QED BY <1>2, <3>1
  <2> QED BY <2>1, FS_EmptySet
<1> QED BY <1>4, <1>5, <1>6

\* The incidents between two days are incidents of silver.
LEMMA BetweenIsSilver == \A lo, hi : Between(lo, hi) \in SUBSET silver
BY DEF Between

\* A universe that can be ranked.
LEMMA UniverseIsTable ==
  ASSUME Typed, NEW scheme \in Schemes, Buildable(scheme), NEW found,
         \A c \in Cells : found[c] \in [n : Nat, w : Nat]
  PROVE  Universe(scheme, found) \in Tables(Prior(scheme))
<1>1. \A c \in Cells : Exposure(scheme, c) \in Nat /\ Exposure(scheme, c) + Prior(scheme) > 0
  BY FiguresAssumption DEF Exposure, Buildable
<1>2. Universe(scheme, found) =
        [c \in Cells |-> [n |-> found[c].n, w |-> found[c].w, ex |-> Exposure(scheme, c)]]
  BY DEF Universe
<1>3. \A c \in Cells : [n |-> found[c].n, w |-> found[c].w, ex |-> Exposure(scheme, c)]
                         \in [n : Nat, w : Nat, ex : Nat]
  BY <1>1
<1> QED BY <1>1, <1>2, <1>3 DEF Tables

\* A window ranked from silver puts more weighted evidence on the less safe side.
LEMMA RankingIsByEvidence ==
  ASSUME Typed, NEW scheme \in Schemes, Buildable(scheme), NEW w, NEW t \in Tracks
  PROVE  LessIsSafer(RankingOf(scheme, w).rows[t], Prior(scheme))
<1> DEFINE found == [c \in Cells |-> Evidence(Between(w.start, w.end), scheme, c, t)]
<1>1. \A c \in Cells : found[c] \in [n : Nat, w : Nat]
  BY EvidenceIs, BetweenIsSilver
<1>2. RankingOf(scheme, w).rows[t] = Ranked(Universe(scheme, found), Prior(scheme))
  BY DEF RankingOf
<1> HIDE DEF found
<1>3. Universe(scheme, found) \in Tables(Prior(scheme)) /\ Prior(scheme) \in Nat
  BY <1>1, UniverseIsTable, FiguresAssumption
<1> QED BY <1>2, <1>3, RankedIsByEvidence

\* The hours of any window,
LEMMA HoursAverageOne ==
  ASSUME Typed, NEW scheme \in Schemes, NEW w, NEW base, NEW t
  PROVE  AverageOne(HourRows(scheme, w, base, t), Hours)
<1> DEFINE At(h) == {r \in Between(w.start, w.end) : r.hour = h}
           shape == [p \in Cells \X Hours |-> Evidence(At(p[2]), scheme, p[1], t)]
           factors == Factors(shape, Hours, HourPrior)
           rows == HourRows(scheme, w, base, t)
<1>1. \A p \in Cells \X Hours :
        shape[p] \in [n : Nat, w : Nat] /\ (shape[p].n > 0 => shape[p].w > 0)
  <2> TAKE p \in Cells \X Hours
  <2>1. At(p[2]) \in SUBSET silver
    BY BetweenIsSilver
  <2> HIDE DEF At
  <2> QED BY <2>1, EvidenceIs
<1>2. shape \in Shapes(Hours)
  <2>1. shape \in [Cells \X Hours -> [n : Nat, w : Nat]]
    BY <1>1
  <2> HIDE DEF shape
  <2> QED BY <1>1, <2>1 DEF Shapes
<1>3. \A p \in Cells \X Hours : rows[p].num = factors[p].num /\ rows[p].den = factors[p].den
  BY DEF HourRows
<1> HIDE DEF shape
<1>4. AverageOne(factors, Hours)
  BY <1>2, FactorsAverageOne, FiguresAssumption
<1> HIDE DEF factors, rows
<1> SUFFICES ASSUME NEW c \in Cells, NEW b \in Hours
             PROVE  SumOf([x \in Hours |-> rows[<<c, x>>].num]) = Cardinality(Hours) * rows[<<c, b>>].den
  BY DEF AverageOne, rows
<1>5. [x \in Hours |-> rows[<<c, x>>].num] = [x \in Hours |-> factors[<<c, x>>].num]
  BY <1>3
<1>6. rows[<<c, b>>].den = factors[<<c, b>>].den
  BY <1>3
<1> QED BY <1>4, <1>5, <1>6 DEF AverageOne

\* A remainder is what is left over of a multiple.
LEMMA RemainderIs ==
  ASSUME NEW w \in Nat \ {0}, NEW q \in Int, NEW d \in 0..w-1
  PROVE  (w * q + d) % w = d
<1> DEFINE x == w * q + d
           k == x \div w
           r == x % w
<1>1. x \in Int
  OBVIOUS
<1> HIDE DEF x
<1>2. x = w * k + r /\ r \in 0..w-1 /\ k \in Int
  BY <1>1
<1> HIDE DEF k, r
<1>3. w * (q - k) = r - d
  BY <1>2 DEF x
<1>4. q - k = 0
  <2>1. CASE q - k >= 1
    <3>1. w * (q - k) >= w
      BY <1>2, <2>1
    <3> QED BY <1>2, <1>3, <3>1
  <2>2. CASE q - k =< -1
    <3>1. w * (q - k) =< -w
      BY <1>2, <2>2
    <3> QED BY <1>2, <1>3, <3>1
  <2> QED BY <1>2, <2>1, <2>2
<1>5. r = d
  <2>1. w * (q - k) = 0
    BY <1>4
  <2> QED BY <1>2, <1>3, <2>1
<1> QED BY <1>5 DEF x, r

\* Every weekday falls in a week of days.
LEMMA EveryWeekday ==
  ASSUME NEW w \in Nat \ {0}, NEW lo \in Int, NEW d \in 0..w-1
  PROVE  \E x \in lo .. lo + w - 1 : x % w = d
<1> DEFINE k == (d - lo) \div w
           r == (d - lo) % w
<1>1. d - lo = w * k + r /\ r \in 0..w-1 /\ k \in Int
  OBVIOUS
<1> HIDE DEF k, r
<1>2. lo + r \in lo .. lo + w - 1
  BY <1>1
<1>3. lo + r = w * (-k) + d
  <2>1. w * (-k) = -(w * k) /\ w * k \in Int
    BY <1>1
  <2> QED BY <1>1, <2>1
<1>4. (w * (-k) + d) % w = d
  <2>1. -k \in Int
    BY <1>1
  <2> QED BY <2>1, RemainderIs, Zenon
<1> QED BY <1>2, <1>3, <1>4

\* A report is of a day.
LEMMA ReportIs == \A r \in Reports : r.day \in Days /\ r.day \in Int
<1>1. ASSUME NEW r \in Reports PROVE r.day \in Days
  <2>1. r \in [cell : Cells, day : Days, track : {"violent", "non_violent"},
               kind : STRING, hour : Hours \cup {NoHour}]
    BY FiguresAssumption
  <2> QED BY <2>1
<1>2. Days \subseteq Int
  BY FiguresAssumption
<1> QED BY <1>1, <1>2

\* The short window is of the ShortSpan days up to the last with a report.
LEMMA ShortWindow ==
  ASSUME Typed, silver # {}
  PROVE  /\ Anchor \in Days /\ Anchor \in Int
         /\ Resolved["last_1y"] = [start |-> Anchor - ShortSpan + 1, end |-> Anchor]
<1> DEFINE S == {r.day : r \in silver}
<1>1. S \in SUBSET Int /\ S # {} /\ S \subseteq Days
  <2>1. \A r \in silver : r.day \in Days /\ r.day \in Int
    BY ReportIs DEF Typed
  <2> QED BY <2>1
<1>2. PICK hi \in Int : \A x \in S : x =< hi
  <2> DEFINE F == [x \in Days |-> -x]
  <2>1. IsFiniteSet(Days) /\ \A x \in Days : x \in Int /\ F[x] \in Int /\ F[x] = -x
    BY FiguresAssumption
  <2> HIDE DEF F
  <2>2. PICK lo \in Int : \A x \in Days : lo =< F[x]
    BY <2>1, FiniteHasBound
  <2>3. \A x \in Days : x =< -lo
    BY <2>1, <2>2
  <2> QED BY <1>1, <2>2, <2>3
<1> HIDE DEF S
<1>4. Max(S) \in S
  BY <1>1, <1>2, MaxIsGreatest
<1>5. Anchor \in Days /\ Anchor \in Int
  BY <1>1, <1>4 DEF Anchor, S
<1> QED BY <1>5 DEF Resolved, Names, Long

\* and the weekdays of the short one.
LEMMA WeeksAverageOne ==
  ASSUME Typed, silver # {}, NEW scheme \in Schemes, NEW t
  PROVE  AverageOne(WeekRows(scheme, Resolved["last_1y"], t), Weekdays)
<1> DEFINE w == Resolved["last_1y"]
           times == Times(w)
           each == ProductOf(times)
           On(d) == {r \in Between(w.start, w.end) : r.day % WeekDays = d}
           ev(p) == Evidence(On(p[2]), scheme, p[1], t)
           weight(p) == ev(p).w * (each \div times[p[2]])
           shape == [p \in Cells \X Weekdays |-> [n |-> ev(p).n, w |-> weight(p)]]
<1>1. /\ WeekDays \in Nat \ {0} /\ ShortSpan \in Nat /\ WeekDays =< ShortSpan /\ DayPrior \in Nat
      /\ IsFiniteSet(Weekdays)
  BY FiguresAssumption, FS_Interval DEF Weekdays
<1>2. \A d \in Weekdays : times[d] \in Nat \ {0}
  <2> TAKE d \in Weekdays
  <2> DEFINE days == {x \in w.start..w.end : x % WeekDays = d}
  <2>1. times[d] = Cardinality(days)
    BY DEF Times
  <2>2. w.start = Anchor - ShortSpan + 1 /\ w.end = Anchor /\ Anchor \in Int
    BY ShortWindow
  <2> HIDE DEF w
  <2>3. w.start \in Int /\ w.end \in Int /\ w.start + WeekDays - 1 =< w.end
    BY <1>1, <2>2
  <2>4. PICK x \in w.start .. w.start + WeekDays - 1 : x % WeekDays = d
    BY <1>1, <2>3, EveryWeekday DEF Weekdays
  <2>5. x \in days
    BY <1>1, <2>3, <2>4
  <2>6. IsFiniteSet(days)
    BY <2>3, FS_Interval, FS_Subset
  <2> QED BY <2>1, <2>5, <2>6, SizeOfSome
<1>3. DOMAIN times = Weekdays
  BY DEF Times
<1> HIDE DEF w, times
<1>4. \A d \in Weekdays : each \div times[d] \in Nat \ {0}
  <2> TAKE d \in Weekdays
  <2>1. each = ProductOver(times, Weekdays)
    BY <1>3, ProductIs
  <2> HIDE DEF each
  <2>2. each \in Nat \ {0} /\ times[d] =< each
    BY <1>1, <1>2, <2>1, ProductIsLarge
  <2>3. times[d] \in 1..each
    BY <1>2, <2>2
  <2> QED BY <2>2, <2>3, DivIsPositive
<1> HIDE DEF each
<1>5. ASSUME NEW p \in Cells \X Weekdays
      PROVE  ev(p).n \in Nat /\ weight(p) \in Nat /\ (ev(p).n > 0 => weight(p) > 0)
  <2> DEFINE e == ev(p)
             k == each \div times[p[2]]
  <2>1. On(p[2]) \in SUBSET silver
    BY BetweenIsSilver
  <2> HIDE DEF On
  <2>2. e.n \in Nat /\ e.w \in Nat /\ (e.n > 0 => e.w > 0)
    BY <2>1, EvidenceIs
  <2>3. k \in Nat \ {0}
    BY <1>4
  <2> HIDE DEF e, k
  <2>4. e.w * k \in Nat /\ (e.w > 0 => e.w * k > 0)
    BY <2>2, <2>3
  <2> QED BY <2>2, <2>4 DEF e, k
<1> HIDE DEF ev, weight
<1>6. shape \in Shapes(Weekdays)
  <2>1. \A p \in Cells \X Weekdays :
          shape[p] \in [n : Nat, w : Nat] /\ (shape[p].n > 0 => shape[p].w > 0)
    BY <1>5
  <2>2. shape \in [Cells \X Weekdays -> [n : Nat, w : Nat]]
    BY <1>5
  <2> HIDE DEF shape
  <2> QED BY <2>1, <2>2 DEF Shapes
<1>7. WeekRows(scheme, w, t) = Factors(shape, Weekdays, DayPrior)
  BY DEF WeekRows, ev, weight, each, times
<1> HIDE DEF shape
<1> QED BY <1>1, <1>6, <1>7, FactorsAverageOne DEF w
-----------------------------------------------------------------------------
(* Rankings follow the evidence.                                           *)

\* The tables have their shapes in every reachable state.
LEMMA TypedInvariant == Spec => []Typed
<1>1. Init => Typed
  <2> SUFFICES ASSUME Init PROVE Typed
    OBVIOUS
  <2>1. 0 \in 0..MaxTunings
    BY FiguresAssumption
  <2> QED BY <2>1 DEF Init, Typed
<1>2. ASSUME Typed, [Next]_vars PROVE Typed'
  <2> USE <1>2 DEF Typed
  <2>1. ASSUME NEW r \in Reports, Change(r) PROVE Typed'
    <3>1. silver' \in SUBSET Reports
      BY <2>1 DEF Change
    <3>2. pending' \in Days \cup {NotPending, Everything}
      <4>1. pending' \in {pending, r.day, Everything}
        BY <2>1 DEF Change, Mark
      <4> QED BY <4>1, ReportIs
    <3>3. UNCHANGED <<tuning, enabled, served, census, dailyScheme>>
      BY <2>1 DEF Change, reference, layers
    <3> QED BY <3>1, <3>2, <3>3
  <2>2. CASE Retune
    <3>1. tuning' \in 0..MaxTunings
      BY <2>2, FiguresAssumption DEF Retune
    <3> QED BY <2>2, <3>1 DEF Retune, layers
  <2>3. CASE LoadSchemes
    BY <2>3 DEF LoadSchemes
  <2>4. CASE Activate
    BY <2>4 DEF Activate, layers
  <2>5. CASE LoadCensus
    <3>1. pending' = Everything
      BY <2>5 DEF LoadCensus, Mark
    <3> QED BY <2>5, <3>1 DEF LoadCensus, layers
  <2>6. ASSUME NEW from, NEW withHours, RefreshAll(from, withHours) PROVE Typed'
    BY <2>6 DEF RefreshAll, reference
  <2>7. CASE Safety
    BY <2>7 DEF Safety, reference
  <2>8. CASE Hourly
    BY <2>8 DEF Hourly, reference
  <2>9. CASE UNCHANGED vars
    BY <2>9 DEF vars, reference, layers
  <2> QED BY <2>1, <2>2, <2>3, <2>4, <2>5, <2>6, <2>7, <2>8, <2>9 DEF Next, Incremental, Gold
<1> QED BY <1>1, <1>2, PTL DEF Spec

\* Every ranking a refresh writes follows the evidence,
LEMMA RerankedByEvidence ==
  ASSUME Typed, RanksByEvidence, NEW schemes, NEW list, NEW rebuild, NEW keep,
         NEW s \in Schemes, NEW t \in Tracks, NEW n \in Names,
         Reranked(schemes, list, rebuild, keep)[s][n] # Absent
  PROVE  LessIsSafer(Reranked(schemes, list, rebuild, keep)[s][n].rows[t], Prior(s))
<1>1. CASE s \notin schemes \/ ~Buildable(s)
  BY <1>1 DEF Reranked, RanksByEvidence
<1>2. CASE s \in schemes /\ Buildable(s) /\ n \in rebuild
  <2>1. Reranked(schemes, list, rebuild, keep)[s][n] = RankingOf(s, list[n])
    BY <1>2 DEF Reranked
  <2> QED BY <1>2, <2>1, RankingIsByEvidence
<1>3. CASE s \in schemes /\ Buildable(s) /\ n \notin rebuild
  BY <1>3 DEF Reranked, RanksByEvidence
<1> QED BY <1>1, <1>2, <1>3

\* and so does every layer by the hour
LEMMA RehourByEvidence ==
  ASSUME Typed, RanksByEvidence, NEW schemes, NEW list, NEW ranked,
         NEW s \in Schemes, NEW t \in Tracks, Rehour(schemes, list, ranked)[s] # Absent
  PROVE  AverageOne(Rehour(schemes, list, ranked)[s][t], Hours)
<1> DEFINE kept == s \notin schemes \/ ~Buildable(s) \/ \A r \in silver : r.hour = NoHour
<1>1. CASE kept
  BY <1>1 DEF Rehour, RanksByEvidence
<1>2. CASE ~kept
  <2>1. Rehour(schemes, list, ranked)[s][t]
          = HourRows(s, list["last_1y"], ranked[s]["last_1y"].rows[t], t)
    BY <1>2 DEF Rehour
  <2> QED BY <2>1, HoursAverageOne
<1> QED BY <1>1, <1>2

\* and by the weekday.
LEMMA ReweekByEvidence ==
  ASSUME Typed, RanksByEvidence, silver # {}, NEW schemes, NEW s \in Schemes, NEW t \in Tracks,
         Reweek(schemes, Resolved)[s] # Absent
  PROVE  AverageOne(Reweek(schemes, Resolved)[s][t], Weekdays)
<1>1. CASE s \notin schemes
  BY <1>1 DEF Reweek, RanksByEvidence
<1>2. CASE s \in schemes
  <2>1. Reweek(schemes, Resolved)[s][t] = WeekRows(s, Resolved["last_1y"], t)
    BY <1>2 DEF Reweek
  <2> QED BY <2>1, WeeksAverageOne
<1> QED BY <1>1, <1>2

\* Every stored ranking puts the cell with less reported safer, and every hour
\* and weekday layer keeps each cell's rate.
THEOREM RanksFollowEvidence == Spec => []RanksByEvidence
<1>1. Init => RanksByEvidence
  BY DEF Init, RanksByEvidence, Nothing
<1>2. ASSUME Typed, RanksByEvidence, [Next]_vars PROVE RanksByEvidence'
  <2> DEFINE Layers == UNCHANGED <<safety, hourly, weekly>>
  <2>0. ASSUME Layers PROVE RanksByEvidence'
    BY <1>2, <2>0 DEF RanksByEvidence
  <2>1. ASSUME NEW r \in Reports, Change(r) PROVE RanksByEvidence'
    BY <2>0, <2>1 DEF Change, layers
  <2>2. CASE Retune
    BY <2>0, <2>2 DEF Retune, layers
  <2>3. CASE LoadSchemes
    BY <1>2, <2>3 DEF LoadSchemes, RanksByEvidence, Nothing
  <2>4. CASE Activate
    BY <2>0, <2>4 DEF Activate, layers
  <2>5. CASE LoadCensus
    BY <2>0, <2>5 DEF LoadCensus, layers
  <2>6. ASSUME NEW from, NEW withHours, RefreshAll(from, withHours) PROVE RanksByEvidence'
    <3> DEFINE offered == {n \in Names : Resolved[n] # Absent}
               keep == IF from = Everything \/ LongDue(Resolved) THEN {} ELSE offered \cap Long
               ranked == Reranked(enabled, Resolved, offered \ keep, keep)
    <3>1. /\ silver # {} /\ safety' = ranked
          /\ weekly' = IF withHours THEN Reweek(enabled, Resolved) ELSE weekly
          /\ hourly' = IF withHours THEN Rehour(enabled, Resolved, ranked) ELSE hourly
      BY <2>6 DEF RefreshAll
    <3> HIDE DEF offered, keep
    <3> QED BY <1>2, <3>1, RerankedByEvidence, RehourByEvidence, ReweekByEvidence DEF RanksByEvidence
  <2>7. CASE Safety
    <3> DEFINE offered == {n \in Names : Resolved[n] # Absent}
    <3>1. PICK which \in Asked : safety' = Reranked(which, Resolved, offered, {})
      BY <2>7 DEF Safety
    <3>2. UNCHANGED <<hourly, weekly>>
      BY <2>7 DEF Safety
    <3> HIDE DEF offered
    <3> QED BY <1>2, <3>1, <3>2, RerankedByEvidence DEF RanksByEvidence
  <2>8. CASE Hourly
    <3>1. PICK which \in Asked : /\ weekly' = Reweek(which, Resolved)
                                 /\ hourly' = Rehour(which, Resolved, safety)
      BY <2>8 DEF Hourly
    <3>2. silver # {} /\ UNCHANGED safety
      BY <2>8 DEF Hourly
    <3> QED BY <1>2, <3>1, <3>2, RehourByEvidence, ReweekByEvidence DEF RanksByEvidence
  <2>9. CASE UNCHANGED vars
    BY <2>0, <2>9 DEF vars, layers
  <2> QED BY <1>2, <2>1, <2>2, <2>3, <2>4, <2>5, <2>6, <2>7, <2>8, <2>9 DEF Next, Incremental, Gold
<1> QED BY <1>1, <1>2, TypedInvariant, PTL DEF Spec
-----------------------------------------------------------------------------
(* A range ranks as the window.                                            *)

\* The evidence of a range is that of its days.
LEMMA EvidenceByDay ==
  ASSUME Typed, NEW scheme \in Schemes, NEW lo \in Int, NEW hi \in Int, NEW c, NEW t, NEW N, NEW W,
         \A d \in Days \cap (lo..hi) :
           [n |-> N[d], w |-> W[d]] = Evidence(Between(d, d), scheme, c, t)
  PROVE  [n |-> SumOver(N, Days \cap (lo..hi)), w |-> SumOver(W, Days \cap (lo..hi))]
           = Evidence(Between(lo, hi), scheme, c, t)
<1> DEFINE days == Days \cap (lo..hi)
           there == {r \in Between(lo, hi) : r.cell = c /\ r.track = t}
           On(d) == {r \in Between(d, d) : r.cell = c /\ r.track = t}
           day == [r \in there |-> r.day]
           Weights(S) == [r \in S |-> WeightOf(scheme, tuning, r.kind)]
           ones == [r \in there |-> 1]
           F == Weights(there)
<1>1. \A r \in silver : r \in Reports /\ r.day \in Days /\ r.day \in Int
  BY ReportIs DEF Typed
<1>2. there \subseteq silver /\ IsFiniteSet(there) /\ IsFiniteSet(days) /\ days \subseteq Int
  BY FS_Subset, FiguresAssumption DEF Between, Typed
<1>3. ASSUME NEW d \in days
      PROVE  /\ On(d) = {r \in there : day[r] = d}
             /\ N[d] = Cardinality(On(d)) /\ W[d] = SumOver(Weights(On(d)), On(d))
  <2>1. On(d) = {r \in there : day[r] = d}
    BY <1>1, <1>2 DEF Between
  <2>2. SumOf(Weights(On(d))) = SumOver(Weights(On(d)), On(d))
    BY SumIs
  <2>3. Evidence(Between(d, d), scheme, c, t)
          = [n |-> Cardinality(On(d)), w |-> SumOver(Weights(On(d)), On(d))]
    BY <2>2 DEF Evidence
  <2>4. [n |-> N[d], w |-> W[d]] = [n |-> Cardinality(On(d)), w |-> SumOver(Weights(On(d)), On(d))]
    BY <2>3
  <2> HIDE DEF On, Weights, there, day
  <2> QED BY <2>1, <2>4
<1>4. \A r \in there : day[r] \in days /\ ones[r] = 1 /\ ones[r] \in Int
  BY <1>1, <1>2 DEF Between
<1>5. \A r \in there : F[r] \in Nat /\ F[r] \in Int
  <2>1. \A r \in there : WeightOf(scheme, tuning, r.kind) \in Nat
    BY <1>1, <1>2, FiguresAssumption DEF Typed
  <2> QED BY <2>1
<1>6. Evidence(Between(lo, hi), scheme, c, t) = [n |-> Cardinality(there), w |-> SumOver(F, there)]
  <2>1. SumOf(F) = SumOver(F, there)
    BY SumIs
  <2> QED BY <2>1 DEF Evidence
<1>7. ASSUME NEW d \in days
      PROVE  /\ N[d] = SumOver(ones, PartOf(there, day, d))
             /\ W[d] = SumOver(F, PartOf(there, day, d))
  <2> DEFINE part == PartOf(there, day, d)
  <2>1. IsFiniteSet(part) /\ part \subseteq there /\ part = On(d)
    BY <1>2, <1>3, FS_Subset DEF PartOf
  <2>2. \A r \in part : ones[r] = 1 /\ F[r] = Weights(part)[r]
    BY <2>1
  <2> HIDE DEF part, ones, F, Weights, On, there, day
  <2>3. SumOver(ones, part) = Cardinality(part)
    BY <2>1, <2>2, SumOfOnes
  <2>4. SumOver(F, part) = SumOver(Weights(part), part)
    BY <2>1, <2>2, SumOfEqual
  <2> QED BY <1>3, <2>1, <2>3, <2>4 DEF part
<1> HIDE DEF there, day, ones, F, days, On, Weights
<1>8. SumOver(N, days) = SumOver(ones, there)
  <2>1. \A d \in days : N[d] = SumOver(ones, PartOf(there, day, d))
    BY <1>7
  <2>2. (\A r \in there : ones[r] \in Int) /\ \A r \in there : day[r] \in days
    BY <1>4
  <2>3. IsFiniteSet(there) /\ IsFiniteSet(days)
    BY <1>2
  <2> QED BY <2>1, <2>2, <2>3, SumOfParts
<1>9. SumOver(W, days) = SumOver(F, there)
  <2>1. \A d \in days : W[d] = SumOver(F, PartOf(there, day, d))
    BY <1>7
  <2>2. (\A r \in there : F[r] \in Int) /\ \A r \in there : day[r] \in days
    BY <1>4, <1>5
  <2>3. IsFiniteSet(there) /\ IsFiniteSet(days)
    BY <1>2
  <2> QED BY <2>1, <2>2, <2>3, SumOfParts
<1>10. SumOver(ones, there) = Cardinality(there)
  BY <1>2, <1>4, SumOfOnes
<1> QED BY <1>6, <1>8, <1>9, <1>10 DEF days

\* The range path, of any table of days.
RangeOf(table, lo, hi, c, track) ==
  LET days == Days \cap (lo..hi)
      Of(d) == IF track = "violent"
               THEN [n |-> table[d][c].violent, w |-> table[d][c].wViolent]
               ELSE [n |-> table[d][c].all - table[d][c].violent, w |-> table[d][c].wNonViolent]
  IN [n |-> SumOf([d \in days |-> Of(d).n]), w |-> SumOf([d \in days |-> Of(d).w])]

Exposures(scheme) == [c \in Cells |-> Exposure(scheme, c)]

RankedOf(table, exposed, prior, lo, hi, track) ==
  LET Of(c, e) == [n |-> e.n, w |-> e.w, ex |-> exposed[c]]
  IN Ranked([c \in Cells |-> Of(c, RangeOf(table, lo, hi, c, track))], prior)

\* A table says of every day what silver does.
Exact(table, scheme) == \A d \in Days : table[d] = DailyRow(scheme, d)

\* An exact daily table adds up, over a range, to the evidence of a window of those days.
LEMMA RangeIsEvidence ==
  ASSUME Typed, NEW scheme \in Schemes, NEW table, Exact(table, scheme),
         NEW lo \in Int, NEW hi \in Int, NEW c \in Cells, NEW t \in Tracks
  PROVE  RangeOf(table, lo, hi, c, t) = Evidence(Between(lo, hi), scheme, c, t)
<1> DEFINE days == Days \cap (lo..hi)
           ev(d, k) == Evidence(Between(d, d), scheme, c, k)
           row(d) == table[d][c]
           N == [d \in days |-> IF t = "violent" THEN row(d).violent ELSE row(d).all - row(d).violent]
           W == [d \in days |-> IF t = "violent" THEN row(d).wViolent ELSE row(d).wNonViolent]
<1>1. ASSUME NEW d \in days PROVE [n |-> N[d], w |-> W[d]] = ev(d, t)
  <2>1. table[d] = DailyRow(scheme, d)
    BY DEF Exact
  <2>2. /\ row(d).all = ev(d, "violent").n + ev(d, "non_violent").n
        /\ row(d).violent = ev(d, "violent").n
        /\ row(d).wViolent = ev(d, "violent").w /\ row(d).wNonViolent = ev(d, "non_violent").w
    BY <2>1 DEF DailyRow
  <2>3. ev(d, "violent") \in [n : Nat, w : Nat] /\ ev(d, "non_violent") \in [n : Nat, w : Nat]
    BY EvidenceIs, BetweenIsSilver
  <2> HIDE DEF ev, row
  <2>4. N[d] = ev(d, t).n /\ W[d] = ev(d, t).w
    BY <2>2, <2>3 DEF Tracks
  <2>5. ev(d, t) = [n |-> ev(d, t).n, w |-> ev(d, t).w]
    BY <2>3 DEF Tracks
  <2> QED BY <2>4, <2>5
<1>2. RangeOf(table, lo, hi, c, t) = [n |-> SumOver(N, days), w |-> SumOver(W, days)]
  <2>1. RangeOf(table, lo, hi, c, t) = [n |-> SumOf(N), w |-> SumOf(W)]
    <3>1. CASE t = "violent"
      BY <3>1 DEF RangeOf
    <3>2. CASE t # "violent"
      BY <3>2 DEF RangeOf
    <3> QED BY <3>1, <3>2
  <2> QED BY <2>1, SumIs
<1> HIDE DEF N, W, row
<1> QED BY <1>1, <1>2, EvidenceByDay

\* So ranking the range from it is ranking the window from silver.
LEMMA RangeIsWindow ==
  ASSUME Typed, NEW scheme \in Schemes, NEW table, Exact(table, scheme), NEW w,
         w.start \in Int, w.end \in Int, NEW t \in Tracks
  PROVE  RankedOf(table, Exposures(scheme), Prior(scheme), w.start, w.end, t)
           = RankingOf(scheme, w).rows[t]
<1> DEFINE Row(c, e) == [n |-> e.n, w |-> e.w, ex |-> Exposure(scheme, c)]
           found == [c \in Cells |-> Evidence(Between(w.start, w.end), scheme, c, t)]
<1>1. \A c \in Cells : RangeOf(table, w.start, w.end, c, t) = found[c]
  BY RangeIsEvidence
<1>2. RankedOf(table, Exposures(scheme), Prior(scheme), w.start, w.end, t)
        = Ranked([c \in Cells |-> Row(c, RangeOf(table, w.start, w.end, c, t))], Prior(scheme))
  <2>1. [c \in Cells |-> Row(c, RangeOf(table, w.start, w.end, c, t))]
          = [c \in Cells |-> [n |-> RangeOf(table, w.start, w.end, c, t).n,
                              w |-> RangeOf(table, w.start, w.end, c, t).w,
                              ex |-> Exposures(scheme)[c]]]
    BY DEF Exposures
  <2> QED BY <2>1 DEF RankedOf
<1>3. RankingOf(scheme, w).rows[t] = Ranked([c \in Cells |-> Row(c, found[c])], Prior(scheme))
  BY DEF RankingOf, Universe
<1> QED BY <1>1, <1>2, <1>3

\* The days outside the mark are as silver is, unless a weight was edited since.
DailyExact ==
  ~tuned /\ dailyScheme # Absent =>
    \A d \in Days : ~Dirty(pending, d) => daily[d] = DailyRow(dailyScheme, d)

\* What cannot be ranked has no ranking.
UnbuiltEmpty == \A s \in Schemes : ~Buildable(s) => safety[s] = Nothing

\* RangeRanksAsWindow, of the stored days as a table.
TogetherAsWindow ==
  RangeScheme /\ ~tuned /\ pending # Everything =>
    \A n \in together, t \in Tracks :
      LET stored == safety[served][n] IN
      stored # Absent => RankedOf(daily, Exposures(served), Prior(served), stored.start, stored.end, t)
                            = stored.rows[t]

\* The run's property is the part of the inductive invariant named for it.
LEMMA RangeIsTogether == TogetherAsWindow <=> RangeRanksAsWindow
<1>1. ASSUME NEW lo, NEW hi, NEW t
      PROVE  RankRange(lo, hi, t) = RankedOf(daily, Exposures(served), Prior(served), lo, hi, t)
  <2>1. \A c \in Cells : RangeEvidence(lo, hi, c, t) = RangeOf(daily, lo, hi, c, t)
    BY DEF RangeEvidence, RangeOf
  <2> DEFINE found == [c \in Cells |-> RangeEvidence(lo, hi, c, t)]
  <2>2. Universe(served, found) = [c \in Cells |-> [n |-> RangeOf(daily, lo, hi, c, t).n,
                                                   w |-> RangeOf(daily, lo, hi, c, t).w,
                                                   ex |-> Exposures(served)[c]]]
    BY <2>1 DEF Universe, Exposures
  <2> QED BY <2>2 DEF RankRange, RankedOf
<1> QED BY <1>1 DEF TogetherAsWindow, RangeRanksAsWindow

\* The inductive invariant.
RangeInv == Typed /\ DailyExact /\ UnbuiltEmpty /\ TogetherAsWindow

\* A refresh leaves every day as silver is.
LEMMA RefreshIsExact ==
  ASSUME RangeInv, NEW from, from = Everything \/ (from = pending /\ pending # NotPending),
         tuned => Since(from) = Everything
  PROVE  Exact(Redaily(from), served)
<1> SUFFICES ASSUME NEW d \in Days PROVE Redaily(from)[d] = DailyRow(served, d)
  BY DEF Exact
<1>1. CASE Since(from) = Everything \/ from =< d
  BY <1>1 DEF Redaily
<1>2. CASE ~(Since(from) = Everything \/ from =< d)
  <2>1. from # Everything /\ dailyScheme = served
    BY <1>2 DEF Since
  <2>2. from = pending /\ pending \in Days /\ dailyScheme # Absent
    BY <2>1, FiguresAssumption DEF RangeInv, Typed
  <2>3. ~Dirty(pending, d)
    BY <1>2, <2>1, <2>2 DEF Dirty
  <2>4. ~tuned
    BY <1>2
  <2>5. daily[d] = DailyRow(served, d)
    BY <2>1, <2>2, <2>3, <2>4 DEF RangeInv, DailyExact
  <2> QED BY <1>2, <2>5 DEF Redaily
<1> QED BY <1>1, <1>2

\* A window that is offered has its dates.
LEMMA WindowIs ==
  ASSUME Typed, silver # {}, NEW n \in Names, Resolved[n] # Absent
  PROVE  Resolved[n].start \in Int /\ Resolved[n].end \in Int
<1>1. Anchor \in Int /\ ShortSpan \in Int /\ LongSpan \in Int
  BY ShortWindow, FiguresAssumption
<1> QED BY <1>1 DEF Resolved

\* A range ranks as the windows ranked together with its days.
LEMMA TogetherIsWindow ==
  ASSUME RangeInv, silver # {}, NEW which, NEW rebuild, NEW keep,
         \A n \in rebuild : n \in Names /\ Resolved[n] # Absent,
         UNCHANGED <<served, census>>,
         safety' = Reranked(which, Resolved, rebuild, keep),
         together' = IF served \in which THEN rebuild ELSE {},
         Exact(daily', served) \/ tuned'
  PROVE  TogetherAsWindow'
<1> SUFFICES ASSUME RangeScheme', ~tuned', NEW n \in together', NEW t \in Tracks,
                    safety'[served][n] # Absent
             PROVE  RankedOf(daily', Exposures(served), Prior(served), safety'[served][n].start,
                             safety'[served][n].end, t)
                      = safety'[served][n].rows[t]
  <2>1. Exposures(served)' = Exposures(served)
    BY DEF Exposures, Exposure
  <2> QED BY <2>1 DEF TogetherAsWindow
<1> DEFINE w == Resolved[n]
<1>1. served \in which /\ n \in rebuild /\ n \in Names /\ served \in Schemes
  BY DEF RangeInv, Typed
<1>2. Buildable(served)
  <2>1. ASSUME ~Buildable(served) PROVE FALSE
    <3>1. safety'[served] = Nothing
      BY <1>1, <2>1 DEF Reranked, RangeInv, UnbuiltEmpty
    <3> QED BY <3>1 DEF RangeScheme
  <2> QED BY <2>1
<1>3. safety'[served][n] = RankingOf(served, w)
  BY <1>1, <1>2 DEF Reranked
<1>4. w.start \in Int /\ w.end \in Int
  BY <1>1, WindowIs DEF RangeInv
<1>5. RankingOf(served, w).start = w.start /\ RankingOf(served, w).end = w.end
  BY DEF RankingOf
<1>6. Exact(daily', served)
  OBVIOUS
<1> HIDE DEF w
<1>7. RankedOf(daily', Exposures(served), Prior(served), w.start, w.end, t) = RankingOf(served, w).rows[t]
  BY <1>1, <1>4, <1>6, RangeIsWindow DEF RangeInv
<1> QED BY <1>3, <1>5, <1>7

\* A new database has nothing served and nothing unbuilt.
LEMMA RangeInvInit == Init => RangeInv
<1> SUFFICES ASSUME Init PROVE RangeInv
  OBVIOUS
<1>1. Typed
  <2>1. 0 \in 0..MaxTunings
    BY FiguresAssumption
  <2> QED BY <2>1 DEF Init, Typed
<1>2. DailyExact
  BY DEF Init, DailyExact
<1>3. UnbuiltEmpty
  BY DEF Init, UnbuiltEmpty
<1>4. TogetherAsWindow
  BY DEF Init, TogetherAsWindow
<1> QED BY <1>1, <1>2, <1>3, <1>4 DEF RangeInv

\* A step that leaves reports and weights leaves what they say of a day,
LEMMA SameDays ==
  ASSUME UNCHANGED <<silver, tuning>>, NEW scheme, NEW d
  PROVE  DailyRow(scheme, d)' = DailyRow(scheme, d)
BY DEF DailyRow, Evidence, Between

\* and one report only of its own.
LEMMA OtherDays ==
  ASSUME Typed, NEW r \in Reports, Change(r), NEW scheme, NEW d \in Days, d # r.day
  PROVE  DailyRow(scheme, d)' = DailyRow(scheme, d)
<1>1. \A x \in silver \cup silver' : x.day \in Int
  BY ReportIs DEF Change, Typed
<1>2. d \in Int
  BY FiguresAssumption
<1>3. silver' \ {r} = silver \ {r} /\ ~(d =< r.day /\ r.day =< d)
  BY <1>2, ReportIs DEF Change
<1>4. Between(d, d)' = Between(d, d)
  BY <1>3 DEF Between
<1>5. tuning' = tuning
  BY DEF Change, reference
<1> QED BY <1>4, <1>5 DEF DailyRow, Evidence

\* A daily table the mark calls current is exact after every step.
LEMMA DailyExactStep ==
  ASSUME RangeInv, [Next]_vars
  PROVE  DailyExact'
<1> USE DEF RangeInv
<1>1. ASSUME UNCHANGED <<silver, tuning, daily, dailyScheme, tuned>>, pending' \in {pending, Everything}
      PROVE  DailyExact'
  <2>1. \A d \in Days : ~Dirty(pending', d) => pending' = pending
    BY <1>1 DEF Dirty
  <2> QED BY <1>1, <2>1, SameDays DEF DailyExact, Dirty
<1>2. ASSUME NEW r \in Reports, Change(r) PROVE DailyExact'
  <2>1. UNCHANGED <<daily, dailyScheme, tuned>> /\ pending' = Mark(pending, r.day)
    BY <1>2 DEF Change, layers
  <2>2. ASSUME NEW d \in Days, ~Dirty(pending', d) PROVE ~Dirty(pending, d) /\ d # r.day
    <3>1. r.day \in Int /\ d \in Int /\ pending \in Int \cup {NotPending, Everything}
      BY ReportIs, FiguresAssumption DEF Typed
    <3> QED BY <2>1, <2>2, <3>1, PendingAssumption DEF Dirty, Mark
  <2>3. \A scheme, d : d \in Days /\ d # r.day => DailyRow(scheme, d)' = DailyRow(scheme, d)
    BY <1>2, OtherDays
  <2> QED BY <2>1, <2>2, <2>3 DEF DailyExact
<1>3. CASE Retune
  BY <1>3 DEF Retune, DailyExact
<1>4. CASE LoadSchemes
  BY <1>1, <1>4 DEF LoadSchemes
<1>5. CASE Activate
  BY <1>1, <1>5 DEF Activate, layers
<1>6. CASE LoadCensus
  <2>1. pending' = Everything
    BY <1>6 DEF LoadCensus, Mark
  <2> QED BY <1>1, <1>6, <2>1 DEF LoadCensus, layers
<1>7. ASSUME Exact(daily', served), dailyScheme' = served, UNCHANGED <<silver, tuning>>
      PROVE  DailyExact'
  BY <1>7, SameDays DEF DailyExact, Exact
<1>8. ASSUME NEW from, NEW withHours, RefreshAll(from, withHours),
             from = Everything \/ (from = pending /\ pending # NotPending)
      PROVE  DailyExact'
  <2>1. /\ daily' = Redaily(from) /\ dailyScheme' = served /\ UNCHANGED <<silver, tuning>>
        /\ tuned' = (tuned /\ Since(from) # Everything)
    BY <1>8 DEF RefreshAll, reference
  <2>2. CASE tuned => Since(from) = Everything
    BY <1>7, <1>8, <2>1, <2>2, RefreshIsExact
  <2>3. CASE ~(tuned => Since(from) = Everything)
    BY <2>1, <2>3 DEF DailyExact
  <2> QED BY <2>2, <2>3
<1>9. CASE Safety
  <2>1. /\ daily' = Redaily(Everything) /\ dailyScheme' = served /\ UNCHANGED <<silver, tuning>>
    BY <1>9 DEF Safety, reference
  <2>2. Exact(Redaily(Everything), served)
    BY RefreshIsExact DEF Since
  <2> QED BY <1>7, <2>1, <2>2
<1>10. CASE Hourly
  BY <1>1, <1>10 DEF Hourly, reference
<1>11. CASE UNCHANGED vars
  BY <1>1, <1>11 DEF vars, reference, layers
<1> QED BY <1>2, <1>3, <1>4, <1>5, <1>6, <1>8, <1>9, <1>10, <1>11 DEF Next, Incremental, Gold

\* A scheme that cannot be ranked still has no ranking after any step.
LEMMA UnbuiltStep ==
  ASSUME RangeInv, [Next]_vars
  PROVE  UnbuiltEmpty'
<1> USE DEF RangeInv
<1>1. ASSUME census' = census \/ census', safety' = safety PROVE UnbuiltEmpty'
  BY <1>1 DEF UnbuiltEmpty, Buildable
<1>2. ASSUME NEW which, NEW rebuild, NEW keep, UNCHANGED census,
             safety' = Reranked(which, Resolved, rebuild, keep)
      PROVE  UnbuiltEmpty'
  BY <1>2 DEF UnbuiltEmpty, Buildable, Reranked
<1>3. ASSUME NEW r \in Reports, Change(r) PROVE UnbuiltEmpty'
  BY <1>1, <1>3 DEF Change, reference, layers
<1>4. CASE Retune
  BY <1>1, <1>4 DEF Retune, layers
<1>5. CASE LoadSchemes
  BY <1>5 DEF LoadSchemes, UnbuiltEmpty, Buildable
<1>6. CASE Activate
  BY <1>1, <1>6 DEF Activate, layers
<1>7. CASE LoadCensus
  BY <1>1, <1>7 DEF LoadCensus, layers
<1>8. ASSUME NEW from, NEW withHours, RefreshAll(from, withHours) PROVE UnbuiltEmpty'
  <2>1. UNCHANGED census /\ \E rebuild, keep : safety' = Reranked(enabled, Resolved, rebuild, keep)
    BY <1>8 DEF RefreshAll, reference
  <2> QED BY <1>2, <2>1
<1>9. CASE Safety
  <2>1. UNCHANGED census /\ \E which, rebuild : safety' = Reranked(which, Resolved, rebuild, {})
    BY <1>9 DEF Safety, reference
  <2> QED BY <1>2, <2>1
<1>10. CASE Hourly
  BY <1>1, <1>10 DEF Hourly, reference
<1>11. CASE UNCHANGED vars
  BY <1>1, <1>11 DEF vars, reference, layers
<1> QED BY <1>3, <1>4, <1>5, <1>6, <1>7, <1>8, <1>9, <1>10, <1>11 DEF Next, Incremental, Gold

\* What is served together ranks a range as it ranks the window, after every step.
LEMMA TogetherStep ==
  ASSUME RangeInv, [Next]_vars
  PROVE  TogetherAsWindow'
<1> USE DEF RangeInv
<1>1. ASSUME UNCHANGED <<safety, served, census, daily, dailyScheme, together, tuned>>,
             pending = Everything => pending' = Everything
      PROVE  TogetherAsWindow'
  BY <1>1 DEF TogetherAsWindow, RangeScheme, Exposures, Exposure
<1>2. ASSUME NEW r \in Reports, Change(r) PROVE TogetherAsWindow'
  <2>1. pending = Everything => pending' = Everything
    BY <1>2, PendingAssumption DEF Change, Mark
  <2> QED BY <1>1, <1>2, <2>1 DEF Change, reference, layers
<1>3. CASE Retune
  BY <1>3 DEF Retune, TogetherAsWindow
<1>4. CASE LoadSchemes
  <2>1. safety'[served] = safety[served]
    BY <1>4 DEF LoadSchemes, Typed
  <2>2. UNCHANGED <<served, census, daily, dailyScheme, together, tuned, pending>>
    BY <1>4 DEF LoadSchemes
  <2>3. Exposures(served)' = Exposures(served)
    BY <2>2 DEF Exposures, Exposure
  <2> QED BY <2>1, <2>2, <2>3 DEF TogetherAsWindow, RangeScheme
<1>5. CASE Activate
  BY <1>5 DEF Activate, TogetherAsWindow
<1>6. CASE LoadCensus
  <2>1. pending' = Everything
    BY <1>6 DEF LoadCensus, Mark
  <2> QED BY <2>1 DEF TogetherAsWindow
<1>7. ASSUME NEW from, NEW withHours, RefreshAll(from, withHours),
             from = Everything \/ (from = pending /\ pending # NotPending)
      PROVE  TogetherAsWindow'
  <2> DEFINE offered == {n \in Names : Resolved[n] # Absent}
             keep == IF from = Everything \/ LongDue(Resolved) THEN {} ELSE offered \cap Long
             rebuild == offered \ keep
  <2>1. /\ silver # {} /\ UNCHANGED <<served, census>>
        /\ safety' = Reranked(enabled, Resolved, rebuild, keep)
        /\ together' = IF served \in enabled THEN rebuild ELSE {}
        /\ daily' = Redaily(from) /\ tuned' = (tuned /\ Since(from) # Everything)
    BY <1>7 DEF RefreshAll, reference
  <2>2. \A n \in rebuild : n \in Names /\ Resolved[n] # Absent
    OBVIOUS
  <2> HIDE DEF rebuild, keep
  <2>3. Exact(daily', served) \/ tuned'
    <3>1. CASE tuned => Since(from) = Everything
      BY <1>7, <2>1, <3>1, RefreshIsExact
    <3>2. CASE ~(tuned => Since(from) = Everything)
      BY <2>1, <3>2
    <3> QED BY <3>1, <3>2
  <2> QED BY <2>1, <2>2, <2>3, TogetherIsWindow
<1>8. CASE Safety
  <2> DEFINE offered == {n \in Names : Resolved[n] # Absent}
  <2>1. PICK which \in Asked : /\ safety' = Reranked(which, Resolved, offered, {})
                               /\ together' = IF served \in which THEN offered ELSE {}
    BY <1>8 DEF Safety
  <2>2. /\ silver # {} /\ UNCHANGED <<served, census>> /\ daily' = Redaily(Everything)
    BY <1>8 DEF Safety, reference
  <2>3. \A n \in offered : n \in Names /\ Resolved[n] # Absent
    OBVIOUS
  <2> HIDE DEF offered
  <2>4. Exact(daily', served)
    BY <2>2, RefreshIsExact DEF Since
  <2> QED BY <2>1, <2>2, <2>3, <2>4, TogetherIsWindow
<1>9. CASE Hourly
  BY <1>1, <1>9 DEF Hourly, reference
<1>10. CASE UNCHANGED vars
  BY <1>1, <1>10 DEF vars, reference, layers
<1> QED BY <1>2, <1>3, <1>4, <1>5, <1>6, <1>7, <1>8, <1>9, <1>10 DEF Next, Incremental, Gold

\* A range of dates ranks every cell as the stored window of those dates does,
\* whatever has since been reported: for each window the last refresh of the
\* days ranked, once a reloaded census or an edited weight has reached gold.
THEOREM RangesRankAsWindows == Spec => []RangeRanksAsWindow
<1> DEFINE Inv == DailyExact /\ UnbuiltEmpty /\ TogetherAsWindow
<1>1. Init => Inv
  BY RangeInvInit DEF RangeInv
<1>2. Typed /\ Inv /\ [Next]_vars => Inv'
  BY DailyExactStep, UnbuiltStep, TogetherStep DEF RangeInv
<1>3. Inv => RangeRanksAsWindow
  BY RangeIsTogether
<1> HIDE DEF Inv
<1> QED BY <1>1, <1>2, <1>3, TypedInvariant, PTL DEF Spec
=============================================================================
