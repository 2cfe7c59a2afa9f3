----------------------------- MODULE DataLemmas -----------------------------
(***************************************************************************)
(* What the community modules' operators return, where several proofs need *)
(* it.  Min and Max are CHOOSE expressions, and MapThenSumSet a recursive  *)
(* function: what they are is known only where an extremum, or a solution  *)
(* of the recursion, exists.  These lemmas give it for every non-empty     *)
(* bounded set of integers, and every finite set.  The last are of the     *)
(* bounded tables of module Lru.                                           *)
(***************************************************************************)
EXTENDS Lru, FiniteSetsExt, FiniteSetTheorems, SequenceTheorems, WellFoundedInduction,
        TLAPS

\* The library's well-founded order on Nat, as a set of pairs.
LessThanNat == {p \in Nat \X Nat : p[1] < p[2]}

\* Every non-empty set of naturals has a least element.
LEMMA LeastNatural ==
  ASSUME NEW T \in SUBSET Nat, T # {}
  PROVE  \E x \in T : \A y \in T : x =< y
<1>1. IsWellFoundedOn(LessThanNat, Nat)
  BY NatLessThanWellFounded, Zenon DEF OpToRel, LessThanNat
<1>2. T \subseteq Nat
  OBVIOUS
<1>3. PICK x \in T : \A y \in T : ~(<<y, x>> \in LessThanNat)
  BY <1>1, <1>2, WFMin, Zenon
<1>4. \A y \in T : ~(y < x)
  BY <1>3 DEF LessThanNat
<1> QED BY <1>4

\* Min of a non-empty set of integers bounded below is its least element.
LEMMA MinIsLeast ==
  ASSUME NEW S \in SUBSET Int, S # {}, NEW lo \in Int, \A x \in S : lo =< x
  PROVE  Min(S) \in S /\ \A y \in S : Min(S) =< y
<1> DEFINE T == {x - lo : x \in S}
<1>1. T \in SUBSET Nat /\ T # {}
  <2>1. \A x \in S : x - lo \in Nat
    OBVIOUS
  <2>2. PICK x \in S : TRUE
    OBVIOUS
  <2>3. x - lo \in T
    BY <2>2
  <2> QED BY <2>1, <2>3
<1>2. PICK t \in T : \A u \in T : t =< u
  BY <1>1, LeastNatural
<1>3. PICK m \in S : t = m - lo
  OBVIOUS
<1>4. \A y \in S : m =< y
  <2> TAKE y \in S
  <2>1. y - lo \in T
    OBVIOUS
  <2>2. t =< y - lo
    BY <1>2, <2>1
  <2> QED BY <1>3, <2>2
<1> QED BY <1>3, <1>4 DEF Min

\* Max of a non-empty set of integers bounded above is its greatest element.
LEMMA MaxIsGreatest ==
  ASSUME NEW S \in SUBSET Int, S # {}, NEW hi \in Int, \A x \in S : x =< hi
  PROVE  Max(S) \in S /\ \A y \in S : y =< Max(S)
<1> DEFINE T == {hi - x : x \in S}
<1>1. T \in SUBSET Nat /\ T # {}
  <2>1. \A x \in S : hi - x \in Nat
    OBVIOUS
  <2>2. PICK x \in S : TRUE
    OBVIOUS
  <2>3. hi - x \in T
    BY <2>2
  <2> QED BY <2>1, <2>3
<1>2. PICK t \in T : \A u \in T : t =< u
  BY <1>1, LeastNatural
<1>3. PICK m \in S : t = hi - m
  OBVIOUS
<1>4. \A y \in S : m >= y
  <2> TAKE y \in S
  <2>1. hi - y \in T
    OBVIOUS
  <2>2. t =< hi - y
    BY <1>2, <2>1
  <2> QED BY <1>3, <2>2
<1> HIDE DEF T
<1>5. Max(S) \in S /\ \A y \in S : Max(S) >= y
  BY <1>3, <1>4 DEF Max
<1> QED BY <1>5
-----------------------------------------------------------------------------
(* Induction over finite sets.  A property is given as the set C of those  *)
(* that have it.                                                           *)

\* A set has it when every smaller one having it makes it so.
LEMMA StrongInduction ==
  ASSUME NEW S, IsFiniteSet(S), NEW C,
         \A T \in SUBSET S : (\A U \in SUBSET T : U # T => U \in C) => T \in C
  PROVE  \A T \in SUBSET S : T \in C
<1> SUFFICES ASSUME \E T \in SUBSET S : T \notin C PROVE FALSE
  OBVIOUS
<1> DEFINE Sizes == {Cardinality(T) : T \in {U \in SUBSET S : U \notin C}}
<1>1. \A T \in SUBSET S : IsFiniteSet(T) /\ Cardinality(T) \in Nat
  BY FS_Subset, FS_CardinalityType
<1>2. Sizes \in SUBSET Nat /\ Sizes # {}
  BY <1>1
<1>3. PICK n \in Sizes : \A m \in Sizes : n =< m
  BY <1>2, LeastNatural
<1>4. PICK T \in SUBSET S : T \notin C /\ Cardinality(T) = n
  BY <1>3
<1>5. ASSUME NEW U \in SUBSET T, U # T PROVE U \in C
  <2>1. Cardinality(U) < Cardinality(T)
    BY <1>1, <1>5, FS_Subset
  <2>2. U \in SUBSET S /\ Cardinality(U) \in Nat /\ n \in Nat
    BY <1>1, <1>2
  <2> HIDE DEF Sizes
  <2>3. Cardinality(U) \notin Sizes
    BY <2>1, <2>2, <1>3, <1>4
  <2> QED BY <2>2, <2>3 DEF Sizes
<1> QED BY <1>4, <1>5

\* The empty set has it, and one more element never loses it.
LEMMA FiniteInduction ==
  ASSUME NEW S, IsFiniteSet(S), NEW C, {} \in C,
         \A T \in SUBSET S, x \in S : x \notin T /\ T \in C => T \cup {x} \in C
  PROVE  S \in C
<1>1. ASSUME NEW T \in SUBSET S, \A U \in SUBSET T : U # T => U \in C PROVE T \in C
  <2>1. CASE T = {}
    BY <2>1
  <2>2. ASSUME NEW x \in T PROVE T \in C
    <3>1. T \ {x} \in C /\ T = (T \ {x}) \cup {x} /\ x \in S /\ T \ {x} \in SUBSET S
      BY <1>1
    <3>2. (T \ {x}) \cup {x} \in C
      BY <3>1
    <3> QED BY <3>1, <3>2
  <2> QED BY <2>1, <2>2
<1> QED BY <1>1, StrongInduction

\* Finitely many integers have a lower bound.
LEMMA FiniteHasBound ==
  ASSUME NEW F, NEW S, IsFiniteSet(S), \A x \in S : F[x] \in Int
  PROVE  \E lo \in Int : \A x \in S : lo =< F[x]
<1> DEFINE C == {T \in SUBSET S : \E lo \in Int : \A x \in T : lo =< F[x]}
<1>1. {} \in C
  <2>1. 0 \in Int /\ \A x \in {} : 0 =< F[x]
    OBVIOUS
  <2> QED BY <2>1
<1>2. ASSUME NEW T \in SUBSET S, NEW x \in S, x \notin T, T \in C PROVE T \cup {x} \in C
  <2>1. PICK lo \in Int : \A y \in T : lo =< F[y]
    BY <1>2
  <2>2. F[x] \in Int /\ \A y \in T : F[y] \in Int
    OBVIOUS
  <2>3. CASE lo =< F[x]
    BY <2>1, <2>3
  <2>4. CASE ~(lo =< F[x])
    <3>1. \A y \in T \cup {x} : F[x] =< F[y]
      BY <2>1, <2>2, <2>4
    <3> QED BY <2>2, <3>1
  <2> QED BY <2>3, <2>4
<1> HIDE DEF C
<1>3. S \in C
  BY <1>1, <1>2, FiniteInduction
<1> QED BY <1>3 DEF C

\* A set of something has a size,
LEMMA SizeOfSome ==
  ASSUME NEW S, IsFiniteSet(S), S # {}
  PROVE  Cardinality(S) \in Nat \ {0}
BY FS_EmptySet, FS_CardinalityType

\* and two apart, the sum of theirs.
LEMMA SizeOfDisjoint ==
  ASSUME NEW S, NEW T, IsFiniteSet(S), IsFiniteSet(T), S \cap T = {}
  PROVE  Cardinality(S \cup T) = Cardinality(S) + Cardinality(T)
<1>1. Cardinality(S \cup T) = Cardinality(S) + Cardinality(T) - Cardinality(S \cap T)
  BY FS_Union
<1>2. Cardinality(S \cap T) = 0
  BY FS_EmptySet
<1>3. Cardinality(S) \in Nat /\ Cardinality(T) \in Nat
  BY FS_CardinalityType
<1> QED BY <1>1, <1>2, <1>3
-----------------------------------------------------------------------------
(* Sums and products.  Both are one recursion, by adding or by multiplying. *)

SumOver(F, S)     == MapThenSumSet(LAMBDA x : F[x], S)
ProductOver(F, S) == MapThenFoldSet(LAMBDA a, b : a * b, 1, LAMBDA x : F[x],
                                    LAMBDA T : CHOOSE x \in T : TRUE, S)

Combine(by, x, y) == IF by = "sum" THEN x + y ELSE x * y
Unit(by)       == IF by = "sum" THEN 0 ELSE 1

Chosen(s) == CHOOSE x \in s : TRUE
FoldStep(by, F, g, s) == IF s = {} THEN Unit(by) ELSE Combine(by, F[Chosen(s)], g[s \ {Chosen(s)}])
FoldsTo(by, F, g, S) == g = [s \in SUBSET S |-> FoldStep(by, F, g, s)]
FoldOver(by, F, S) == IF by = "sum" THEN SumOver(F, S) ELSE ProductOver(F, S)

\* Either is a solution of its recursion, at the set.
LEMMA FoldIsOfFolds ==
  ASSUME NEW by \in {"sum", "product"}, NEW F, NEW S, NEW h, FoldsTo(by, F, h, S)
  PROVE  \E g : FoldsTo(by, F, g, S) /\ FoldOver(by, F, S) = g[S]
<1>1. FoldOver(by, F, S) = (CHOOSE g : FoldsTo(by, F, g, S))[S]
  <2>1. CASE by = "sum"
    <3>1. SumOver(F, S) = (CHOOSE g : FoldsTo("sum", F, g, S))[S]
      BY DEF SumOver, MapThenSumSet, MapThenFoldSet, FoldsTo, FoldStep, Combine, Unit, Chosen
    <3> QED BY <2>1, <3>1 DEF FoldOver
  <2>2. CASE by = "product"
    <3>1. ProductOver(F, S) = (CHOOSE g : FoldsTo("product", F, g, S))[S]
      BY DEF ProductOver, MapThenFoldSet, FoldsTo, FoldStep, Combine, Unit, Chosen
    <3> QED BY <2>2, <3>1 DEF FoldOver
  <2> QED BY <2>1, <2>2
<1>2. FoldsTo(by, F, CHOOSE g : FoldsTo(by, F, g, S), S)
  OBVIOUS
<1> QED BY <1>1, <1>2

\* The element a fold takes out first.
LEMMA ChosenIn == ASSUME NEW s, s # {} PROVE Chosen(s) \in s
BY DEF Chosen

\* Two solutions of one recursion agree wherever both are defined.
LEMMA FoldsAgree ==
  ASSUME NEW by, NEW F, NEW S, NEW T, NEW g, NEW h, FoldsTo(by, F, g, S), FoldsTo(by, F, h, T),
         NEW U \in SUBSET (S \cap T), IsFiniteSet(U)
  PROVE  g[U] = h[U]
<1> DEFINE C == {s \in SUBSET U : g[s] = h[s]}
<1>1. ASSUME NEW s \in SUBSET U, \A u \in SUBSET s : u # s => u \in C PROVE s \in C
  <2>1. g[s] = FoldStep(by, F, g, s) /\ h[s] = FoldStep(by, F, h, s)
    <3>1. s \in SUBSET S /\ s \in SUBSET T
      OBVIOUS
    <3> QED BY <3>1 DEF FoldsTo
  <2>2. CASE s = {}
    BY <2>1, <2>2 DEF FoldStep
  <2>3. CASE s # {}
    <3>1. s \ {Chosen(s)} \in C
      BY <1>1, <2>3, ChosenIn
    <3> QED BY <2>1, <3>1 DEF FoldStep
  <2> QED BY <2>2, <2>3
<1> HIDE DEF C
<1>2. U \in C
  BY <1>1, StrongInduction
<1> QED BY <1>2 DEF C

\* Over a finite set the recursion has a solution.
LEMMA FoldsExist ==
  ASSUME NEW by, NEW F, NEW S, IsFiniteSet(S)
  PROVE  \E g : FoldsTo(by, F, g, S)
<1> DEFINE C == {T \in SUBSET S : \E g : FoldsTo(by, F, g, T)}
           G(T) == CHOOSE g : FoldsTo(by, F, g, T)
<1>1. ASSUME NEW T \in SUBSET S, \A U \in SUBSET T : U # T => U \in C PROVE T \in C
  <2> DEFINE g == [s \in SUBSET T |-> FoldStep(by, F, G(s \ {Chosen(s)}), s)]
  <2>1. ASSUME NEW s \in SUBSET T PROVE g[s] = FoldStep(by, F, g, s)
    <3> DEFINE t == s \ {Chosen(s)}
               u == t \ {Chosen(t)}
    <3>1. CASE s = {}
      BY <3>1 DEF FoldStep
    <3>2. CASE s # {}
      <4>1. t \in SUBSET T /\ t # T /\ u \in SUBSET T /\ u # T
        BY <3>2, ChosenIn
      <4>2. FoldsTo(by, F, G(t), t) /\ FoldsTo(by, F, G(u), u)
        BY <4>1, <1>1
      <4>3. IsFiniteSet(u)
        BY <4>1, FS_Subset
      <4>4. G(t)[t] = FoldStep(by, F, G(t), t)
        BY <4>2 DEF FoldsTo
      <4>5. t # {} => G(t)[u] = G(u)[u]
        BY <4>2, <4>3, FoldsAgree
      <4>6. G(t)[t] = FoldStep(by, F, G(u), t)
        BY <4>4, <4>5 DEF FoldStep
      <4>7. g[t] = FoldStep(by, F, G(u), t)
        BY <4>1
      <4>8. g[s] = FoldStep(by, F, G(t), s)
        OBVIOUS
      <4> QED BY <3>2, <4>6, <4>7, <4>8 DEF FoldStep
    <3> QED BY <3>1, <3>2
  <2>2. FoldsTo(by, F, g, T)
    <3> HIDE DEF G
    <3>1. g = [s \in SUBSET T |-> g[s]]
      OBVIOUS
    <3> HIDE DEF g
    <3> QED BY <2>1, <3>1 DEF FoldsTo
  <2> QED BY <2>2
<1> HIDE DEF C
<1>2. S \in C
  BY <1>1, StrongInduction
<1> QED BY <1>2 DEF C

\* What a fold is: nothing, or one element's value and the fold of the rest.
LEMMA FoldUnfolds ==
  ASSUME NEW by \in {"sum", "product"}, NEW F, NEW S, IsFiniteSet(S)
  PROVE  FoldOver(by, F, S) = IF S = {} THEN Unit(by)
                              ELSE Combine(by, F[Chosen(S)], FoldOver(by, F, S \ {Chosen(S)}))
<1>1. PICK g : FoldsTo(by, F, g, S) /\ FoldOver(by, F, S) = g[S]
  BY FoldsExist, FoldIsOfFolds
<1>2. g[S] = FoldStep(by, F, g, S)
  BY <1>1 DEF FoldsTo
<1>3. CASE S = {}
  BY <1>1, <1>2, <1>3 DEF FoldStep
<1>4. CASE S # {}
  <2> DEFINE T == S \ {Chosen(S)}
  <2>1. IsFiniteSet(T) /\ T \in SUBSET (S \cap T)
    BY FS_Subset
  <2>2. PICK h : FoldsTo(by, F, h, T) /\ FoldOver(by, F, T) = h[T]
    BY <2>1, FoldsExist, FoldIsOfFolds
  <2>3. g[T] = h[T]
    BY <1>1, <2>1, <2>2, FoldsAgree
  <2> QED BY <1>1, <1>2, <1>4, <2>2, <2>3 DEF FoldStep
<1> QED BY <1>3, <1>4

\* What a sum is,
LEMMA SumUnfolds ==
  ASSUME NEW F, NEW S, IsFiniteSet(S)
  PROVE  SumOver(F, S) = IF S = {} THEN 0
                         ELSE F[Chosen(S)] + SumOver(F, S \ {Chosen(S)})
<1>1. \A T : FoldOver("sum", F, T) = SumOver(F, T)
  BY DEF FoldOver
<1>2. FoldOver("sum", F, S) = IF S = {} THEN Unit("sum")
                              ELSE Combine("sum", F[Chosen(S)], FoldOver("sum", F, S \ {Chosen(S)}))
  BY FoldUnfolds
<1> QED BY <1>1, <1>2 DEF Combine, Unit

\* and a product.
LEMMA ProductUnfolds ==
  ASSUME NEW F, NEW S, IsFiniteSet(S)
  PROVE  ProductOver(F, S) = IF S = {} THEN 1
                             ELSE F[Chosen(S)] * ProductOver(F, S \ {Chosen(S)})
<1>1. \A T : FoldOver("product", F, T) = ProductOver(F, T)
  BY DEF FoldOver
<1>2. FoldOver("product", F, S) = IF S = {} THEN Unit("product")
                                  ELSE Combine("product", F[Chosen(S)],
                                            FoldOver("product", F, S \ {Chosen(S)}))
  BY FoldUnfolds
<1> QED BY <1>1, <1>2 DEF Combine, Unit

\* Nothing sums to nothing.
LEMMA SumOfNone ==
  ASSUME NEW F
  PROVE  SumOver(F, {}) = 0
BY SumUnfolds, FS_EmptySet

\* Integers sum to an integer,
LEMMA SumIsInt ==
  ASSUME NEW F, NEW S, IsFiniteSet(S), \A x \in S : F[x] \in Int
  PROVE  SumOver(F, S) \in Int
<1> DEFINE C == {T \in SUBSET S : SumOver(F, T) \in Int}
<1>1. ASSUME NEW T \in SUBSET S, \A U \in SUBSET T : U # T => U \in C PROVE T \in C
  <2>1. IsFiniteSet(T)
    BY FS_Subset
  <2>2. CASE T = {}
    BY <2>2, SumOfNone
  <2>3. CASE T # {}
    <3>1. Chosen(T) \in S /\ SumOver(F, T \ {Chosen(T)}) \in Int
      BY <1>1, <2>3, ChosenIn
    <3> QED BY <2>1, <2>3, <3>1, SumUnfolds
  <2> QED BY <2>2, <2>3
<1> HIDE DEF C
<1>2. S \in C
  BY <1>1, StrongInduction
<1> QED BY <1>2 DEF C

\* Any element may be taken out first.
LEMMA SumTakesOut ==
  ASSUME NEW F, NEW S, IsFiniteSet(S), \A x \in S : F[x] \in Int, NEW x \in S
  PROVE  SumOver(F, S) = F[x] + SumOver(F, S \ {x})
<1> DEFINE C == {T \in SUBSET S : \A y \in T : SumOver(F, T) = F[y] + SumOver(F, T \ {y})}
<1>1. ASSUME NEW T \in SUBSET S, \A U \in SUBSET T : U # T => U \in C PROVE T \in C
  <2> SUFFICES ASSUME NEW y \in T PROVE SumOver(F, T) = F[y] + SumOver(F, T \ {y})
    OBVIOUS
  <2> DEFINE c == Chosen(T)
  <2>1. c \in T /\ IsFiniteSet(T) /\ T # {}
    BY ChosenIn, FS_Subset
  <2>2. SumOver(F, T) = F[c] + SumOver(F, T \ {c})
    BY <2>1, SumUnfolds
  <2>3. CASE y = c
    BY <2>2, <2>3
  <2>4. CASE y # c
    <3> DEFINE rest == (T \ {c}) \ {y}
    <3>1. rest = (T \ {y}) \ {c}
      OBVIOUS
    <3>2. SumOver(F, T \ {c}) = F[y] + SumOver(F, rest)
      <4>1. T \ {c} \in C /\ y \in T \ {c}
        BY <1>1, <2>1, <2>4
      <4> QED BY <4>1
    <3>3. SumOver(F, T \ {y}) = F[c] + SumOver(F, rest)
      <4>1. T \ {y} \in C /\ c \in T \ {y}
        BY <1>1, <2>1, <2>4
      <4> QED BY <4>1, <3>1
    <3>4. rest \in SUBSET S /\ IsFiniteSet(rest) /\ F[c] \in Int /\ F[y] \in Int
      BY <2>1, FS_Subset
    <3>5. SumOver(F, rest) \in Int
      BY <3>4, SumIsInt
    <3> HIDE DEF rest, c
    <3> QED BY <2>2, <3>2, <3>3, <3>4, <3>5
  <2> QED BY <2>3, <2>4
<1> HIDE DEF C
<1>2. S \in C
  BY <1>1, StrongInduction
<1> QED BY <1>2 DEF C

\* One number sums to itself,
LEMMA SumOfOne ==
  ASSUME NEW F, NEW x, F[x] \in Int
  PROVE  SumOver(F, {x}) = F[x]
<1>1. IsFiniteSet({x}) /\ {x} \ {x} = {}
  BY FS_Singleton
<1>2. SumOver(F, {x}) = F[x] + SumOver(F, {x} \ {x})
  BY <1>1, SumTakesOut
<1> QED BY <1>1, <1>2, SumOfNone

\* naturals to a natural.
LEMMA SumIsNat ==
  ASSUME NEW F, NEW S, IsFiniteSet(S), \A x \in S : F[x] \in Nat
  PROVE  SumOver(F, S) \in Nat
<1> DEFINE C == {T \in SUBSET S : SumOver(F, T) \in Nat}
<1>1. {} \in C
  BY SumOfNone
<1>2. ASSUME NEW T \in SUBSET S, NEW x \in S, x \notin T, T \in C PROVE T \cup {x} \in C
  <2>1. IsFiniteSet(T \cup {x}) /\ (T \cup {x}) \ {x} = T /\ T \cup {x} \in SUBSET S
    BY <1>2, FS_Subset
  <2>2. SumOver(F, T \cup {x}) = F[x] + SumOver(F, (T \cup {x}) \ {x})
    BY <2>1, SumTakesOut
  <2>3. F[x] \in Nat /\ SumOver(F, T) \in Nat
    BY <1>2
  <2>4. SumOver(F, T \cup {x}) \in Nat
    BY <2>1, <2>2, <2>3
  <2> QED BY <2>1, <2>4
<1> HIDE DEF C
<1>3. S \in C
  BY <1>1, <1>2, FiniteInduction
<1> QED BY <1>3 DEF C

\* Sums of functions that agree on the set are one.
LEMMA SumOfEqual ==
  ASSUME NEW F, NEW G, NEW S, IsFiniteSet(S), \A x \in S : F[x] = G[x]
  PROVE  SumOver(F, S) = SumOver(G, S)
<1> DEFINE C == {T \in SUBSET S : SumOver(F, T) = SumOver(G, T)}
<1>1. ASSUME NEW T \in SUBSET S, \A U \in SUBSET T : U # T => U \in C PROVE T \in C
  <2>1. IsFiniteSet(T)
    BY FS_Subset
  <2>2. CASE T = {}
    BY <2>2, SumOfNone
  <2>3. CASE T # {}
    <3>1. Chosen(T) \in S /\ SumOver(F, T \ {Chosen(T)}) = SumOver(G, T \ {Chosen(T)})
      BY <1>1, <2>3, ChosenIn
    <3> QED BY <2>1, <2>3, <3>1, SumUnfolds
  <2> QED BY <2>2, <2>3
<1> HIDE DEF C
<1>2. S \in C
  BY <1>1, StrongInduction
<1> QED BY <1>2 DEF C

\* The sum of two disjoint sets.
LEMMA SumOfUnion ==
  ASSUME NEW F, NEW S, NEW T, IsFiniteSet(S), IsFiniteSet(T), S \cap T = {},
         \A x \in S \cup T : F[x] \in Int
  PROVE  SumOver(F, S \cup T) = SumOver(F, S) + SumOver(F, T)
<1> DEFINE C == {U \in SUBSET T : SumOver(F, S \cup U) = SumOver(F, S) + SumOver(F, U)}
<1>1. {} \in C
  <2>1. SumOver(F, S) \in Int /\ S \cup {} = S
    BY SumIsInt
  <2> QED BY <2>1, SumOfNone
<1>2. ASSUME NEW U \in SUBSET T, NEW x \in T, x \notin U, U \in C PROVE U \cup {x} \in C
  <2> DEFINE V == U \cup {x}
             W == S \cup V
  <2>1. IsFiniteSet(V) /\ V \ {x} = U /\ IsFiniteSet(U) /\ V \in SUBSET T
    BY <1>2, FS_Subset
  <2>2. IsFiniteSet(W) /\ W \ {x} = S \cup U /\ x \in W /\ W \in SUBSET (S \cup T)
    BY <1>2, <2>1, FS_Union
  <2>3. SumOver(F, V) = F[x] + SumOver(F, U)
    BY <2>1, SumTakesOut
  <2>4. SumOver(F, W) = F[x] + SumOver(F, S \cup U)
    BY <2>2, SumTakesOut
  <2>5. SumOver(F, S) \in Int /\ SumOver(F, U) \in Int /\ F[x] \in Int
    BY <2>1, SumIsInt
  <2> HIDE DEF V
  <2>6. SumOver(F, S \cup V) = SumOver(F, S) + SumOver(F, V)
    BY <1>2, <2>3, <2>4, <2>5
  <2> QED BY <2>1, <2>6 DEF V
<1> HIDE DEF C
<1>3. T \in C
  BY <1>1, <1>2, FiniteInduction
<1> QED BY <1>3 DEF C

\* Naturals that sum to nothing are nothing.
LEMMA SumIsZero ==
  ASSUME NEW F, NEW S, IsFiniteSet(S), \A x \in S : F[x] \in Nat, SumOver(F, S) = 0
  PROVE  \A x \in S : F[x] = 0
<1> TAKE x \in S
<1>1. SumOver(F, S) = F[x] + SumOver(F, S \ {x})
  BY SumTakesOut
<1>2. SumOver(F, S \ {x}) \in Nat
  BY FS_Subset, SumIsNat
<1> QED BY <1>1, <1>2

\* A sum of multiples.
LEMMA SumScales ==
  ASSUME NEW F, NEW S, IsFiniteSet(S), \A x \in S : F[x] \in Int, NEW k \in Int,
         NEW G, \A x \in S : G[x] = k * F[x]
  PROVE  SumOver(G, S) = k * SumOver(F, S)
<1> DEFINE C == {T \in SUBSET S : SumOver(G, T) = k * SumOver(F, T)}
<1>1. {} \in C
  BY SumOfNone
<1>2. ASSUME NEW T \in SUBSET S, NEW x \in S, x \notin T, T \in C PROVE T \cup {x} \in C
  <2> DEFINE U == T \cup {x}
  <2>1. IsFiniteSet(U) /\ IsFiniteSet(T) /\ U \ {x} = T /\ U \in SUBSET S /\ x \in U
    BY <1>2, FS_Subset
  <2>2. F[x] \in Int /\ G[x] = k * F[x] /\ \A y \in S : G[y] \in Int
    OBVIOUS
  <2> HIDE DEF U
  <2>3. SumOver(F, U) = F[x] + SumOver(F, T) /\ SumOver(G, U) = G[x] + SumOver(G, T)
    <3>1. \A y \in U : F[y] \in Int /\ G[y] \in Int
      BY <2>1, <2>2
    <3> QED BY <2>1, <3>1, SumTakesOut
  <2>4. SumOver(F, T) \in Int
    BY <2>1, SumIsInt
  <2>5. SumOver(G, T) = k * SumOver(F, T)
    BY <1>2
  <2>6. k * (F[x] + SumOver(F, T)) = k * F[x] + k * SumOver(F, T)
    BY <2>2, <2>4
  <2> QED BY <2>1, <2>2, <2>3, <2>5, <2>6 DEF U
<1> HIDE DEF C
<1>3. S \in C
  BY <1>1, <1>2, FiniteInduction
<1> QED BY <1>3 DEF C

\* Nothings sum to nothing.
LEMMA SumOfZeros ==
  ASSUME NEW F, NEW S, IsFiniteSet(S), \A x \in S : F[x] = 0
  PROVE  SumOver(F, S) = 0
<1>1. \A x \in S : F[x] \in Int /\ F[x] = 0 * F[x]
  OBVIOUS
<1>2. SumOver(F, S) = 0 * SumOver(F, S) /\ SumOver(F, S) \in Int
  BY <1>1, SumScales, SumIsInt
<1> QED BY <1>2

\* A sum of sums.
LEMMA SumAdds ==
  ASSUME NEW F, NEW G, NEW S, IsFiniteSet(S), \A x \in S : F[x] \in Int /\ G[x] \in Int,
         NEW H, \A x \in S : H[x] = F[x] + G[x]
  PROVE  SumOver(H, S) = SumOver(F, S) + SumOver(G, S)
<1> DEFINE C == {T \in SUBSET S : SumOver(H, T) = SumOver(F, T) + SumOver(G, T)}
<1>1. {} \in C
  BY SumOfNone
<1>2. ASSUME NEW T \in SUBSET S, NEW x \in S, x \notin T, T \in C PROVE T \cup {x} \in C
  <2> DEFINE U == T \cup {x}
  <2>1. IsFiniteSet(U) /\ IsFiniteSet(T) /\ U \ {x} = T /\ U \in SUBSET S /\ x \in U
    BY <1>2, FS_Subset
  <2>2. \A y \in S : F[y] \in Int /\ G[y] \in Int /\ H[y] \in Int
    OBVIOUS
  <2> HIDE DEF U
  <2>3. /\ SumOver(F, U) = F[x] + SumOver(F, T)
        /\ SumOver(G, U) = G[x] + SumOver(G, T)
        /\ SumOver(H, U) = H[x] + SumOver(H, T)
    <3>1. \A y \in U : F[y] \in Int /\ G[y] \in Int /\ H[y] \in Int
      BY <2>1, <2>2
    <3> QED BY <2>1, <3>1, SumTakesOut
  <2>4. SumOver(F, T) \in Int /\ SumOver(G, T) \in Int
    BY <2>1, SumIsInt
  <2>5. SumOver(H, T) = SumOver(F, T) + SumOver(G, T)
    BY <1>2
  <2>6. SumOver(H, U) = SumOver(F, U) + SumOver(G, U)
    BY <2>2, <2>3, <2>4, <2>5
  <2> QED BY <2>1, <2>6 DEF U
<1> HIDE DEF C
<1>3. S \in C
  BY <1>1, <1>2, FiniteInduction
<1> QED BY <1>3 DEF C

\* A count is a sum of ones.
LEMMA SumOfOnes ==
  ASSUME NEW F, NEW S, IsFiniteSet(S), \A x \in S : F[x] = 1
  PROVE  SumOver(F, S) = Cardinality(S)
<1> DEFINE C == {T \in SUBSET S : SumOver(F, T) = Cardinality(T)}
<1>1. {} \in C
  BY SumOfNone, FS_EmptySet
<1>2. ASSUME NEW T \in SUBSET S, NEW x \in S, x \notin T, T \in C PROVE T \cup {x} \in C
  <2>1. IsFiniteSet(T \cup {x}) /\ IsFiniteSet(T) /\ (T \cup {x}) \ {x} = T
    BY <1>2, FS_Subset
  <2>2. SumOver(F, T \cup {x}) = 1 + SumOver(F, T)
    BY <2>1, SumTakesOut
  <2>3. Cardinality(T \cup {x}) = Cardinality(T) + 1 /\ Cardinality(T) \in Nat
    BY <1>2, <2>1, FS_AddElement, FS_CardinalityType
  <2> QED BY <1>2, <2>2, <2>3
<1> HIDE DEF C
<1>3. S \in C
  BY <1>1, <1>2, FiniteInduction
<1> QED BY <1>3 DEF C

\* The elements that have the key k.
PartOf(S, key, k) == {x \in S : key[x] = k}

\* A sum is that of its parts.
LEMMA SumOfParts ==
  ASSUME NEW F, NEW S, IsFiniteSet(S), \A x \in S : F[x] \in Int,
         NEW K, IsFiniteSet(K), NEW key, \A x \in S : key[x] \in K,
         NEW G, \A k \in K : G[k] = SumOver(F, PartOf(S, key, k))
  PROVE  SumOver(G, K) = SumOver(F, S)
<1> DEFINE Of(L) == {x \in S : key[x] \in L}
           Part(k) == {x \in S : key[x] = k}
           C == {L \in SUBSET K : SumOver(G, L) = SumOver(F, Of(L))}
<1>1. {} \in C
  <2>1. Of({}) = {}
    OBVIOUS
  <2> QED BY <2>1, SumOfNone
<1>2. \A k \in K : G[k] = SumOver(F, Part(k)) /\ G[k] \in Int
  <2> TAKE k \in K
  <2>1. IsFiniteSet(Part(k)) /\ \A x \in Part(k) : F[x] \in Int
    BY FS_Subset
  <2>2. G[k] = SumOver(F, Part(k))
    BY DEF PartOf
  <2> HIDE DEF Part
  <2> QED BY <2>1, <2>2, SumIsInt
<1>3. ASSUME NEW L \in SUBSET K, NEW k \in K, k \notin L, L \in C PROVE L \cup {k} \in C
  <2> DEFINE M == L \cup {k}
  <2>1. IsFiniteSet(M) /\ M \ {k} = L /\ M \in SUBSET K /\ k \in M
    BY <1>3, FS_Subset
  <2>2. /\ IsFiniteSet(Part(k)) /\ IsFiniteSet(Of(L)) /\ Part(k) \cap Of(L) = {}
        /\ Of(M) = Part(k) \cup Of(L) /\ \A x \in Part(k) \cup Of(L) : F[x] \in Int
    <3>1. Part(k) \in SUBSET S /\ Of(L) \in SUBSET S
      OBVIOUS
    <3>2. Part(k) \cap Of(L) = {} /\ Of(M) = Part(k) \cup Of(L)
      BY <1>3
    <3> QED BY <3>1, <3>2, FS_Subset
  <2> HIDE DEF M, Of, Part
  <2>3. SumOver(G, M) = G[k] + SumOver(G, L)
    <3>1. \A x \in M : G[x] \in Int
      BY <1>2, <2>1
    <3> QED BY <2>1, <3>1, SumTakesOut
  <2>4. SumOver(F, Of(M)) = SumOver(F, Part(k)) + SumOver(F, Of(L))
    BY <2>2, SumOfUnion
  <2>5. SumOver(G, L) = SumOver(F, Of(L))
    BY <1>3
  <2> QED BY <1>2, <2>1, <2>3, <2>4, <2>5 DEF M
<1> HIDE DEF C
<1>4. K \in C
  BY <1>1, <1>3, FiniteInduction
<1>5. Of(K) = S
  OBVIOUS
<1> QED BY <1>4, <1>5 DEF C

\* A product of positive numbers is no smaller than any of them.
LEMMA ProductIsLarge ==
  ASSUME NEW F, NEW S, IsFiniteSet(S), \A x \in S : F[x] \in Nat \ {0}
  PROVE  ProductOver(F, S) \in Nat \ {0} /\ \A x \in S : F[x] =< ProductOver(F, S)
<1> DEFINE C == {T \in SUBSET S : /\ ProductOver(F, T) \in Nat \ {0}
                                 /\ \A x \in T : F[x] =< ProductOver(F, T)}
<1>1. ASSUME NEW T \in SUBSET S, \A U \in SUBSET T : U # T => U \in C PROVE T \in C
  <2>1. IsFiniteSet(T)
    BY FS_Subset
  <2>2. CASE T = {}
    <3>1. ProductOver(F, T) = 1
      BY <2>1, <2>2, ProductUnfolds
    <3> QED BY <2>2, <3>1
  <2>3. CASE T # {}
    <3> DEFINE c == Chosen(T)
               rest == ProductOver(F, T \ {c})
    <3>1. c \in T /\ T \ {c} \in C
      BY <1>1, <2>3, ChosenIn
    <3>2. rest \in Nat \ {0} /\ (\A x \in T \ {c} : F[x] =< rest) /\ F[c] \in Nat \ {0}
      BY <3>1
    <3>3. ProductOver(F, T) = F[c] * rest
      BY <2>1, <2>3, ProductUnfolds
    <3> HIDE DEF c, rest
    <3>4. \A a, b \in Nat \ {0} : a * b \in Nat \ {0} /\ a =< a * b /\ b =< a * b
      OBVIOUS
    <3>5. F[c] * rest \in Nat \ {0} /\ F[c] =< F[c] * rest /\ rest =< F[c] * rest
      BY <3>2, <3>4
    <3>6. \A x \in T : F[x] =< F[c] * rest
      <4> TAKE x \in T
      <4>1. CASE x = c
        BY <3>5, <4>1
      <4>2. CASE x # c
        <5>1. F[x] =< rest /\ F[x] \in Nat
          BY <3>2, <4>2
        <5> QED BY <3>2, <3>5, <5>1
      <4> QED BY <4>1, <4>2
    <3> QED BY <3>3, <3>5, <3>6
  <2> QED BY <2>2, <2>3
<1> HIDE DEF C
<1>2. S \in C
  BY <1>1, StrongInduction
<1> QED BY <1>2 DEF C
-----------------------------------------------------------------------------
(* Sequences.                                                              *)

\* A sequence without its k-th element.
LEMMA RemovedAt ==
  ASSUME NEW S, NEW s \in Seq(S), NEW k \in 1..Len(s)
  PROVE  /\ RemoveAt(s, k) \in Seq(S) /\ Len(RemoveAt(s, k)) = Len(s) - 1
         /\ \A i \in 1..Len(s) - 1 : RemoveAt(s, k)[i] = IF i < k THEN s[i] ELSE s[i + 1]
<1> DEFINE head == SubSeq(s, 1, k - 1)
           tail == SubSeq(s, k + 1, Len(s))
           d == RemoveAt(s, k)
<1>1. /\ head \in Seq(S) /\ Len(head) = k - 1 /\ \A i \in 1..k-1 : head[i] = s[i]
      /\ tail \in Seq(S) /\ Len(tail) = Len(s) - k
      /\ \A i \in 1..Len(s) - k : tail[i] = s[i + k]
  OBVIOUS
<1>2. d = head \o tail
  BY DEF RemoveAt
<1> HIDE DEF head, tail, d
<1>3. /\ d \in Seq(S) /\ Len(d) = Len(head) + Len(tail)
      /\ \A i \in 1..Len(head) + Len(tail) :
           d[i] = IF i =< Len(head) THEN head[i] ELSE tail[i - Len(head)]
  BY <1>1, <1>2, ConcatProperties
<1>4. Len(d) = Len(s) - 1
  BY <1>1, <1>3
<1>5. ASSUME NEW i \in 1..Len(s) - 1 PROVE d[i] = IF i < k THEN s[i] ELSE s[i + 1]
  <2>1. /\ i \in 1..Len(head) + Len(tail) /\ Len(s) \in Nat
        /\ i < k => i =< Len(head) /\ i \in 1..k-1
        /\ ~(i < k) => ~(i =< Len(head))
    BY <1>1
  <2>2. CASE i < k
    <3>1. d[i] = head[i]
      BY <1>3, <2>1, <2>2
    <3> QED BY <1>1, <2>1, <2>2, <3>1
  <2>3. CASE ~(i < k)
    <3>1. i - (k - 1) \in 1..Len(s) - k /\ i - (k - 1) + k = i + 1
      BY <2>3
    <3>2. d[i] = tail[i - (k - 1)]
      <4>1. d[i] = tail[i - Len(head)]
        BY <1>3, <2>1, <2>3
      <4> QED BY <1>1, <4>1
    <3> QED BY <1>1, <2>3, <3>1, <3>2
  <2> QED BY <2>2, <2>3
<1> QED BY <1>3, <1>4, <1>5 DEF d

\* Removing the first of an element removes it at some place of it.
LEMMA RemovedFirst ==
  ASSUME NEW S, NEW s \in Seq(S), NEW e, \E i \in 1..Len(s) : s[i] = e
  PROVE  \E k \in 1..Len(s) : s[k] = e /\ RemoveFirst(s, e) = RemoveAt(s, k)
<1> DEFINE I == {i \in 1..Len(s) : s[i] = e}
<1>1. I \in SUBSET Int /\ I # {} /\ \A i \in I : 1 =< i
  OBVIOUS
<1>2. Min(I) \in 1..Len(s) /\ s[Min(I)] = e
  <2> HIDE DEF I
  <2>1. Min(I) \in I
    BY <1>1, MinIsLeast
  <2> QED BY <2>1 DEF I
<1>3. RemoveFirst(s, e) = RemoveAt(s, Min(I))
  BY <1>1 DEF RemoveFirst, SelectInSeq
<1> HIDE DEF I
<1> QED BY <1>2, <1>3
-----------------------------------------------------------------------------
(* Bounded tables (Lru).                                                   *)

\* No two entries of a table have one key.
Distinct(table) == \A i, j \in 1..Len(table) : table[i].key = table[j].key => i = j

\* A table is a sequence over its own entries, and a key's entries are among them.
LEMMA TableOf ==
  ASSUME NEW S, NEW table \in Seq(S)
  PROVE  /\ ToSet(table) \subseteq S /\ table \in Seq(ToSet(table))
         /\ \A key : EntryOf(table, key) \subseteq ToSet(table)
<1>1. table \in [1..Len(table) -> S] /\ Len(table) \in Nat
  OBVIOUS
<1>2. ToSet(table) \subseteq S /\ table \in [1..Len(table) -> ToSet(table)]
  BY <1>1 DEF ToSet
<1>3. table \in Seq(ToSet(table))
  BY <1>1, <1>2
<1> QED BY <1>2, <1>3 DEF EntryOf

\* Taking a key out of a table leaves a table of the same entries.
LEMMA DroppedOf ==
  ASSUME NEW S, NEW table \in Seq(S), NEW key
  PROVE  Dropped(table, key) \in Seq(S)
<1>1. CASE ~HasKey(table, key)
  BY <1>1 DEF Dropped
<1>2. CASE HasKey(table, key)
  <2> DEFINE e == The(table, key)
  <2>1. e \in EntryOf(table, key)
    BY <1>2 DEF HasKey, The
  <2>2. \E i \in 1..Len(table) : table[i] = e
    BY <2>1 DEF EntryOf, ToSet
  <2>3. PICK k \in 1..Len(table) : RemoveFirst(table, e) = RemoveAt(table, k)
    BY <2>2, RemovedFirst
  <2> QED BY <1>2, <2>3, RemovedAt DEF Dropped
<1> QED BY <1>1, <1>2

\* A table holds finitely many entries.
LEMMA TableFinite ==
  ASSUME NEW S, NEW table \in Seq(S)
  PROVE  IsFiniteSet(ToSet(table))
<1>1. table \in Surjection(1..Len(table), ToSet(table))
  BY DEF Surjection, ToSet
<1>2. IsFiniteSet(1..Len(table))
  BY FS_Interval
<1> QED BY <1>1, <1>2, FS_Surjection

\* A key taken out of a table takes its entry along, and nothing else.
LEMMA DropTakesOut ==
  ASSUME NEW S, NEW table \in Seq(S), Distinct(table), NEW key
  PROVE  /\ ToSet(Dropped(table, key)) = ToSet(table) \ EntryOf(table, key)
         /\ Distinct(Dropped(table, key)) /\ Dropped(table, key) \in Seq(S)
         /\ HasKey(table, key) => Len(Dropped(table, key)) = Len(table) - 1
         /\ ~HasKey(table, key) => Dropped(table, key) = table
<1>1. CASE ~HasKey(table, key)
  BY <1>1 DEF Dropped, HasKey
<1>2. CASE HasKey(table, key)
  <2> DEFINE e == The(table, key)
             d == Dropped(table, key)
  <2>1. e \in EntryOf(table, key)
    BY <1>2 DEF HasKey, The
  <2>2. \E i \in 1..Len(table) : table[i] = e
    BY <2>1 DEF EntryOf, ToSet
  <2>3. PICK k \in 1..Len(table) : table[k] = e /\ RemoveFirst(table, e) = RemoveAt(table, k)
    BY <2>2, RemovedFirst
  <2>4. d = RemoveAt(table, k)
    BY <1>2, <2>3 DEF Dropped
  <2>5. table[k].key = key
    BY <2>1, <2>3 DEF EntryOf
  <2> HIDE DEF d, e
  <2>6. /\ d \in Seq(S) /\ Len(d) = Len(table) - 1
        /\ \A i \in 1..Len(d) : d[i] = IF i < k THEN table[i] ELSE table[i + 1]
    BY <2>4, RemovedAt
  <2>7. Distinct(d)
    <3> SUFFICES ASSUME NEW i \in 1..Len(d), NEW j \in 1..Len(d), d[i].key = d[j].key
                 PROVE  i = j
      BY DEF Distinct
    <3>1. (IF i < k THEN i ELSE i + 1) = (IF j < k THEN j ELSE j + 1)
      BY <2>6 DEF Distinct
    <3> QED BY <3>1
  <2>8. ToSet(d) = ToSet(table) \ EntryOf(table, key)
    <3>1. ASSUME NEW x \in ToSet(d) PROVE x \in ToSet(table) /\ x.key # key
      <4>1. PICK i \in 1..Len(d) : d[i] = x
        BY <2>6 DEF ToSet
      <4> DEFINE m == IF i < k THEN i ELSE i + 1
      <4>2. m \in 1..Len(table) /\ m # k /\ table[m] = x
        BY <2>6, <4>1
      <4> HIDE DEF m
      <4> QED BY <2>5, <4>2 DEF Distinct, ToSet
    <3>2. ASSUME NEW x \in ToSet(table), x.key # key PROVE x \in ToSet(d)
      <4>1. PICK m \in 1..Len(table) : table[m] = x
        BY DEF ToSet
      <4> DEFINE i == IF m < k THEN m ELSE m - 1
      <4>2. m # k
        BY <2>5, <3>2, <4>1
      <4>3. i \in 1..Len(d) /\ d[i] = x
        BY <2>6, <4>1, <4>2
      <4> HIDE DEF i
      <4> QED BY <4>3 DEF ToSet
    <3> QED BY <3>1, <3>2 DEF EntryOf
  <2> QED BY <1>2, <2>6, <2>7, <2>8 DEF d
<1> QED BY <1>1, <1>2

\* An entry of a new key set last is one more entry.
LEMMA AppendAdds ==
  ASSUME NEW S, NEW table \in Seq(S), Distinct(table), NEW e,
         \A x \in ToSet(table) : x.key # e.key
  PROVE  /\ ToSet(Append(table, e)) = ToSet(table) \cup {e}
         /\ Distinct(Append(table, e)) /\ Len(Append(table, e)) = Len(table) + 1
<1> DEFINE t == Append(table, e)
<1>1. /\ Len(t) = Len(table) + 1 /\ DOMAIN t = 1..Len(t)
      /\ t[Len(t)] = e /\ \A i \in 1..Len(table) : t[i] = table[i]
  OBVIOUS
<1> HIDE DEF t
<1>2. ToSet(t) = ToSet(table) \cup {e}
  <2>1. DOMAIN table = 1..Len(table) /\ Len(table) \in Nat
    OBVIOUS
  <2>2. 1..Len(t) = (1..Len(table)) \cup {Len(t)}
    BY <1>1, <2>1
  <2> QED BY <1>1, <2>1, <2>2 DEF ToSet
<1>3. Distinct(t)
  <2>1. \A i \in 1..Len(table) : table[i].key # e.key
    BY DEF ToSet
  <2>2. Len(table) \in Nat
    OBVIOUS
  <2> QED BY <1>1, <2>1, <2>2 DEF Distinct
<1> QED BY <1>1, <1>2, <1>3 DEF t

\* What a table's limits come to, once it is known what it holds.
LEMMA DistinctIs ==
  ASSUME NEW S, NEW table \in Seq(S)
  PROVE  Distinct(table) <=> IsInjective([i \in DOMAIN table |-> table[i].key])
BY DEF Distinct, IsInjective

\* A table is no longer than there are keys.
LEMMA TableFits ==
  ASSUME NEW S, NEW table \in Seq(S), Distinct(table),
         NEW K, IsFiniteSet(K), \A x \in S : x.key \in K
  PROVE  Len(table) =< Cardinality(K)
<1> DEFINE f == [i \in 1..Len(table) |-> table[i].key]
<1>1. f \in Injection(1..Len(table), K)
  BY DEF Injection, IsInjective, Distinct
<1>2. Cardinality(1..Len(table)) =< Cardinality(K)
  BY <1>1, FS_Injection
<1>3. Cardinality(1..Len(table)) = Len(table)
  <2> HIDE DEF f
  <2>1. Len(table) \in Nat /\ 1 \in Int
    OBVIOUS
  <2>2. Cardinality(1..Len(table)) = IF 1 > Len(table) THEN 0 ELSE Len(table) - 1 + 1
    BY <2>1, FS_Interval
  <2> QED BY <2>1, <2>2
<1> QED BY <1>2, <1>3

\* A table with room for every key forgets none when one is set.
LEMMA PutKeepsOthers ==
  ASSUME NEW S, NEW table \in Seq(S), Distinct(table), NEW e \in S,
         NEW K, IsFiniteSet(K), \A x \in S : x.key \in K,
         NEW size \in Nat, Cardinality(K) =< size
  PROVE  /\ Put(table, e, size) \in Seq(S) /\ Distinct(Put(table, e, size))
         /\ ToSet(Put(table, e, size)) = (ToSet(table) \ EntryOf(table, e.key)) \cup {e}
<1> DEFINE d == Dropped(table, e.key)
           t == Append(d, e)
<1>1. d \in Seq(S) /\ Distinct(d) /\ ToSet(d) = ToSet(table) \ EntryOf(table, e.key)
  BY DropTakesOut
<1>2. \A x \in ToSet(d) : x.key # e.key
  BY <1>1 DEF EntryOf
<1> HIDE DEF d
<1>3. t \in Seq(S) /\ Distinct(t) /\ ToSet(t) = ToSet(d) \cup {e}
  <2>1. t \in Seq(S)
    BY <1>1
  <2> QED BY <1>1, <1>2, <2>1, AppendAdds
<1> HIDE DEF t
<1>4. Len(t) =< size
  <2>1. Len(t) =< Cardinality(K) /\ Cardinality(K) \in Nat /\ Len(t) \in Nat
    BY <1>3, TableFits, FS_CardinalityType
  <2> QED BY <2>1
<1>5. Put(table, e, size) = t
  BY <1>4 DEF Put, Newest, t, d
<1> QED BY <1>1, <1>3, <1>5
=============================================================================
