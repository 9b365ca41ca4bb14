------------------------- MODULE HybridSearchProofs -------------------------
(***************************************************************************)
(* What the cached index and the fusion of the two rankings guarantee for  *)
(* every number of workers, every store, query and limit.                  *)
(***************************************************************************)
EXTENDS HybridSearch, FiniteSetTheorems, FunctionTheorems, TLAPS

-----------------------------------------------------------------------------
(***************************************************************************)
(* Lemmas about the least and the greatest score.                          *)
(***************************************************************************)
\* A finite set of numbers has a least: the one with the least below it.
LEMMA LeastExists ==
  ASSUME NEW T \in SUBSET Int, IsFiniteSet(T), T # {}
  PROVE  \E x \in T : \A y \in T : x <= y
<1> DEFINE Below(x) == {t \in T : t < x}
           Family == {Below(x) : x \in T}
<1>1. IsWellFoundedOn(StrictSubsetOrdering(T), FiniteSubsetsOf(T))
  BY FS_StrictSubsetOrderingWellFounded
<1>2. Family \subseteq FiniteSubsetsOf(T) /\ Family # {}
  <2>1. \A x \in T : Below(x) \in SUBSET T
    OBVIOUS
  <2>2. FiniteSubsetsOf(T) = SUBSET T
    BY FS_FiniteSubsetsOfFinite
  <2>3. \A least \in Family : least \in FiniteSubsetsOf(T)
    BY <2>1, <2>2
  <2>4. PICK x \in T : TRUE
    OBVIOUS
  <2>5. Below(x) \in Family
    BY <2>4
  <2> QED
    BY <2>3, <2>5
<1>3. PICK least \in Family :
        \A other \in Family : <<other, least>> \notin StrictSubsetOrdering(T)
  <2> HIDE DEF Family
  <2> QED
    BY <1>1, <1>2, WFMin
<1>4. PICK x \in T : least = Below(x)
  BY <1>3
<1>5. ASSUME NEW y \in T, y < x
      PROVE  FALSE
  <2>1. Below(y) \subseteq Below(x)
    <3> SUFFICES ASSUME NEW t \in T, t < y PROVE t < x
      OBVIOUS
    <3> QED
      BY <1>5
  <2>2. y \in Below(x) /\ y \notin Below(y)
    BY <1>5
  <2>3. Below(y) \in SUBSET T /\ Below(x) \in SUBSET T
    OBVIOUS
  <2> HIDE DEF Below
  <2>4. <<Below(y), Below(x)>> \in StrictSubsetOrdering(T)
    BY <2>1, <2>2, <2>3 DEF StrictSubsetOrdering
  <2> QED
    BY <1>3, <1>4, <1>5, <2>4
<1> QED
  BY <1>5

LEMMA LowestIsLeast ==
  ASSUME NEW T \in SUBSET Int, IsFiniteSet(T), T # {}
  PROVE  Lowest(T) \in T /\ \A y \in T : Lowest(T) <= y
BY LeastExists DEF Lowest

\* The same of the greatest, by the numbers above.
LEMMA GreatestExists ==
  ASSUME NEW T \in SUBSET Int, IsFiniteSet(T), T # {}
  PROVE  \E x \in T : \A y \in T : y <= x
<1> DEFINE Above(x) == {t \in T : t > x}
           Family == {Above(x) : x \in T}
<1>1. IsWellFoundedOn(StrictSubsetOrdering(T), FiniteSubsetsOf(T))
  BY FS_StrictSubsetOrderingWellFounded
<1>2. Family \subseteq FiniteSubsetsOf(T) /\ Family # {}
  <2>1. \A x \in T : Above(x) \in SUBSET T
    OBVIOUS
  <2>2. FiniteSubsetsOf(T) = SUBSET T
    BY FS_FiniteSubsetsOfFinite
  <2>3. \A least \in Family : least \in FiniteSubsetsOf(T)
    BY <2>1, <2>2
  <2>4. PICK x \in T : TRUE
    OBVIOUS
  <2>5. Above(x) \in Family
    BY <2>4
  <2> QED
    BY <2>3, <2>5
<1>3. PICK least \in Family :
        \A other \in Family : <<other, least>> \notin StrictSubsetOrdering(T)
  <2> HIDE DEF Family
  <2> QED
    BY <1>1, <1>2, WFMin
<1>4. PICK x \in T : least = Above(x)
  BY <1>3
<1>5. ASSUME NEW y \in T, y > x
      PROVE  FALSE
  <2>1. Above(y) \subseteq Above(x)
    <3> SUFFICES ASSUME NEW t \in T, t > y PROVE t > x
      OBVIOUS
    <3> QED
      BY <1>5
  <2>2. y \in Above(x) /\ y \notin Above(y)
    BY <1>5
  <2>3. Above(y) \in SUBSET T /\ Above(x) \in SUBSET T
    OBVIOUS
  <2> HIDE DEF Above
  <2>4. <<Above(y), Above(x)>> \in StrictSubsetOrdering(T)
    BY <2>1, <2>2, <2>3 DEF StrictSubsetOrdering
  <2> QED
    BY <1>3, <1>4, <1>5, <2>4
<1> QED
  BY <1>5

LEMMA HighestIsGreatest ==
  ASSUME NEW T \in SUBSET Int, IsFiniteSet(T), T # {}
  PROVE  Highest(T) \in T /\ \A y \in T : y <= Highest(T)
BY GreatestExists DEF Highest

LEMMA ImageFinite ==
  ASSUME NEW hits, IsFiniteSet(hits), NEW score
  PROVE  IsFiniteSet({score[h] : h \in hits})
<1> DEFINE image == {score[h] : h \in hits}
           f == [h \in hits |-> score[h]]
<1>1. f \in Surjection(hits, image)
  BY Fun_IsSurj
<1> QED
  BY <1>1, FS_Surjection

\* Normalising keeps the order of a list and makes no score negative.
LEMMA NormalizedInOrder ==
  ASSUME NEW T \in SUBSET Int, IsFiniteSet(T), T # {}, NEW x \in T, NEW y \in T
  PROVE  /\ Normalized(x, T) \in Nat
         /\ x > y => Normalized(x, T) > Normalized(y, T)
<1>1. /\ Lowest(T) \in Int /\ Highest(T) \in Int
      /\ Lowest(T) <= x /\ Lowest(T) <= y /\ x <= Highest(T)
  BY LowestIsLeast, HighestIsGreatest
<1>2. x > y => Spread(T) # 0
  BY <1>1 DEF Spread
<1> QED
  BY <1>1, <1>2 DEF Normalized

LEMMA DenominatorPositive ==
  ASSUME NEW T \in SUBSET Int, IsFiniteSet(T)
  PROVE  Denominator(T) \in Nat \ {0}
<1>1. CASE T = {}
  BY <1>1 DEF Denominator
<1>2. CASE T # {}
  <2>1. /\ Lowest(T) \in Int /\ Highest(T) \in Int /\ Lowest(T) <= Highest(T)
    BY <1>2, LowestIsLeast, HighestIsGreatest
  <2> QED
    BY <1>2, <2>1 DEF Denominator, Spread
<1> QED
  BY <1>1, <1>2

\* The share of a hit in a list: more for one that is ahead in it, nothing for
\* one that is not in it.
LEMMA SharesInOrder ==
  ASSUME NEW hits, IsFiniteSet(hits), NEW score, \A h \in hits : score[h] \in Int,
         NEW a, NEW b, b \in hits => a \in hits /\ score[a] > score[b]
  PROVE  /\ Share(a, hits, score) \in Nat
         /\ Share(b, hits, score) \in Nat
         /\ Share(a, hits, score) >= Share(b, hits, score)
         /\ b \in hits => Share(a, hits, score) > Share(b, hits, score)
<1> DEFINE T == {score[h] : h \in hits}
<1>1. T \in SUBSET Int
  OBVIOUS
<1>2. IsFiniteSet(T)
  BY ImageFinite
<1>3. \A h \in hits : score[h] \in T /\ T # {}
  OBVIOUS
<1> HIDE DEF T
<1>4. \A h \in hits : Normalized(score[h], T) \in Nat
  BY <1>1, <1>2, <1>3, NormalizedInOrder
<1>5. \A c : Share(c, hits, score) = IF c \in hits THEN Normalized(score[c], T) ELSE 0
  BY DEF Share, T
<1>6. CASE b \in hits
  <2>1. Normalized(score[a], T) > Normalized(score[b], T)
    BY <1>1, <1>2, <1>3, <1>6, NormalizedInOrder
  <2>2. /\ Share(a, hits, score) = Normalized(score[a], T)
        /\ Share(b, hits, score) = Normalized(score[b], T)
    BY <1>5, <1>6
  <2>3. Normalized(score[a], T) \in Nat /\ Normalized(score[b], T) \in Nat
    BY <1>4, <1>6
  <2> QED
    BY <2>1, <2>2, <2>3
<1>7. CASE b \notin hits
  <2>1. Share(b, hits, score) = 0 /\ Share(a, hits, score) \in Nat
    BY <1>4, <1>5, <1>7
  <2> QED
    BY <1>7, <2>1
<1> QED
  BY <1>6, <1>7

LEMMA TimesInOrder ==
  ASSUME NEW k \in Nat \ {0}, NEW x \in Nat, NEW y \in Nat, x >= y
  PROVE  /\ k * x \in Nat /\ k * y \in Nat /\ k * x >= k * y
         /\ x > y => k * x > k * y
<1>1. PICK d \in Nat : x = y + d
  <2>1. x - y \in Nat /\ x = y + (x - y)
    OBVIOUS
  <2> QED
    BY <2>1
<1>2. k * x = k * y + k * d
  BY <1>1
<1>3. k * y \in Nat /\ k * d \in Nat
  BY <1>1
<1>4. d # 0 => k * d # 0
  BY <1>1
<1>5. x > y => d # 0
  BY <1>1
<1> QED
  BY <1>2, <1>3, <1>4, <1>5

\* The weighted sum is more when one part is more and neither is less, whatever
\* the ranges of the two lists.
LEMMA WeightedInOrder ==
  ASSUME NEW alpha \in Alphas,
         NEW dense_range \in Nat \ {0}, NEW sparse_range \in Nat \ {0},
         NEW da \in Nat, NEW db \in Nat, NEW sa \in Nat, NEW sb \in Nat,
         da >= db, sa >= sb, da > db \/ sa > sb
  PROVE  Weighted(alpha, da, dense_range, sa, sparse_range)
           > Weighted(alpha, db, dense_range, sb, sparse_range)
<1>1. /\ sparse_range * da \in Nat /\ sparse_range * db \in Nat
      /\ sparse_range * da >= sparse_range * db
      /\ da > db => sparse_range * da > sparse_range * db
  BY TimesInOrder
<1>2. /\ dense_range * sa \in Nat /\ dense_range * sb \in Nat
      /\ dense_range * sa >= dense_range * sb
      /\ sa > sb => dense_range * sa > dense_range * sb
  BY TimesInOrder
<1>3. \A p, q, r, s \in Nat :
        p >= q /\ r >= s /\ (p > q \/ r > s) =>
          alpha * p + (10 - alpha) * r > alpha * q + (10 - alpha) * s
  BY DEF Alphas
<1> QED
  BY <1>1, <1>2, <1>3 DEF Weighted

-----------------------------------------------------------------------------
(***************************************************************************)
(* Lemmas about the cuts.                                                  *)
(***************************************************************************)
LEMMA CutSize ==
  ASSUME NEW k \in Nat, NEW c \in Nat, NEW t \in Nat, t = IF c < k THEN c ELSE k
  PROVE  /\ t <= k
         /\ t < k => t = c
         /\ c < k => t = c
OBVIOUS

\* A cut keeps no more than it may, drops nothing while it keeps less, and
\* drops nothing that is ahead of what it keeps.
LEMMA BestKeeps ==
  ASSUME NEW chunks, IsFiniteSet(chunks), NEW k \in Nat, NEW score,
         NEW top \in Best(chunks, k, score)
  PROVE  /\ top \subseteq chunks
         /\ IsFiniteSet(top)
         /\ Cardinality(top) \in Nat
         /\ Cardinality(top) <= k
         /\ Cardinality(top) < k => top = chunks
         /\ Cardinality(chunks) < k => top = chunks
         /\ \A a \in chunks, b \in top : a \notin top => score[b] >= score[a]
<1> DEFINE c == Cardinality(chunks)
           t == Cardinality(top)
<1>1. top \subseteq chunks
  BY Zenon DEF Best
<1>2. t = IF c < k THEN c ELSE k
  BY Zenon DEF Best
<1>3. \A b \in top, a \in chunks \ top : score[b] >= score[a]
  BY Zenon DEF Best
<1>4. IsFiniteSet(top) /\ (c = t => chunks = top)
  BY <1>1, FS_Subset
<1>5. t \in Nat /\ c \in Nat
  BY <1>4, FS_CardinalityType
<1> HIDE DEF c, t
<1>6. t <= k /\ (t < k => t = c) /\ (c < k => t = c)
  BY <1>2, <1>5, CutSize
<1>7. \A a \in chunks, b \in top : a \notin top => score[b] >= score[a]
  BY <1>3
<1> QED
  BY <1>1, <1>4, <1>5, <1>6, <1>7 DEF c, t

\* What one is ahead of in a ranking, is kept only with it.
LEMMA AheadIsKept ==
  ASSUME NEW chunks, IsFiniteSet(chunks), NEW k \in Nat, NEW score,
         NEW top \in Best(chunks, k, score), NEW a \in chunks, NEW b \in top,
         score[a] \in Int, score[b] \in Int, score[a] > score[b]
  PROVE  a \in top
<1>1. a \notin top => score[b] >= score[a]
  BY BestKeeps
<1> QED
  BY <1>1

\* The parts of reciprocal rank fusion: either the dense list fills the cut or
\* all of it is kept and the sparse list has what is left.
LEMMA RrfParts ==
  ASSUME NEW query, NEW dense, NEW sparse, IsFiniteSet(dense), IsFiniteSet(sparse),
         NEW fused \in ReciprocalRank(query, dense, sparse)
  PROVE  \E first, rest :
           /\ fused = first \union rest
           /\ first \in Best(dense, FusionK, Closeness(query))
           /\ rest \in Best(sparse \ dense, Room(dense), query.bm25)
           /\ Room(dense) \in Nat
           /\ \/ Cardinality(first) = FusionK /\ Room(dense) = 0 /\ rest = {}
              \/ first = dense /\ Room(dense) = FusionK - Cardinality(first)
<1>1. PICK first \in Best(dense, FusionK, Closeness(query)),
           rest \in Best(sparse \ dense, Room(dense), query.bm25) :
        fused = first \union rest
  BY Zenon DEF ReciprocalRank
<1>2. Cardinality(dense) \in Nat /\ FusionK \in Nat
  BY FS_CardinalityType, SearchOK
<1>3. Room(dense) \in Nat
  BY <1>2 DEF Room
<1>4. IsFiniteSet(sparse \ dense)
  BY FS_Subset
<1>5. CASE Cardinality(dense) < FusionK
  <2>1. first = dense
    BY <1>2, <1>5, BestKeeps
  <2>2. Room(dense) = FusionK - Cardinality(first)
    BY <1>5, <2>1 DEF Room
  <2> QED
    BY <1>1, <1>3, <2>1, <2>2
<1>6. CASE ~(Cardinality(dense) < FusionK)
  <2>1. Room(dense) = 0
    BY <1>6 DEF Room
  <2>2. Cardinality(first) = FusionK
    BY <1>6, Zenon DEF Best
  <2>3. IsFiniteSet(rest) /\ Cardinality(rest) \in Nat /\ Cardinality(rest) <= 0
    BY <1>3, <1>4, <2>1, BestKeeps
  <2>4. Cardinality(rest) = 0
    BY <2>3
  <2>5. rest = {}
    BY <2>3, <2>4, FS_EmptySet
  <2> QED
    BY <1>1, <1>3, <2>1, <2>2, <2>5
<1> QED
  BY <1>5, <1>6

\* Two parts that have nothing in common have as many as both together.
LEMMA PartsCount ==
  ASSUME NEW A, NEW B, IsFiniteSet(A), IsFiniteSet(B), A \intersect B = {}
  PROVE  /\ IsFiniteSet(A \union B)
         /\ Cardinality(A) \in Nat /\ Cardinality(B) \in Nat
         /\ Cardinality(A \union B) = Cardinality(A) + Cardinality(B)
<1>1. /\ IsFiniteSet(A \union B)
      /\ Cardinality(A \union B)
           = Cardinality(A) + Cardinality(B) - Cardinality(A \intersect B)
  BY FS_Union
<1>2. Cardinality(A \intersect B) = 0
  BY FS_EmptySet
<1>3. Cardinality(A) \in Nat /\ Cardinality(B) \in Nat
  BY FS_CardinalityType
<1> QED
  BY <1>1, <1>2, <1>3

\* Either fusion keeps candidates of the two lists, no more than it may, and
\* drops nothing while it keeps less.
LEMMA FusedKeeps ==
  ASSUME NEW query, NEW dense, NEW sparse, IsFiniteSet(dense), IsFiniteSet(sparse),
         FusionK \in Nat, NEW fused \in Fused(query, dense, sparse)
  PROVE  /\ fused \subseteq dense \union sparse
         /\ IsFiniteSet(fused)
         /\ Cardinality(fused) \in Nat
         /\ Cardinality(fused) <= FusionK
         /\ Cardinality(fused) < FusionK => fused = dense \union sparse
<1>1. CASE query.fusion_method = "rrf"
  <2>1. fused \in ReciprocalRank(query, dense, sparse)
    BY <1>1 DEF Fused
  <2>2. PICK first, rest :
           /\ fused = first \union rest
           /\ first \in Best(dense, FusionK, Closeness(query))
           /\ rest \in Best(sparse \ dense, Room(dense), query.bm25)
           /\ Room(dense) \in Nat
           /\ \/ Cardinality(first) = FusionK /\ Room(dense) = 0 /\ rest = {}
              \/ first = dense /\ Room(dense) = FusionK - Cardinality(first)
    BY <2>1, RrfParts, Zenon
  <2> DEFINE left == Room(dense)
  <2>3. /\ first \subseteq dense /\ IsFiniteSet(first) /\ Cardinality(first) \in Nat
        /\ Cardinality(first) <= FusionK
    BY <2>2, BestKeeps
  <2>4. IsFiniteSet(sparse \ dense)
    BY FS_Subset
  <2>5. /\ rest \subseteq sparse \ dense /\ IsFiniteSet(rest)
        /\ Cardinality(rest) \in Nat /\ Cardinality(rest) <= left
        /\ Cardinality(rest) < left => rest = sparse \ dense
    BY <2>2, <2>4, BestKeeps
  <2>6. IsFiniteSet(fused)
        /\ Cardinality(fused) = Cardinality(first) + Cardinality(rest)
    <3>1. first \intersect rest = {}
      BY <2>3, <2>5
    <3> QED
      BY <2>2, <2>3, <2>5, <3>1, PartsCount
  <2>7. CASE Cardinality(first) = FusionK /\ left = 0 /\ rest = {}
    <3>1. Cardinality(fused) = FusionK
      BY <2>2, <2>3, <2>7
    <3> QED
      BY <2>2, <2>3, <2>5, <2>6, <3>1
  <2>8. CASE first = dense /\ left = FusionK - Cardinality(first)
    <3>1. Cardinality(fused) <= FusionK
      BY <2>3, <2>5, <2>6, <2>8
    <3>2. Cardinality(fused) < FusionK => Cardinality(rest) < left
      BY <2>2, <2>3, <2>5, <2>6, <2>8
    <3>3. Cardinality(fused) < FusionK => fused = dense \union sparse
      BY <2>2, <2>5, <2>8, <3>2
    <3>4. Cardinality(fused) \in Nat
      BY <2>3, <2>5, <2>6
    <3> QED
      BY <2>2, <2>3, <2>5, <2>6, <2>8, <3>1, <3>3, <3>4
  <2> QED
    BY <2>2, <2>7, <2>8
<1>2. CASE query.fusion_method # "rrf"
  <2>1. fused \in Best(dense \union sparse, FusionK, ConvexCombination(query, dense, sparse))
    BY <1>2 DEF Fused
  <2>2. IsFiniteSet(dense \union sparse)
    BY FS_Union
  <2> QED
    BY <2>1, <2>2, BestKeeps
<1> QED
  BY <1>1, <1>2

\* A chunk ahead of another in each list the other is in, and in that list
\* itself, is ahead in the convex combination.
LEMMA CombinationInOrder ==
  ASSUME NEW query, NEW dense, NEW sparse, IsFiniteSet(dense), IsFiniteSet(sparse),
         query.alpha \in Alphas,
         \A c \in dense : Closeness(query)[c] \in Int,
         \A c \in sparse : query.bm25[c] \in Int,
         NEW a \in dense \union sparse, NEW b \in dense \union sparse,
         b \in dense => a \in dense /\ Closeness(query)[a] > Closeness(query)[b],
         b \in sparse => a \in sparse /\ query.bm25[a] > query.bm25[b]
  PROVE  /\ ConvexCombination(query, dense, sparse)[a] \in Int
         /\ ConvexCombination(query, dense, sparse)[b] \in Int
         /\ ConvexCombination(query, dense, sparse)[a]
              > ConvexCombination(query, dense, sparse)[b]
<1> DEFINE closeness == {Closeness(query)[d] : d \in dense}
           scores == {query.bm25[s] : s \in sparse}
           D(c) == Share(c, dense, Closeness(query))
           S(c) == Share(c, sparse, query.bm25)
<1>1. closeness \in SUBSET Int /\ scores \in SUBSET Int
  OBVIOUS
<1>2. IsFiniteSet(closeness) /\ IsFiniteSet(scores)
  BY ImageFinite
<1>3. Denominator(closeness) \in Nat \ {0} /\ Denominator(scores) \in Nat \ {0}
  <2> HIDE DEF closeness, scores
  <2> QED
    BY <1>1, <1>2, DenominatorPositive
<1>4. /\ D(a) \in Nat /\ D(b) \in Nat /\ D(a) >= D(b)
      /\ b \in dense => D(a) > D(b)
  BY SharesInOrder
<1>5. /\ S(a) \in Nat /\ S(b) \in Nat /\ S(a) >= S(b)
      /\ b \in sparse => S(a) > S(b)
  BY SharesInOrder
<1>6. \A c \in dense \union sparse :
        ConvexCombination(query, dense, sparse)[c] =
          Weighted(query.alpha, D(c), Denominator(closeness), S(c), Denominator(scores))
  BY DEF ConvexCombination
<1> HIDE DEF closeness, scores, D, S
<1>7. Weighted(query.alpha, D(a), Denominator(closeness), S(a), Denominator(scores))
        > Weighted(query.alpha, D(b), Denominator(closeness), S(b), Denominator(scores))
  BY <1>3, <1>4, <1>5, WeightedInOrder
<1>8. \A d, s \in Nat :
        Weighted(query.alpha, d, Denominator(closeness), s, Denominator(scores)) \in Int
  <2> TAKE d, s \in Nat
  <2>1. Denominator(scores) * d \in Nat /\ Denominator(closeness) * s \in Nat
    BY <1>3, TimesInOrder
  <2> QED
    BY <2>1 DEF Weighted, Alphas
<1> QED
  BY <1>4, <1>5, <1>6, <1>7, <1>8
-----------------------------------------------------------------------------
(***************************************************************************)
(* What one search makes of the two lists, whatever each of them saw.      *)
(***************************************************************************)
LEMMA EligibleParts ==
  ASSUME NEW query, NEW seen, NEW index
  PROVE  /\ Eligible(seen, query) \subseteq seen
         /\ Eligible(index, query) \subseteq index
         /\ Eligible(seen \union index, query)
              = Eligible(seen, query) \union Eligible(index, query)
         /\ Eligible(seen \intersect index, query)
              = Eligible(seen, query) \intersect Eligible(index, query)
         /\ \A c \in Eligible(seen \union index, query) : MatchesWhere(c, query.filters)
BY DEF Eligible

\* What a list that is too short lost, it could not see.
LEMMA ShortListsAreComplete ==
  ASSUME NEW query \in Queries, NEW seen, NEW index,
         IsFiniteSet(seen), IsFiniteSet(index),
         NEW dense \in Best(Eligible(seen, query), HitsPerList, Closeness(query)),
         NEW sparse \in Best(Eligible(index, query), HitsPerList, query.bm25),
         NEW fused \in Fused(query, dense, sparse)
  PROVE  /\ fused \subseteq Eligible(seen \union index, query)
         /\ IsFiniteSet(fused)
         /\ Cardinality(fused) <= FusionK
         /\ \A c \in Eligible(seen \union index, query) :
              c \notin fused =>
                \/ Cardinality(fused) >= HitsPerList
                \/ Cardinality(fused) >= FusionK
<1>1. IsFiniteSet(Eligible(seen, query)) /\ IsFiniteSet(Eligible(index, query))
  BY EligibleParts, FS_Subset
<1>2. HitsPerList \in Nat /\ FusionK \in Nat
  BY SearchOK
<1>3. /\ dense \subseteq Eligible(seen, query) /\ IsFiniteSet(dense)
      /\ Cardinality(dense) \in Nat
      /\ Cardinality(dense) < HitsPerList => dense = Eligible(seen, query)
  BY <1>1, <1>2, BestKeeps
<1>4. /\ sparse \subseteq Eligible(index, query) /\ IsFiniteSet(sparse)
      /\ Cardinality(sparse) \in Nat
      /\ Cardinality(sparse) < HitsPerList => sparse = Eligible(index, query)
  BY <1>1, <1>2, BestKeeps
<1>5. /\ fused \subseteq dense \union sparse
      /\ IsFiniteSet(fused)
      /\ Cardinality(fused) \in Nat
      /\ Cardinality(fused) <= FusionK
      /\ Cardinality(fused) < FusionK => fused = dense \union sparse
  BY <1>2, <1>3, <1>4, FusedKeeps
<1>6. Eligible(seen \union index, query)
        = Eligible(seen, query) \union Eligible(index, query)
  BY EligibleParts
<1>7. ASSUME NEW c \in Eligible(seen \union index, query), c \notin fused,
             Cardinality(fused) < HitsPerList, Cardinality(fused) < FusionK
      PROVE  FALSE
  <2>1. fused = dense \union sparse
    BY <1>5, <1>7
  <2>2. dense \subseteq fused /\ sparse \subseteq fused
    BY <2>1
  <2>3. Cardinality(dense) <= Cardinality(fused)
    BY <1>5, <2>2, FS_Subset
  <2>4. Cardinality(sparse) <= Cardinality(fused)
    BY <1>5, <2>2, FS_Subset
  <2>5. Cardinality(dense) < HitsPerList /\ Cardinality(sparse) < HitsPerList
    BY <1>2, <1>3, <1>4, <1>5, <1>7, <2>3, <2>4
  <2> QED
    BY <1>3, <1>4, <1>6, <1>7, <2>1, <2>5
<1>8. fused \subseteq Eligible(seen \union index, query)
  BY <1>3, <1>4, <1>5, <1>6
<1>9. \A c \in Eligible(seen \union index, query) :
        c \notin fused =>
          \/ Cardinality(fused) >= HitsPerList
          \/ Cardinality(fused) >= FusionK
  BY <1>2, <1>5, <1>7
<1> QED
  BY <1>5, <1>8, <1>9

\* A chunk that both rankings put ahead of a candidate is a candidate.
LEMMA AheadIsCandidate ==
  ASSUME NEW query \in Queries,
         NEW seen \in SUBSET Chunks, NEW index \in SUBSET Chunks,
         IsFiniteSet(seen), IsFiniteSet(index),
         NEW dense \in Best(Eligible(seen, query), HitsPerList, Closeness(query)),
         NEW sparse \in Best(Eligible(index, query), HitsPerList, query.bm25),
         NEW fused \in Fused(query, dense, sparse),
         NEW b \in fused, NEW a \in Eligible(seen \intersect index, query),
         Ahead(query, a, b)
  PROVE  a \in fused
<1>1. /\ IsFiniteSet(Eligible(seen, query)) /\ IsFiniteSet(Eligible(index, query))
      /\ Eligible(seen, query) \subseteq Chunks /\ Eligible(index, query) \subseteq Chunks
  <2>1. Eligible(seen, query) \subseteq seen /\ Eligible(index, query) \subseteq index
    BY EligibleParts
  <2> QED
    BY <2>1, FS_Subset
<1>2. HitsPerList \in Nat /\ FusionK \in Nat
  BY SearchOK
<1>3. dense \subseteq Eligible(seen, query) /\ IsFiniteSet(dense)
  BY <1>1, <1>2, BestKeeps
<1>4. sparse \subseteq Eligible(index, query) /\ IsFiniteSet(sparse)
  BY <1>1, <1>2, BestKeeps
<1>5. fused \subseteq dense \union sparse
  BY <1>2, <1>3, <1>4, FusedKeeps
<1>6. a \in Eligible(seen, query) /\ a \in Eligible(index, query)
  BY EligibleParts
<1>7. /\ \A c \in Chunks : Closeness(query)[c] \in Int /\ query.bm25[c] \in Int
      /\ Closeness(query)[a] > Closeness(query)[b]
      /\ query.bm25[a] > query.bm25[b]
  <2>1. query.distance \in [Chunks -> Int] /\ query.bm25 \in [Chunks -> Int]
    BY SearchOK
  <2>2. a \in Chunks /\ b \in Chunks
    BY <1>1, <1>3, <1>4, <1>5, <1>6
  <2>3. \A c \in Chunks : Closeness(query)[c] = -query.distance[c]
    BY DEF Closeness
  <2>4. query.distance[a] < query.distance[b] /\ query.bm25[a] > query.bm25[b]
    BY DEF Ahead
  <2> QED
    BY <2>1, <2>2, <2>3, <2>4
<1>8. b \in dense => a \in dense
  <2> SUFFICES ASSUME b \in dense PROVE a \in dense
    OBVIOUS
  <2>1. Closeness(query)[a] \in Int /\ Closeness(query)[b] \in Int
    BY <1>1, <1>3, <1>6, <1>7
  <2> QED
    BY <1>1, <1>2, <1>6, <1>7, <2>1, AheadIsKept
<1>9. b \in sparse => a \in sparse
  <2> SUFFICES ASSUME b \in sparse PROVE a \in sparse
    OBVIOUS
  <2>1. query.bm25[a] \in Int /\ query.bm25[b] \in Int
    BY <1>1, <1>4, <1>6, <1>7
  <2> QED
    BY <1>1, <1>2, <1>6, <1>7, <2>1, AheadIsKept
<1>10. CASE query.fusion_method = "rrf"
  <2>1. fused \in ReciprocalRank(query, dense, sparse)
    BY <1>10 DEF Fused
  <2>2. PICK first, rest :
           /\ fused = first \union rest
           /\ first \in Best(dense, FusionK, Closeness(query))
           /\ rest \in Best(sparse \ dense, Room(dense), query.bm25)
           /\ Room(dense) \in Nat
           /\ \/ Cardinality(first) = FusionK /\ Room(dense) = 0 /\ rest = {}
              \/ first = dense /\ Room(dense) = FusionK - Cardinality(first)
    BY <1>3, <1>4, <2>1, RrfParts, Zenon
  <2>3. first \subseteq dense
    BY <1>2, <1>3, <2>2, BestKeeps
  <2>4. IsFiniteSet(sparse \ dense)
    BY <1>4, FS_Subset
  <2>5. rest \subseteq sparse \ dense
    BY <2>2, <2>4, BestKeeps
  <2>6. CASE b \in first
    <3>1. a \in dense /\ b \in dense
      BY <1>8, <2>3, <2>6
    <3>2. Closeness(query)[a] \in Int /\ Closeness(query)[b] \in Int
      BY <1>1, <1>3, <1>7, <3>1
    <3>3. a \in first
      BY <1>2, <1>3, <1>7, <2>2, <2>6, <3>1, <3>2, AheadIsKept
    <3> QED
      BY <2>2, <3>3
  <2>7. CASE b \in rest
    <3>1. first = dense
      BY <2>2, <2>7
    <3>2. a \in sparse /\ b \in sparse
      BY <1>9, <2>5, <2>7
    <3>3. query.bm25[a] \in Int /\ query.bm25[b] \in Int
      BY <1>1, <1>4, <1>7, <3>2
    <3>4. CASE a \in dense
      BY <2>2, <3>1, <3>4
    <3>5. CASE a \notin dense
      <4>1. a \in sparse \ dense
        BY <3>2, <3>5
      <4>2. a \in rest
        BY <1>7, <2>2, <2>4, <2>7, <3>3, <4>1, AheadIsKept
      <4> QED
        BY <2>2, <4>2
    <3> QED
      BY <3>4, <3>5
  <2> QED
    BY <2>2, <2>6, <2>7
<1>11. CASE query.fusion_method # "rrf"
  <2> DEFINE score == ConvexCombination(query, dense, sparse)
  <2>1. fused \in Best(dense \union sparse, FusionK, score)
    BY <1>11 DEF Fused
  <2>2. IsFiniteSet(dense \union sparse)
    BY <1>3, <1>4, FS_Union
  <2>3. a \in dense \union sparse /\ b \in dense \union sparse
    BY <1>5, <1>8, <1>9
  <2>4. query.alpha \in Alphas
    BY SearchOK
  <2>5. /\ \A c \in dense : Closeness(query)[c] \in Int
        /\ \A c \in sparse : query.bm25[c] \in Int
    BY <1>1, <1>3, <1>4, <1>7
  <2>6. score[a] \in Int /\ score[b] \in Int /\ score[a] > score[b]
    BY <1>3, <1>4, <1>7, <1>8, <1>9, <2>3, <2>4, <2>5, CombinationInOrder
  <2> HIDE DEF score
  <2> QED
    BY <1>2, <2>1, <2>2, <2>3, <2>6, AheadIsKept
<1> QED
  BY <1>10, <1>11

\* What is reranked is of the party asked for, and no more than may be shown.
LEMMA RerankedKeeps ==
  ASSUME NEW query, NEW fused, IsFiniteSet(fused), NEW hits \in Reranked(query, fused)
  PROVE  /\ hits \subseteq fused
         /\ Cardinality(hits) <= FinalK
         /\ \A c \in hits : PartiesContain(c, query.filters)
<1>1. OfTheParty(query, fused) \subseteq fused
  BY DEF OfTheParty
<1>2. IsFiniteSet(OfTheParty(query, fused)) /\ FinalK \in Nat
  BY <1>1, FS_Subset, SearchOK
<1>3. hits \subseteq OfTheParty(query, fused) /\ Cardinality(hits) <= FinalK
  BY <1>2, BestKeeps DEF Reranked
<1> QED
  BY <1>1, <1>3 DEF OfTheParty

-----------------------------------------------------------------------------
(***************************************************************************)
(* The inductive invariant.  A search between its two lists has a dense    *)
(* list of what the store held when it was made, and the store only grows: *)
(* that is what the three properties of an answer rest on.                 *)
(***************************************************************************)
Searches ==
    \A w \in Workers :
      searching[w] # None =>
        /\ searching[w].seen \subseteq store
        /\ searching[w].dense \in
             Best(Eligible(searching[w].seen, searching[w].query), HitsPerList,
                  Closeness(searching[w].query))

SearchInv ==
    /\ SearchTypeOK
    /\ IsFiniteSet(store)
    /\ \A w \in Workers : known[w] \subseteq store
    /\ IndexHoldsOwnDocuments
    /\ Searches
    /\ HitsMatchTheFilter
    /\ FilterLosesNoMatch
    /\ BestAreCandidates

\* The part of the invariant that is not about the answer.
StateInv ==
    /\ store \in SUBSET Chunks
    /\ bm25_cache \in [Workers -> {NotCached} \union SUBSET Chunks]
    /\ known \in [Workers -> SUBSET Chunks]
    /\ searching \in [Workers -> {None} \union SearchType]
    /\ IsFiniteSet(store)
    /\ \A w \in Workers : known[w] \subseteq store
    /\ IndexHoldsOwnDocuments
    /\ Searches

AnswerInv ==
    /\ answer \in {None} \union AnswerType
    /\ answer # None =>
         /\ Cardinality(answer.fused) <= FusionK
         /\ Cardinality(answer.hits) <= FinalK
    /\ HitsMatchTheFilter
    /\ FilterLosesNoMatch
    /\ BestAreCandidates

LEMMA InvParts == SearchInv <=> StateInv /\ AnswerInv
BY DEF SearchInv, StateInv, AnswerInv, SearchTypeOK

LEMMA NoAnswer == answer = None => AnswerInv
BY DEF AnswerInv, HitsMatchTheFilter, FilterLosesNoMatch, BestAreCandidates

LEMMA NoAnswerNext == answer' = None => AnswerInv'
BY DEF AnswerInv, HitsMatchTheFilter, FilterLosesNoMatch, BestAreCandidates

LEMMA InvPartsNext == SearchInv' <=> StateInv' /\ AnswerInv'
BY DEF SearchInv, StateInv, AnswerInv, SearchTypeOK

LEMMA InitHolds == SearchInit => SearchInv
<1> SUFFICES ASSUME SearchInit PROVE SearchInv
  OBVIOUS
<1>1. StateInv
  <2>1. IsFiniteSet({})
    BY FS_EmptySet
  <2> QED
    BY <2>1 DEF SearchInit, StateInv, IndexHoldsOwnDocuments, Searches
<1>2. AnswerInv
  BY NoAnswer DEF SearchInit
<1> QED
  BY <1>1, <1>2, InvParts

LEMMA IngestPreserves ==
  ASSUME StateInv, NEW w \in Workers, NEW doc \in ChunkSets, Ingest(w, doc)
  PROVE  StateInv' /\ AnswerInv'
<1>1. doc \subseteq Chunks /\ IsFiniteSet(doc)
  BY SearchOK DEF Chunks
<1>2. /\ store' = store \union doc
      /\ bm25_cache' = [bm25_cache EXCEPT ![w] = NotCached]
      /\ known' = [known EXCEPT ![w] = store \union doc]
      /\ answer' = None /\ searching' = searching
  BY DEF Ingest
<1>3. /\ store \in SUBSET Chunks /\ IsFiniteSet(store)
      /\ bm25_cache \in [Workers -> {NotCached} \union SUBSET Chunks]
      /\ known \in [Workers -> SUBSET Chunks]
      /\ searching \in [Workers -> {None} \union SearchType]
  BY DEF StateInv
<1>4. store' \in SUBSET Chunks /\ IsFiniteSet(store')
  BY <1>1, <1>2, <1>3, FS_Union
<1>5. /\ bm25_cache' \in [Workers -> {NotCached} \union SUBSET Chunks]
      /\ known' \in [Workers -> SUBSET Chunks]
      /\ searching' \in [Workers -> {None} \union SearchType]
  BY <1>1, <1>2, <1>3
<1>6. \A v \in Workers : known'[v] \subseteq store'
  BY <1>2, <1>3 DEF StateInv
<1>7. IndexHoldsOwnDocuments'
  <2> SUFFICES ASSUME NEW v \in Workers, bm25_cache'[v] # NotCached
               PROVE  known'[v] \subseteq bm25_cache'[v] /\ bm25_cache'[v] \subseteq store'
    BY DEF IndexHoldsOwnDocuments
  <2>1. v # w
    BY <1>2, <1>3
  <2>2. bm25_cache'[v] = bm25_cache[v] /\ known'[v] = known[v]
    BY <1>2, <1>3, <2>1
  <2>3. known[v] \subseteq bm25_cache[v] /\ bm25_cache[v] \subseteq store
    BY <2>2 DEF StateInv, IndexHoldsOwnDocuments
  <2> QED
    BY <1>2, <2>2, <2>3
<1>8. Searches'
  BY <1>2 DEF StateInv, Searches
<1> QED
  BY <1>2, <1>4, <1>5, <1>6, <1>7, <1>8, NoAnswerNext DEF StateInv

LEMMA DenseSearchPreserves ==
  ASSUME StateInv, NEW w \in Workers, NEW query \in Queries, DenseSearch(w, query)
  PROVE  StateInv' /\ AnswerInv'
<1>1. PICK dense \in DenseHits(query) :
        searching' = [searching EXCEPT
                        ![w] = [query |-> query, dense |-> dense, seen |-> store]]
  BY DEF DenseSearch
<1>2. store' = store /\ bm25_cache' = bm25_cache /\ known' = known /\ answer' = None
  BY DEF DenseSearch
<1>3. /\ store \in SUBSET Chunks /\ IsFiniteSet(store)
      /\ searching \in [Workers -> {None} \union SearchType]
  BY DEF StateInv
<1>4. dense \in Best(Eligible(store, query), HitsPerList, Closeness(query))
  BY DEF DenseHits
<1>5. dense \in SUBSET Chunks
  <2>1. Eligible(store, query) \subseteq store /\ HitsPerList \in Nat
    BY EligibleParts, SearchOK
  <2>2. IsFiniteSet(Eligible(store, query))
    BY <1>3, <2>1, FS_Subset
  <2> QED
    BY <1>3, <1>4, <2>1, <2>2, BestKeeps
<1>6. searching' \in [Workers -> {None} \union SearchType]
  BY <1>1, <1>3, <1>5 DEF SearchType
<1>7. Searches'
  <2> SUFFICES ASSUME NEW v \in Workers, searching'[v] # None
               PROVE  /\ searching'[v].seen \subseteq store'
                      /\ searching'[v].dense \in
                           Best(Eligible(searching'[v].seen, searching'[v].query),
                                HitsPerList, Closeness(searching'[v].query))
    BY DEF Searches
  <2>1. CASE v = w
    <3>1. searching'[v] = [query |-> query, dense |-> dense, seen |-> store]
      BY <1>1, <1>3, <2>1
    <3> QED
      BY <1>2, <1>4, <3>1
  <2>2. CASE v # w
    <3>1. searching'[v] = searching[v]
      BY <1>1, <1>3, <2>2
    <3> QED
      BY <1>2, <3>1 DEF StateInv, Searches
  <2> QED
    BY <2>1, <2>2
<1> QED
  BY <1>2, <1>6, <1>7, NoAnswerNext DEF StateInv, IndexHoldsOwnDocuments

\* A worker that drops its search and its cached index, or one of them.
LEMMA DroppingPreserves ==
  ASSUME StateInv, NEW w \in Workers,
         bm25_cache' = bm25_cache \/ bm25_cache' = [bm25_cache EXCEPT ![w] = NotCached],
         searching' = [searching EXCEPT ![w] = None],
         answer' = None, store' = store, known' = known
  PROVE  StateInv' /\ AnswerInv'
<1>1. /\ bm25_cache \in [Workers -> {NotCached} \union SUBSET Chunks]
      /\ searching \in [Workers -> {None} \union SearchType]
  BY DEF StateInv
<1>2. /\ bm25_cache' \in [Workers -> {NotCached} \union SUBSET Chunks]
      /\ searching' \in [Workers -> {None} \union SearchType]
  BY <1>1
<1>3. \A v \in Workers : bm25_cache'[v] # NotCached => bm25_cache'[v] = bm25_cache[v]
  BY <1>1
<1>4. \A v \in Workers : searching'[v] # None => searching'[v] = searching[v]
  BY <1>1
<1>5. IndexHoldsOwnDocuments'
  BY <1>3 DEF StateInv, IndexHoldsOwnDocuments
<1>6. Searches'
  BY <1>4 DEF StateInv, Searches
<1> QED
  BY <1>2, <1>5, <1>6, NoAnswerNext DEF StateInv

LEMMA SparseSearchPreserves ==
  ASSUME StateInv, NEW w \in Workers, SparseSearch(w)
  PROVE  StateInv' /\ AnswerInv'
<1> DEFINE search == searching[w]
           query == search.query
           index == Bm25Index(w)
<1>0. PICK sparse \in SparseHits(query, index) :
        \E fused \in Fused(query, search.dense, sparse) :
          \E hits \in Reranked(query, fused) :
            answer' = [query |-> query, seen |-> search.seen,
                       index |-> index, fused |-> fused, hits |-> hits]
  BY DEF SparseSearch
<1>1. PICK fused \in Fused(query, search.dense, sparse) :
        \E hits \in Reranked(query, fused) :
          answer' = [query |-> query, seen |-> search.seen,
                     index |-> index, fused |-> fused, hits |-> hits]
  BY <1>0
<1>2. PICK hits \in Reranked(query, fused) :
        answer' = [query |-> query, seen |-> search.seen,
                   index |-> index, fused |-> fused, hits |-> hits]
  BY <1>1
<1>3. /\ search # None
      /\ bm25_cache' = [bm25_cache EXCEPT ![w] = index]
      /\ searching' = [searching EXCEPT ![w] = None]
      /\ store' = store /\ known' = known
  BY DEF SparseSearch
<1>4. /\ store \in SUBSET Chunks /\ IsFiniteSet(store)
      /\ bm25_cache \in [Workers -> {NotCached} \union SUBSET Chunks]
      /\ known \in [Workers -> SUBSET Chunks]
      /\ searching \in [Workers -> {None} \union SearchType]
  BY DEF StateInv
<1>5. index \in SUBSET Chunks /\ known[w] \subseteq index /\ index \subseteq store
  BY <1>4 DEF Bm25Index, StateInv, IndexHoldsOwnDocuments
<1>6. search \in SearchType
  BY <1>3, <1>4
<1>7. query \in Queries /\ search.seen \in SUBSET Chunks
  BY <1>6 DEF SearchType
<1>8. /\ search.seen \subseteq store
      /\ search.dense \in Best(Eligible(search.seen, query), HitsPerList, Closeness(query))
  BY <1>3 DEF StateInv, Searches
<1>9. sparse \in Best(Eligible(index, query), HitsPerList, query.bm25)
  BY DEF SparseHits
<1>10. IsFiniteSet(search.seen) /\ IsFiniteSet(index)
  BY <1>4, <1>5, <1>8, FS_Subset
<1> DEFINE seen == search.seen
           dense == search.dense
<1> HIDE DEF search, query, index, seen, dense
<1>11. /\ fused \subseteq Eligible(seen \union index, query)
       /\ IsFiniteSet(fused)
       /\ Cardinality(fused) <= FusionK
       /\ \A c \in Eligible(seen \union index, query) :
            c \notin fused =>
              \/ Cardinality(fused) >= HitsPerList
              \/ Cardinality(fused) >= FusionK
  BY <1>2, <1>7, <1>8, <1>9, <1>10, ShortListsAreComplete DEF seen, dense
<1>12. \A b \in fused, a \in Eligible(seen \intersect index, query) :
         Ahead(query, a, b) => a \in fused
  BY <1>2, <1>5, <1>7, <1>8, <1>9, <1>10, AheadIsCandidate DEF seen, dense
<1>13. /\ hits \subseteq fused
       /\ Cardinality(hits) <= FinalK
       /\ \A c \in hits : PartiesContain(c, query.filters)
  BY <1>11, RerankedKeeps
<1>14. /\ \A c \in fused : MatchesWhere(c, query.filters)
       /\ fused \subseteq store
  <2>1. Eligible(seen \union index, query) \subseteq seen \union index
    BY EligibleParts
  <2>2. \A c \in Eligible(seen \union index, query) : MatchesWhere(c, query.filters)
    BY EligibleParts
  <2> QED
    BY <1>5, <1>8, <1>11, <2>1, <2>2 DEF seen
<1>15. /\ answer'.query = query /\ answer'.seen = seen /\ answer'.index = index
       /\ answer'.fused = fused /\ answer'.hits = hits
  BY <1>2 DEF seen
<1>16. answer' \in AnswerType
  <2>1. fused \in SUBSET Chunks /\ hits \in SUBSET Chunks
    BY <1>4, <1>13, <1>14
  <2> QED
    BY <1>2, <1>5, <1>7, <2>1 DEF AnswerType
<1>17. AnswerInv'
  <2>1. HitsMatchTheFilter'
    BY <1>3, <1>13, <1>14, <1>15 DEF HitsMatchTheFilter
  <2>2. FilterLosesNoMatch'
    BY <1>11, <1>15 DEF FilterLosesNoMatch
  <2>3. BestAreCandidates'
    BY <1>12, <1>15 DEF BestAreCandidates
  <2> QED
    BY <1>11, <1>13, <1>15, <1>16, <2>1, <2>2, <2>3 DEF AnswerInv
<1>18. StateInv'
  <2>1. /\ bm25_cache' \in [Workers -> {NotCached} \union SUBSET Chunks]
        /\ searching' \in [Workers -> {None} \union SearchType]
    BY <1>3, <1>4, <1>5
  <2>2. IndexHoldsOwnDocuments'
    <3> SUFFICES ASSUME NEW v \in Workers, bm25_cache'[v] # NotCached
                 PROVE  known[v] \subseteq bm25_cache'[v] /\ bm25_cache'[v] \subseteq store
      BY <1>3 DEF IndexHoldsOwnDocuments
    <3>1. CASE v = w
      BY <1>3, <1>4, <1>5, <3>1
    <3>2. CASE v # w
      <4>1. bm25_cache'[v] = bm25_cache[v]
        BY <1>3, <1>4, <3>2
      <4> QED
        BY <4>1 DEF StateInv, IndexHoldsOwnDocuments
    <3> QED
      BY <3>1, <3>2
  <2>3. Searches'
    <3>1. \A v \in Workers : searching'[v] # None => searching'[v] = searching[v]
      BY <1>3, <1>4
    <3> QED
      BY <1>3, <3>1 DEF StateInv, Searches
  <2> QED
    BY <1>3, <1>4, <2>1, <2>2, <2>3 DEF StateInv
<1> QED
  BY <1>17, <1>18

LEMMA NextPreserves == SearchInv /\ [SearchNext]_searchVars => SearchInv'
<1> SUFFICES ASSUME StateInv, AnswerInv, [SearchNext]_searchVars PROVE StateInv' /\ AnswerInv'
  BY InvParts, InvPartsNext
<1>1. CASE \E w \in Workers, doc \in ChunkSets : Ingest(w, doc)
  BY <1>1, IngestPreserves
<1>2. CASE \E w \in Workers, query \in Queries : DenseSearch(w, query)
  BY <1>2, DenseSearchPreserves
<1>3. CASE \E w \in Workers : SparseSearch(w)
  BY <1>3, SparseSearchPreserves
<1>4. CASE \E w \in Workers : SparseSearchFails(w)
  BY <1>4, DroppingPreserves DEF SparseSearchFails
<1>5. CASE \E w \in Workers : WorkerRestart(w)
  BY <1>5, DroppingPreserves DEF WorkerRestart
<1>6. CASE UNCHANGED searchVars
  <2>1. /\ store' = store /\ bm25_cache' = bm25_cache /\ known' = known
        /\ searching' = searching /\ answer' = answer
    BY <1>6 DEF searchVars
  <2>2. StateInv'
    BY <2>1 DEF StateInv, IndexHoldsOwnDocuments, Searches
  <2>3. AnswerInv'
    BY <2>1 DEF AnswerInv, HitsMatchTheFilter, FilterLosesNoMatch, BestAreCandidates
  <2> QED
    BY <2>2, <2>3
<1> QED
  BY <1>1, <1>2, <1>3, <1>4, <1>5, <1>6 DEF SearchNext

-----------------------------------------------------------------------------
(***************************************************************************)
(* The theorems.                                                           *)
(***************************************************************************)
\* The state between two accesses to the store is consistent in every worker.
THEOREM SearchInvariant == SearchSpec => []SearchInv
<1>1. SearchInit => SearchInv
  BY InitHolds
<1>2. SearchInv /\ [SearchNext]_searchVars => SearchInv'
  BY NextPreserves
<1> QED
  BY <1>1, <1>2, PTL DEF SearchSpec

\* Store, indexes, searches and answers have their types, and an answer is cut
\* to the limits of fusion and reranking.
THEOREM SearchTypes == SearchSpec => []SearchTypeOK
<1>1. SearchInv => SearchTypeOK
  BY DEF SearchInv
<1> QED
  BY <1>1, SearchInvariant, PTL

\* A worker finds what it ingested itself, and nothing that is not stored:
\* _get_bm25_index and invalidate_bm25_cache.
THEOREM OwnDocumentsIndexed == SearchSpec => []IndexHoldsOwnDocuments
<1>1. SearchInv => IndexHoldsOwnDocuments
  BY DEF SearchInv
<1> QED
  BY <1>1, SearchInvariant, PTL

\* Every hit satisfies the whole filter: build_where_clause, the eligible
\* chunks of the sparse search and the party filter of hybrid_search.
THEOREM HitsAreMatches == SearchSpec => []HitsMatchTheFilter
<1>1. SearchInv => HitsMatchTheFilter
  BY DEF SearchInv
<1> QED
  BY <1>1, SearchInvariant, PTL

\* With fewer candidates than the limits no match is missing.
THEOREM NoMatchLost == SearchSpec => []FilterLosesNoMatch
<1>1. SearchInv => FilterLosesNoMatch
  BY DEF SearchInv
<1> QED
  BY <1>1, SearchInvariant, PTL

\* Neither convex_combination_fusion, whatever the scores, ties and weights,
\* nor reciprocal_rank_fusion drops a chunk for one that is behind it in both
\* rankings.
THEOREM NoneAheadIsDropped == SearchSpec => []BestAreCandidates
<1>1. SearchInv => BestAreCandidates
  BY DEF SearchInv
<1> QED
  BY <1>1, SearchInvariant, PTL

\* The filter of a search admits all that satisfies it, within the limits, and
\* nothing else (build_where_clause, _matches_where, parties_contains).
THEOREM FilterExact == SearchSpec => []FilterIsExact
BY HitsAreMatches, NoMatchLost, PTL DEF FilterIsExact
=============================================================================
