---------------------------- MODULE HybridSearch ----------------------------
(***************************************************************************)
(* retrieval/hybrid_search.py: one collection of chunks, searched densely  *)
(* in the store and lexically in an index that every worker process caches *)
(* for itself; the two lists are fused, cut, filtered by party and         *)
(* reranked.  A worker runs one request at a time, between two accesses to *)
(* the store other workers run theirs.  Distances and scores are integers; *)
(* fused scores are compared over a common denominator.                    *)
(*   ChunkSets   sets of chunks                                            *)
(*   Meta        chunk -> [contract_type, governing_law_country,           *)
(*                 effective_date_epoch, monetary_value, parties]          *)
(*   Queries     [distance, bm25, rerank : chunk -> number, filters,       *)
(*                 fusion_method, alpha]                                   *)
(*                                                                         *)
(* A definition that is used nowhere is a variant with a plausible         *)
(* mistake; it stands before the definition it varies and documents what   *)
(* the properties guard against.                                           *)
(***************************************************************************)
EXTENDS Integers, FiniteSets

CONSTANTS
    None,
    Workers,
    ChunkSets,
    Meta,
    Queries,
    HitsPerList,       \* dense_k and sparse_k
    FusionK,
    FinalK,
    SearchesInFlight   \* a bound for model checking

Chunks == UNION ChunkSets

FusionMethods == {"convex", "rrf"}
\* of ten, by the style of the question
Alphas == {2, 4, 7}

ASSUME SearchOK ==
    /\ HitsPerList \in Nat /\ FusionK \in Nat /\ FinalK \in Nat
    /\ SearchesInFlight \in Nat
    /\ \A doc \in ChunkSets : IsFiniteSet(doc)
    /\ None \notin Chunks
    /\ \A query \in Queries :
         /\ query # None
         /\ query.distance \in [Chunks -> Int]
         /\ query.bm25 \in [Chunks -> Int]
         /\ query.rerank \in [Chunks -> Int]
         /\ query.fusion_method \in FusionMethods
         /\ query.alpha \in Alphas

VARIABLES
    store,        \* the chunks in the collection
    bm25_cache,   \* of each worker the chunks its index holds, or NotCached
    known,        \* what the store held when the worker last ingested
    searching,    \* of each worker the search between its two lists, or None
    answer        \* of the search that has just ended, or None

searchVars == <<store, bm25_cache, known, searching, answer>>

NotCached == {None}

-----------------------------------------------------------------------------
(***************************************************************************)
(* Filters.  A field a chunk does not carry satisfies no condition.        *)
(***************************************************************************)
MatchesWhere(chunk, filters) ==
    LET meta == Meta[chunk] IN
    /\ \A field \in {"contract_type", "governing_law_country"} :
         filters[field] \in {None, meta[field]}
    /\ \A field \in {"effective_date_epoch", "monetary_value"} :
         /\ filters.min[field] # None =>
              meta[field] # None /\ meta[field] >= filters.min[field]
         /\ filters.max[field] # None =>
              meta[field] # None /\ meta[field] <= filters.max[field]

PartiesContain(chunk, filters) ==
    filters.parties_contains # None =>
      filters.parties_contains \in Meta[chunk].parties

Eligible(chunks, query) == {c \in chunks : MatchesWhere(c, query.filters)}

-----------------------------------------------------------------------------
(***************************************************************************)
(* Ranking.  Of equals either may come first.                              *)
(***************************************************************************)
Best(chunks, k, score) ==
    {top \in SUBSET chunks :
       /\ Cardinality(top) = IF Cardinality(chunks) < k THEN Cardinality(chunks)
                             ELSE k
       /\ \A a \in top, b \in chunks \ top : score[a] >= score[b]}

Closeness(query) == [c \in Chunks |-> -query.distance[c]]

DenseHits(query) == Best(Eligible(store, query), HitsPerList, Closeness(query))

SparseHitsFilteredLast(query, index) ==
    {Eligible(top, query) : top \in Best(index, HitsPerList, query.bm25)}
SparseHits(query, index) == Best(Eligible(index, query), HitsPerList, query.bm25)

Lowest(scores) == CHOOSE s \in scores : \A t \in scores : s <= t
Highest(scores) == CHOOSE s \in scores : \A t \in scores : t <= s
Spread(scores) == Highest(scores) - Lowest(scores)

\* over Denominator(scores); alike scores all count 1
Denominator(scores) ==
    IF scores = {} THEN 1 ELSE IF Spread(scores) = 0 THEN 1 ELSE Spread(scores)
Normalized(score, scores) ==
    IF Spread(scores) = 0 THEN 1 ELSE score - Lowest(scores)
Share(chunk, hits, score) ==
    IF chunk \in hits THEN Normalized(score[chunk], {score[h] : h \in hits}) ELSE 0

Weighted(alpha, dense, dense_range, sparse, sparse_range) ==
    alpha * (sparse_range * dense) + (10 - alpha) * (dense_range * sparse)

ConvexCombinationOfDistances(query, dense, sparse) ==
    [c \in dense \union sparse |->
       Weighted(query.alpha,
                Share(c, dense, query.distance),
                Denominator({query.distance[d] : d \in dense}),
                Share(c, sparse, query.bm25),
                Denominator({query.bm25[s] : s \in sparse}))]
ConvexCombination(query, dense, sparse) ==
    [c \in dense \union sparse |->
       Weighted(query.alpha,
                Share(c, dense, Closeness(query)),
                Denominator({Closeness(query)[d] : d \in dense}),
                Share(c, sparse, query.bm25),
                Denominator({query.bm25[s] : s \in sparse}))]

\* The scores of reciprocal_rank_fusion are not sorted before the cut: it falls
\* in the order in which they were entered, the dense list first.
Room(dense) ==
    IF Cardinality(dense) < FusionK THEN FusionK - Cardinality(dense) ELSE 0
ReciprocalRank(query, dense, sparse) ==
    {fused \in SUBSET (dense \union sparse) :
       \E first \in Best(dense, FusionK, Closeness(query)),
          rest \in Best(sparse \ dense, Room(dense), query.bm25) :
         fused = first \union rest}

Fused(query, dense, sparse) ==
    IF query.fusion_method = "rrf" THEN ReciprocalRank(query, dense, sparse)
    ELSE Best(dense \union sparse, FusionK, ConvexCombination(query, dense, sparse))

OfThePartyIfAny(query, fused) ==
    LET of == {c \in fused : PartiesContain(c, query.filters)}
    IN  IF of = {} THEN fused ELSE of
OfTheParty(query, fused) == {c \in fused : PartiesContain(c, query.filters)}

Reranked(query, fused) == Best(OfTheParty(query, fused), FinalK, query.rerank)

-----------------------------------------------------------------------------
SearchInit ==
    /\ store = {}
    /\ bm25_cache = [w \in Workers |-> NotCached]
    /\ known = [w \in Workers |-> {}]
    /\ searching = [w \in Workers |-> None]
    /\ answer = None

IngestKeepingTheIndex(w, doc) ==
    /\ searching[w] = None
    /\ store' = store \union doc
    /\ known' = [known EXCEPT ![w] = store \union doc]
    /\ answer' = None
    /\ UNCHANGED <<bm25_cache, searching>>

\* embed_and_store, then invalidate_bm25_cache in the same process
Ingest(w, doc) ==
    /\ searching[w] = None
    /\ store' = store \union doc
    /\ bm25_cache' = [bm25_cache EXCEPT ![w] = NotCached]
    /\ known' = [known EXCEPT ![w] = store \union doc]
    /\ answer' = None
    /\ UNCHANGED searching

DenseSearch(w, query) ==
    /\ searching[w] = None
    /\ Cardinality({v \in Workers : searching[v] # None}) < SearchesInFlight
    /\ \E dense \in DenseHits(query) :
         searching' = [searching EXCEPT
                         ![w] = [query |-> query, dense |-> dense, seen |-> store]]
    /\ answer' = None
    /\ UNCHANGED <<store, bm25_cache, known>>

\* the index is built by the first search that finds none
Bm25Index(w) == IF bm25_cache[w] = NotCached THEN store ELSE bm25_cache[w]

SparseSearch(w) ==
    LET search == searching[w]
        index == Bm25Index(w)
    IN  /\ search # None
        /\ index # {}
        /\ \E sparse \in SparseHits(search.query, index) :
             \E fused \in Fused(search.query, search.dense, sparse) :
               \E hits \in Reranked(search.query, fused) :
                 answer' = [query |-> search.query, seen |-> search.seen,
                            index |-> index, fused |-> fused, hits |-> hits]
        /\ bm25_cache' = [bm25_cache EXCEPT ![w] = index]
        /\ searching' = [searching EXCEPT ![w] = None]
        /\ UNCHANGED <<store, known>>

\* rank_bm25 divides by the number of chunks; nothing is cached
SparseSearchFails(w) ==
    /\ searching[w] # None
    /\ Bm25Index(w) = {}
    /\ searching' = [searching EXCEPT ![w] = None]
    /\ answer' = None
    /\ UNCHANGED <<store, bm25_cache, known>>

WorkerRestart(w) ==
    /\ bm25_cache' = [bm25_cache EXCEPT ![w] = NotCached]
    /\ searching' = [searching EXCEPT ![w] = None]
    /\ answer' = None
    /\ UNCHANGED <<store, known>>

SearchNext ==
    \E w \in Workers :
      \/ \E doc \in ChunkSets : Ingest(w, doc)
      \/ \E query \in Queries : DenseSearch(w, query)
      \/ SparseSearch(w)
      \/ SparseSearchFails(w)
      \/ WorkerRestart(w)

SearchSpec == SearchInit /\ [][SearchNext]_searchVars

-----------------------------------------------------------------------------
SearchType == [query : Queries, dense : SUBSET Chunks, seen : SUBSET Chunks]
AnswerType == [query : Queries, seen : SUBSET Chunks, index : SUBSET Chunks,
               fused : SUBSET Chunks, hits : SUBSET Chunks]

SearchTypeOK ==
    /\ store \in SUBSET Chunks
    /\ bm25_cache \in [Workers -> {NotCached} \union SUBSET Chunks]
    /\ known \in [Workers -> SUBSET Chunks]
    /\ searching \in [Workers -> {None} \union SearchType]
    /\ answer \in {None} \union AnswerType
    /\ answer # None =>
         /\ Cardinality(answer.fused) <= FusionK
         /\ Cardinality(answer.hits) <= FinalK

\* A worker's cached index holds every chunk that was in the store when the
\* worker itself last ingested, whatever others ingested since, and no chunk
\* that the store does not hold.
IndexHoldsOwnDocuments ==
    \A w \in Workers :
      bm25_cache[w] # NotCached =>
        known[w] \subseteq bm25_cache[w] /\ bm25_cache[w] \subseteq store

\* Every hit is stored and satisfies the whole filter, whichever list it comes
\* from and whatever was ingested between the two.
HitsMatchTheFilter ==
    answer # None =>
      \A c \in answer.hits :
        /\ c \in store
        /\ MatchesWhere(c, answer.query.filters)
        /\ PartiesContain(c, answer.query.filters)

\* A restrictive filter loses no match: when there are fewer candidates than
\* either list or the fusion may have, every chunk that the two searches could
\* see and that satisfies the filter is among them.
FilterLosesNoMatch ==
    answer # None =>
      \A c \in Eligible(answer.seen \union answer.index, answer.query) :
        c \notin answer.fused =>
          \/ Cardinality(answer.fused) >= HitsPerList
          \/ Cardinality(answer.fused) >= FusionK

\* A filter lets through what satisfies it and nothing else.
FilterIsExact == HitsMatchTheFilter /\ FilterLosesNoMatch

\* a is ahead of b in both rankings
Ahead(query, a, b) ==
    query.distance[a] < query.distance[b] /\ query.bm25[a] > query.bm25[b]

\* With either fusion and any weight, a chunk that both rankings put ahead of a
\* candidate is a candidate, if both searches could see it.
BestAreCandidates ==
    answer # None =>
      \A b \in answer.fused,
         a \in Eligible(answer.seen \intersect answer.index, answer.query) :
        Ahead(answer.query, a, b) => a \in answer.fused
=============================================================================
