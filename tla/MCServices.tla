----------------------------- MODULE MCServices -----------------------------
(***************************************************************************)
(* The pipeline, the search and the rate limiter, which share no state.  A *)
(* behaviour runs one of them, the other two stay where they begin: the    *)
(* states are the sum of theirs, not the product.                          *)
(***************************************************************************)
EXTENDS PdfPipeline, HybridSearch, RateLimiter

-----------------------------------------------------------------------------
(***************************************************************************)
(* Documents for the pipeline.                                             *)
(***************************************************************************)
Extracted(chars, heading) == [chars |-> chars, heading |-> heading]

\* a page as extracted and as scanned
PageKinds ==
    {<<Extracted(chars, FALSE), scan>> :
       chars \in 0 .. 1,
       scan \in {Extracted(0, FALSE), Extracted(3, FALSE), Extracted(5, TRUE)}}
    \union {<<Extracted(chars, heading), Extracted(0, FALSE)>> :
              chars \in {2, 4, 7}, heading \in BOOLEAN}
FewPageKinds ==
    {<<Extracted(1, FALSE), Extracted(0, FALSE)>>,
     <<Extracted(0, FALSE), Extracted(5, TRUE)>>,
     <<Extracted(2, FALSE), Extracted(0, FALSE)>>,
     <<Extracted(4, TRUE), Extracted(0, FALSE)>>,
     <<Extracted(7, FALSE), Extracted(0, FALSE)>>}

Document(kinds, docx) ==
    [pages |-> [p \in DOMAIN kinds |-> kinds[p][1]],
     ocr |-> [p \in DOMAIN kinds |-> kinds[p][2]],
     tables |-> [p \in DOMAIN kinds |-> (2 * p) % 3],
     docx |-> docx]

MCDocuments ==
    {Document(kinds, FALSE) :
       kinds \in UNION {[1 .. n -> PageKinds] : n \in 0 .. 2}
                \union [1 .. 3 -> FewPageKinds]}
      \union {Document(<<kind>>, TRUE) : kind \in PageKinds}

-----------------------------------------------------------------------------
(***************************************************************************)
(* Chunks and questions for the search.                                    *)
(***************************************************************************)
MCChunkSets == {{1}, {2, 3}}

NoMeta == [contract_type |-> None, governing_law_country |-> None,
           effective_date_epoch |-> None, monetary_value |-> None, parties |-> {}]
MCMeta == <<[NoMeta EXCEPT !.monetary_value = 1, !.parties = {"Acme"}],
            [NoMeta EXCEPT !.monetary_value = 2, !.contract_type = "supply"],
            [NoMeta EXCEPT !.effective_date_epoch = 1]>>

Unbounded == [effective_date_epoch |-> None, monetary_value |-> None]
NoFilter == [contract_type |-> None, governing_law_country |-> None,
             min |-> Unbounded, max |-> Unbounded, parties_contains |-> None]
Filters == {[NoFilter EXCEPT !.contract_type = "supply"],
            [NoFilter EXCEPT !.governing_law_country = "IN"],
            [NoFilter EXCEPT !.min.monetary_value = 1],
            [NoFilter EXCEPT !.max.monetary_value = 1],
            [NoFilter EXCEPT !.min.effective_date_epoch = 1],
            [NoFilter EXCEPT !.parties_contains = "Acme"]}

Query(bm25, filters, method, alpha) ==
    [distance |-> <<2, 1, 3>>, bm25 |-> bm25, rerank |-> <<1, 2, 2>>,
     filters |-> filters, fusion_method |-> method, alpha |-> alpha]
MCQueries ==
    {Query(bm25, NoFilter, method, 4) :
       bm25 \in [1 .. 3 -> 0 .. 2], method \in FusionMethods}
    \union {Query(<<2, 1, 0>>, NoFilter, "convex", alpha) : alpha \in Alphas}
    \union {Query(<<2, 0, 1>>, filters, method, 4) :
              filters \in Filters, method \in FusionMethods}

-----------------------------------------------------------------------------
(***************************************************************************)
(* One of the three at a time.                                             *)
(***************************************************************************)
VARIABLE component
vars == <<component, pipelineVars, searchVars, limiterVars>>

\* The states in which the idle ones wait.
IdlePipeline == document = CHOOSE d \in Documents : d.pages = <<>>
IdleLimiter == /\ reply.worker = CHOOSE w \in Processes : TRUE
               /\ reply.key = CHOOSE k \in Keys : TRUE

Init ==
    /\ component \in {"pipeline", "search", "limiter"}
    /\ PipelineInit /\ (component # "pipeline" => IdlePipeline)
    /\ SearchInit
    /\ LimiterInit /\ (component # "limiter" => IdleLimiter)

Next ==
    /\ UNCHANGED component
    /\ \/ component = "pipeline" /\ PipelineNext /\ UNCHANGED <<searchVars, limiterVars>>
       \/ component = "search" /\ SearchNext /\ UNCHANGED <<pipelineVars, limiterVars>>
       \/ component = "limiter" /\ LimiterNext /\ UNCHANGED <<pipelineVars, searchVars>>

Spec == Init /\ [][Next]_vars
=============================================================================
