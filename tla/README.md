# CounselGraph: specifications

CounselGraph reads contracts with language models and lets people decide: an
uploaded contract is analysed and waits for a reviewer, a question is answered
between two reviewer checkpoints, and a reviewed contract goes up an approval
chain. This directory specifies those three workflows, the histories of a
document, the rules that decide what a reviewer is shown, and what serves them
all: the chunking of documents, the search over them and the rate limit. They are
written in TLA+ and checked with TLC, and the safety of each is proved with
TLAPS. Paths below are relative to `src/src/counsel_graph/`.

## 1. The system

| Component | Code | State | Operations | Talks to |
|---|---|---|---|---|
| Approval chain | `api/main.py` 765-964, `db/repository.py` 698-852, `graphrag/decision_brief.py`, `api/security.py` 40-56 | `decision_brief`, `approval_step`, audit log | generate a brief, decide a step | SQL |
| Question answering | `agents/legal_pipeline.py`, `api/main.py` 418-507 | graph state in a checkpoint, `QueryJob` in Neo4j, `chat_message` in SQL | start, resume at two checkpoints, clear the chat | Neo4j, SQL, models, retrieval |
| Ingestion | `graphrag/langgraph_agent.py`, `api/main.py` 248-399 | checkpoint, `DocumentJob`/`Contract`/`Clause` in Neo4j, `document` in SQL, vectors | upload, resume at the approval | Neo4j, SQL, Chroma, models |
| Contract graph | `graphrag/neo4j_store.py` | Neo4j | one write transaction per call | - |
| Document history | `db/repository.py` 314-473 | summary versions, confidentiality overrides | add, approve, restore, classify, override | SQL |
| Retrieval | `retrieval/hybrid_search.py` | vectors, a BM25 index cached per process | search, fuse, rerank | Chroma |
| Standards | `graphrag/standards.py` | none (reads `knowledge_reference`) | resolve by scope level | SQL |
| Risk analysis | `graphrag/langgraph_agent.py` 310-623, `compliance.py`, `deviation.py`, `playbook.py`, checklists of `extraction.py` | `risk_flag`, `playbook_entry` | flag, check, list missing clauses | SQL, Neo4j, standards, models |
| Confidentiality | `graphrag/confidentiality.py`, `api/main.py` 543-557 | none | text in, level out; who may open it | models |
| Parsing | `ingestion/pdf_pipeline.py` | none | pages, OCR, chunks | libraries |
| Access | `api/security.py` | sliding windows per process, signed cookies | login, role check, rate limit | - |
| Checkpointer | `resources.py` 74-99 | paused runs, in memory or in Postgres/Redis | save, resume | langgraph |

**How they run.** The endpoints are `async def` functions that call blocking
code, so one worker process serves one request at a time. Interleavings arise
between worker processes, which `api/main.py` 8-10 allows once the
checkpoints live in Postgres or Redis. Every repository function and every
Neo4j call is a transaction of its own: a request, or a node of a review graph,
is a sequence of commits that an error or a crash can cut anywhere. SQL writes
of the review graphs are best effort (their errors are printed and dropped);
a Neo4j error aborts the invocation with a 500.

**What is hard here**

* check in one transaction, act in another (`main.py` 936 and 950,
  `repository.py` 816 and 819), by several workers on one row;
* nodes with several effects that break off half-way and are run again by a
  later resume, whose own decision is dropped in favour of the stored one;
* the order of effects inside a node: it decides what a half-finished node
  leaves behind;
* the transcript as shared memory between questions in different stages;
* status words compared in one place and built in another;
* checkpoints that vanish with the process.

`PROJECT.json` lists the hazards line by line with the properties that watch
them.

**What makes the components correct**

* Approval chain: steps are decided in order, by somebody senior enough, once;
  a refusal ends the chain; the verdict comes with the last step; the audit log
  is true and nearly complete; a brief gets its verdict.
* Question answering: job status, reviewer decisions, answer, transcript and
  precedent agree wherever a node broke off; a verdict is final; only answered
  questions are remembered; revisions are capped and on record; a question a
  reviewer saw is closed.
* Ingestion: a contract that awaits review is completely analysed; the verdict
  is one recorded decision and the contract's approval agrees; SQL never runs
  ahead of the graph.
* Document history: version numbers have no gap, a restored version is a new draft
  with the text it names, the row shows the latest level, and a manual level stands.
* Risk analysis: an error loses only the findings it accounts for, and what a
  reviewer sees of one clause in three places agrees.
* Rules: the most specific standard in force wins; a level is never below a
  label; no letter of a document is lost between chunks; a search misses nothing
  both rankings prefer; no window admits more than the limit.

## 2. The modules

| Module | Models | Lines it stands for |
|---|---|---|
| `ApprovalChain` | workers that generate briefs and decide steps, one action per transaction | generate and decide endpoints, their repository functions, the seniority table, the chain policy |
| `ApprovalGate` | the promise of a chain: a set of open steps that shrinks from the front | abstract |
| `QueryReview` | the question graph: nodes as lists of effects, two checkpoints, retry, restart, memory | all of `legal_pipeline.py`, the store calls it makes, chat functions |
| `ReviewLedger` | the promise of the graph: questions are settled once, and grounded in answered ones only | abstract |
| `Ingestion` | upload endpoint and ingestion graph as lists of effects, decision and retry | `start_ingestion_job`, the ingestion half of `langgraph_agent.py` |
| `DocumentHistory` | workers that change the summary and the level of one document, each transaction split into read and write | `repository.py` 314-473 and the callers |
| `RiskAnalysis` | the risk rows of an ingestion, statement by statement, with the errors that cut it | `risk_flag_node`, `missing_clause_node`, `compliance.py`, `deviation.py`, `playbook.py`, checklists |
| `Standards` | which approved text applies, as the set of results the unordered queries allow | `standards.py`, lookups of `repository.py` |
| `ConfidentialityRules` | the level of a text, and who may open it | `confidentiality.py` |
| `Rules` | the risk analysis and, resting beside it, questions to the two stateless rules | composes the three before |
| `PdfPipeline` | from extracted pages to stored chunks, one step a round of each loop | merge, sections, chunking, tables and upsert of `pdf_pipeline.py` |
| `HybridSearch` | workers that ingest into and search one store, each with its own cached index | `hybrid_search.py` |
| `RateLimiter` | the sliding windows of the workers | `security.py` 150-183 |
| `ApprovalChainProofs`, `QueryReviewProofs`, `IngestionProofs`, `DocumentHistoryProofs`, `RulesProofs`, `PdfPipelineProofs`, `HybridSearchProofs`, `RateLimiterProofs` | theorems and proofs about the module of that name (`RulesProofs` about the four of the rules) | - |
| `MC...` | values of the constants for TLC; `MCServices` runs `PdfPipeline`, `HybridSearch` or `RateLimiter` | - |

`RiskAnalysis` extends `Standards`; `Rules` extends `RiskAnalysis` and
`ConfidentialityRules`. What `RiskAnalysis` details is the single
effect `WriteDerivedRows` of `Ingestion`: its errors in SQL are caught inside the
two nodes, so `Ingestion` sees the nodes succeed whatever rows they leave.

**Conventions.** A definition that is used nowhere (such as `IsAnyPending`) is
a variant of the definition after it with one plausible mistake. It documents
what the properties are sensitive to: with the variant in place, a named
property fails (`PROJECT.json`, `mutants`).

### ApprovalChain

One document; every query of the component is restricted to one document or one
brief. `pc[w]` says how far worker `w` is in its request, and each value is the
gap between two transactions:

    generate   idle -GatherDecisionBriefContext-> gathered -ReadLastBrief-> last_read
               -CreateDecisionBrief-> brief_created -AuditBrief-> idle
    decide     idle -CheckCurrentStep-> checked -GetApprovalStep-> step_read
               -FlushDecision-> flushed -CommitDecision-> decided -AuditDecision-> idle

`decide_approval_step` is split into read, flush and commit because a
concurrent transaction can fall between them. After the flush the row is locked
(`Locked`) and its new value invisible to others until the commit, which is
READ COMMITTED in Postgres. The request's answer codes 400, 403, 404 and 409
change nothing and appear as guards, except the 409 of a step that was decided
meanwhile, which is the second branch of `GetApprovalStep`. `RequestFails`
kills a request anywhere; what it committed stays. A decision is stored under its
own word (`RecordedStatus`), which is not the word of the schema: see section 4.

### QueryReview

`Effects(node)` lists what a node does in source order; `Performs` executes the
next one and `Completes` checkpoints the node's result together with the next
node. `NodeRaises` stops between two effects and leaves `at` on the node:
a later resume (`RetryNode`) starts the node over. The decision used then is the
one in the checkpoint, because langgraph consumes the resume value only at an
interrupt. The client learns a thread's id with the first
pause, so a run that raised earlier is never resumed. The three retrieval
agents write the same audit row and differ in what they find; they are one node. A
draft is named by the round that wrote it, a remembered turn by its position in
the transcript. Audit rows are a set, so a node that is repeated shows once.

### Ingestion

The same scheme. A resume may carry any word as its action: `Actions` has the three
that are offered, no action at all, and `hold` for every other word, which becomes
the status `holdd` and approves nothing. `decisionRows` is a set of values: a retry
writes a second row of the same decision, which the set does not show, so "one
recorded decision" means one value, not one row. `register`, `index` and `finish_upload` are the parts of the
endpoint around the graph run. `SqlFails` is the swallowed SQL error; in
`apply_decision` an error while the review action is written also skips the
audit log, both being in one `try`. Risk flags and missing clauses are one effect
(`WriteDerivedRows`) whose rows `RiskAnalysis` models; conflicts and contract
metadata are effects without state.

### DocumentHistory

One document, workers with a request each. `pc[w]` is the gap between the read
and the write of a transaction:

    edit, restore   idle -> adding -ReadLastVersion-> last_read -InsertVersion-> idle
    ingestion       idle -StartJob-> adding -> last_read -> classifying
                    -ReadToClassify-> document_read -WriteLevel-> idle
    override        idle -ReadToOverride-> document_read -WriteLevel-> idle

A restore reads the text in a transaction of its own and then adds a version
like an edit. `WriteLevel` writes only the columns that differ from the values
read (`Updated`), which is how SQLAlchemy flushes a row. `OnlyRow` is
`scalar_one_or_none`: it neither finds a missing number (404) nor a twin (an
exception), so `ApproveSummaryVersion` and `RestoreSummaryVersion` are guarded by
it. A row is inserted as a draft (`NewRow`) and its approval is the only column that
changes later. Two workers that overlap make twins, and a late insert may take a
number that is no longer the highest: rows are in the order they were written, not of
their numbers. `SummaryFails` is the caught error of the first summary; `RequestFails` rolls an
open transaction back. `overlapped` is a history variable: it records that two
transactions on the row of the document were ever open together.

### RiskAnalysis

    start -ResolveScope-> review -ReviewClause/FlagRisk ...- ReviewEnds-> checks
      -SaveFinding ... CheckEnds (7 checks) / CheckFails-> missing
      -FlagMissingClauses-> reviewed -FinishUpload-> uploaded

What the model flags is a choice per clause. It may return several flags for one
clause, which take the same path one by one; the module keeps one. `ResolveScope` may break off after
each column (`Truncated`), since the four are looked up in one `try`. Each flag
looks the approved text up twice and the evidence once, and each lookup may
fail on its own (`Lookups`). A playbook entry belongs to one flag, as its unique
column `risk_flag_id` says. The seven checks share one `try`: `CheckFails` ends them
all, after any number of their rows. `CountryLookupFails` is the inner `try` around the
expected country. `FinishUpload` writes the type of the document to its row, the
step that comes too late for `ResolveScope`. A clause's wording is one of the
patterns the checks look for, or plain.

### The rules

`Standards` and `ConfidentialityRules` are functions of their input. Each ends with
one operator `Sound...` that states what its result must satisfy without repeating
how it is computed: from the fields that are set (`Rank`) instead of the walk down
the hierarchy, from the levels named instead of the sequence of caps and raises. Where
the code takes the first row of a query without `ORDER BY`, the operator gives the
set of all results and the statement holds for each. A state of `Rules` either
belongs to a risk analysis or rests: then `job` holds a library or a text, and
the invariant evaluates `Sound...` of it. A text is its labels and signals, scores are
tenths.

### PdfPipeline

    extracted -MergeOcrResults-> sections -ComputePageSections ...-> offsets
      -PlacePage ...-> windows -TakeWindow ... / NoWindow-> tables
      -TakeTable ...-> EmbedAndStore-> stored / NothingToStore-> refused -RunAgain-> extracted

A page is known by the length of its text and whether it starts with a heading, a
letter by its offset in the joined text; the blank that `chunk_pages` puts after
each page has an offset too, and `Letters` are the offsets without those.
An id is what it is hashed from: position and content of a text chunk, page and number of
a table. `RunAgain` is a second upload of the same file, which starts the
pipeline over on a collection that still has the first run's chunks.

### HybridSearch

`Ingest` is `embed_and_store` followed by `invalidate_bm25_cache`. A search is two
steps, `DenseSearch` on the store and `SparseSearch` on the worker's index (fusion,
cut, party filter and reranking follow without another access), so that other
workers ingest in between. The index is built by the first search that finds
none and forgotten by the ingestions of its own worker only. Equal scores may come
in either order (`Best`). Fused scores are compared over a common denominator instead of
being divided. The dense list is exact: the approximation of the vector index
is a matter of the library. `known`, `seen` and `index` are history: what the worker had
stored, and what either half of a search could see.

### RateLimiter

`Check` is the whole of a check, since no `await` interrupts it: it pops the times
that are older than the window, then refuses or admits. `LimiterRestart` forgets the
deques, `Tick` is the clock. `admitted` and `reply` are history.

## 3. The runs

| Run | Instance | Shows |
|---|---|---|
| `approval_sequential` | 1 worker, 2 briefs, chains of 2 and 4 steps, 1 dead request | a refusal ends the chain, verdict = last decision, decisions and verdicts never edited, audit log true, versions distinct |
| `approval_concurrent` | 2 workers, 1 brief, chains of 1 and 3 steps, 1 dead request | order, seniority, verdict exactly when closed, audit gaps bounded by dead requests, implements `ApprovalGate`, every brief gets a verdict |
| `approval_lost_decision` | 2 workers | **violated**: a decided step is edited |
| `approval_status` | 1 worker, 1 brief | **violated**: a step or a brief has a status that `models.py` lists |
| `query_concurrent` | 2 questions, 2 workers, 2 documents, route `graph`, no revisions, 1 failure | verdicts backed and final, copies of an answer agree, memory holds answered turns only, implements `ReviewLedger` |
| `query_lifecycle` | 1 question, all routes, 3 revisions, 2 failures, restarts | cap and audit of revisions, ended runs on record, a reviewed question closes |
| `ingestion` | 2 contracts of 2 clauses, 1 process, 1 failure or restart | verdicts backed and final, SQL follows the graph, awaiting review is complete, a shown contract gets its verdict |
| `ingestion_writes_first` | 1 contract | **violated**: a model output reaches the record store through a recorded decision only |
| `document_history` | 2 workers, 2 texts, 2 levels, 3 versions, 2 changes, one ingestion, any request fails | numbers without gaps and twins bounded by workers, a restored version is a draft with the text it names, latest level shown, manual level stands |
| `services` | pipeline: 294 documents of up to 3 pages, chunks of 4 with an overlap of 2, the same file again | no letter, table or short passage is lost, citations, sections and ids are true, a rerun adds nothing |
| | search: 2 workers, 2 documents with 3 chunks, 68 queries, both fusions, restarts | an index holds its worker's documents, a filter is exact, the fusion drops no chunk both rankings prefer |
| | limiter: 2 processes, 2 keys, limit 2, window 2, restarts | no window admits more than the limit and no refusal comes early |
| `rules` | 5,924 libraries in 16 contexts, 128 texts with every answer, 15 ingestions of up to 2 clauses, 6 standards | the most specific standard wins, no level is too low, errors of the risk analysis lose only what they account for, one text per clause |
| `standards_lag` | the same | **violated**: standards of the document's type are applied |

**Bounds and why they are enough.** Two workers, because every race here is
between one transaction and another of a second request on the same row. The
chains have between one and four steps: a single step that is first and last,
and a middle one with both neighbours. Two briefs are a version and its
successor. One user who is junior and one who outranks everybody cover both
sides of the seniority check; the unlisted role `paralegal` covers its default.
One failure is enough to cut a request or node once at every place;
`query_lifecycle` has two, so that a retry is cut as well. Two questions are one
that remembers and one that is remembered; `MaxTurns = 1` makes the cap of the
memory bite in that run. `MaxRevisions = 3` is the code's default. In
`document_history`, three versions are a version, one added between its restore's
two transactions and the restored one; two changes are what it takes for one to
overwrite another. `services` holds three components that share no state: a
behaviour chooses one and leaves the others where they begin, so that its states are
the sum of theirs.

The questions of `rules` contain the cases the code distinguishes: every pair of
rows over all combinations of scope fields, in every context the endpoints can
produce; pairs and triples of rules with two texts, two versions, expired, not
yet effective, expiring today, and in draft; every set of labels and signals with
every answer and with scores and page shares on both sides of each threshold
(0.4, 0.5, 0.6, 0.8, 0.9). The ingestions of `MCJobs` cross no, one and two clauses,
with repeated, untyped and unsaved ones, with an upload without profile, a valuable
one with all scopes and a plain one; the library has a standard at four levels, one
of a document type and one that has expired.

The documents of the pipeline in `services` have pages that are empty, just below and just above
the scan threshold, as long as and longer than a chunk, with and without
heading, extracted or scanned, with none, one or two tables; with `Overlap` half
of `ChunkSize` a window begins on a letter, a blank or an empty page. In
its search every score of `0 .. 2` for three chunks gives ties and inversions
between the two lists, which have room for two chunks each, as has the fusion, so
that every cut cuts; one search at a time is between its lists (`SearchesInFlight`),
since two searches share nothing but the store. In its limiter a third
request meets a full window and times are on both sides of the window's edge.

Bounds that the code does not have are `BriefIds`, `Threads`, `Uploads`,
`ClausesPer`, `MaxFailures`, `MaxVersions`, `MaxChanges`, `SearchesInFlight` and
`MaxTime`; each is marked as a bound where it is declared. Deadlock is not checked
for the workflows, the histories and the rules, whose instances end when every
question, upload or brief is closed, when the bounded keys are used up, or at
once for a question to a rule.

**Symmetry** is used on workers, brief keys and summary texts and on questions and
documents, and only in runs without liveness.

**Fairness.** A request, once accepted, runs to its end (`WF` on `Serve` and
`Execute`; the handlers are straight-line code). Approvers keep answering the
due step, which is the workflow's premise (`WF` on `CheckCurrentStep`). Reviewers
return to each question or contract they were shown, and a worker, serving
requests in arrival order, takes every resume in turn even if others are served
in between (`SF` on `Resume`). Nobody is obliged to upload, ask, generate or
clear. The liveness properties exempt runs lost with a restart of a process
that held its checkpoints in memory, which the code documents. Modules without a
liveness property assume no fairness.

## 4. Disagreements between the code and its texts

* **A decision can be lost** (`approval_lost_decision`). Two workers read the
  step as pending; the second commit overwrites status, actor and possibly the
  verdict of the first. `models.py` 361-363 calls a decided step immutable. With
  one worker the property holds (`approval_sequential`).
* **The status words are not the documented ones** (`approval_status`).
  `decide_approval_step` stores the word of the request (`approve`,
  `approve_with_changes`, `reject`, `send_back`) in the step and in the brief
  (`repository.py` 819, 830, 850); `models.py` 349 and 371 list `approved`,
  `approved_with_changes`, `rejected` and `sent_back`. `create_decision_brief` looks
  for `sent_back` (721), as does `index.html` 2162, so `superseded_by_version` stays
  null after a send-back, although `models.py` 350 says it is set.
* **Model output is recorded before the review** (`ingestion_writes_first`). The
  project README says that no model output reaches the record store without a recorded
  decision (66-67), that only approved output persists (57), and that a rejection or an
  escalation means no write (254-255). Extraction writes clauses, and the analysis
  links and flags, at once (`langgraph_agent.py` 214), and no decision removes them:
  the similarity search of later contracts finds the clauses of a rejected one.
  `AwaitingReviewIsComplete` states what the code keeps instead: a review begins with
  nothing missing.
* **Standards of a document type come too late** (`standards_lag`). A row of
  `document` is created without a type (`api/main.py` 297) and receives it after
  the graph run (366). `risk_flag_node` reads it in between, and
  `find_standards_candidates` drops what is scoped to a type the context does not
  have. Mandatory and prohibited standards of one document type are never applied at
  ingestion; `GET .../standards` shows them as in force afterwards. `ChecksReported`
  shows that all others are applied.

Met on the way and not given a run, because the models state what the code does:

* The status of a rejected contract is the action plus a `d`, `rejectd`
  (`langgraph_agent.py` 706); `docs/api_documentation.md` 79 says `rejected`.
* An override that commits between the classifier's check and its write is
  overwritten (`repository.py` 412-420), although the docstring says it never is.
  `OverrideStands` and `LatestRowShown` hold for transactions that do not overlap.
* `reciprocal_rank_fusion` returns its scores unsorted, and `hybrid_search` cuts
  the dictionary in the order of entry: with `rrf` and the default sizes the lexical
  list never changes the candidates.
* `parties_contains` filters after the cut to `fusion_k`, so a chunk that matches
  can be missed; and the upload endpoint stores no contract metadata with the
  chunks, so the other filters match nothing it has ingested.
* A chunk that starts on the blank between two pages cites the earlier one; a
  chunk over three pages names the extraction source of the first and last only.
* `_resolve_assigned_role` compares the severity for equality with the
  configured one; its docstring says "above". With the bar at `medium`, a `high`
  flag goes to the reviewer.
* `resolve_standards` drops a row that repeats the selected text of its rule, it is
  neither selected, a conflict nor a fallback; a more specific rule that is no
  approved clause hides a general approved clause, and the lookup that steps in
  ignores dates and document types.
* An explicit label and a model more than one level apart are not marked for
  confirmation, unlike a signal and a model.
* The roles `business_head` and `clo` may decide approval steps and appear on no
  list of who may open a document (`api/main.py` 543).
* `find_similar_clauses` says it excludes clauses of the same contract and
  excludes only the clause itself (`LinkSameClause` models what the query does);
  `document.status` keeps `awaiting_review` after the decision.

## 5. What is proved

Each theorem holds for every value of the constants that the named assumptions of
its module admit; TLC evaluates those on every run. The invariant a theorem rests on
was checked with TLC before it was proved. Each module's `TypeOK` is such a
theorem (`TypeCorrect`, `PipelineTypes`, `SearchTypes`, `LimiterTypes`) and of no run. "Any number" includes the bounds of
the instances: failures, revisions, turns, versions, briefs, questions, uploads.

### The approval chain

`ApprovalChainProofs`, for any workers, users, roles, briefs, contexts, chain
lengths and failures (`ConstantsOK`, `ChainsOK`, `NoneOK`, `FiniteOK`):

| Theorem | States |
|---|---|
| `TypeCorrect` | `Spec => []TypeOK` |
| `RequestsStaySound` | `Spec => []RequestsSound` |
| `VerdictExactlyWhenClosed` | `Spec => []VerdictIffChainClosed` |
| `ChainInOrder` | `Spec => []DecidedInOrder` |
| `DecidersSenior` | `Spec => []SeniorEnough` |
| `AuditNearlyComplete` | `Spec => []AuditGapsAreFailures` |
| `GateImplemented` | `Spec => ImplementsGate` |

None of these is inductive alone, since a commit relies on
what an earlier transaction checked. `ChainInv` (theorem `ChainInvariant`) adds
`RequestsSound`: a request in flight still points at an existing step its user
may act on and in front of which nothing is pending, although other requests
commit in between, because no action ever makes a step of an issued brief
pending again; and after its flush, the rows it read include every
row still pending. From the last part it follows that a commit which sees no other
pending row closes the brief with nothing open, and that a refusal leaves
nothing pending, which is `VerdictIffChainClosed`; from the former, order and
seniority. `RowsTogether` says that unused keys have no steps, so an insert
disturbs no request in flight.

`AuditGapsAreFailures` compares two counts, and a step of one worker can change
both. The proof counts orphans, the audit rows that are missing and that no
request in flight is about to write: an orphan arises only when a request dies
(`OrphansAreFailures`), and what is missing otherwise has a worker of its own
(`CountedBy`, by an injection).

The refinement maps `CreateDecisionBrief` to `Issue`, `CommitDecision` to `Pass` or
`Refuse`, or to a stutter when it overwrites a decision (the gate does not show
who decided, which is why the lost decision does not refute it), and everything
else to a stutter.

Its second part takes `OneWorker` as a hypothesis (`Workers` has at most one
element, which is how the container starts the API) and proves what fails with two:

| Theorem | States |
|---|---|
| `RefusalsEndChains` | `Spec => []RefusalEndsChain` |
| `LastDecisionDecides` | `Spec => []VerdictIsLastDecision` |
| `AuditTrue` | `Spec => []AuditMatchesDecision` |
| `VersionsIdentify` | `Spec => []VersionsDistinct` |
| `DecisionsImmutable` | `Spec => DecidedStepsNeverEdited` |

`SeqInv` (theorem `SequentialInvariant`) adds to `ChainInv` that the one request in
flight finds what it read: its step is still pending, its version number still free,
the rows it flushed against are exactly those that are pending.

### Question answering

`QueryReviewProofs`, for any questions, documents, workers, routes, revisions,
remembered turns and failures, with checkpoints in memory or not (`ConstantsOK`,
`NoneOK`):

| Theorem | States |
|---|---|
| `TypeCorrect` | `Spec => []TypeOK` |
| `VerdictsBacked` | `Spec => []VerdictIsBacked` |
| `OneAnswer` | `Spec => []AnswersAgree` |
| `MemoryIsAnswered` | `Spec => []RemembersAnswersOnly` |
| `RevisionsOnRecord` | `Spec => []RevisionsCappedAndAudited` |
| `EndsOnRecord` | `Spec => []EndedRunIsOnRecord` |
| `VerdictsFinal` | `Spec => VerdictIsFinal` |
| `LedgerImplemented` | `Spec => ImplementsLedger` |

A node may break off between any two effects and be started over, so what the
stores hold of a question is not determined by the node it is at. `ReviewInv`
(theorem `ReviewInvariant`) says for each node and each `step` what must be on
record and what cannot be yet (`RefusalSound`, `ApprovalSound`, `OpenSound`). The
key is that a closing node is entered once, with the decision that chose it, and the
checkpoint sends each retry into the same node with the same decision
(`DecisionSound`); so effects of an earlier attempt are those of this one.
`MemorySound` and `ChatSound` carry the shared transcript: turns are appended with a
verdict that never changes, so what was remembered stays answered. The refinement
maps the one effect that sets a verdict to `Settle`, the one that reads the memory to
`Ground`, the one that writes the precedent back to `Record` and the rest to
stutters.

### Ingestion

`IngestionProofs`, for any uploads, clauses, similarities, workers and failures
(`ConstantsOK`, `NoneOK`):

| Theorem | States |
|---|---|
| `TypeCorrect` | `Spec => []TypeOK` |
| `VerdictsBacked` | `Spec => []VerdictIsBacked` |
| `SqlBehindGraph` | `Spec => []SqlFollowsGraph` |
| `AwaitingComplete` | `Spec => []AwaitingReviewIsComplete` |
| `VerdictsFinal` | `Spec => VerdictIsFinal` |

`IngestInv` (theorem `IngestInvariant`) is a conjunction per upload: what the run is
past is on record (`Progress`), nothing of a decision exists before a person was
asked (`Undecided`), and what `apply_decision` wrote up to the effect it is at, in
this execution or an earlier one, is the checkpoint's decision (`Deciding`). Only
SQL errors are swallowed, and SQL comes after the graph in each node, which is why
`Backed` survives them.

### Document history

`DocumentHistoryProofs`, for any workers, texts, levels, versions and changes
(`ConstantsOK`):

| Theorem | States |
|---|---|
| `TypeCorrect` | `Spec => []TypeOK` |
| `NumbersHaveNoGap` | `Spec => []VersionNumbersSound` |
| `RestoresMatch` | `Spec => RestoreAddsADraft` |
| `LatestShown` | `Spec => []LatestRowShown` |
| `OverridesStand` | `Spec => []OverrideStands` |

A version gets the number that was highest when another transaction read it.
`DocInv` (theorem `DocInvariant`) relates the numbers already read to the table:
their predecessor exists (`NumbersSound`), and the rows with one number together with
the requests about to insert it are at most as many as the workers
(`TwinsBounded`): when a worker reads a number, nobody has inserted it yet. `RowSound`
says that a change not overlapped by another has read the row as it still is.
`RestoresSound` keeps with a restore in flight the row its text came from; rows are
never removed and their texts never change, so the row is still there when the draft is
inserted.

### The rules

`RulesProofs`, for any libraries, contexts, texts, answers, page shares, ingestions
and tables (`RulesOK`, `TablesOK`):

| Theorem | States |
|---|---|
| `ResolutionSound` | `SoundResolution` of every library in every context |
| `OneLanguage` | all lookups of a clause type find one text, unless two approved clauses of one version differ |
| `LevelSound` | `SoundClassification` of every text, answer and page share |
| `MostSpecificResolved` | `RulesSpec => []ResolvesMostSpecific` |
| `LevelIsNeverTooLow` | `RulesSpec => []LevelNeverTooLow` |
| `ChecksAreReported` | `RulesSpec => []ChecksReported` |
| `RedlinesBacked` | `RulesSpec => []RedlineIsBacked` |

`ResolutionSound` assumes `IsLibrary`: finitely many rows, versions that are numbers,
dates that are numbers or absent. The walk down the hierarchy is related to the fields
a row sets by two lemmas: a row matches no level above its rank (`LevelNotAboveRank`),
and it matches the level of its rank (`AtOwnRank`); the highest level with a match is
then the lowest rank in force (`LevelIsTopRank`). A rule that is not in dispute has
one text (`AtMostOne`), so the row that wins it may be any of its rows
(`ResolutionPicks`). `LevelSound` holds for scores of any size; `HighestOfLevels`,
`Suggested` and `Combined` are the steps of the classifier.

`RulesInvariant` says that a state rests or satisfies `RiskInv`: every check behind
`check` has saved what it finds and every flag of a check is one of its findings,
for the same upload, settings and scope, which are fixed once `ResolveScope` is
done, while flags only grow. Whatever ends the checks early then leaves a prefix of
them complete. With `TablesOK` (primary keys are unique) `Looked` keeps with each flag
that its texts came from the standards, and `OneLanguage` makes them equal.

### Chunking

`PdfPipelineProofs`, for any documents, scan threshold, chunk size and smaller
overlap (`PipelineOK`):

| Theorem | States |
|---|---|
| `DocumentCovered` | `PipelineSpec => []DocumentIsCovered`, from `NoLetterNoTableLost` and `PassagesNotCut` |
| `ChunksAreSound` | `PipelineSpec => []ChunksSound`, from `CitationsComplete`, `SectionsLatest` and `IdsDistinct` |
| `RerunsRepeat` | `PipelineSpec => RerunAddsNothing` |

`PipelineInv` (theorem `PipelineInvariant`) follows the loops. `Placed` says that each
page starts one blank after the end of the one before, so pages do not overlap and an
offset has one page (`Lookup`). `Cover` says that the letters before the offset `covered`
are in chunks, and every short passage that ends before it is whole in one: the
next window starts `Overlap` before `covered`, so a passage that crosses it is not
longer than the part that repeats and begins in the new window (`WindowCovers`).
`TakeWindow` moves `covered` on to the window's end, which lies behind its start because
the overlap is smaller than the chunk. A page of a cited range cannot be skipped because offsets grow with page
numbers, empty pages included. `TablesChunked` does the same for tables.

`RerunsRepeat` compares two runs without an induction over their windows. `AfterStep`
is the next state of a run as a function of the document and of how far the run has
come, and each action is a step of it (`MarchPreserves`). By `RerunInv` the states that
the first run came through lie in a set that `AfterStep` does not leave before its one
ended state. A later run starts in that set, so it can end only there, with the chunks
that are stored. `RerunInv` quantifies over such sets, which TLC cannot enumerate: TLC
checks the property itself.

### Retrieval

`HybridSearchProofs`, for any workers, documents, metadata, queries, scores and list
sizes (`SearchOK`):

| Theorem | States |
|---|---|
| `OwnDocumentsIndexed` | `SearchSpec => []IndexHoldsOwnDocuments` |
| `FilterExact` | `SearchSpec => []FilterIsExact`, from `HitsAreMatches` and `NoMatchLost` |
| `NoneAheadIsDropped` | `SearchSpec => []BestAreCandidates` |

`SearchInv` (theorem `SearchInvariant`) adds what a search carries from its dense list to its
sparse one: `seen` is part of the store, which only grows, and the dense list is a best
selection of what `seen` holds. The lemmas on `Best` count: a cut that drops anything is full,
and what it drops is behind all it keeps. A chunk ahead of a candidate in both rankings is
therefore in each list the candidate is in; min-max normalisation keeps its order
in each, a chunk outside a list counts zero, which no normalised score is below, and
the weighted sum of two smaller shares is smaller.

### The rate limit

`RateLimiterProofs`, for any processes, keys, limit (zero included) and window (`LimitOK`):

| Theorem | States |
|---|---|
| `LimitExact` | `LimiterSpec => []LimitIsExact`, from `NeverMoreThanTheLimit` and `RefusalsAreDue` |

`LimiterInv` (theorem `LimiterInvariant`) relates the deque to the history: it is the
end of the sequence of admitted times, and all that is no longer in it is older than
the window (`HitsAreTheEnd`). A check that finds room has
therefore popped the time `MaxRequests` places back or never had it, and a check that
finds none still holds the last `MaxRequests` of them.

### Only model-checked

* Liveness (`EveryBriefGetsVerdict`, `ReviewedQuestionCloses`,
  `ShownContractGetsVerdict`): fairness and `ENABLED` are beyond the prover.

## 6. What is not modelled

* The language models, similarity and BM25 scores, text extraction, OCR and the
  regular expressions over texts: their outcome is a nondeterministic choice or a
  sample (route, hits, clauses, lengths, labels).
* The weighted confidence of a flag (`confidence.py`), the scan of numbers across a
  portfolio (`portfolio_conflicts.py`), and the evidence check of a brief's figures
  (`decision_brief.py` 60-197): arithmetic over numbers found in texts.
* Sessions and login: signed cookies checked by a library.
* Two resumes of the same thread at the same time on two workers, and
  checkpoints that lag behind the effects when a durable worker is killed: both
  depend on the internals of langgraph's backends.
* Deciding on a draft one has not seen: a resume does not say which draft it
  means, so nothing in the state could tell.
* Times: transcripts and clear markers are ordered by position.
* The evaluation tooling, the second query graph
  (`graphrag/langgraph_agent.py` 756-912), which the API never starts,
  migrations, the UI and the scripts. `PROJECT.json` gives the reason for each.

## 7. Plan

Every safety property that a passing run checks has a theorem. What would extend the
project:

1. `OverrideStands` and `LatestRowShown` as statements about the transaction that
   overlaps, instead of the history variable `overlapped`.
2. Lemmas of the standards for the contexts the endpoints produce: which level a
   document of a profile without units can reach.
3. The upload endpoint as the composition of `PdfPipeline`, `HybridSearch` and
   `Ingestion`, one document being extracted, indexed and reviewed.
