----------------------------- MODULE Ingestion -----------------------------
(***************************************************************************)
(* Ingestion of an uploaded contract: the upload endpoint (start_ingestion *)
(* _job) registers the document in SQL, indexes its text and runs the      *)
(* ingestion graph (langgraph_agent.py) up to the human approval; a resume *)
(* applies the reviewer's decision.                                        *)
(*                                                                         *)
(* The work is a list of effects on SQL, the vector index and the contract *)
(* graph, each a transaction of its own.  An effect on SQL is best effort: *)
(* its error is swallowed.  Any other error breaks the invocation off; the *)
(* effects so far stay, and if a reviewer already knows the run, the next  *)
(* resume executes the broken node again with the decision of its          *)
(* checkpoint.                                                             *)
(*                                                                         *)
(* A definition that is used nowhere is a variant with a plausible         *)
(* mistake; it stands before the definition it varies and documents what   *)
(* the properties guard against.                                           *)
(***************************************************************************)
EXTENDS Integers, Sequences, FiniteSets

CONSTANTS
    Uploads,      \* uploads of a document, one contract each (bound)
    Workers,      \* invocations that can run at the same time
    Durable,      \* checkpoints survive a restart (Postgres, Redis)
    ClausesPer,   \* clauses the model extracts from a document (bound)
    Similar,      \* pairs of clauses whose embeddings are close
    MaxFailures,  \* errors and restarts (bound)
    None

Clauses == Uploads \X (1 .. ClausesPer)

ASSUME ConstantsOK ==
    /\ Workers \in Nat \ {0}
    /\ Durable \in BOOLEAN
    /\ ~Durable => Workers = 1      \* checkpoints in the memory of one process
    /\ ClausesPer \in Nat \ {0}
    /\ Similar \subseteq Clauses \X Clauses
    /\ MaxFailures \in Nat

-----------------------------------------------------------------------------
(***************************************************************************)
(* The order of the work.                                                  *)
(***************************************************************************)
UpdateRowFirst == <<"register", "index", "start_job", "extract_clauses",
                    "finish_upload", "link_same_clause", "detect_conflicts",
                    "risk_flag", "missing_clause", "human_approval">>
UploadSteps == <<"register", "index", "start_job", "extract_clauses",
                 "link_same_clause", "detect_conflicts", "risk_flag",
                 "missing_clause", "finish_upload", "human_approval">>

Stage(node) == CHOOSE i \in DOMAIN UploadSteps : UploadSteps[i] = node

Uploading == {UploadSteps[i] : i \in 1 .. 9}
GraphNodes == Uploading \ {"register", "index", "finish_upload"}
Nodes == Uploading \union {"human_approval", "apply_decision",
                           "none", "end", "lost"}

ApplyWithoutStatus ==
    <<"decision", "approval", "audit", "review_action", "audit_log">>
ApplyStatusFirst ==
    <<"status", "decision", "approval", "audit", "review_action", "audit_log">>
ApplySqlFirst ==
    <<"review_action", "decision", "approval", "status", "audit", "audit_log">>
ApplyDecision ==
    <<"decision", "approval", "status", "audit", "review_action", "audit_log">>

\* what the node does, in order; the writes of contract metadata into SQL are
\* one effect, those of summary and classification another, as are the flags of
\* a node
Effects(node) ==
    CASE node = "register"         -> <<"row">>
      [] node = "index"            -> <<"vectors">>
      [] node = "start_job"        -> <<"job", "contract", "metadata", "audit",
                                       "summary">>
      [] node = "extract_clauses"  -> [k \in 1 .. ClausesPer |-> "clause"]
                                        \o <<"audit">>
      [] node = "link_same_clause" -> <<"links", "audit">>
      [] node \in {"detect_conflicts", "risk_flag", "missing_clause"}
                                   -> <<"flags", "audit">>
      [] node = "finish_upload"    -> <<"row_update">>
      [] node = "apply_decision"   -> ApplyDecision
      [] OTHER                     -> << >>

(***************************************************************************)
(* Decisions.  An older client sends `approved' instead of an action.  The *)
(* action is not validated: hold stands for any word but the three.        *)
(***************************************************************************)
Actions == {"approve", "reject", "escalate", "hold"}

Decisions == [action : Actions \union {None}, approved : BOOLEAN]

Action(d) == IF d.action # None THEN d.action
             ELSE IF d.approved THEN "approve" ELSE "reject"

\* an action's word with a d appended, except for an approval
StatusOf(action) ==
    CASE action = "approve"  -> "approved"
      [] action = "reject"   -> "rejectd"
      [] action = "escalate" -> "escalated"
      [] action = "hold"     -> "holdd"

Verdicts == {StatusOf(a) : a \in Actions}

\* Python's None is no word and no truth value
ASSUME NoneOK ==
    /\ None \notin Verdicts
    /\ None \notin BOOLEAN
    /\ None # "processing"
    /\ None # "awaiting_review"

\* Contract.approved: null while open and when escalated
ApprovedOf(action) ==
    CASE action = "approve"  -> TRUE
      [] action = "escalate" -> None
      [] OTHER               -> FALSE

VARIABLES
    at, running, step,  \* the node, whether it is being executed, its next effect
    decision,     \* human_decision of the run
    \* SQL
    docStatus,    \* document.status, None without a row
    docJob,       \* document.job_id is set
    reviewActions, auditLog,    \* rows written for the decision
    \* contract graph
    jobStatus, contract, approved, clauses, links, audit,
    decisionRows,  \* what ReviewerDecision rows say; a retry repeats a row
    indexed,      \* the document's chunks are in the vector index
    failures

run    == <<at, running, step>>
sql    == <<docStatus, docJob, reviewActions, auditLog>>
neo4j  == <<jobStatus, contract, approved, clauses, links, audit, decisionRows>>
vars   == <<at, running, step, decision, docStatus, docJob, reviewActions,
            auditLog, jobStatus, contract, approved, clauses, links, audit,
            decisionRows, indexed, failures>>

Init ==
    /\ at = [u \in Uploads |-> "none"]
    /\ running = [u \in Uploads |-> FALSE]
    /\ step = [u \in Uploads |-> 1]
    /\ decision = [u \in Uploads |-> None]
    /\ docStatus = [u \in Uploads |-> None]
    /\ docJob = [u \in Uploads |-> FALSE]
    /\ reviewActions = [u \in Uploads |-> {}]
    /\ auditLog = [u \in Uploads |-> {}]
    /\ jobStatus = [u \in Uploads |-> None]
    /\ contract = [u \in Uploads |-> FALSE]
    /\ approved = [u \in Uploads |-> None]
    /\ clauses = {}
    /\ links = {}
    /\ audit = [u \in Uploads |-> {}]
    /\ decisionRows = [u \in Uploads |-> {}]
    /\ indexed = {}
    /\ failures = 0

WorkerFree == Cardinality({u \in Uploads : running[u]}) < Workers

Enter(u, node) ==
    /\ at' = [at EXCEPT ![u] = node]
    /\ running' = [running EXCEPT ![u] = TRUE]
    /\ step' = [step EXCEPT ![u] = 1]

StartIngestionJob(u) ==
    /\ at[u] = "none"
    /\ WorkerFree
    /\ Enter(u, "register")
    /\ UNCHANGED <<decision, sql, neo4j, indexed, failures>>

(***************************************************************************)
(* A resume: a decision at the approval, or, after an error, another run   *)
(* of apply_decision, for which the new decision is dropped.               *)
(***************************************************************************)
HumanApproval(u) ==
    /\ at[u] = "human_approval"
    /\ WorkerFree
    /\ \E d \in Decisions : decision' = [decision EXCEPT ![u] = d]
    /\ Enter(u, "apply_decision")
    /\ UNCHANGED <<sql, neo4j, indexed, failures>>

RetryWithNewDecision(u) ==
    /\ at[u] = "apply_decision"
    /\ ~running[u]
    /\ WorkerFree
    /\ \E d \in Decisions : decision' = [decision EXCEPT ![u] = d]
    /\ Enter(u, "apply_decision")
    /\ UNCHANGED <<sql, neo4j, indexed, failures>>

RetryApplyDecision(u) ==
    /\ at[u] = "apply_decision"
    /\ ~running[u]
    /\ WorkerFree
    /\ Enter(u, "apply_decision")
    /\ UNCHANGED <<decision, sql, neo4j, indexed, failures>>

-----------------------------------------------------------------------------
(***************************************************************************)
(* Effects.                                                                *)
(***************************************************************************)
IsAt(u, effect) ==
    /\ running[u]
    /\ step[u] <= Len(Effects(at[u]))
    /\ Effects(at[u])[step[u]] = effect

Performs(u, effect) ==
    /\ IsAt(u, effect)
    /\ step' = [step EXCEPT ![u] = @ + 1]
    /\ UNCHANGED <<at, running, decision>>

CreateDocument(u) ==
    /\ Performs(u, "row")
    /\ docStatus' = [docStatus EXCEPT ![u] = "processing"]
    /\ UNCHANGED <<docJob, reviewActions, auditLog, neo4j, indexed, failures>>

EmbedAndStore(u) ==
    /\ Performs(u, "vectors")
    /\ indexed' = indexed \union {u}
    /\ UNCHANGED <<sql, neo4j, failures>>

CreateDocumentJob(u) ==
    /\ Performs(u, "job")
    /\ jobStatus' = [jobStatus EXCEPT ![u] = "processing"]
    /\ UNCHANGED <<sql, contract, approved, clauses, links, audit, decisionRows,
                   indexed, failures>>

CreateContract(u) ==
    /\ Performs(u, "contract")
    /\ contract' = [contract EXCEPT ![u] = TRUE]
    /\ approved' = [approved EXCEPT ![u] = None]
    /\ UNCHANGED <<sql, jobStatus, clauses, links, audit, decisionRows, indexed,
                   failures>>

\* rows of other components: document metadata, summary, flags
WriteDerivedRows(u) ==
    /\ \/ Performs(u, "metadata") \/ Performs(u, "summary")
       \/ Performs(u, "flags")
    /\ UNCHANGED <<sql, neo4j, indexed, failures>>

CreateClause(u) ==
    /\ Performs(u, "clause")
    /\ clauses' = clauses \union {<<u, step[u]>>}
    /\ UNCHANGED <<sql, jobStatus, contract, approved, links, audit, decisionRows,
                   indexed, failures>>

\* find_similar_clauses leaves out the clause itself and nothing else
LinkSameClause(u) ==
    /\ Performs(u, "links")
    /\ links' = links \union
         {p \in Similar : /\ p[1] \in clauses /\ p[2] \in clauses
                          /\ p[1][1] = u /\ p[1] # p[2]}
    /\ UNCHANGED <<sql, jobStatus, contract, approved, clauses, audit,
                   decisionRows, indexed, failures>>

WriteAuditRecord(u) ==
    /\ Performs(u, "audit")
    /\ audit' = [audit EXCEPT ![u] = @ \union {at[u]}]
    /\ UNCHANGED <<sql, jobStatus, contract, approved, clauses, links,
                   decisionRows, indexed, failures>>

\* the graph's result is an interrupt: the document awaits its review
UpdateDocument(u) ==
    /\ Performs(u, "row_update")
    /\ IF docStatus[u] = None THEN UNCHANGED <<docStatus, docJob>>
       ELSE /\ docStatus' = [docStatus EXCEPT ![u] = "awaiting_review"]
            /\ docJob' = [docJob EXCEPT ![u] = TRUE]
    /\ UNCHANGED <<reviewActions, auditLog, neo4j, indexed, failures>>

CreateReviewerDecision(u) ==
    /\ Performs(u, "decision")
    /\ decisionRows' = [decisionRows EXCEPT ![u] =
                          @ \union {Action(decision[u]) = "approve"}]
    /\ UNCHANGED <<sql, jobStatus, contract, approved, clauses, links, audit,
                   indexed, failures>>

SetContractApproval(u) ==
    /\ Performs(u, "approval")
    /\ approved' = [approved EXCEPT ![u] = ApprovedOf(Action(decision[u]))]
    /\ UNCHANGED <<sql, jobStatus, contract, clauses, links, audit, decisionRows,
                   indexed, failures>>

UpdateJobStatus(u) ==
    /\ Performs(u, "status")
    /\ jobStatus' = [jobStatus EXCEPT ![u] = StatusOf(Action(decision[u]))]
    /\ UNCHANGED <<sql, contract, approved, clauses, links, audit, decisionRows,
                   indexed, failures>>

\* nothing for an upload whose document row could not be written
RecordReviewAction(u) ==
    /\ Performs(u, "review_action")
    /\ reviewActions' = IF docStatus[u] = None THEN reviewActions
         ELSE [reviewActions EXCEPT ![u] = @ \union {Action(decision[u])}]
    /\ UNCHANGED <<docStatus, docJob, auditLog, neo4j, indexed, failures>>

WriteAuditLog(u) ==
    /\ Performs(u, "audit_log")
    /\ auditLog' = IF docStatus[u] = None THEN auditLog
         ELSE [auditLog EXCEPT ![u] = @ \union {Action(decision[u])}]
    /\ UNCHANGED <<docStatus, docJob, reviewActions, neo4j, indexed, failures>>

\* an SQL error is swallowed; one in record_review_action also skips the log
SqlFails(u) ==
    /\ failures < MaxFailures
    /\ failures' = failures + 1
    /\ \/ IsAt(u, "row") \/ IsAt(u, "metadata") \/ IsAt(u, "summary")
       \/ IsAt(u, "row_update")
       \/ IsAt(u, "review_action") \/ IsAt(u, "audit_log")
    /\ step' = [step EXCEPT ![u] = IF IsAt(u, "review_action") THEN @ + 2
                                                               ELSE @ + 1]
    /\ UNCHANGED <<at, running, decision, sql, neo4j, indexed>>

-----------------------------------------------------------------------------
\* the next node, after whose entry the endpoint or the resume may return
NextNode(node) ==
    IF node = "apply_decision" THEN "end" ELSE UploadSteps[Stage(node) + 1]

CompleteNode(u) ==
    /\ running[u]
    /\ step[u] > Len(Effects(at[u]))
    /\ at' = [at EXCEPT ![u] = NextNode(at[u])]
    /\ running' = [running EXCEPT ![u] = NextNode(at[u]) \in Uploading]
    /\ step' = [step EXCEPT ![u] = 1]
    /\ UNCHANGED <<decision, sql, neo4j, indexed, failures>>

\* A node raises.  The caller of an upload gets a 500 and no thread id, so the
\* run is lost; a reviewer who resumed the run can resume it once more.
NodeRaises(u) ==
    /\ running[u]
    /\ at[u] \in GraphNodes \union {"index", "apply_decision"}
    /\ failures < MaxFailures
    /\ failures' = failures + 1
    /\ at' = [at EXCEPT ![u] = IF @ = "apply_decision" THEN @ ELSE "lost"]
    /\ running' = [running EXCEPT ![u] = FALSE]
    /\ step' = [step EXCEPT ![u] = 1]
    /\ UNCHANGED <<decision, sql, neo4j, indexed>>

Restart ==
    /\ ~Durable
    /\ failures < MaxFailures
    /\ failures' = failures + 1
    /\ at' = [u \in Uploads |-> IF at[u] = "none" THEN "none" ELSE "lost"]
    /\ running' = [u \in Uploads |-> FALSE]
    /\ step' = [u \in Uploads |-> 1]
    /\ UNCHANGED <<decision, sql, neo4j, indexed>>

Execute(u) ==
    \/ CreateDocument(u) \/ EmbedAndStore(u) \/ CreateDocumentJob(u)
    \/ CreateContract(u) \/ WriteDerivedRows(u) \/ CreateClause(u)
    \/ LinkSameClause(u) \/ WriteAuditRecord(u) \/ UpdateDocument(u)
    \/ CreateReviewerDecision(u) \/ SetContractApproval(u) \/ UpdateJobStatus(u)
    \/ RecordReviewAction(u) \/ WriteAuditLog(u) \/ CompleteNode(u)

Resume(u) == HumanApproval(u) \/ RetryApplyDecision(u)

Next ==
    \/ \E u \in Uploads :
         \/ StartIngestionJob(u) \/ Resume(u) \/ Execute(u)
         \/ SqlFails(u) \/ NodeRaises(u)
    \/ Restart

Spec == Init /\ [][Next]_vars

(***************************************************************************)
(* An invocation runs until it returns or raises; reviewers decide every   *)
(* contract they were shown, and resume again after an error.              *)
(***************************************************************************)
FairSpec ==
    /\ Spec
    /\ \A u \in Uploads : WF_vars(Execute(u)) /\ SF_vars(Resume(u))

-----------------------------------------------------------------------------
(***************************************************************************)
(* Properties.                                                             *)
(***************************************************************************)

\* Every part of the state holds a value of its kind.
TypeOK ==
    /\ at \in [Uploads -> Nodes]
    /\ running \in [Uploads -> BOOLEAN]
    /\ step \in [Uploads -> Nat \ {0}]
    /\ decision \in [Uploads -> Decisions \union {None}]
    /\ docStatus \in [Uploads -> {"processing", "awaiting_review", None}]
    /\ docJob \in [Uploads -> BOOLEAN]
    /\ reviewActions \in [Uploads -> SUBSET Actions]
    /\ auditLog \in [Uploads -> SUBSET Actions]
    /\ jobStatus \in [Uploads -> Verdicts \union {"processing", None}]
    /\ contract \in [Uploads -> BOOLEAN]
    /\ approved \in [Uploads -> {TRUE, FALSE, None}]
    /\ clauses \subseteq Clauses
    /\ links \subseteq clauses \X clauses
    /\ audit \in [Uploads -> SUBSET Nodes]
    /\ decisionRows \in [Uploads -> SUBSET BOOLEAN]
    /\ indexed \subseteq Uploads
    /\ failures \in 0 .. MaxFailures

\* A verdict on a job is the decision that every reviewer-decision row of it
\* records, and the contract's approval agrees with it, wherever apply_decision
\* broke off and was retried; and no contract counts as approved before the whole analysis was on record.
VerdictIsBacked ==
    \A u \in Uploads :
        /\ \A a \in Actions : jobStatus[u] = StatusOf(a) =>
             /\ decisionRows[u] = {a = "approve"}
             /\ approved[u] = TRUE <=> a = "approve"
             /\ approved[u] = None <=> a = "escalate"
        /\ approved[u] = TRUE =>
             TRUE \in decisionRows[u] /\ GraphNodes \subseteq audit[u]

\* SQL never runs ahead of the contract graph: a review action, which is what
\* lets a decision brief be generated, is the action the job's status and
\* audit trail already show, and the audit log adds nothing to it.
SqlFollowsGraph ==
    \A u \in Uploads :
        /\ \A a \in reviewActions[u] :
             jobStatus[u] = StatusOf(a) /\ "apply_decision" \in audit[u]
        /\ auditLog[u] \subseteq reviewActions[u]

\* A document that awaits review is completely ingested: its text is indexed,
\* all its clauses are recorded (before the decision, in spite of
\* ModelOutputPassesReview below), every analysis is in the audit trail and its
\* row names its job, whatever failed on the way.
AwaitingReviewIsComplete ==
    \A u \in Uploads : docStatus[u] = "awaiting_review" =>
        /\ u \in indexed /\ docJob[u]
        /\ \A k \in 1 .. ClausesPer : <<u, k>> \in clauses
        /\ GraphNodes \subseteq audit[u]

\* What the project's README says: no model output reaches the record store
\* except through a recorded human decision.  The code writes the clauses it
\* extracted first (extract_clauses_node) and a rejection leaves them.
ModelOutputPassesReview == \A c \in clauses : decisionRows[c[1]] # {}

\* A verdict, once shown, is never changed by a retry, whatever decision the
\* retrying reviewer sends, and neither is the contract's approval.
VerdictIsFinal ==
    [][\A u \in Uploads : jobStatus[u] \in Verdicts =>
         jobStatus'[u] = jobStatus[u] /\ approved'[u] = approved[u]]_vars

\* A contract shown to a reviewer gets its verdict in the end, or its run is
\* lost with the process that held the checkpoint.
ShownContractGetsVerdict ==
    \A u \in Uploads :
        at[u] = "human_approval" ~> jobStatus[u] \in Verdicts \/ at[u] = "lost"
=============================================================================
