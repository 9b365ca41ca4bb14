---------------------------- MODULE QueryReview ----------------------------
(***************************************************************************)
(* The question-answering graph (legal_pipeline.py): a question is routed, *)
(* evidence is gathered and put before a reviewer, an answer is drafted    *)
(* and put before a reviewer, revised up to a cap, and closed.             *)
(*                                                                         *)
(* A node of the graph is a list of effects on the contract graph (Neo4j)  *)
(* and the chat transcript (SQL), each a transaction of its own, and ends  *)
(* with a checkpoint of the node's result.  A node that raises leaves its  *)
(* effects so far behind and no checkpoint; the next resume runs the whole *)
(* node again, with the decision the checkpoint holds.                     *)
(*                                                                         *)
(* A definition that is used nowhere is a variant with a plausible         *)
(* mistake; it stands before the definition it varies and documents what   *)
(* the properties guard against.                                           *)
(***************************************************************************)
EXTENDS Integers, Sequences, FiniteSets

CONSTANTS
    Threads,       \* graph runs, one per question asked (bound)
    Documents,     \* documents questions are asked about
    Workers,       \* invocations that can run at the same time
    Durable,       \* checkpoints survive a restart (Postgres, Redis)
    Routes,        \* routes the classifier picks from
    MaxRevisions,  \* max_answer_revisions
    MaxTurns,      \* MAX_CONVERSATION_TURNS
    MaxFailures,   \* raised errors and restarts (bound)
    None

ASSUME ConstantsOK ==
    /\ Workers \in Nat \ {0}
    /\ Durable \in BOOLEAN
    /\ ~Durable => Workers = 1      \* checkpoints in the memory of one process
    /\ Routes \subseteq {"hybrid", "graph", "whole_document", "direct"}
    /\ MaxRevisions \in Nat
    /\ MaxTurns \in Nat
    /\ MaxFailures \in Nat
    /\ None \notin Documents

(***************************************************************************)
(* Nodes.  The three retrieval agents write the same kind of row and       *)
(* differ in what they find, so they are one node.                         *)
(***************************************************************************)
Gathering  == {"start_job", "router", "retrieval", "standards_lookup", "auditor"}
Drafting   == {"synthesizer", "revise_answer"}
Refusing   == {"evidence_rejected", "evidence_escalated",
               "answer_rejected", "answer_escalated"}
Approving  == {"finalize", "graph_update"}
WorkNodes  == Gathering \union Drafting \union Refusing \union Approving
Pauses     == {"evidence_checkpoint", "answer_checkpoint"}
Nodes      == WorkNodes \union Pauses \union {"none", "end", "lost"}

ClosingEffectsNoTurn == <<"decision", "status", "audit">>
ClosingEffects == <<"decision", "status", "audit", "chat">>

FinalizeEffectsChatFirst == <<"decision", "audit", "chat", "answer", "status">>
FinalizeEffectsStatusFirst == <<"decision", "status", "audit", "answer", "chat">>
FinalizeEffects == <<"decision", "audit", "answer", "status", "chat">>

Effects(node) ==
    CASE node = "start_job"        -> <<"create_job", "audit">>
      [] node = "standards_lookup" -> << >>
      [] node \in Refusing         -> ClosingEffects
      [] node = "finalize"         -> FinalizeEffects
      [] node = "graph_update"     -> <<"precedent", "audit">>
      [] OTHER                     -> <<"audit">>

\* the status a closing node gives the job and the chat turn
Verdict(node) ==
    CASE node = "finalize"           -> "answered"
      [] node = "answer_rejected"    -> "rejected"
      [] node = "answer_escalated"   -> "escalated"
      [] OTHER                       -> node

Refused == {"rejected", "escalated", "evidence_rejected", "evidence_escalated"}
JobStatus == Refused \union {"processing", "answered"}

(***************************************************************************)
(* Reviewers' decisions.  A resume carries whatever the client sends; a    *)
(* decision meant for the other checkpoint lacks the keys this one reads.  *)
(***************************************************************************)
Evidence == {"proceed", "escalate", "neither"}

\* the keys action and edited_answer, as the answer checkpoint reads them
Decision(action, edited) == [action |-> action, edited |-> edited]
Decisions ==
    {Decision(a, FALSE) : a \in {"approve", "revise", "reject", "escalate", None}}
      \union {Decision("approve", TRUE)}

RouteAfterEvidence(evidence) ==
    CASE evidence = "proceed"  -> "synthesizer"
      [] evidence = "escalate" -> "evidence_escalated"
      [] OTHER                 -> "evidence_rejected"

\* reached the cap, including the round that would exceed it
OverCapByOne(count) == count > MaxRevisions

CapReached(count) == count >= MaxRevisions

RouteAfterAnswer(decision, count) ==
    CASE decision.action = "approve"  -> "finalize"
      [] decision.action = "revise"   -> IF CapReached(count)
                                         THEN "answer_rejected"
                                         ELSE "revise_answer"
      [] decision.action = "escalate" -> "answer_escalated"
      [] OTHER                        -> "answer_rejected"

-----------------------------------------------------------------------------
VARIABLES
    \* the run: its checkpoint, and its place in the node being executed
    at,          \* the next node
    running,     \* an invocation is executing the node
    step,        \* the next effect of the node
    \* the graph state of the run
    doc,         \* document_id, None when the caller gave none
    route, hits, \* route; whether graph_hits is non-empty
    memory,      \* conversation_history: positions in the transcript
    decision,    \* answer_decision
    rounds,      \* answer_revision_count
    draft,       \* draft_answer, named by the round that wrote it
    \* the contract graph
    jobStatus, answer, approvals, refusals, audit, precedents,
    \* SQL
    chat,        \* chat_message rows in order of created_at
    cleared,     \* document.chat_cleared_at, a position in the transcript
    failures

run    == <<at, running, step>>
state  == <<doc, route, hits, memory, decision, rounds, draft>>
neo4j  == <<jobStatus, answer, approvals, refusals, audit, precedents>>
sql    == <<chat, cleared>>
vars   == <<at, running, step, doc, route, hits, memory, decision, rounds, draft,
            jobStatus, answer, approvals, refusals, audit, precedents,
            chat, cleared, failures>>

\* the text an approval may put in place of the draft
Edited == 0
Texts == {Edited} \union (1 .. MaxRevisions + 1)

ASSUME NoneOK == None \notin Texts /\ None \notin JobStatus

Init ==
    /\ at = [t \in Threads |-> "none"]
    /\ running = [t \in Threads |-> FALSE]
    /\ step = [t \in Threads |-> 1]
    /\ doc = [t \in Threads |-> None]
    /\ route = [t \in Threads |-> None]
    /\ hits = [t \in Threads |-> FALSE]
    /\ memory = [t \in Threads |-> {}]
    /\ decision = [t \in Threads |-> None]
    /\ rounds = [t \in Threads |-> 0]
    /\ draft = [t \in Threads |-> None]
    /\ jobStatus = [t \in Threads |-> None]
    /\ answer = [t \in Threads |-> None]
    /\ approvals = [t \in Threads |-> 0]
    /\ refusals = [t \in Threads |-> 0]
    /\ audit = [t \in Threads |-> {}]
    /\ precedents = [t \in Threads |-> {}]
    /\ chat = << >>
    /\ cleared = [d \in Documents |-> 0]
    /\ failures = 0

WorkerFree == Cardinality({t \in Threads : running[t]}) < Workers

\* an invocation takes up the node n of thread t
Enter(t, n) ==
    /\ at' = [at EXCEPT ![t] = n]
    /\ running' = [running EXCEPT ![t] = TRUE]
    /\ step' = [step EXCEPT ![t] = 1]

-----------------------------------------------------------------------------
(***************************************************************************)
(* Requests: ask a question, decide at a checkpoint, clear the chat.       *)
(***************************************************************************)
StartQueryJob(t) ==
    /\ at[t] = "none"
    /\ WorkerFree
    /\ Enter(t, "start_job")
    /\ \E d \in Documents \union {None} : doc' = [doc EXCEPT ![t] = d]
    /\ UNCHANGED <<route, hits, memory, decision, rounds, draft, neo4j, sql,
                   failures>>

ReviewEvidence(t) ==
    /\ at[t] = "evidence_checkpoint"
    /\ WorkerFree
    /\ \E e \in Evidence : Enter(t, RouteAfterEvidence(e))
    /\ UNCHANGED <<state, neo4j, sql, failures>>

ReviewAnswer(t) ==
    /\ at[t] = "answer_checkpoint"
    /\ WorkerFree
    /\ \E d \in Decisions :
         /\ decision' = [decision EXCEPT ![t] = d]
         /\ Enter(t, RouteAfterAnswer(d, rounds[t]))
    /\ UNCHANGED <<doc, route, hits, memory, rounds, draft, neo4j, sql, failures>>

(***************************************************************************)
(* A resume of a run whose last invocation raised executes the failed node *)
(* once more; the decision it carries is dropped.  The caller learns a     *)
(* thread's id with its first pause, so a run that raised before it is     *)
(* never resumed.                                                          *)
(***************************************************************************)
RetryWithNewDecision(t) ==
    /\ at[t] \in WorkNodes \ Gathering
    /\ ~running[t]
    /\ WorkerFree
    /\ \E d \in Decisions :
         /\ decision' = [decision EXCEPT ![t] = d]
         /\ Enter(t, IF at[t] \in {"answer_rejected", "answer_escalated", "finalize"}
                     THEN RouteAfterAnswer(d, rounds[t]) ELSE at[t])
    /\ UNCHANGED <<doc, route, hits, memory, rounds, draft, neo4j, sql, failures>>

RetryNode(t) ==
    /\ at[t] \in WorkNodes \ Gathering
    /\ ~running[t]
    /\ WorkerFree
    /\ Enter(t, at[t])
    /\ UNCHANGED <<state, neo4j, sql, failures>>

ClearChatHistory(d) ==
    /\ cleared[d] < Len(chat)
    /\ cleared' = [cleared EXCEPT ![d] = Len(chat)]
    /\ UNCHANGED <<run, state, neo4j, chat, failures>>

-----------------------------------------------------------------------------
(***************************************************************************)
(* Effects.                                                                *)
(***************************************************************************)
Performs(t, effect) ==
    /\ running[t]
    /\ step[t] <= Len(Effects(at[t]))
    /\ Effects(at[t])[step[t]] = effect
    /\ step' = [step EXCEPT ![t] = @ + 1]
    /\ UNCHANGED <<at, running>>

CreateQueryJob(t) ==
    /\ Performs(t, "create_job")
    /\ jobStatus' = [jobStatus EXCEPT ![t] = "processing"]
    /\ UNCHANGED <<state, answer, approvals, refusals, audit, precedents, sql,
                   failures>>

\* an audit row is named by its node; a revision's also by its round
AuditRow(t) ==
    [node |-> at[t],
     round |-> IF at[t] = "revise_answer" THEN rounds[t] + 1 ELSE 0]

WriteAuditRecord(t) ==
    /\ Performs(t, "audit")
    /\ audit' = [audit EXCEPT ![t] = @ \union {AuditRow(t)}]
    /\ UNCHANGED <<state, jobStatus, answer, approvals, refusals, precedents, sql,
                   failures>>

CreateReviewerDecision(t) ==
    /\ Performs(t, "decision")
    /\ IF at[t] = "finalize"
       THEN approvals' = [approvals EXCEPT ![t] = @ + 1] /\ UNCHANGED refusals
       ELSE refusals' = [refusals EXCEPT ![t] = @ + 1] /\ UNCHANGED approvals
    /\ UNCHANGED <<state, jobStatus, answer, audit, precedents, sql, failures>>

UpdateJobStatus(t) ==
    /\ Performs(t, "status")
    /\ jobStatus' = [jobStatus EXCEPT ![t] = Verdict(at[t])]
    /\ UNCHANGED <<state, answer, approvals, refusals, audit, precedents, sql,
                   failures>>

FinalAnswer(t) == IF decision[t].edited THEN Edited ELSE draft[t]

StoreQueryAnswer(t) ==
    /\ Performs(t, "answer")
    /\ answer' = [answer EXCEPT ![t] = FinalAnswer(t)]
    /\ UNCHANGED <<state, jobStatus, approvals, refusals, audit, precedents, sql,
                   failures>>

RecordAnsweredQuestion(t) ==
    /\ Performs(t, "precedent")
    /\ precedents' = [precedents EXCEPT ![t] = @ \union {FinalAnswer(t)}]
    /\ UNCHANGED <<state, jobStatus, answer, approvals, refusals, audit, sql,
                   failures>>

ChatMessageOfDraft(t) ==
    [doc |-> doc[t], thread |-> t, status |-> Verdict(at[t]), answer |-> draft[t]]

\* the turn as the transcript keeps it; evidence that was turned down has no answer
ChatMessage(t) ==
    [doc |-> doc[t], thread |-> t, status |-> Verdict(at[t]),
     answer |-> IF at[t] = "finalize" THEN FinalAnswer(t) ELSE draft[t]]

\* nothing without a document; an error of the database is swallowed
PersistChatMessage(t) ==
    /\ Performs(t, "chat")
    /\ \/ /\ doc[t] = None
          /\ UNCHANGED <<chat, failures>>
       \/ /\ doc[t] # None
          /\ chat' = Append(chat, ChatMessage(t))
          /\ UNCHANGED failures
       \/ /\ doc[t] # None
          /\ failures < MaxFailures
          /\ failures' = failures + 1
          /\ UNCHANGED chat
    /\ UNCHANGED <<state, neo4j, cleared>>

-----------------------------------------------------------------------------
(***************************************************************************)
(* The end of a node: its result is checkpointed with the node that is     *)
(* next.  At a pause, and at the end, the invocation returns.              *)
(***************************************************************************)
Completes(t, node, next) ==
    /\ running[t]
    /\ at[t] = node
    /\ step[t] > Len(Effects(node))
    /\ at' = [at EXCEPT ![t] = next]
    /\ step' = [step EXCEPT ![t] = 1]
    /\ running' = [running EXCEPT ![t] = next \in WorkNodes]

\* get_chat_history and start_job's filter: the last answered turns of the
\* document since its chat was cleared
AnyTurn(d) == {k \in DOMAIN chat : k > cleared[d] /\ chat[k].doc = d}
AnsweredTurns(d) ==
    {k \in DOMAIN chat :
        k > cleared[d] /\ chat[k].doc = d /\ chat[k].status = "answered"}

ConversationHistory(d) ==
    IF d = None THEN {}
    ELSE {k \in AnsweredTurns(d) :
            Cardinality({j \in AnsweredTurns(d) : j > k}) < MaxTurns}

\* reading the history may fail; the question is then asked without it
CompleteStartJob(t) ==
    /\ Completes(t, "start_job", "router")
    /\ \/ /\ memory' = [memory EXCEPT ![t] = ConversationHistory(doc[t])]
          /\ UNCHANGED failures
       \/ /\ doc[t] # None
          /\ failures < MaxFailures
          /\ failures' = failures + 1
          /\ UNCHANGED memory
    /\ UNCHANGED <<doc, route, hits, decision, rounds, draft, neo4j, sql>>

CompleteRouter(t) ==
    \E r \in Routes :
      /\ Completes(t, "router", IF r = "direct" THEN "standards_lookup"
                                                ELSE "retrieval")
      /\ route' = [route EXCEPT ![t] = r]
      /\ UNCHANGED <<doc, hits, memory, decision, rounds, draft, neo4j, sql,
                     failures>>

CompleteRetrieval(t) ==
    /\ Completes(t, "retrieval", "standards_lookup")
    /\ \E found \in BOOLEAN :
         hits' = [hits EXCEPT ![t] = found /\ route[t] = "graph"]
    /\ UNCHANGED <<doc, route, memory, decision, rounds, draft, neo4j, sql,
                   failures>>

CompleteEvidence(t) ==
    /\ \/ Completes(t, "standards_lookup", "auditor")
       \/ Completes(t, "auditor", "evidence_checkpoint")
    /\ UNCHANGED <<state, neo4j, sql, failures>>

CompleteSynthesizer(t) ==
    /\ Completes(t, "synthesizer", "answer_checkpoint")
    /\ draft' = [draft EXCEPT ![t] = 1]
    /\ UNCHANGED <<doc, route, hits, memory, decision, rounds, neo4j, sql,
                   failures>>

SameRound(t) == rounds[t]
NextRound(t) == rounds[t] + 1

CompleteReviseAnswer(t) ==
    /\ Completes(t, "revise_answer", "answer_checkpoint")
    /\ rounds' = [rounds EXCEPT ![t] = NextRound(t)]
    /\ draft' = [draft EXCEPT ![t] = NextRound(t) + 1]
    /\ UNCHANGED <<doc, route, hits, memory, decision, neo4j, sql, failures>>

WritesBack(t) == route[t] = "graph" /\ hits[t]

CompleteClosing(t) ==
    /\ \/ Completes(t, "finalize", IF WritesBack(t) THEN "graph_update" ELSE "end")
       \/ Completes(t, "graph_update", "end")
       \/ \E node \in Refusing : Completes(t, node, "end")
    /\ UNCHANGED <<state, neo4j, sql, failures>>

-----------------------------------------------------------------------------
(***************************************************************************)
(* Failures.  A node raises between two effects: the caller gets a 500.    *)
(* A restart loses every checkpoint kept in memory.                        *)
(***************************************************************************)
NodeRaises(t) ==
    /\ running[t]
    /\ failures < MaxFailures
    /\ failures' = failures + 1
    /\ running' = [running EXCEPT ![t] = FALSE]
    /\ step' = [step EXCEPT ![t] = 1]
    /\ UNCHANGED <<at, state, neo4j, sql>>

Restart ==
    /\ ~Durable
    /\ failures < MaxFailures
    /\ failures' = failures + 1
    /\ at' = [t \in Threads |-> IF at[t] = "none" THEN "none" ELSE "lost"]
    /\ running' = [t \in Threads |-> FALSE]
    /\ step' = [t \in Threads |-> 1]
    /\ UNCHANGED <<state, neo4j, sql>>

Execute(t) ==
    \/ CreateQueryJob(t) \/ WriteAuditRecord(t) \/ CreateReviewerDecision(t)
    \/ UpdateJobStatus(t) \/ StoreQueryAnswer(t) \/ RecordAnsweredQuestion(t)
    \/ PersistChatMessage(t)
    \/ CompleteStartJob(t) \/ CompleteRouter(t) \/ CompleteRetrieval(t)
    \/ CompleteEvidence(t) \/ CompleteSynthesizer(t) \/ CompleteReviseAnswer(t)
    \/ CompleteClosing(t)

Resume(t) == ReviewEvidence(t) \/ ReviewAnswer(t) \/ RetryNode(t)

Next ==
    \/ \E t \in Threads :
         StartQueryJob(t) \/ Resume(t) \/ Execute(t) \/ NodeRaises(t)
    \/ \E d \in Documents : ClearChatHistory(d)
    \/ Restart

Spec == Init /\ [][Next]_vars

(***************************************************************************)
(* An invocation runs until it returns or raises.  Reviewers come back to  *)
(* every question they were shown, so a worker takes each resume in turn.  *)
(***************************************************************************)
FairSpec ==
    /\ Spec
    /\ \A t \in Threads : WF_vars(Execute(t)) /\ SF_vars(Resume(t))

-----------------------------------------------------------------------------
(***************************************************************************)
(* Properties.                                                             *)
(***************************************************************************)
ChatRow == [doc : Documents, thread : Threads, status : JobStatus,
            answer : Texts \union {None}]

AuditRows == [node : WorkNodes, round : 0 .. MaxRevisions]

\* Every part of the state holds a value of its kind.
TypeOK ==
    /\ at \in [Threads -> Nodes]
    /\ running \in [Threads -> BOOLEAN]
    /\ step \in [Threads -> Nat \ {0}]
    /\ doc \in [Threads -> Documents \union {None}]
    /\ route \in [Threads -> Routes \union {None}]
    /\ hits \in [Threads -> BOOLEAN]
    /\ memory \in [Threads -> SUBSET DOMAIN chat]
    /\ decision \in [Threads -> Decisions \union {None}]
    /\ rounds \in [Threads -> 0 .. MaxRevisions]
    /\ draft \in [Threads -> Texts \union {None}]
    /\ jobStatus \in [Threads -> JobStatus \union {None}]
    /\ answer \in [Threads -> Texts \union {None}]
    /\ approvals \in [Threads -> Nat]
    /\ refusals \in [Threads -> Nat]
    /\ audit \in [Threads -> SUBSET AuditRows]
    /\ precedents \in [Threads -> SUBSET Texts]
    /\ chat \in Seq(ChatRow)
    /\ cleared \in [Documents -> 0 .. Len(chat)]
    /\ failures \in 0 .. MaxFailures

AuditedAt(t, node) == [node |-> node, round |-> 0] \in audit[t]

\* The contract graph never contradicts itself about a question, in whatever
\* place an invocation broke off and was retried: an answered job has an
\* approval, its audit row and its answer, and no refusal; a refused job has a
\* refusal and neither approval, answer nor precedent (the write order of
\* finalize_node and of the four closing nodes).
VerdictIsBacked ==
    \A t \in Threads :
        /\ jobStatus[t] = "answered" =>
             /\ approvals[t] > 0 /\ refusals[t] = 0
             /\ answer[t] # None /\ AuditedAt(t, "finalize")
        /\ jobStatus[t] \in Refused =>
             /\ refusals[t] > 0 /\ approvals[t] = 0
             /\ answer[t] = None /\ precedents[t] = {}

\* The answer in the transcript, the answer of the job and the answer of the
\* precedent are one text, the reviewer's edit included, also when the node
\* that writes them ran more than once.
AnswersAgree ==
    /\ \A t \in Threads : precedents[t] \subseteq {answer[t]}
    /\ \A k \in DOMAIN chat :
         chat[k].status = "answered" => chat[k].answer = answer[chat[k].thread]

\* What a question remembers was asked about the same document by a question
\* the contract graph shows as answered, and no more than the last turns: a
\* rejected, escalated or half-finished one never shapes the next.
RemembersAnswersOnly ==
    \A t \in Threads :
        /\ \A k \in memory[t] :
             /\ chat[k].doc = doc[t]
             /\ jobStatus[chat[k].thread] = "answered"
        /\ Cardinality(memory[t]) <= MaxTurns

\* However often a revision is asked for and retried, the drafts stay within
\* the cap, and every round that counts has its audit row.
RevisionsCappedAndAudited ==
    \A t \in Threads :
        /\ rounds[t] <= MaxRevisions
        /\ draft[t] # None => draft[t] = rounds[t] + 1
        /\ \A r \in 1 .. rounds[t] :
             [node |-> "revise_answer", round |-> r] \in audit[t]

TurnsOf(t) == {k \in DOMAIN chat : chat[k].thread = t}

\* A run that came to its end is on record everywhere: its job is closed, the
\* node that closed it is in the audit trail, and, unless something failed, the
\* transcript has exactly this turn of it, with the job's status.
EndedRunIsOnRecord ==
    \A t \in Threads : at[t] = "end" =>
        /\ \E node \in Refusing \union {"finalize"} :
             Verdict(node) = jobStatus[t] /\ AuditedAt(t, node)
        /\ \A k \in TurnsOf(t) : chat[k].status = jobStatus[t]
        /\ failures = 0 /\ doc[t] # None => Cardinality(TurnsOf(t)) = 1

\* Once the contract graph shows a verdict, no step changes it: a retry of the
\* closing node repeats the verdict, whatever the retrying reviewer sends.
VerdictIsFinal ==
    [][\A t \in Threads :
        jobStatus[t] \in Refused \union {"answered"} =>
            jobStatus'[t] = jobStatus[t]]_vars

\* The graph as a ledger of verdicts, memories and precedents.
ledgerVerdict ==
    [t \in Threads |-> CASE jobStatus[t] = "answered" -> "answered"
                         [] jobStatus[t] \in Refused  -> "refused"
                         [] OTHER                     -> "open"]
ledgerContext == [t \in Threads |-> {chat[k].thread : k \in memory[t]}]
ledgerPrecedent == {t \in Threads : precedents[t] # {}}

Ledger == INSTANCE ReviewLedger
            WITH Questions <- Threads, verdict <- ledgerVerdict,
                 context <- ledgerContext, precedent <- ledgerPrecedent

\* The pipeline settles a question once, writes back only answered questions
\* and grounds a question only in questions answered before it.
ImplementsLedger == Ledger!LedgerSpec

\* A question that reached a reviewer is closed in the end, or lost with the
\* process: the cap ends the revisions, and a failed node can be retried.
ReviewedQuestionCloses ==
    \A t \in Threads :
        at[t] = "evidence_checkpoint" ~> at[t] \in {"end", "lost"}
=============================================================================
