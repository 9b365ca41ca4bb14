------------------------- MODULE QueryReviewProofs --------------------------
(***************************************************************************)
(* What holds of the question-answering graph for every number of          *)
(* questions, documents, workers, revisions, remembered turns and failures.*)
(*                                                                         *)
(* The argument: a closing node is entered once, with the decision that    *)
(* chose it, and from then on the checkpoint sends every retry into the    *)
(* same node with the same decision.  What the stores hold of a question   *)
(* is therefore a function of the node it is at and of the effects that    *)
(* node has done, up to effects an earlier attempt did already.            *)
(***************************************************************************)
EXTENDS QueryReview, TLAPS, FiniteSetTheorems, SequenceTheorems,
        WellFoundedInduction

\* Nodes a question is at before a closing decision was taken.
Undecided == {"none"} \union Gathering \union Pauses \union Drafting

\* Nodes a question is at before a draft was written.
BeforeDraft == {"none", "evidence_checkpoint", "synthesizer",
                "evidence_rejected", "evidence_escalated"} \union Gathering

\* Only a node is executed; a node at rest was left by an error.
PlaceSound(t) ==
    /\ running[t] => at[t] \in WorkNodes
    /\ ~running[t] => step[t] = 1
    /\ at[t] \in WorkNodes /\ ~running[t] => failures > 0
    /\ at[t] = "lost" => failures > 0

RevisionRow(r) == [node |-> "revise_answer", round |-> r]

\* The draft is named by the round; the round being written is on record as
\* soon as its node did its one effect.
DraftSound(t) ==
    /\ at[t] \in BeforeDraft => draft[t] = None /\ rounds[t] = 0
    /\ at[t] \in Nodes \ (BeforeDraft \union {"end", "lost"}) => draft[t] # None
    /\ draft[t] # None => draft[t] = rounds[t] + 1
    /\ at[t] = "revise_answer" =>
         /\ rounds[t] < MaxRevisions
         /\ step[t] > 1 => RevisionRow(rounds[t] + 1) \in audit[t]
    /\ \A r \in 1 .. rounds[t] : RevisionRow(r) \in audit[t]

\* An approval is what leads to finalize, and it stays until the end.
DecisionSound(t) ==
    at[t] \in Approving =>
        decision[t] \in Decisions /\ decision[t].action = "approve"

\* Nothing is on record of a question that was not decided on.
OpenSound(t) ==
    at[t] \in Undecided =>
        /\ jobStatus[t] \in {None, "processing"}
        /\ approvals[t] = 0 /\ refusals[t] = 0
        /\ answer[t] = None /\ precedents[t] = {}

\* A node that refuses: its effects in their order.
RefusalSound(t) ==
    at[t] \in Refusing =>
        /\ approvals[t] = 0 /\ answer[t] = None /\ precedents[t] = {}
        /\ jobStatus[t] \in {None, "processing", Verdict(at[t])}
        /\ step[t] > 1 => refusals[t] > 0
        /\ step[t] > 2 => jobStatus[t] = Verdict(at[t])
        /\ step[t] > 3 => AuditedAt(t, at[t])

\* finalize: its effects in their order; graph_update comes after them.
ApprovalSound(t) ==
    /\ at[t] = "finalize" =>
         /\ refusals[t] = 0 /\ precedents[t] = {}
         /\ jobStatus[t] \in {None, "processing", "answered"}
         /\ answer[t] \in {None, FinalAnswer(t)}
         /\ step[t] > 1 => approvals[t] > 0
         /\ step[t] > 2 => AuditedAt(t, "finalize")
         /\ step[t] > 3 => answer[t] = FinalAnswer(t)
         /\ step[t] > 4 => jobStatus[t] = "answered"
    /\ at[t] = "graph_update" =>
         jobStatus[t] = "answered" /\ answer[t] = FinalAnswer(t)

\* The conjuncts of VerdictIsBacked and AnswersAgree for one question.
Backed(t) ==
    /\ jobStatus[t] = "answered" =>
         /\ approvals[t] > 0 /\ refusals[t] = 0
         /\ answer[t] # None /\ AuditedAt(t, "finalize")
    /\ jobStatus[t] \in Refused =>
         /\ refusals[t] > 0 /\ approvals[t] = 0
         /\ answer[t] = None /\ precedents[t] = {}
    /\ precedents[t] \subseteq {answer[t]}

\* A run at its end was closed by a node that is in the audit trail.
EndSound(t) ==
    at[t] = "end" =>
        \E node \in Refusing \union {"finalize"} :
            Verdict(node) = jobStatus[t] /\ AuditedAt(t, node)

\* The one place where a question reads the transcript.
MemorySound(t) ==
    /\ at[t] \in {"none", "start_job"} => memory[t] = {}
    /\ \A k \in memory[t] :
         /\ chat[k].doc = doc[t]
         /\ jobStatus[chat[k].thread] = "answered"
    /\ Cardinality(memory[t]) <= MaxTurns

\* The node that closes the question has written its turn.
TurnWritten(t) ==
    \/ at[t] \in {"graph_update", "end"}
    \/ at[t] \in Refusing /\ step[t] > 4
    \/ at[t] = "finalize" /\ step[t] > 5

\* Without a failure a question about a document leaves one turn.
TurnSound(t) ==
    failures = 0 /\ doc[t] # None =>
        IF TurnWritten(t)
        THEN \E k \in DOMAIN chat : TurnsOf(t) = {k}
        ELSE TurnsOf(t) = {}

\* A turn has the status of its job, and an answered one its answer.
ChatSound ==
    \A k \in DOMAIN chat :
        /\ chat[k].status \in Refused \union {"answered"}
        /\ chat[k].status = jobStatus[chat[k].thread]
        /\ chat[k].status = "answered" => chat[k].answer = answer[chat[k].thread]

\* What is known of the records of one question.
RecordSound(t) ==
    /\ OpenSound(t) /\ RefusalSound(t) /\ ApprovalSound(t)
    /\ Backed(t) /\ EndSound(t)

RunsSound ==
    \A t \in Threads : PlaceSound(t) /\ DraftSound(t) /\ DecisionSound(t)

RecordsSound == \A t \in Threads : RecordSound(t)

TranscriptSound == ChatSound /\ \A t \in Threads : MemorySound(t)

TurnsSound == \A t \in Threads : TurnSound(t)

\* The inductive invariant.
ReviewInv ==
    /\ TypeOK
    /\ RunsSound
    /\ RecordsSound
    /\ TranscriptSound
    /\ TurnsSound

-----------------------------------------------------------------------------
(***************************************************************************)
(* The lists of effects, read as where each effect stands.                 *)
(***************************************************************************)
\* How many effects each node has.
LEMMA EffectCounts ==
  /\ \A n \in Refusing : Len(Effects(n)) = 4
  /\ Len(Effects("finalize")) = 5
  /\ Len(Effects("start_job")) = 2
  /\ Len(Effects("graph_update")) = 2
  /\ Len(Effects("standards_lookup")) = 0
  /\ \A n \in {"router", "retrieval", "auditor"} \union Drafting :
       Len(Effects(n)) = 1
BY DEF Effects, Refusing, Drafting, ClosingEffects, FinalizeEffects

\* A refusal and an approval write the same kinds of effect in other places;
\* every other kind of effect belongs to one node.
LEMMA EffectPlaces ==
  ASSUME NEW n \in WorkNodes, NEW k \in Nat \ {0}, k <= Len(Effects(n))
  PROVE  /\ Effects(n)[k] = "create_job" => n = "start_job" /\ k = 1
         /\ Effects(n)[k] = "decision" =>
              n \in Refusing \union {"finalize"} /\ k = 1
         /\ Effects(n)[k] = "status" =>
              (n \in Refusing /\ k = 2) \/ (n = "finalize" /\ k = 4)
         /\ Effects(n)[k] = "answer" => n = "finalize" /\ k = 3
         /\ Effects(n)[k] = "precedent" => n = "graph_update" /\ k = 1
         /\ Effects(n)[k] = "chat" =>
              (n \in Refusing /\ k = 4) \/ (n = "finalize" /\ k = 5)
         /\ Effects(n)[k] = "audit" =>
              \/ n \in Refusing /\ k = 3
              \/ n \in {"finalize", "start_job", "graph_update"} /\ k = 2
              \/ n \in {"router", "retrieval", "auditor"} \union Drafting /\ k = 1
<1>1. CASE n \in Refusing
  <2>1. Effects(n) = ClosingEffects
    <3>1. n \notin {"start_job", "standards_lookup", "finalize", "graph_update"}
      BY <1>1 DEF Refusing
    <3> QED
      BY <1>1, <3>1 DEF Effects
  <2>2. k \in {1, 2, 3, 4}
    <3>1. Len(Effects(n)) = 4
      BY <1>1, EffectCounts
    <3> QED
      BY <3>1
  <2>3. CASE k = 1
    BY <1>1, <2>1, <2>3 DEF ClosingEffects
  <2>4. CASE k = 2
    BY <1>1, <2>1, <2>4 DEF ClosingEffects
  <2>5. CASE k = 3
    BY <1>1, <2>1, <2>5 DEF ClosingEffects
  <2>6. CASE k = 4
    BY <1>1, <2>1, <2>6 DEF ClosingEffects
  <2> QED
    BY <2>2, <2>3, <2>4, <2>5, <2>6
<1>2. CASE n = "finalize"
  BY <1>2, EffectCounts DEF Effects, Refusing, FinalizeEffects
<1>3. CASE n = "start_job"
  <2>1. Effects(n) = <<"create_job", "audit">> /\ Len(Effects(n)) = 2
    BY <1>3, EffectCounts DEF Effects, Refusing
  <2>2. k = 1 \/ k = 2
    BY <2>1
  <2> QED
    BY <1>3, <2>1, <2>2
<1>4. CASE n = "graph_update"
  BY <1>4, EffectCounts DEF Effects, Refusing
<1>5. CASE n = "standards_lookup"
  BY <1>5, EffectCounts
<1>6. CASE n \in {"router", "retrieval", "auditor"} \union Drafting
  <2>1. Effects(n) = <<"audit">> /\ Len(Effects(n)) = 1
    BY <1>6, EffectCounts DEF Effects, Drafting, Refusing
  <2>2. k = 1
    BY <2>1
  <2> QED
    BY <1>6, <2>1, <2>2
<1> QED
  BY <1>1, <1>2, <1>3, <1>4, <1>5, <1>6
  DEF WorkNodes, Gathering, Drafting, Approving

\* Where a node stands when it performs an effect of a given kind.
LEMMA EffectPerformed ==
  ASSUME TypeOK, RunsSound, NEW t \in Threads, NEW e, Performs(t, e)
  PROVE  /\ running[t] /\ at[t] \in WorkNodes /\ step[t] \in Nat \ {0}
         /\ e = "create_job" => at[t] = "start_job"
         /\ e = "decision" =>
              at[t] \in Refusing \union {"finalize"} /\ step[t] = 1
         /\ e = "status" => \/ at[t] \in Refusing /\ step[t] = 2
                            \/ at[t] = "finalize" /\ step[t] = 4
         /\ e = "answer" => at[t] = "finalize" /\ step[t] = 3
         /\ e = "precedent" => at[t] = "graph_update" /\ step[t] = 1
         /\ e = "chat" => \/ at[t] \in Refusing /\ step[t] = 4
                          \/ at[t] = "finalize" /\ step[t] = 5
         /\ e = "audit" =>
              \/ at[t] \in Refusing /\ step[t] = 3
              \/ at[t] \in {"finalize", "start_job", "graph_update"}
                 /\ step[t] = 2
              \/ at[t] \in {"router", "retrieval", "auditor"} \union Drafting
                 /\ step[t] = 1
<1>1. running[t] /\ at[t] \in WorkNodes /\ step[t] \in Nat \ {0}
  BY DEF Performs, RunsSound, PlaceSound, TypeOK
<1>2. step[t] <= Len(Effects(at[t])) /\ Effects(at[t])[step[t]] = e
  BY DEF Performs
<1> QED
  BY <1>1, <1>2, EffectPlaces

-----------------------------------------------------------------------------
\* Everything that belongs to one question.
SameQuestion(t) ==
    /\ at'[t] = at[t] /\ running'[t] = running[t] /\ step'[t] = step[t]
    /\ doc'[t] = doc[t] /\ route'[t] = route[t] /\ hits'[t] = hits[t]
    /\ memory'[t] = memory[t] /\ decision'[t] = decision[t]
    /\ rounds'[t] = rounds[t] /\ draft'[t] = draft[t]
    /\ jobStatus'[t] = jobStatus[t] /\ answer'[t] = answer[t]
    /\ approvals'[t] = approvals[t] /\ refusals'[t] = refusals[t]
    /\ audit'[t] = audit[t] /\ precedents'[t] = precedents[t]

\* A step of an invocation, or of the request that starts one.
Advance(t) == StartQueryJob(t) \/ Resume(t) \/ Execute(t) \/ NodeRaises(t)

\* A step of one question leaves every other question alone.
LEMMA OthersUntouched ==
  ASSUME TypeOK, NEW t \in Threads, NEW u \in Threads \ {t}, Advance(t)
  PROVE  SameQuestion(u)
<1> USE DEF TypeOK, SameQuestion, state, neo4j
<1>1. CASE StartQueryJob(t)
  BY <1>1 DEF StartQueryJob, Enter
<1>2. CASE Resume(t)
  BY <1>2 DEF Resume, ReviewEvidence, ReviewAnswer, RetryNode, Enter
<1>3. CASE \/ CreateQueryJob(t) \/ WriteAuditRecord(t)
           \/ CreateReviewerDecision(t) \/ UpdateJobStatus(t)
           \/ StoreQueryAnswer(t) \/ RecordAnsweredQuestion(t)
           \/ PersistChatMessage(t)
  BY <1>3, SMTT(30)
  DEF Performs, CreateQueryJob, WriteAuditRecord, CreateReviewerDecision,
      UpdateJobStatus, StoreQueryAnswer, RecordAnsweredQuestion,
      PersistChatMessage
<1>4. CASE \/ CompleteStartJob(t) \/ CompleteRouter(t) \/ CompleteRetrieval(t)
           \/ CompleteEvidence(t) \/ CompleteSynthesizer(t)
           \/ CompleteReviseAnswer(t) \/ CompleteClosing(t)
  BY <1>4, SMTT(30)
  DEF Completes, CompleteStartJob, CompleteRouter, CompleteRetrieval,
      CompleteEvidence, CompleteSynthesizer, CompleteReviseAnswer,
      CompleteClosing
<1>5. CASE NodeRaises(t)
  BY <1>5 DEF NodeRaises
<1> QED
  BY <1>1, <1>2, <1>3, <1>4, <1>5 DEF Advance, Execute

-----------------------------------------------------------------------------
(***************************************************************************)
(* Types.                                                                  *)
(***************************************************************************)
\* The empty stores have the right types.
LEMMA InitTypeOK == Init => TypeOK
<1> SUFFICES ASSUME Init PROVE TypeOK
  OBVIOUS
<1>1. chat \in Seq(ChatRow) /\ Len(chat) = 0
  BY DEF Init
<1>2. cleared \in [Documents -> 0 .. Len(chat)]
  BY <1>1 DEF Init
<1>3. /\ failures \in 0 .. MaxFailures
      /\ rounds \in [Threads -> 0 .. MaxRevisions]
  BY ConstantsOK DEF Init
<1>4. /\ at \in [Threads -> Nodes]
      /\ running \in [Threads -> BOOLEAN]
      /\ step \in [Threads -> Nat \ {0}]
  BY DEF Init, Nodes
<1> QED
  BY <1>1, <1>2, <1>3, <1>4 DEF Init, TypeOK

\* The text of an approved answer is a text, and there is one.
LEMMA FinalAnswerIsText ==
  ASSUME TypeOK, RunsSound, NEW t \in Threads, at[t] \in Approving
  PROVE  FinalAnswer(t) \in Texts /\ FinalAnswer(t) # None
<1>1. draft[t] \in Texts
  BY DEF RunsSound, DraftSound, TypeOK, Approving, BeforeDraft, Gathering,
         Nodes, WorkNodes
<1> QED
  BY <1>1, NoneOK DEF FinalAnswer, Texts

\* The node a reviewer's decision leads to.
LEMMA RouteAfterAnswerTargets ==
  ASSUME NEW d \in Decisions, NEW c \in Nat
  PROVE  LET n == RouteAfterAnswer(d, c) IN
         /\ n \in {"finalize", "revise_answer", "answer_rejected",
                   "answer_escalated"}
         /\ n = "finalize" => d.action = "approve"
         /\ n = "revise_answer" => c < MaxRevisions
<1> QED
  BY ConstantsOK DEF RouteAfterAnswer, CapReached

\* The end of a node leads to a node.
LEMMA CompletesTyped ==
  ASSUME TypeOK, NEW t \in Threads, NEW node, NEW next \in Nodes, Completes(t, node, next)
  PROVE  /\ at' \in [Threads -> Nodes]
         /\ running' \in [Threads -> BOOLEAN]
         /\ step' \in [Threads -> Nat \ {0}]
<1>1. /\ at \in [Threads -> Nodes] /\ running \in [Threads -> BOOLEAN]
      /\ step \in [Threads -> Nat \ {0}]
  BY DEF TypeOK
<1>2. /\ at' = [at EXCEPT ![t] = next] /\ step' = [step EXCEPT ![t] = 1]
      /\ running' = [running EXCEPT ![t] = next \in WorkNodes]
  BY DEF Completes
<1>3. at' \in [Threads -> Nodes]
  BY <1>1, <1>2
<1>4. step' \in [Threads -> Nat \ {0}]
  BY <1>1, <1>2
<1>5. running' \in [Threads -> BOOLEAN]
  BY <1>1, <1>2
<1> QED
  BY <1>3, <1>4, <1>5

\* An effect moves its run on and leaves where it stands.
LEMMA PerformsTyped ==
  ASSUME TypeOK, NEW t \in Threads, NEW e, Performs(t, e)
  PROVE  step' \in [Threads -> Nat \ {0}] /\ UNCHANGED <<at, running>>
<1>1. step \in [Threads -> Nat \ {0}]
  BY DEF TypeOK
<1>2. step' = [step EXCEPT ![t] = @ + 1] /\ UNCHANGED <<at, running>>
  BY DEF Performs
<1> QED
  BY <1>1, <1>2

\* Every part of the state keeps its type (TypeOK of the module).
LEMMA TypeStep == TypeOK /\ RunsSound /\ [Next]_vars => TypeOK'
<1> SUFFICES ASSUME TypeOK, RunsSound, [Next]_vars PROVE TypeOK'
  OBVIOUS
<1> USE ConstantsOK DEF state, neo4j, sql, run
<1>1. ASSUME NEW t \in Threads, StartQueryJob(t) PROVE TypeOK'
  BY <1>1 DEF StartQueryJob, Enter, TypeOK, Nodes, WorkNodes, Gathering
<1>2. ASSUME NEW t \in Threads, ReviewEvidence(t) PROVE TypeOK'
  <2>1. PICK e \in Evidence : Enter(t, RouteAfterEvidence(e))
    BY <1>2 DEF ReviewEvidence
  <2>2. RouteAfterEvidence(e) \in Nodes
    BY DEF RouteAfterEvidence, Nodes, WorkNodes, Drafting, Refusing
  <2> QED
    BY <1>2, <2>1, <2>2 DEF ReviewEvidence, Enter, TypeOK
<1>3. ASSUME NEW t \in Threads, ReviewAnswer(t) PROVE TypeOK'
  <2>1. PICK d \in Decisions :
          /\ decision' = [decision EXCEPT ![t] = d]
          /\ Enter(t, RouteAfterAnswer(d, rounds[t]))
    BY <1>3 DEF ReviewAnswer
  <2>2. rounds[t] \in Nat
    BY DEF TypeOK
  <2>3. RouteAfterAnswer(d, rounds[t]) \in Nodes
    BY <2>2, RouteAfterAnswerTargets
    DEF Nodes, WorkNodes, Drafting, Refusing, Approving
  <2> QED
    BY <1>3, <2>1, <2>3 DEF ReviewAnswer, Enter, TypeOK
<1>4. ASSUME NEW t \in Threads, RetryNode(t) PROVE TypeOK'
  BY <1>4 DEF RetryNode, Enter, TypeOK
<1>5. ASSUME NEW d \in Documents, ClearChatHistory(d) PROVE TypeOK'
  BY <1>5 DEF ClearChatHistory, TypeOK
<1>6. ASSUME NEW t \in Threads, CreateQueryJob(t) PROVE TypeOK'
  <2>1. jobStatus' \in [Threads -> JobStatus \union {None}]
    <3>1. jobStatus \in [Threads -> JobStatus \union {None}]
      BY DEF TypeOK
    <3> QED
      BY <1>6, <3>1 DEF CreateQueryJob, JobStatus
  <2> QED
    BY <1>6, <2>1, PerformsTyped DEF CreateQueryJob, TypeOK
<1>7. ASSUME NEW t \in Threads, WriteAuditRecord(t) PROVE TypeOK'
  <2>1. at[t] \in WorkNodes
    BY <1>7, EffectPerformed DEF WriteAuditRecord
  <2>2. at[t] = "revise_answer" => rounds[t] < MaxRevisions
    BY DEF RunsSound, DraftSound
  <2>3. AuditRow(t) \in AuditRows
    BY <2>1, <2>2 DEF AuditRow, AuditRows, TypeOK
  <2>4. audit' \in [Threads -> SUBSET AuditRows]
    <3>1. audit \in [Threads -> SUBSET AuditRows]
      BY DEF TypeOK
    <3> QED
      BY <1>7, <2>3, <3>1 DEF WriteAuditRecord
  <2> QED
    BY <1>7, <2>4, PerformsTyped DEF WriteAuditRecord, TypeOK
<1>8. ASSUME NEW t \in Threads, CreateReviewerDecision(t) PROVE TypeOK'
  <2>1. /\ approvals' \in [Threads -> Nat] /\ refusals' \in [Threads -> Nat]
        /\ step' \in [Threads -> Nat \ {0}]
    <3>1. /\ approvals \in [Threads -> Nat] /\ refusals \in [Threads -> Nat]
          /\ step \in [Threads -> Nat \ {0}]
      BY DEF TypeOK
    <3>2. step' = [step EXCEPT ![t] = @ + 1]
      BY <1>8 DEF CreateReviewerDecision, Performs
    <3>3. \/ /\ approvals' = [approvals EXCEPT ![t] = @ + 1]
             /\ refusals' = refusals
          \/ /\ refusals' = [refusals EXCEPT ![t] = @ + 1]
             /\ approvals' = approvals
      BY <1>8 DEF CreateReviewerDecision
    <3> QED
      BY <3>1, <3>2, <3>3
  <2>2. UNCHANGED <<at, running, doc, route, hits, memory, decision, rounds,
                    draft, jobStatus, answer, audit, precedents, chat, cleared,
                    failures>>
    BY <1>8 DEF CreateReviewerDecision, Performs
  <2> QED
    BY <2>1, <2>2 DEF TypeOK
<1>9. ASSUME NEW t \in Threads, UpdateJobStatus(t) PROVE TypeOK'
  <2>1. at[t] \in Refusing \union {"finalize"}
    BY <1>9, EffectPerformed DEF UpdateJobStatus
  <2>2. Verdict(at[t]) \in JobStatus
    BY <2>1 DEF Verdict, JobStatus, Refused, Refusing
  <2>3. jobStatus' \in [Threads -> JobStatus \union {None}]
    <3>1. jobStatus \in [Threads -> JobStatus \union {None}]
      BY DEF TypeOK
    <3> QED
      BY <1>9, <2>2, <3>1 DEF UpdateJobStatus
  <2> QED
    BY <1>9, <2>3, PerformsTyped DEF UpdateJobStatus, TypeOK
<1>10. ASSUME NEW t \in Threads, StoreQueryAnswer(t) PROVE TypeOK'
  <2>1. FinalAnswer(t) \in Texts
    BY <1>10, EffectPerformed, FinalAnswerIsText
    DEF StoreQueryAnswer, Approving
  <2>2. answer' \in [Threads -> Texts \union {None}]
    <3>1. answer \in [Threads -> Texts \union {None}]
      BY DEF TypeOK
    <3> QED
      BY <1>10, <2>1, <3>1 DEF StoreQueryAnswer
  <2> QED
    BY <1>10, <2>2, PerformsTyped DEF StoreQueryAnswer, TypeOK
<1>11. ASSUME NEW t \in Threads, RecordAnsweredQuestion(t) PROVE TypeOK'
  <2>1. FinalAnswer(t) \in Texts
    BY <1>11, EffectPerformed, FinalAnswerIsText
    DEF RecordAnsweredQuestion, Approving
  <2>2. precedents' \in [Threads -> SUBSET Texts]
    <3>1. precedents \in [Threads -> SUBSET Texts]
      BY DEF TypeOK
    <3> QED
      BY <1>11, <2>1, <3>1 DEF RecordAnsweredQuestion
  <2> QED
    BY <1>11, <2>2, PerformsTyped DEF RecordAnsweredQuestion, TypeOK
<1>12. ASSUME NEW t \in Threads, PersistChatMessage(t) PROVE TypeOK'
  <2>1. at[t] \in Refusing \union {"finalize"}
    BY <1>12, EffectPerformed DEF PersistChatMessage
  <2>2. Verdict(at[t]) \in JobStatus
    BY <2>1 DEF Verdict, JobStatus, Refused, Refusing
  <2>3. at[t] = "finalize" => FinalAnswer(t) \in Texts
    BY FinalAnswerIsText DEF Approving
  <2>4. doc[t] # None => ChatMessage(t) \in ChatRow
    BY <2>2, <2>3 DEF ChatMessage, ChatRow, TypeOK
  <2>5. chat' = chat \/ (doc[t] # None /\ chat' = Append(chat, ChatMessage(t)))
    BY <1>12 DEF PersistChatMessage
  <2>6. /\ chat' \in Seq(ChatRow)
        /\ Len(chat) <= Len(chat')
        /\ DOMAIN chat \subseteq DOMAIN chat'
        /\ Len(chat) \in Nat /\ Len(chat') \in Nat
    <3>1. chat \in Seq(ChatRow)
      BY DEF TypeOK
    <3>2. CASE chat' = chat
      BY <3>1, <3>2
    <3>3. CASE doc[t] # None /\ chat' = Append(chat, ChatMessage(t))
      BY <2>4, <3>1, <3>3
    <3> QED
      BY <2>5, <3>2, <3>3
  <2>7. /\ memory' \in [Threads -> SUBSET DOMAIN chat']
        /\ cleared' \in [Documents -> 0 .. Len(chat')]
    BY <1>12, <2>6 DEF PersistChatMessage, TypeOK
  <2>8. /\ step' \in [Threads -> Nat \ {0}] /\ failures' \in 0 .. MaxFailures
        /\ UNCHANGED <<at, running, doc, route, hits, decision, rounds, draft,
                       jobStatus, answer, approvals, refusals, audit,
                       precedents>>
    <3>1. step \in [Threads -> Nat \ {0}] /\ failures \in 0 .. MaxFailures
      BY DEF TypeOK
    <3>2. step' = [step EXCEPT ![t] = @ + 1] /\ UNCHANGED <<at, running>>
      BY <1>12 DEF PersistChatMessage, Performs
    <3>3. /\ failures' = failures \/ (failures < MaxFailures /\ failures' = failures + 1)
          /\ UNCHANGED <<doc, route, hits, decision, rounds, draft, jobStatus,
                         answer, approvals, refusals, audit, precedents>>
      BY <1>12 DEF PersistChatMessage
    <3>4. step' \in [Threads -> Nat \ {0}]
      BY <3>1, <3>2
    <3>5. failures' \in 0 .. MaxFailures
      BY <3>1, <3>3
    <3> QED
      BY <3>2, <3>3, <3>4, <3>5
  <2> QED
    BY <2>6, <2>7, <2>8 DEF TypeOK
<1>13. ASSUME NEW t \in Threads, CompleteStartJob(t) PROVE TypeOK'
  <2>1. ConversationHistory(doc[t]) \in SUBSET DOMAIN chat
    BY DEF ConversationHistory, AnsweredTurns
  <2>2. /\ memory' \in [Threads -> SUBSET DOMAIN chat]
        /\ failures' \in 0 .. MaxFailures
        /\ UNCHANGED <<doc, route, hits, decision, rounds, draft, neo4j, sql>>
    <3>1. memory \in [Threads -> SUBSET DOMAIN chat] /\ failures \in 0 .. MaxFailures
      BY DEF TypeOK
    <3>2. memory' \in [Threads -> SUBSET DOMAIN chat]
      BY <1>13, <2>1, <3>1 DEF CompleteStartJob
    <3>3. failures' \in 0 .. MaxFailures
      BY <1>13, <3>1 DEF CompleteStartJob
    <3> QED
      BY <1>13, <3>2, <3>3 DEF CompleteStartJob
  <2>3. "router" \in Nodes
    BY DEF Nodes, WorkNodes, Gathering
  <2> QED
    BY <1>13, <2>2, <2>3, CompletesTyped DEF CompleteStartJob, TypeOK
<1>14. ASSUME NEW t \in Threads, CompleteRouter(t) PROVE TypeOK'
  BY <1>14 DEF CompleteRouter, Completes, TypeOK, Nodes, WorkNodes, Gathering
<1>15. ASSUME NEW t \in Threads, CompleteRetrieval(t) PROVE TypeOK'
  BY <1>15
  DEF CompleteRetrieval, Completes, TypeOK, Nodes, WorkNodes, Gathering
<1>16. ASSUME NEW t \in Threads, CompleteEvidence(t) PROVE TypeOK'
  <2>1. "auditor" \in Nodes /\ "evidence_checkpoint" \in Nodes
    BY DEF Nodes, WorkNodes, Gathering, Pauses
  <2> QED
    BY <1>16, <2>1, CompletesTyped DEF CompleteEvidence, TypeOK
<1>17. ASSUME NEW t \in Threads, CompleteSynthesizer(t) PROVE TypeOK'
  <2>1. "answer_checkpoint" \in Nodes /\ 1 \in Texts
    BY DEF Nodes, Pauses, Texts
  <2>2. /\ draft' \in [Threads -> Texts \union {None}]
        /\ UNCHANGED <<doc, route, hits, memory, decision, rounds, neo4j, sql,
                       failures>>
    BY <1>17, <2>1 DEF CompleteSynthesizer, TypeOK
  <2> QED
    BY <1>17, <2>1, <2>2, CompletesTyped DEF CompleteSynthesizer, TypeOK
<1>18. ASSUME NEW t \in Threads, CompleteReviseAnswer(t) PROVE TypeOK'
  <2>1. rounds[t] < MaxRevisions
    BY <1>18 DEF CompleteReviseAnswer, Completes, RunsSound, DraftSound
  <2>2. /\ NextRound(t) \in 0 .. MaxRevisions
        /\ NextRound(t) + 1 \in Texts
    BY <2>1 DEF NextRound, Texts, TypeOK
  <2> QED
    BY <1>18, <2>2 DEF CompleteReviseAnswer, Completes, TypeOK, Nodes, Pauses
<1>19. ASSUME NEW t \in Threads, CompleteClosing(t) PROVE TypeOK'
  <2>1. PICK node \in Nodes, next \in Nodes : Completes(t, node, next)
    BY <1>19 DEF CompleteClosing, Nodes, WorkNodes, Approving
  <2>2. UNCHANGED <<state, neo4j, sql, failures>>
    BY <1>19 DEF CompleteClosing
  <2> QED
    BY <2>1, <2>2, CompletesTyped DEF TypeOK
<1>20. ASSUME NEW t \in Threads, NodeRaises(t) PROVE TypeOK'
  BY <1>20 DEF NodeRaises, TypeOK
<1>21. CASE Restart
  BY <1>21 DEF Restart, TypeOK, Nodes
<1>22. CASE UNCHANGED vars
  BY <1>22 DEF vars, TypeOK
<1> QED
  BY <1>1, <1>2, <1>3, <1>4, <1>5, <1>6, <1>7, <1>8, <1>9, <1>10, <1>11,
     <1>12, <1>13, <1>14, <1>15, <1>16, <1>17, <1>18, <1>19, <1>20, <1>21,
     <1>22
  DEF Next, Resume, Execute

-----------------------------------------------------------------------------
(***************************************************************************)
(* The place of a run, its draft and its decision.                         *)
(***************************************************************************)
RunSound(t) == PlaceSound(t) /\ DraftSound(t) /\ DecisionSound(t)

\* Failures are counted, never forgotten.
LEMMA FailuresGrow ==
  TypeOK /\ [Next]_vars => failures' \in Nat /\ failures \in Nat /\ failures <= failures'
<1> SUFFICES ASSUME TypeOK, [Next]_vars
             PROVE  failures' \in {failures, failures + 1}
  BY ConstantsOK DEF TypeOK
<1> QED
  BY DEF Next, Resume, Execute, vars, StartQueryJob, ReviewEvidence,
     ReviewAnswer, RetryNode, ClearChatHistory, CreateQueryJob,
     WriteAuditRecord, CreateReviewerDecision, UpdateJobStatus,
     StoreQueryAnswer, RecordAnsweredQuestion, PersistChatMessage,
     CompleteStartJob, CompleteRouter, CompleteRetrieval, CompleteEvidence,
     CompleteSynthesizer, CompleteReviseAnswer, CompleteClosing, NodeRaises,
     Restart

\* A question a step leaves alone stays sound.
LEMMA SameRunSound ==
  ASSUME TypeOK, RunsSound, NEW t \in Threads, SameQuestion(t),
         failures \in Nat, failures' \in Nat, failures <= failures'
  PROVE  RunSound(t)'
<1>1. PlaceSound(t) /\ DraftSound(t) /\ DecisionSound(t)
  BY DEF RunsSound
<1>2. PlaceSound(t)'
  BY <1>1 DEF PlaceSound, SameQuestion
<1>3. DraftSound(t)'
  BY <1>1 DEF DraftSound, SameQuestion
<1>4. DecisionSound(t)'
  BY <1>1 DEF DecisionSound, SameQuestion
<1> QED
  BY <1>2, <1>3, <1>4 DEF RunSound

\* The run that takes a step stays sound: one step per action.
LEMMA RunStep ==
  ASSUME TypeOK, TypeOK', RunsSound, NEW t \in Threads, Advance(t),
         failures \in Nat, failures' \in Nat, failures <= failures'
  PROVE  RunSound(t)'
<1> USE DEF state, neo4j, sql
<1>0. PlaceSound(t) /\ DraftSound(t) /\ DecisionSound(t)
  BY DEF RunsSound
<1>t. /\ at[t] \in Nodes /\ step[t] \in Nat \ {0} /\ rounds[t] \in 0 .. MaxRevisions
      /\ t \in DOMAIN at /\ t \in DOMAIN running /\ t \in DOMAIN step
      /\ t \in DOMAIN rounds /\ t \in DOMAIN draft /\ t \in DOMAIN decision
      /\ t \in DOMAIN audit
  BY DEF TypeOK
<1>s. \A n \in WorkNodes : n # "lost" /\ n # "none" /\ n # "end" /\ n \notin Pauses
  BY DEF WorkNodes, Gathering, Drafting, Refusing, Approving, Pauses
<1>1. CASE StartQueryJob(t)
  <2>1. /\ at[t] = "none" /\ at'[t] = "start_job" /\ running'[t] /\ step'[t] = 1
        /\ draft'[t] = draft[t] /\ rounds'[t] = rounds[t] /\ audit' = audit
    BY <1>1, <1>t DEF StartQueryJob, Enter
  <2>2. "start_job" \in WorkNodes
    BY DEF WorkNodes, Gathering
  <2> QED
    BY <1>0, <1>t, <1>s, <2>1, <2>2
    DEF RunSound, PlaceSound, DraftSound, DecisionSound, BeforeDraft,
        Gathering, Approving
<1>2. CASE ReviewEvidence(t)
  <2>1. /\ at[t] = "evidence_checkpoint"
        /\ at'[t] \in {"synthesizer", "evidence_escalated", "evidence_rejected"}
        /\ running'[t] /\ step'[t] = 1
        /\ draft' = draft /\ rounds' = rounds /\ audit' = audit
    BY <1>2, <1>t DEF ReviewEvidence, Enter, RouteAfterEvidence
  <2>2. at'[t] \in WorkNodes /\ at'[t] \in BeforeDraft
    BY <2>1 DEF WorkNodes, Drafting, Refusing, BeforeDraft
  <2> QED
    BY <1>0, <1>t, <1>s, <2>1, <2>2
    DEF RunSound, PlaceSound, DraftSound, DecisionSound, BeforeDraft, Approving
<1>3. CASE ReviewAnswer(t)
  <2>1. PICK d \in Decisions :
          /\ decision' = [decision EXCEPT ![t] = d]
          /\ Enter(t, RouteAfterAnswer(d, rounds[t]))
    BY <1>3 DEF ReviewAnswer
  <2>2. /\ at'[t] \in {"finalize", "revise_answer", "answer_rejected",
                       "answer_escalated"}
        /\ at'[t] = "finalize" => d.action = "approve"
        /\ at'[t] = "revise_answer" => rounds[t] < MaxRevisions
    BY <1>t, <2>1, RouteAfterAnswerTargets DEF Enter
  <2>3. /\ at[t] = "answer_checkpoint" /\ running'[t] /\ step'[t] = 1
        /\ decision'[t] = d
        /\ draft' = draft /\ rounds' = rounds /\ audit' = audit
    BY <1>3, <1>t, <2>1 DEF ReviewAnswer, Enter
  <2>4. at'[t] \in WorkNodes
    BY <2>2 DEF WorkNodes, Drafting, Refusing, Approving
  <2>5. draft[t] # None
    BY <1>0, <1>t, <2>3 DEF DraftSound, BeforeDraft, Gathering
  <2>6. at'[t] \notin BeforeDraft /\ at'[t] # "graph_update"
    BY <2>2 DEF BeforeDraft, Gathering
  <2> QED
    BY <1>0, <1>t, <1>s, <2>2, <2>3, <2>4, <2>5, <2>6
    DEF RunSound, PlaceSound, DraftSound, DecisionSound, Approving
<1>4. CASE RetryNode(t)
  <2>1. /\ at[t] \in WorkNodes /\ at' [t] = at[t] /\ running'[t] /\ step'[t] = 1
        /\ decision' = decision /\ draft' = draft /\ rounds' = rounds
        /\ audit' = audit
    BY <1>4, <1>t DEF RetryNode, Enter
  <2> QED
    BY <1>0, <1>t, <1>s, <2>1
    DEF RunSound, PlaceSound, DraftSound, DecisionSound
<1>5. CASE WriteAuditRecord(t)
  <2>1. /\ running[t] /\ at' = at /\ running' = running
        /\ decision' = decision /\ draft' = draft /\ rounds' = rounds
        /\ audit'[t] = audit[t] \union {AuditRow(t)}
    BY <1>5, <1>t DEF WriteAuditRecord, Performs
  <2>2. at[t] = "revise_answer" => AuditRow(t) = RevisionRow(rounds[t] + 1)
    BY DEF AuditRow, RevisionRow
  <2>3. DraftSound(t)'
    BY <1>0, <1>t, <2>1, <2>2 DEF DraftSound
  <2> QED
    BY <1>0, <2>1, <2>3 DEF RunSound, PlaceSound, DecisionSound
<1>6. CASE \/ CreateQueryJob(t) \/ CreateReviewerDecision(t)
           \/ UpdateJobStatus(t) \/ StoreQueryAnswer(t)
           \/ RecordAnsweredQuestion(t) \/ PersistChatMessage(t)
  <2>1. /\ running[t] /\ at' = at /\ running' = running
        /\ decision' = decision /\ draft' = draft /\ rounds' = rounds
        /\ audit' = audit
    BY <1>6
    DEF CreateQueryJob, CreateReviewerDecision, UpdateJobStatus,
        StoreQueryAnswer, RecordAnsweredQuestion, PersistChatMessage, Performs
  <2>2. at[t] # "revise_answer"
    BY <1>6, EffectPerformed
    DEF CreateQueryJob, CreateReviewerDecision, UpdateJobStatus,
        StoreQueryAnswer, RecordAnsweredQuestion, PersistChatMessage, Refusing
  <2>3. DraftSound(t)'
    BY <1>0, <2>1, <2>2 DEF DraftSound
  <2> QED
    BY <1>0, <2>1, <2>3 DEF RunSound, PlaceSound, DecisionSound
<1>7. CASE CompleteStartJob(t) \/ CompleteRouter(t) \/ CompleteRetrieval(t)
           \/ CompleteEvidence(t)
  <2>1. PICK node \in Gathering, next \in Gathering \union {"evidence_checkpoint"} :
          Completes(t, node, next)
    BY <1>7
    DEF CompleteStartJob, CompleteRouter, CompleteRetrieval, CompleteEvidence,
        Gathering
  <2>2. draft' = draft /\ rounds' = rounds /\ audit' = audit
    BY <1>7
    DEF CompleteStartJob, CompleteRouter, CompleteRetrieval, CompleteEvidence
  <2>3. /\ at[t] \in Gathering /\ at'[t] = next /\ step'[t] = 1
        /\ running'[t] = (next \in WorkNodes)
    BY <1>t, <2>1 DEF Completes
  <2>4. next \in BeforeDraft /\ at[t] \in BeforeDraft /\ next \notin Approving
        /\ next # "lost" /\ next # "revise_answer" /\ next \in Nodes
    BY <2>1, <2>3 DEF BeforeDraft, Gathering, Approving, Nodes, WorkNodes, Pauses
  <2> QED
    BY <1>0, <1>t, <2>2, <2>3, <2>4
    DEF RunSound, PlaceSound, DraftSound, DecisionSound
<1>8. CASE CompleteSynthesizer(t)
  <2>1. /\ at[t] = "synthesizer" /\ at'[t] = "answer_checkpoint" /\ step'[t] = 1
        /\ running'[t] = ("answer_checkpoint" \in WorkNodes)
        /\ draft'[t] = 1 /\ rounds' = rounds /\ audit' = audit
    BY <1>8, <1>t DEF CompleteSynthesizer, Completes
  <2>2. rounds[t] = 0
    BY <1>0, <2>1 DEF DraftSound, BeforeDraft
  <2>3. "answer_checkpoint" \notin BeforeDraft \union Approving \union WorkNodes
    BY DEF BeforeDraft, Approving, WorkNodes, Gathering, Drafting, Refusing
  <2>4. draft'[t] # None
    <3>1. 1 \in Texts
      BY ConstantsOK DEF Texts
    <3> QED
      BY <2>1, <3>1, NoneOK
  <2>5. DraftSound(t)'
    BY <1>0, <2>1, <2>2, <2>3, <2>4 DEF DraftSound
  <2> QED
    BY <1>0, <2>1, <2>3, <2>5 DEF RunSound, PlaceSound, DecisionSound
<1>9. CASE CompleteReviseAnswer(t)
  <2>1. /\ at[t] = "revise_answer" /\ at'[t] = "answer_checkpoint"
        /\ step[t] > Len(Effects("revise_answer")) /\ step'[t] = 1
        /\ running'[t] = ("answer_checkpoint" \in WorkNodes)
        /\ draft'[t] = rounds[t] + 2 /\ rounds'[t] = rounds[t] + 1
        /\ audit' = audit
    BY <1>9, <1>t DEF CompleteReviseAnswer, Completes, NextRound
  <2>2. step[t] > 1
    BY <2>1, <1>t, EffectCounts DEF Drafting
  <2>3. rounds[t] < MaxRevisions /\ RevisionRow(rounds[t] + 1) \in audit[t]
    BY <1>0, <2>1, <2>2 DEF DraftSound
  <2>4. \A r \in 1 .. rounds'[t] : RevisionRow(r) \in audit'[t]
    BY <1>0, <1>t, <2>1, <2>3 DEF DraftSound
  <2>5. "answer_checkpoint" \notin BeforeDraft \union Approving \union WorkNodes
    BY DEF BeforeDraft, Approving, WorkNodes, Gathering, Drafting, Refusing
  <2>6. draft'[t] # None
    <3>1. rounds[t] + 2 \in Texts
      BY <1>t, <2>3, ConstantsOK DEF Texts
    <3> QED
      BY <2>1, <3>1, NoneOK
  <2>7. DraftSound(t)'
    BY <1>t, <2>1, <2>4, <2>5, <2>6 DEF DraftSound
  <2> QED
    BY <1>0, <2>1, <2>5, <2>7 DEF RunSound, PlaceSound, DecisionSound
<1>10. CASE CompleteClosing(t)
  <2>1. PICK node \in Nodes, next \in {"graph_update", "end"} :
          /\ Completes(t, node, next)
          /\ next = "graph_update" => node = "finalize"
    BY <1>10 DEF CompleteClosing, Nodes, WorkNodes, Approving
  <2>2. /\ at[t] = node /\ at'[t] = next /\ step'[t] = 1
        /\ running'[t] = (next \in WorkNodes)
    BY <1>t, <2>1 DEF Completes
  <2>3. /\ decision' = decision /\ draft' = draft /\ rounds' = rounds
        /\ audit' = audit
    BY <1>10 DEF CompleteClosing
  <2>4. "graph_update" \in WorkNodes /\ "end" \notin Approving
        /\ next \notin BeforeDraft /\ "finalize" \in Approving
    BY DEF WorkNodes, Approving, BeforeDraft, Gathering
  <2>5. next = "graph_update" => draft[t] # None
    BY <1>0, <1>t, <2>1, <2>2 DEF DraftSound, BeforeDraft, Gathering
  <2> QED
    BY <1>0, <1>t, <2>1, <2>2, <2>3, <2>4, <2>5
    DEF RunSound, PlaceSound, DraftSound, DecisionSound
<1>11. CASE NodeRaises(t)
  <2>1. /\ running[t] /\ at' = at /\ ~running'[t] /\ step'[t] = 1
        /\ failures' = failures + 1
        /\ decision' = decision /\ draft' = draft /\ rounds' = rounds
        /\ audit' = audit
    BY <1>11, <1>t DEF NodeRaises
  <2> QED
    BY <1>0, <1>t, <2>1
    DEF RunSound, PlaceSound, DraftSound, DecisionSound
<1> QED
  BY <1>1, <1>2, <1>3, <1>4, <1>5, <1>6, <1>7, <1>8, <1>9, <1>10, <1>11
  DEF Advance, Resume, Execute

\* Every step keeps every run sound.
LEMMA RunsStep == TypeOK /\ TypeOK' /\ RunsSound /\ [Next]_vars => RunsSound'
<1> SUFFICES ASSUME TypeOK, TypeOK', RunsSound, [Next]_vars
             PROVE  \A u \in Threads : RunSound(u)'
  BY DEF RunsSound, RunSound
<1>1. failures \in Nat /\ failures' \in Nat /\ failures <= failures'
  BY FailuresGrow
<1>2. ASSUME NEW t \in Threads, Advance(t), NEW u \in Threads
      PROVE  RunSound(u)'
  <2>1. CASE u = t
    BY <1>1, <1>2, <2>1, RunStep
  <2>2. CASE u # t
    BY <1>1, <1>2, <2>2, OthersUntouched, SameRunSound
  <2> QED
    BY <2>1, <2>2
<1>3. CASE Restart
  <2>1. ASSUME NEW u \in Threads PROVE RunSound(u)'
    <3>1. /\ at'[u] = IF at[u] = "none" THEN "none" ELSE "lost"
          /\ ~running'[u] /\ step'[u] = 1 /\ failures' = failures + 1
          /\ draft' = draft /\ rounds' = rounds /\ audit' = audit
      BY <1>3 DEF Restart, state, neo4j
    <3>2. "none" \notin WorkNodes \union Approving
          /\ "lost" \notin WorkNodes \union Approving \union BeforeDraft
      BY DEF WorkNodes, Gathering, Drafting, Refusing, Approving, BeforeDraft
    <3>3. PlaceSound(u) /\ DraftSound(u)
      BY DEF RunsSound
    <3> QED
      BY <1>1, <3>1, <3>2, <3>3
      DEF RunSound, PlaceSound, DraftSound, DecisionSound
  <2> QED
    BY <2>1
<1>4. CASE (\E d \in Documents : ClearChatHistory(d)) \/ UNCHANGED vars
  <2>1. ASSUME NEW u \in Threads PROVE SameQuestion(u)
    BY <1>4 DEF ClearChatHistory, vars, run, state, neo4j, SameQuestion
  <2> QED
    BY <1>1, <2>1, SameRunSound
<1> QED
  BY <1>2, <1>3, <1>4 DEF Next, Advance

-----------------------------------------------------------------------------
(***************************************************************************)
(* The records of a question.                                              *)
(***************************************************************************)
\* The kinds of node exclude each other; so do the kinds of status.
LEMMA Kinds ==
  /\ \A n \in Undecided :
       n \notin Refusing \union {"finalize", "graph_update", "end"}
  /\ \A n \in Refusing :
       /\ n \notin Undecided \union {"finalize", "graph_update", "end"}
       /\ Verdict(n) \in Refused
  /\ "finalize" \notin Undecided \union Refusing
  /\ "graph_update" \notin Undecided \union Refusing
  /\ "end" \notin Undecided \union Refusing
  /\ "lost" \notin Undecided \union Refusing
  /\ Verdict("finalize") = "answered"
  /\ \A s \in Refused : s \notin {"answered", "processing", None}
  /\ None \notin {"answered", "processing"}
<1>1. \A n \in Undecided :
       n \notin Refusing \union {"finalize", "graph_update", "end"}
  BY DEF Undecided, Refusing, Gathering, Pauses, Drafting
<1>2. \A n \in Refusing :
       /\ n \notin Undecided \union {"finalize", "graph_update", "end"}
       /\ Verdict(n) \in Refused
  BY DEF Undecided, Refusing, Gathering, Pauses, Drafting, Verdict, Refused
<1>3. /\ "finalize" \notin Undecided \union Refusing
      /\ "graph_update" \notin Undecided \union Refusing
      /\ "end" \notin Undecided \union Refusing
      /\ "lost" \notin Undecided \union Refusing
  BY DEF Undecided, Refusing, Gathering, Pauses, Drafting
<1>4. /\ Verdict("finalize") = "answered"
      /\ \A s \in Refused : s \notin {"answered", "processing", None}
      /\ None \notin {"answered", "processing"}
  BY NoneOK DEF Verdict, JobStatus, Refused
<1> QED
  BY <1>1, <1>2, <1>3, <1>4

\* What RecordSound reads of a question.
SameRecords(t) ==
    /\ jobStatus'[t] = jobStatus[t] /\ answer'[t] = answer[t]
    /\ approvals'[t] = approvals[t] /\ refusals'[t] = refusals[t]
    /\ audit'[t] = audit[t] /\ precedents'[t] = precedents[t]

\* A question a step leaves alone stays on record as it was.
LEMMA SameRecordSound ==
  ASSUME RecordsSound, NEW t \in Threads, SameQuestion(t)
  PROVE  RecordSound(t)'
<1>1. RecordSound(t)
  BY DEF RecordsSound
<1>2. /\ FinalAnswer(t)' = FinalAnswer(t) /\ at'[t] = at[t] /\ step'[t] = step[t]
      /\ \A n : AuditedAt(t, n)' = AuditedAt(t, n)
      /\ SameRecords(t)
  BY DEF SameQuestion, FinalAnswer, AuditedAt, SameRecords
<1> QED
  BY <1>1, <1>2
  DEF RecordSound, OpenSound, RefusalSound, ApprovalSound, Backed, EndSound,
      SameRecords

\* The question that takes a step stays on record soundly: one step per action.
LEMMA RecordStep ==
  ASSUME TypeOK, RunsSound, RecordsSound, NEW t \in Threads, Advance(t)
  PROVE  RecordSound(t)'
<1> USE DEF state, neo4j, sql
<1>0. /\ OpenSound(t) /\ RefusalSound(t) /\ ApprovalSound(t)
      /\ Backed(t) /\ EndSound(t)
  BY DEF RecordsSound, RecordSound
<1>t. /\ at[t] \in Nodes /\ step[t] \in Nat \ {0}
      /\ approvals[t] \in Nat /\ refusals[t] \in Nat
      /\ t \in DOMAIN at /\ t \in DOMAIN step /\ t \in DOMAIN jobStatus
      /\ t \in DOMAIN answer /\ t \in DOMAIN approvals
      /\ t \in DOMAIN refusals /\ t \in DOMAIN audit /\ t \in DOMAIN precedents
      /\ t \in DOMAIN decision
  BY DEF TypeOK
<1> DEFINE NewNode(n) == at'[t] = n /\ step'[t] = 1
           SameText   == decision'[t] = decision[t] /\ draft'[t] = draft[t]
           SameNode   == at'[t] = at[t] /\ SameText
           NextEffect == SameNode /\ step'[t] = step[t] + 1
\* an undecided question goes on, or to the node that closes it
<1>1. ASSUME NEW n, at[t] \in Undecided, NewNode(n), SameRecords(t),
             n \in Undecided \union Refusing \union {"finalize"}
      PROVE  RecordSound(t)'
  <2>1. /\ jobStatus'[t] \in {None, "processing"}
        /\ approvals'[t] = 0 /\ refusals'[t] = 0
        /\ answer'[t] = None /\ precedents'[t] = {}
    BY <1>0, <1>1 DEF OpenSound, SameRecords
  <2>2. jobStatus'[t] \notin Refused \union {"answered"}
    BY <2>1, Kinds
  <2>3. Backed(t)'
    BY <2>1, <2>2 DEF Backed
  <2>4. n # "graph_update" /\ n # "end"
    BY <1>1, Kinds
  <2> QED
    BY <1>1, <2>1, <2>3, <2>4, Kinds
    DEF RecordSound, OpenSound, RefusalSound, ApprovalSound, EndSound
\* the same node is entered again
<1>2. ASSUME SameNode, step'[t] = 1, SameRecords(t)
      PROVE  RecordSound(t)'
  <2>1. /\ FinalAnswer(t)' = FinalAnswer(t)
        /\ \A n : AuditedAt(t, n)' = AuditedAt(t, n)
    BY <1>2 DEF FinalAnswer, AuditedAt, SameRecords
  <2> QED
    BY <1>0, <1>2, <2>1
    DEF RecordSound, OpenSound, RefusalSound, ApprovalSound, Backed, EndSound,
        SameRecords
<1>3. CASE StartQueryJob(t)
  <2>1. at[t] = "none" /\ NewNode("start_job") /\ SameRecords(t)
    BY <1>3, <1>t DEF StartQueryJob, Enter, SameRecords
  <2>2. "none" \in Undecided /\ "start_job" \in Undecided
    BY DEF Undecided, Gathering
  <2> QED
    BY <1>1, <2>1, <2>2
<1>4. CASE ReviewEvidence(t)
  <2>1. PICK n : /\ NewNode(n)
                 /\ n \in {"synthesizer", "evidence_escalated",
                           "evidence_rejected"}
    BY <1>4, <1>t DEF ReviewEvidence, Enter, RouteAfterEvidence
  <2>2. at[t] = "evidence_checkpoint" /\ SameRecords(t)
    BY <1>4 DEF ReviewEvidence, SameRecords
  <2>3. /\ "evidence_checkpoint" \in Undecided
        /\ n \in Undecided \union Refusing
    BY <2>1 DEF Undecided, Refusing, Drafting, Pauses
  <2> QED
    BY <1>1, <2>1, <2>2, <2>3
<1>5. CASE ReviewAnswer(t)
  <2>1. PICK d \in Decisions : Enter(t, RouteAfterAnswer(d, rounds[t]))
    BY <1>5 DEF ReviewAnswer
  <2>2. rounds[t] \in Nat
    BY DEF TypeOK
  <2>3. PICK n : /\ NewNode(n)
                 /\ n \in {"finalize", "revise_answer", "answer_rejected",
                           "answer_escalated"}
    BY <1>t, <2>1, <2>2, RouteAfterAnswerTargets DEF Enter
  <2>4. at[t] = "answer_checkpoint" /\ SameRecords(t)
    BY <1>5 DEF ReviewAnswer, SameRecords
  <2>5. /\ "answer_checkpoint" \in Undecided
        /\ n \in Undecided \union Refusing \union {"finalize"}
    BY <2>3 DEF Undecided, Refusing, Drafting, Pauses
  <2> QED
    BY <1>1, <2>3, <2>4, <2>5
<1>6. CASE RetryNode(t)
  <2>1. SameNode /\ step'[t] = 1 /\ SameRecords(t)
    BY <1>6, <1>t DEF RetryNode, Enter, SameRecords
  <2> QED
    BY <1>2, <2>1
<1>7. CASE NodeRaises(t)
  <2>1. SameNode /\ step'[t] = 1 /\ SameRecords(t)
    BY <1>7, <1>t DEF NodeRaises, SameRecords
  <2> QED
    BY <1>2, <2>1
<1>8. CASE CreateQueryJob(t)
  <2>1. /\ NextEffect /\ jobStatus'[t] = "processing"
        /\ answer'[t] = answer[t] /\ approvals'[t] = approvals[t]
        /\ refusals'[t] = refusals[t] /\ precedents'[t] = precedents[t]
    BY <1>8, <1>t DEF CreateQueryJob, Performs
  <2>2. at[t] = "start_job"
    BY <1>8, EffectPerformed DEF CreateQueryJob
  <2>3. at[t] \in Undecided
    BY <2>2 DEF Undecided, Gathering
  <2> QED
    BY <1>0, <2>1, <2>3, Kinds
    DEF RecordSound, OpenSound, RefusalSound, ApprovalSound, Backed, EndSound
<1>9. CASE WriteAuditRecord(t)
  <2>1. /\ NextEffect /\ audit'[t] = audit[t] \union {AuditRow(t)}
        /\ jobStatus'[t] = jobStatus[t] /\ answer'[t] = answer[t]
        /\ approvals'[t] = approvals[t] /\ refusals'[t] = refusals[t]
        /\ precedents'[t] = precedents[t]
    BY <1>9, <1>t DEF WriteAuditRecord, Performs
  <2>2. /\ at[t] \in Refusing => step[t] = 3
        /\ at[t] = "finalize" => step[t] = 2
        /\ at[t] # "end"
    BY <1>9, EffectPerformed, Kinds
    DEF WriteAuditRecord, Undecided, Gathering, WorkNodes, Drafting, Refusing,
        Approving
  <2>3. at[t] # "revise_answer" => AuditedAt(t, at[t])'
    BY <2>1 DEF AuditRow, AuditedAt
  <2>4. \A n : AuditedAt(t, n) => AuditedAt(t, n)'
    BY <2>1 DEF AuditedAt
  <2>5. /\ at[t] \in Refusing => at[t] # "revise_answer"
        /\ FinalAnswer(t)' = FinalAnswer(t)
    BY <2>1 DEF Refusing, FinalAnswer
  <2> QED
    BY <1>0, <1>t, <2>1, <2>2, <2>3, <2>4, <2>5
    DEF RecordSound, OpenSound, RefusalSound, ApprovalSound, Backed, EndSound
<1>10. CASE CreateReviewerDecision(t)
  <2>1. /\ NextEffect /\ audit' = audit
        /\ jobStatus'[t] = jobStatus[t] /\ answer'[t] = answer[t]
        /\ precedents'[t] = precedents[t]
    BY <1>10, <1>t DEF CreateReviewerDecision, Performs
  <2>2. at[t] \in Refusing \union {"finalize"} /\ step[t] = 1
    BY <1>10, EffectPerformed DEF CreateReviewerDecision
  <2>3. /\ at[t] = "finalize" => /\ approvals'[t] = approvals[t] + 1
                                 /\ refusals'[t] = refusals[t]
        /\ at[t] # "finalize" => /\ refusals'[t] = refusals[t] + 1
                                 /\ approvals'[t] = approvals[t]
    BY <1>10, <1>t DEF CreateReviewerDecision
  <2>4. FinalAnswer(t)' = FinalAnswer(t) /\ \A n : AuditedAt(t, n)' = AuditedAt(t, n)
    BY <2>1 DEF FinalAnswer, AuditedAt
  <2>5. CASE at[t] = "finalize"
    BY <1>0, <1>t, <2>1, <2>2, <2>3, <2>4, <2>5, Kinds
    DEF RecordSound, OpenSound, RefusalSound, ApprovalSound, Backed, EndSound
  <2>6. CASE at[t] \in Refusing
    BY <1>0, <1>t, <2>1, <2>2, <2>3, <2>4, <2>6, Kinds
    DEF RecordSound, OpenSound, RefusalSound, ApprovalSound, Backed, EndSound
  <2> QED
    BY <2>2, <2>5, <2>6
<1>11. CASE UpdateJobStatus(t)
  <2>1. /\ NextEffect /\ audit' = audit /\ jobStatus'[t] = Verdict(at[t])
        /\ answer'[t] = answer[t] /\ precedents'[t] = precedents[t]
        /\ approvals'[t] = approvals[t] /\ refusals'[t] = refusals[t]
    BY <1>11, <1>t DEF UpdateJobStatus, Performs
  <2>2. \/ at[t] \in Refusing /\ step[t] = 2
        \/ at[t] = "finalize" /\ step[t] = 4
    BY <1>11, EffectPerformed DEF UpdateJobStatus
  <2>3. FinalAnswer(t)' = FinalAnswer(t) /\ \A n : AuditedAt(t, n)' = AuditedAt(t, n)
    BY <2>1 DEF FinalAnswer, AuditedAt
  <2>4. CASE at[t] = "finalize"
    <3>1. answer[t] # None
      BY <1>0, <2>2, <2>4, Kinds, FinalAnswerIsText DEF ApprovalSound, Approving
    <3> QED
      BY <1>0, <1>t, <2>1, <2>2, <2>3, <2>4, <3>1, Kinds
      DEF RecordSound, OpenSound, RefusalSound, ApprovalSound, Backed, EndSound
  <2>5. CASE at[t] \in Refusing
    BY <1>0, <1>t, <2>1, <2>2, <2>3, <2>5, Kinds
    DEF RecordSound, OpenSound, RefusalSound, ApprovalSound, Backed, EndSound
  <2> QED
    BY <2>2, <2>4, <2>5
<1>12. CASE StoreQueryAnswer(t)
  <2>1. /\ NextEffect /\ audit' = audit /\ answer'[t] = FinalAnswer(t)
        /\ jobStatus'[t] = jobStatus[t] /\ precedents'[t] = precedents[t]
        /\ approvals'[t] = approvals[t] /\ refusals'[t] = refusals[t]
    BY <1>12, <1>t DEF StoreQueryAnswer, Performs
  <2>2. at[t] = "finalize" /\ step[t] = 3
    BY <1>12, EffectPerformed DEF StoreQueryAnswer
  <2>3. FinalAnswer(t)' = FinalAnswer(t) /\ \A n : AuditedAt(t, n)' = AuditedAt(t, n)
    BY <2>1 DEF FinalAnswer, AuditedAt
  <2>4. FinalAnswer(t) # None
    BY <2>2, FinalAnswerIsText DEF Approving
  <2> QED
    BY <1>0, <1>t, <2>1, <2>2, <2>3, <2>4, Kinds
    DEF RecordSound, OpenSound, RefusalSound, ApprovalSound, Backed, EndSound
<1>13. CASE RecordAnsweredQuestion(t)
  <2>1. /\ NextEffect /\ audit' = audit /\ answer'[t] = answer[t]
        /\ precedents'[t] = precedents[t] \union {FinalAnswer(t)}
        /\ jobStatus'[t] = jobStatus[t]
        /\ approvals'[t] = approvals[t] /\ refusals'[t] = refusals[t]
    BY <1>13, <1>t DEF RecordAnsweredQuestion, Performs
  <2>2. at[t] = "graph_update"
    BY <1>13, EffectPerformed DEF RecordAnsweredQuestion
  <2>3. FinalAnswer(t)' = FinalAnswer(t) /\ \A n : AuditedAt(t, n)' = AuditedAt(t, n)
    BY <2>1 DEF FinalAnswer, AuditedAt
  <2> QED
    BY <1>0, <1>t, <2>1, <2>2, <2>3, Kinds
    DEF RecordSound, OpenSound, RefusalSound, ApprovalSound, Backed, EndSound
<1>14. CASE PersistChatMessage(t)
  <2>1. NextEffect /\ SameRecords(t)
    BY <1>14, <1>t DEF PersistChatMessage, Performs, SameRecords
  <2>2. \/ at[t] \in Refusing /\ step[t] = 4
        \/ at[t] = "finalize" /\ step[t] = 5
    BY <1>14, EffectPerformed DEF PersistChatMessage
  <2>3. FinalAnswer(t)' = FinalAnswer(t) /\ \A n : AuditedAt(t, n)' = AuditedAt(t, n)
    BY <2>1 DEF FinalAnswer, AuditedAt, SameRecords
  <2> QED
    BY <1>0, <1>t, <2>1, <2>2, <2>3, Kinds
    DEF RecordSound, OpenSound, RefusalSound, ApprovalSound, Backed, EndSound,
        SameRecords
<1>15. CASE \/ CompleteStartJob(t) \/ CompleteRouter(t) \/ CompleteRetrieval(t)
            \/ CompleteEvidence(t) \/ CompleteSynthesizer(t)
            \/ CompleteReviseAnswer(t)
  <2>1. PICK node \in Undecided, next \in Undecided : Completes(t, node, next)
    BY <1>15
    DEF CompleteStartJob, CompleteRouter, CompleteRetrieval, CompleteEvidence,
        CompleteSynthesizer, CompleteReviseAnswer, Undecided, Gathering, Pauses,
        Drafting
  <2>2. at[t] \in Undecided /\ NewNode(next)
    BY <1>t, <2>1 DEF Completes
  <2>3. SameRecords(t)
    BY <1>15
    DEF CompleteStartJob, CompleteRouter, CompleteRetrieval, CompleteEvidence,
        CompleteSynthesizer, CompleteReviseAnswer, SameRecords
  <2> QED
    BY <1>1, <2>2, <2>3
<1>16. CASE CompleteClosing(t)
  <2>1. PICK node \in Refusing \union {"finalize", "graph_update"},
             next \in {"graph_update", "end"} :
          /\ Completes(t, node, next)
          /\ next = "graph_update" => node = "finalize"
    BY <1>16 DEF CompleteClosing
  <2>2. /\ at[t] = node /\ NewNode(next) /\ step[t] > Len(Effects(node))
    BY <1>t, <2>1 DEF Completes
  <2>3. SameText /\ SameRecords(t)
    BY <1>16 DEF CompleteClosing, SameRecords
  <2>4. FinalAnswer(t)' = FinalAnswer(t) /\ \A n : AuditedAt(t, n)' = AuditedAt(t, n)
    BY <2>3 DEF FinalAnswer, AuditedAt, SameRecords
  <2>5. Backed(t)'
    BY <1>0, <2>3, <2>4 DEF Backed, SameRecords
  <2>6. /\ node \in Refusing => jobStatus[t] = Verdict(node) /\ AuditedAt(t, node)
        /\ node = "finalize" =>
             jobStatus[t] = "answered" /\ answer[t] = FinalAnswer(t)
        /\ node = "graph_update" => jobStatus[t] = "answered"
    <3>1. /\ node \in Refusing => Len(Effects(node)) = 4
          /\ node = "finalize" => Len(Effects(node)) = 5
      BY EffectCounts
    <3>2. /\ node \in Refusing => step[t] > 4
          /\ node = "finalize" => step[t] > 5
      BY <1>t, <2>2, <3>1
    <3>3. /\ step[t] > 4 => step[t] > 2 /\ step[t] > 3
          /\ step[t] > 5 => step[t] > 3 /\ step[t] > 4
      BY <1>t
    <3> QED
      BY <1>0, <2>2, <3>2, <3>3 DEF RefusalSound, ApprovalSound
  <2>7. /\ jobStatus[t] = "answered" => AuditedAt(t, "finalize")
    BY <1>0 DEF Backed
  <2>8. EndSound(t)'
    BY <2>1, <2>3, <2>4, <2>6, <2>7, Kinds DEF EndSound, SameRecords
  <2>9. OpenSound(t)' /\ RefusalSound(t)'
    BY <2>1, <2>2, Kinds DEF OpenSound, RefusalSound
  <2>10. ApprovalSound(t)'
    BY <2>1, <2>2, <2>3, <2>4, <2>6 DEF ApprovalSound, SameRecords
  <2> QED
    BY <2>5, <2>8, <2>9, <2>10 DEF RecordSound
<1> QED
  BY <1>3, <1>4, <1>5, <1>6, <1>7, <1>8, <1>9, <1>10, <1>11, <1>12, <1>13,
     <1>14, <1>15, <1>16
  DEF Advance, Resume, Execute

\* Every step keeps every question soundly on record.
LEMMA RecordsStep ==
  TypeOK /\ RunsSound /\ RecordsSound /\ [Next]_vars => RecordsSound'
<1> SUFFICES ASSUME TypeOK, RunsSound, RecordsSound, [Next]_vars
             PROVE  \A u \in Threads : RecordSound(u)'
  BY DEF RecordsSound
<1>1. ASSUME NEW t \in Threads, Advance(t), NEW u \in Threads
      PROVE  RecordSound(u)'
  <2>1. CASE u = t
    BY <1>1, <2>1, RecordStep
  <2>2. CASE u # t
    BY <1>1, <2>2, OthersUntouched, SameRecordSound
  <2> QED
    BY <2>1, <2>2
<1>2. CASE Restart
  <2>1. ASSUME NEW u \in Threads PROVE RecordSound(u)'
    <3>1. /\ at'[u] = IF at[u] = "none" THEN "none" ELSE "lost"
          /\ SameRecords(u)
      BY <1>2 DEF Restart, neo4j, SameRecords
    <3>2. OpenSound(u) /\ Backed(u)
      BY DEF RecordsSound, RecordSound
    <3>3. \A n : AuditedAt(u, n)' = AuditedAt(u, n)
      BY <3>1 DEF AuditedAt, SameRecords
    <3>4. Backed(u)'
      BY <3>1, <3>2, <3>3 DEF Backed, SameRecords
    <3>5. "none" \notin Refusing
      BY DEF Refusing
    <3> QED
      BY <3>1, <3>2, <3>4, <3>5, Kinds
      DEF RecordSound, OpenSound, RefusalSound, ApprovalSound, EndSound,
          SameRecords
  <2> QED
    BY <2>1
<1>3. CASE (\E d \in Documents : ClearChatHistory(d)) \/ UNCHANGED vars
  <2>1. ASSUME NEW u \in Threads PROVE SameQuestion(u)
    BY <1>3 DEF ClearChatHistory, vars, run, state, neo4j, SameQuestion
  <2> QED
    BY <2>1, SameRecordSound
<1> QED
  BY <1>1, <1>2, <1>3 DEF Next, Advance

Closed == Refused \union {"answered"}

\* A closed job keeps its status and an answer that is stored stays.
LEMMA ClosedStays ==
  ASSUME TypeOK, RunsSound, RecordsSound, [Next]_vars, NEW u \in Threads
  PROVE  /\ jobStatus[u] \in Closed => jobStatus'[u] = jobStatus[u]
         /\ answer[u] # None => answer'[u] = answer[u]
<1> USE DEF neo4j, state
<1>0. /\ OpenSound(u) /\ RefusalSound(u) /\ ApprovalSound(u)
  BY DEF RecordsSound, RecordSound
<1>1. CASE CreateQueryJob(u)
  <2>1. at[u] \in Undecided
    BY <1>1, EffectPerformed DEF CreateQueryJob, Undecided, Gathering
  <2>2. jobStatus[u] \notin Closed
    BY <1>0, <2>1, Kinds DEF OpenSound, Closed
  <2> QED
    BY <1>1, <2>2 DEF CreateQueryJob
<1>2. CASE UpdateJobStatus(u)
  <2>1. at[u] \in Refusing \union {"finalize"}
    BY <1>2, EffectPerformed DEF UpdateJobStatus
  <2>2. jobStatus[u] \in {None, "processing", Verdict(at[u])}
    BY <1>0, <2>1, Kinds DEF RefusalSound, ApprovalSound
  <2>3. jobStatus'[u] = Verdict(at[u]) /\ answer' = answer
    BY <1>2 DEF UpdateJobStatus, TypeOK
  <2> QED
    BY <2>2, <2>3, Kinds DEF Closed
<1>3. CASE StoreQueryAnswer(u)
  <2>1. at[u] = "finalize"
    BY <1>3, EffectPerformed DEF StoreQueryAnswer
  <2>2. answer[u] \in {None, FinalAnswer(u)}
    BY <1>0, <2>1 DEF ApprovalSound
  <2> QED
    BY <1>3, <2>2 DEF StoreQueryAnswer, TypeOK
<1>4. CASE /\ ~CreateQueryJob(u) /\ ~UpdateJobStatus(u)
           /\ ~StoreQueryAnswer(u)
  <2>1. ASSUME NEW t \in Threads, Advance(t), t # u
        PROVE  jobStatus'[u] = jobStatus[u] /\ answer'[u] = answer[u]
    BY <2>1, OthersUntouched DEF SameQuestion
  <2>2. ASSUME Advance(u)
        PROVE  jobStatus' = jobStatus /\ answer' = answer
    BY <1>4, <2>2
    DEF Advance, Resume, Execute, StartQueryJob, ReviewEvidence, ReviewAnswer,
        RetryNode, WriteAuditRecord, CreateReviewerDecision,
        RecordAnsweredQuestion, PersistChatMessage, CompleteStartJob,
        CompleteRouter, CompleteRetrieval, CompleteEvidence,
        CompleteSynthesizer, CompleteReviseAnswer, CompleteClosing, NodeRaises
  <2>3. CASE Restart \/ (\E d \in Documents : ClearChatHistory(d)) \/ UNCHANGED vars
    BY <2>3 DEF Restart, ClearChatHistory, vars
  <2> QED
    BY <2>1, <2>2, <2>3 DEF Next, Advance
<1> QED
  BY <1>1, <1>2, <1>3, <1>4

-----------------------------------------------------------------------------
(***************************************************************************)
(* The transcript and what is remembered of it.                            *)
(***************************************************************************)
\* The order of positions in the transcript, as a set of pairs.
Less == {p \in Nat \X Nat : p[1] < p[2]}

\* There is no infinite descent among positions.
LEMMA LessWellFounded == IsWellFoundedOn(Less, Nat)
BY NatLessThanWellFounded DEF OpToRel, Less

\* Every nonempty set of positions has a first one.
LEMMA LeastNatural ==
  ASSUME NEW T, T \subseteq Nat, T # {}
  PROVE  \E x \in T : \A y \in T : x <= y
<1>1. PICK x \in T : \A y \in T : <<y, x>> \notin Less
  BY LessWellFounded, WFMin
<1>2. x \in Nat /\ \A y \in T : y \in Nat /\ (<<y, x>> \in Less <=> y < x)
  BY DEF Less
<1>3. \A y \in T : ~(y < x)
  BY <1>1, <1>2
<1> QED
  BY <1>2, <1>3

\* Of a finite set of positions, no more than m have fewer than m after them.
LEMMA LastPositions ==
  ASSUME NEW S, IsFiniteSet(S), S \subseteq Nat, NEW m \in Nat,
         NEW T \in SUBSET S,
         \A k \in T : Cardinality({j \in S : j > k}) < m
  PROVE  IsFiniteSet(T) /\ Cardinality(T) <= m
<1>1. IsFiniteSet(T) /\ Cardinality(T) \in Nat
  BY FS_Subset, FS_CardinalityType
<1>2. CASE T = {}
  BY <1>1, <1>2, FS_EmptySet
<1>3. CASE T # {}
  <2>1. PICK x \in T : \A y \in T : x <= y
    BY <1>3, LeastNatural
  <2> DEFINE After == {j \in S : j > x}
  <2>2. IsFiniteSet(After) /\ Cardinality(After) \in Nat /\ Cardinality(After) < m
    <3>1. IsFiniteSet(After)
      <4>1. After \in SUBSET S
        OBVIOUS
      <4> HIDE DEF After
      <4> QED
        BY <4>1, FS_Subset
    <3>2. Cardinality(After) < m
      BY <2>1
    <3> QED
      BY <3>1, <3>2, FS_CardinalityType
  <2>3. T \ {x} \subseteq After
    <3>1. \A y \in T : x \in Nat /\ y \in Nat /\ y \in S /\ x <= y
      BY <2>1
    <3>2. \A y \in T \ {x} : y \in S /\ y > x
      BY <3>1
    <3> QED
      BY <3>2
  <2>4. Cardinality(T \ {x}) <= Cardinality(After) /\ Cardinality(T \ {x}) \in Nat
    <3> HIDE DEF After
    <3>1. IsFiniteSet(T \ {x})
      BY <1>1, FS_RemoveElement
    <3> QED
      BY <2>2, <2>3, <3>1, FS_Subset, FS_CardinalityType
  <2>5. Cardinality(T \ {x}) = Cardinality(T) - 1
    BY <1>1, <2>1, FS_RemoveElement
  <2> HIDE DEF After
  <2> QED
    BY <1>1, <2>2, <2>4, <2>5
<1> QED
  BY <1>2, <1>3

\* A question never remembers more than the last turns.
LEMMA HistoryBounded ==
  ASSUME TypeOK, NEW d
  PROVE  Cardinality(ConversationHistory(d)) <= MaxTurns
<1>1. CASE d = None
  BY <1>1, FS_EmptySet, ConstantsOK DEF ConversationHistory
<1>2. CASE d # None
  <2>1. /\ AnsweredTurns(d) \subseteq 1 .. Len(chat)
        /\ Len(chat) \in Nat
    BY DEF AnsweredTurns, TypeOK
  <2>2. IsFiniteSet(AnsweredTurns(d)) /\ AnsweredTurns(d) \subseteq Nat
    <3>1. AnsweredTurns(d) \in SUBSET (1 .. Len(chat)) /\ Len(chat) \in Int
      BY <2>1
    <3>2. IsFiniteSet(1 .. Len(chat))
      BY <3>1, FS_Interval
    <3> QED
      BY <3>1, <3>2, FS_Subset
  <2>3. ConversationHistory(d) =
          {k \in AnsweredTurns(d) :
             Cardinality({j \in AnsweredTurns(d) : j > k}) < MaxTurns}
    BY <1>2 DEF ConversationHistory
  <2>4. ConversationHistory(d) \in SUBSET AnsweredTurns(d)
    BY <2>3
  <2>5. \A k \in ConversationHistory(d) :
          Cardinality({j \in AnsweredTurns(d) : j > k}) < MaxTurns
    BY <2>3
  <2> QED
    BY <2>2, <2>4, <2>5, LastPositions, ConstantsOK
<1> QED
  BY <1>1, <1>2

\* A turn is written for a question about a document, by the node closing it.
WritesTurn(t) ==
    /\ PersistChatMessage(t)
    /\ doc[t] # None
    /\ chat' = Append(chat, ChatMessage(t))
    /\ failures' = failures

\* Only that action changes the transcript.
LEMMA TranscriptGrows ==
  TypeOK /\ [Next]_vars => chat' = chat \/ \E t \in Threads : WritesTurn(t)
<1> SUFFICES ASSUME TypeOK, [Next]_vars, chat' # chat
             PROVE  \E t \in Threads : WritesTurn(t)
  OBVIOUS
<1>1. PICK t \in Threads : PersistChatMessage(t)
  BY DEF Next, Resume, Execute, vars, StartQueryJob, ReviewEvidence, sql,
     ReviewAnswer, RetryNode, ClearChatHistory, CreateQueryJob,
     WriteAuditRecord, CreateReviewerDecision, UpdateJobStatus,
     StoreQueryAnswer, RecordAnsweredQuestion, CompleteStartJob,
     CompleteRouter, CompleteRetrieval, CompleteEvidence, CompleteSynthesizer,
     CompleteReviseAnswer, CompleteClosing, NodeRaises, Restart
<1> QED
  BY <1>1 DEF PersistChatMessage, WritesTurn

\* The new turn is the last one, and the others stay where they are.
LEMMA TurnAppended ==
  ASSUME TypeOK, NEW t \in Threads, WritesTurn(t)
  PROVE  /\ DOMAIN chat' = DOMAIN chat \union {Len(chat) + 1}
         /\ Len(chat) + 1 \notin DOMAIN chat
         /\ \A k \in DOMAIN chat : chat'[k] = chat[k]
         /\ chat'[Len(chat) + 1] = ChatMessage(t)
<1>1. chat \in Seq(ChatRow) /\ chat' = Append(chat, ChatMessage(t))
  BY DEF TypeOK, WritesTurn
<1>2. Len(chat) \in Nat /\ DOMAIN chat = 1 .. Len(chat)
  BY <1>1
<1>3. DOMAIN chat' = 1 .. Len(chat) + 1
  BY <1>1
<1> QED
  BY <1>1, <1>2, <1>3

\* Every turn is the turn of a question.
LEMMA TurnThread ==
  ASSUME TypeOK, NEW k \in DOMAIN chat
  PROVE  chat[k].thread \in Threads
<1>1. chat \in Seq(ChatRow)
  BY DEF TypeOK
<1>2. chat[k] \in ChatRow
  BY <1>1
<1> QED
  BY <1>2 DEF ChatRow

\* What the transcript says of a question, its job says too.
LEMMA ChatStep ==
  ASSUME TypeOK, RunsSound, RecordsSound, ChatSound, [Next]_vars
  PROVE  ChatSound'
<1>1. ASSUME NEW k \in DOMAIN chat
      PROVE  /\ chat[k].status \in Closed
             /\ chat[k].status = jobStatus'[chat[k].thread]
             /\ chat[k].status = "answered" =>
                  chat[k].answer = answer'[chat[k].thread]
  <2>1. chat[k].thread \in Threads
    BY TurnThread
  <2>2. /\ chat[k].status \in Closed
        /\ chat[k].status = jobStatus[chat[k].thread]
        /\ chat[k].status = "answered" =>
             chat[k].answer = answer[chat[k].thread]
    BY DEF ChatSound, Closed
  <2>3. jobStatus'[chat[k].thread] = jobStatus[chat[k].thread]
    BY <2>1, <2>2, ClosedStays
  <2>4. chat[k].status = "answered" => answer[chat[k].thread] # None
    BY <2>1, <2>2 DEF RecordsSound, RecordSound, Backed
  <2> QED
    BY <2>1, <2>2, <2>3, <2>4, ClosedStays
<1>2. CASE chat' = chat
  BY <1>1, <1>2 DEF ChatSound, Closed
<1>3. ASSUME NEW t \in Threads, WritesTurn(t) PROVE ChatSound'
  <2>1. /\ \/ at[t] \in Refusing /\ step[t] = 4
           \/ at[t] = "finalize" /\ step[t] = 5
        /\ jobStatus' = jobStatus /\ answer' = answer
    BY <1>3, EffectPerformed DEF WritesTurn, PersistChatMessage, neo4j
  <2>2. RefusalSound(t) /\ ApprovalSound(t)
    BY DEF RecordsSound, RecordSound
  <2>3. /\ Verdict(at[t]) = jobStatus[t] /\ jobStatus[t] \in Closed
        /\ jobStatus[t] = "answered" => ChatMessage(t).answer = answer[t]
    BY <2>1, <2>2, Kinds DEF RefusalSound, ApprovalSound, ChatMessage, Closed
  <2>4. ChatMessage(t).thread = t /\ ChatMessage(t).status = Verdict(at[t])
    BY DEF ChatMessage
  <2> QED
    BY <1>1, <1>3, <2>1, <2>3, <2>4, TurnAppended DEF ChatSound, Closed
<1> QED
  BY <1>2, <1>3, TranscriptGrows

\* Every step keeps the transcript sound, and the memories with it.
LEMMA TranscriptStep ==
  ASSUME TypeOK, RunsSound, RecordsSound, TranscriptSound, [Next]_vars
  PROVE  TranscriptSound'
<1>1. ChatSound'
  BY ChatStep DEF TranscriptSound
<1>2. \A k \in DOMAIN chat : k \in DOMAIN chat' /\ chat'[k] = chat[k]
  BY TranscriptGrows, TurnAppended
<1>3. ASSUME NEW u \in Threads PROVE MemorySound(u)'
  <2>1. MemorySound(u) /\ memory[u] \subseteq DOMAIN chat
    BY DEF TranscriptSound, TypeOK
  <2>2. \A k \in DOMAIN chat :
          jobStatus[chat[k].thread] = "answered" =>
            jobStatus'[chat[k].thread] = "answered"
    <3>1. \A k \in DOMAIN chat : chat[k].thread \in Threads
      BY TurnThread
    <3> QED
      BY <3>1, ClosedStays DEF Closed
  <2>3. ASSUME memory'[u] = memory[u], doc'[u] = doc[u],
               at'[u] \in {"none", "start_job"} => at[u] \in {"none", "start_job"}
        PROVE  MemorySound(u)'
    BY <1>2, <2>1, <2>2, <2>3 DEF MemorySound
  <2>4. CASE StartQueryJob(u)
    <3>1. memory[u] = {} /\ memory' = memory
      BY <2>1, <2>4 DEF StartQueryJob, MemorySound
    <3> QED
      BY <2>1, <3>1 DEF MemorySound
  <2>5. CASE CompleteStartJob(u) /\ memory' # memory
    <3>1. /\ memory'[u] = ConversationHistory(doc[u]) /\ doc' = doc
          /\ at'[u] = "router"
      BY <2>5 DEF CompleteStartJob, Completes, TypeOK
    <3>2. \A k \in ConversationHistory(doc[u]) :
            /\ k \in DOMAIN chat /\ chat[k].doc = doc[u]
            /\ chat[k].status = "answered"
      BY DEF ConversationHistory, AnsweredTurns
    <3>3. \A k \in ConversationHistory(doc[u]) :
            k \in DOMAIN chat /\ jobStatus[chat[k].thread] = "answered"
      BY <3>2 DEF TranscriptSound, ChatSound
    <3> QED
      BY <1>2, <2>2, <3>1, <3>2, <3>3, HistoryBounded DEF MemorySound
  <2>6. CASE /\ ~StartQueryJob(u)
             /\ ~(CompleteStartJob(u) /\ memory' # memory)
    <3>1. ASSUME NEW t \in Threads, Advance(t), t # u PROVE MemorySound(u)'
      BY <2>3, <3>1, OthersUntouched DEF SameQuestion
    <3>2. CASE Advance(u)
      <4>1. memory' = memory /\ doc' = doc
        BY <2>6, <3>2
        DEF Advance, Resume, Execute, state, ReviewEvidence, ReviewAnswer,
            RetryNode, CreateQueryJob, WriteAuditRecord,
            CreateReviewerDecision, UpdateJobStatus, StoreQueryAnswer,
            RecordAnsweredQuestion, PersistChatMessage, CompleteStartJob,
            CompleteRouter, CompleteRetrieval, CompleteEvidence,
            CompleteSynthesizer, CompleteReviseAnswer, CompleteClosing,
            NodeRaises
      <4>2. at'[u] = at[u] \/ at'[u] \notin {"none", "start_job"}
        <5>1. rounds[u] \in Nat
          BY DEF TypeOK
        <5>2. \A d \in Decisions :
                RouteAfterAnswer(d, rounds[u]) \notin {"none", "start_job"}
          BY <5>1, RouteAfterAnswerTargets
        <5>3. CASE ReviewEvidence(u) \/ ReviewAnswer(u) \/ RetryNode(u)
          BY <5>2, <5>3
          DEF ReviewEvidence, ReviewAnswer, RetryNode, Enter,
              RouteAfterEvidence, TypeOK
        <5>4. CASE \/ CompleteStartJob(u) \/ CompleteRouter(u)
                   \/ CompleteRetrieval(u) \/ CompleteEvidence(u)
                   \/ CompleteSynthesizer(u) \/ CompleteReviseAnswer(u)
                   \/ CompleteClosing(u)
          BY <5>4
          DEF Completes, CompleteStartJob, CompleteRouter, CompleteRetrieval,
              CompleteEvidence, CompleteSynthesizer, CompleteReviseAnswer,
              CompleteClosing, TypeOK
        <5>5. CASE \/ CreateQueryJob(u) \/ WriteAuditRecord(u)
                   \/ CreateReviewerDecision(u) \/ UpdateJobStatus(u)
                   \/ StoreQueryAnswer(u) \/ RecordAnsweredQuestion(u)
                   \/ PersistChatMessage(u) \/ NodeRaises(u)
          BY <5>5
          DEF Performs, CreateQueryJob, WriteAuditRecord,
              CreateReviewerDecision, UpdateJobStatus, StoreQueryAnswer,
              RecordAnsweredQuestion, PersistChatMessage, NodeRaises
        <5> QED
          BY <2>6, <3>2, <5>3, <5>4, <5>5 DEF Advance, Resume, Execute
      <4> QED
        BY <2>3, <4>1, <4>2
    <3>3. CASE Restart
      <4>1. at'[u] \in {"none", "start_job"} => at[u] \in {"none", "start_job"}
        BY <3>3 DEF Restart
      <4> QED
        BY <2>3, <3>3, <4>1 DEF Restart, state
    <3>4. CASE (\E d \in Documents : ClearChatHistory(d)) \/ UNCHANGED vars
      BY <2>3, <3>4 DEF ClearChatHistory, vars, run, state
    <3> QED
      BY <3>1, <3>2, <3>3, <3>4 DEF Next, Advance
  <2> QED
    BY <2>4, <2>5, <2>6
<1> QED
  BY <1>1, <1>3 DEF TranscriptSound

-----------------------------------------------------------------------------
(***************************************************************************)
(* One turn per question.                                                  *)
(***************************************************************************)
\* The places where the turn is not written yet, in the terms of the steps.
LEMMA TurnWrittenStep ==
  ASSUME TypeOK, TypeOK', RunsSound, NEW t \in Threads, Advance(t),
         failures' = 0, failures = 0, at[t] # "none"
  PROVE  /\ PersistChatMessage(t) => ~TurnWritten(t) /\ TurnWritten(t)'
         /\ ~PersistChatMessage(t) => (TurnWritten(t)' <=> TurnWritten(t))
<1>t. step[t] \in Nat \ {0} /\ rounds[t] \in Nat
  BY DEF TypeOK
<1>1. CASE Resume(t)
  <2>1. ~RetryNode(t)
    BY DEF RetryNode, RunsSound, PlaceSound
  <2>2. at[t] \in Pauses /\ step'[t] = 1
        /\ at'[t] \in Refusing \union Drafting \union {"finalize"}
    <3>1. CASE ReviewEvidence(t)
      BY <3>1 DEF ReviewEvidence, Enter, RouteAfterEvidence, TypeOK, Pauses,
                  Refusing, Drafting
    <3>2. CASE ReviewAnswer(t)
      <4>1. PICK d \in Decisions : Enter(t, RouteAfterAnswer(d, rounds[t]))
        BY <3>2 DEF ReviewAnswer
      <4>2. RouteAfterAnswer(d, rounds[t])
              \in {"finalize", "revise_answer", "answer_rejected", "answer_escalated"}
        BY <1>t, RouteAfterAnswerTargets
      <4> QED
        BY <3>2, <4>1, <4>2
        DEF ReviewAnswer, Enter, TypeOK, Pauses, Refusing, Drafting
    <3> QED
      BY <1>1, <2>1, <3>1, <3>2 DEF Resume
  <2>3. ~PersistChatMessage(t)
    BY <2>2 DEF PersistChatMessage, Performs, RunsSound, PlaceSound, Pauses,
                WorkNodes, Gathering, Drafting, Refusing, Approving
  <2>4. ~TurnWritten(t)
    BY <2>2 DEF TurnWritten, Pauses, Refusing
  <2>5. ~TurnWritten(t)'
    BY <2>2 DEF TurnWritten, Refusing, Drafting
  <2> QED
    BY <2>3, <2>4, <2>5
<1>2. CASE PersistChatMessage(t)
  <2>1. /\ at' = at /\ step'[t] = step[t] + 1
        /\ \/ at[t] \in Refusing /\ step[t] = 4
           \/ at[t] = "finalize" /\ step[t] = 5
    BY <1>2, EffectPerformed DEF PersistChatMessage, Performs, TypeOK
  <2> QED
    BY <1>2, <2>1, Kinds DEF TurnWritten
<1>3. CASE \/ CreateQueryJob(t) \/ WriteAuditRecord(t)
           \/ CreateReviewerDecision(t) \/ UpdateJobStatus(t)
           \/ StoreQueryAnswer(t) \/ RecordAnsweredQuestion(t)
  <2>1. at' = at /\ step'[t] = step[t] + 1
    BY <1>3 DEF Performs, CreateQueryJob, WriteAuditRecord, TypeOK,
                CreateReviewerDecision, UpdateJobStatus, StoreQueryAnswer,
                RecordAnsweredQuestion
  <2>2. /\ at[t] \in Refusing => step[t] <= 3
        /\ at[t] = "finalize" => step[t] <= 4
    BY <1>3, EffectPerformed, Kinds
    DEF CreateQueryJob, WriteAuditRecord, CreateReviewerDecision,
        UpdateJobStatus, StoreQueryAnswer, RecordAnsweredQuestion, Refusing,
        Drafting
  <2>3. TurnWritten(t)' <=> TurnWritten(t)
    BY <1>t, <2>1, <2>2 DEF TurnWritten
  <2>4. ~PersistChatMessage(t)
    BY <1>t, <2>1, <2>2, EffectPerformed DEF PersistChatMessage
  <2> QED
    BY <2>3, <2>4
<1>4. CASE \/ CompleteStartJob(t) \/ CompleteRouter(t) \/ CompleteRetrieval(t)
           \/ CompleteEvidence(t) \/ CompleteSynthesizer(t)
           \/ CompleteReviseAnswer(t)
  <2>1. PICK node \in Undecided, next \in Undecided : Completes(t, node, next)
    BY <1>4
    DEF CompleteStartJob, CompleteRouter, CompleteRetrieval, CompleteEvidence,
        CompleteSynthesizer, CompleteReviseAnswer, Undecided, Gathering, Pauses,
        Drafting
  <2>2. at[t] \in Undecided /\ at'[t] \in Undecided
    BY <2>1 DEF Completes, TypeOK
  <2>3. ~PersistChatMessage(t)
    BY <2>2, EffectPerformed, Kinds DEF PersistChatMessage
  <2> QED
    BY <2>2, <2>3, Kinds DEF TurnWritten
<1>5. CASE CompleteClosing(t)
  <2>1. PICK node \in Refusing \union {"finalize", "graph_update"},
             next \in {"graph_update", "end"} : Completes(t, node, next)
    BY <1>5 DEF CompleteClosing
  <2>2. at[t] = node /\ at'[t] = next /\ step[t] > Len(Effects(node))
    BY <2>1 DEF Completes, TypeOK
  <2>3. /\ node \in Refusing => Len(Effects(node)) = 4
        /\ node = "finalize" => Len(Effects(node)) = 5
    BY EffectCounts
  <2>4. ~PersistChatMessage(t)
    BY <2>2 DEF PersistChatMessage, Performs, Completes, TypeOK
  <2> QED
    BY <2>1, <2>2, <2>3, <2>4 DEF TurnWritten
<1>6. CASE NodeRaises(t)
  BY <1>6 DEF NodeRaises, TypeOK
<1>7. CASE StartQueryJob(t)
  BY <1>7 DEF StartQueryJob
<1> QED
  BY <1>1, <1>2, <1>3, <1>4, <1>5, <1>6, <1>7 DEF Advance, Execute

\* A turn that is written is one more turn of its question, and of no other.
LEMMA NewTurn ==
  ASSUME TypeOK, NEW w \in Threads, WritesTurn(w), NEW u \in Threads
  PROVE  /\ TurnsOf(u)' = IF u = w THEN TurnsOf(u) \union {Len(chat) + 1}
                                   ELSE TurnsOf(u)
         /\ DOMAIN chat \subseteq DOMAIN chat'
         /\ Len(chat) + 1 \in DOMAIN chat'
<1> DEFINE n == Len(chat) + 1
<1>1. /\ DOMAIN chat' = DOMAIN chat \union {n} /\ n \notin DOMAIN chat
      /\ \A k \in DOMAIN chat : chat'[k] = chat[k]
      /\ chat'[n] = ChatMessage(w)
  BY TurnAppended
<1>2. ChatMessage(w).thread = w
  BY DEF ChatMessage
<1>3. TurnsOf(u)' = {k \in DOMAIN chat' : chat'[k].thread = u}
  BY DEF TurnsOf
<1> HIDE DEF n
<1>4. \A k : k \in TurnsOf(u)' <=> k \in TurnsOf(u) \/ (k = n /\ u = w)
  BY <1>1, <1>2, <1>3 DEF TurnsOf
<1>5. TurnsOf(u)' = IF u = w THEN TurnsOf(u) \union {n} ELSE TurnsOf(u)
  BY <1>4
<1> QED
  BY <1>1, <1>5 DEF n

\* Without a failure every step keeps the turns as TurnSound says.
LEMMA TurnsStep ==
  ASSUME TypeOK, TypeOK', RunsSound, RecordsSound, ChatSound, TurnsSound,
         [Next]_vars
  PROVE  TurnsSound'
<1> SUFFICES ASSUME NEW u \in Threads, failures' = 0, doc'[u] # None
             PROVE  IF TurnWritten(u)'
                    THEN \E k \in DOMAIN chat' : TurnsOf(u)' = {k}
                    ELSE TurnsOf(u)' = {}
  BY DEF TurnsSound, TurnSound
<1>1. failures = 0
  BY FailuresGrow
<1>2. TurnSound(u)
  BY DEF TurnsSound
<1>3. chat' = chat => TurnsOf(u)' = TurnsOf(u)
  BY DEF TurnsOf
<1>4. ASSUME chat' = chat, doc'[u] = doc[u], TurnWritten(u)' <=> TurnWritten(u)
      PROVE  IF TurnWritten(u)'
             THEN \E k \in DOMAIN chat' : TurnsOf(u)' = {k}
             ELSE TurnsOf(u)' = {}
  BY <1>1, <1>2, <1>3, <1>4 DEF TurnSound
<1>5. CASE StartQueryJob(u)
  <2>1. /\ at[u] = "none" /\ at'[u] = "start_job" /\ chat' = chat
    BY <1>5 DEF StartQueryJob, Enter, TypeOK, sql
  <2>2. jobStatus[u] \notin Closed
    BY <2>1, Kinds
    DEF RecordsSound, RecordSound, OpenSound, Undecided, Closed
  <2>3. TurnsOf(u) = {}
    BY <2>2 DEF TurnsOf, ChatSound, Closed
  <2>4. ~TurnWritten(u)'
    BY <2>1 DEF TurnWritten, Refusing
  <2> QED
    BY <1>3, <2>1, <2>3, <2>4
<1>6. ASSUME NEW t \in Threads, Advance(t), ~StartQueryJob(u)
      PROVE  IF TurnWritten(u)'
             THEN \E k \in DOMAIN chat' : TurnsOf(u)' = {k}
             ELSE TurnsOf(u)' = {}
  <2>1. CASE chat' = chat /\ t # u
    <3>1. SameQuestion(u)
      BY <1>6, <2>1, OthersUntouched
    <3> QED
      BY <1>4, <2>1, <3>1 DEF SameQuestion, TurnWritten
  <2>2. CASE chat' = chat /\ t = u
    <3>1. doc' = doc /\ at[u] # "none"
      BY <1>6, <2>2
      DEF Advance, Resume, Execute, state, ReviewEvidence, ReviewAnswer,
          RetryNode, CreateQueryJob, WriteAuditRecord, CreateReviewerDecision,
          UpdateJobStatus, StoreQueryAnswer, RecordAnsweredQuestion,
          PersistChatMessage, CompleteStartJob, CompleteRouter,
          CompleteRetrieval, CompleteEvidence, CompleteSynthesizer,
          CompleteReviseAnswer, CompleteClosing, NodeRaises, Performs,
          Completes, RunsSound, PlaceSound, WorkNodes, Gathering, Drafting,
          Refusing, Approving
    <3>2. ~PersistChatMessage(u)
      <4>1. ASSUME chat' = Append(chat, ChatMessage(u)) PROVE FALSE
        <5>1. chat \in Seq(ChatRow)
          BY DEF TypeOK
        <5>2. Len(chat') = Len(chat) + 1 /\ Len(chat) \in Nat
          BY <4>1, <5>1
        <5> QED
          BY <2>2, <5>2
      <4> QED
        BY <1>1, <3>1, <4>1 DEF PersistChatMessage
    <3> QED
      BY <1>1, <1>4, <1>6, <2>2, <3>1, <3>2, TurnWrittenStep
  <2>3. ASSUME NEW w \in Threads, WritesTurn(w)
        PROVE  IF TurnWritten(u)'
               THEN \E k \in DOMAIN chat' : TurnsOf(u)' = {k}
               ELSE TurnsOf(u)' = {}
    <3>1. /\ doc' = doc /\ at' = at /\ step' = [step EXCEPT ![w] = @ + 1]
          /\ Advance(w) /\ at[w] # "none"
      BY <2>3, EffectPerformed
      DEF WritesTurn, PersistChatMessage, Performs, state, Advance, Execute,
          Refusing
    <3>2. CASE w = u
      <4>1. ~TurnWritten(u) /\ TurnWritten(u)'
        BY <1>1, <2>3, <3>1, <3>2, TurnWrittenStep DEF WritesTurn
      <4>2. TurnsOf(u) = {}
        BY <1>1, <1>2, <3>1, <4>1 DEF TurnSound
      <4>3. TurnsOf(u)' = {Len(chat) + 1} /\ Len(chat) + 1 \in DOMAIN chat'
        BY <2>3, <3>2, <4>2, NewTurn
      <4> QED
        BY <4>1, <4>3
    <3>3. CASE w # u
      <4>1. TurnsOf(u)' = TurnsOf(u) /\ DOMAIN chat \subseteq DOMAIN chat'
        BY <2>3, <3>3, NewTurn
      <4>2. TurnWritten(u)' <=> TurnWritten(u)
        BY <3>1, <3>3 DEF TurnWritten, TypeOK
      <4> QED
        BY <1>1, <1>2, <3>1, <4>1, <4>2 DEF TurnSound
    <3> QED
      BY <3>2, <3>3
  <2> QED
    BY <2>1, <2>2, <2>3, TranscriptGrows
<1>7. CASE Restart
  BY <1>1, <1>7 DEF Restart
<1>8. CASE (\E d \in Documents : ClearChatHistory(d)) \/ UNCHANGED vars
  BY <1>4, <1>8 DEF ClearChatHistory, vars, run, state, TurnWritten
<1> QED
  BY <1>5, <1>6, <1>7, <1>8 DEF Next, Advance

-----------------------------------------------------------------------------
(***************************************************************************)
(* The invariant and what follows from it.                                 *)
(***************************************************************************)
\* Before the first question the invariant holds.
LEMMA InitReviewInv == Init => ReviewInv
<1> SUFFICES ASSUME Init PROVE ReviewInv
  OBVIOUS
<1>1. TypeOK
  BY InitTypeOK
<1>2. ASSUME NEW t \in Threads
      PROVE  /\ at[t] = "none" /\ ~running[t] /\ step[t] = 1
             /\ memory[t] = {} /\ draft[t] = None /\ rounds[t] = 0
             /\ jobStatus[t] = None /\ approvals[t] = 0 /\ refusals[t] = 0
             /\ answer[t] = None /\ precedents[t] = {} /\ doc[t] = None
  BY DEF Init
<1>3. "none" \in BeforeDraft /\ "none" \in Undecided
      /\ "none" \notin WorkNodes \union Approving
  BY DEF BeforeDraft, Undecided, WorkNodes, Gathering, Drafting, Refusing,
         Approving
<1>4. RunsSound
  BY <1>2, <1>3 DEF RunsSound, PlaceSound, DraftSound, DecisionSound
<1>5. RecordsSound
  BY <1>2, <1>3, Kinds
  DEF RecordsSound, RecordSound, OpenSound, RefusalSound, ApprovalSound,
      Backed, EndSound
<1>6. ChatSound
  BY DEF Init, ChatSound
<1>7. \A t \in Threads : MemorySound(t)
  <2>1. Cardinality({}) = 0 /\ 0 <= MaxTurns
    BY FS_EmptySet, ConstantsOK
  <2> QED
    BY <1>2, <2>1 DEF MemorySound
<1>8. TurnsSound
  BY <1>2 DEF TurnsSound, TurnSound
<1> QED
  BY <1>1, <1>4, <1>5, <1>6, <1>7, <1>8 DEF ReviewInv, TranscriptSound

\* Every step preserves it.
LEMMA ReviewInvStep == ReviewInv /\ [Next]_vars => ReviewInv'
<1> SUFFICES ASSUME ReviewInv, [Next]_vars PROVE ReviewInv'
  OBVIOUS
<1>1. TypeOK /\ RunsSound /\ RecordsSound /\ TranscriptSound /\ TurnsSound
  BY DEF ReviewInv
<1>2. TypeOK'
  BY <1>1, TypeStep
<1>3. RunsSound' /\ RecordsSound'
  BY <1>1, <1>2, RunsStep, RecordsStep
<1>4. TranscriptSound'
  BY <1>1, TranscriptStep
<1>5. TurnsSound'
  BY <1>1, <1>2, TurnsStep DEF TranscriptSound
<1> QED
  BY <1>2, <1>3, <1>4, <1>5 DEF ReviewInv

\* The inductive invariant holds for ever, for any number of questions,
\* workers, revisions and failures.
THEOREM ReviewInvariant == Spec => []ReviewInv
BY InitReviewInv, ReviewInvStep, PTL DEF Spec

\* Types are kept (TypeOK of the module).
THEOREM TypeCorrect == Spec => []TypeOK
<1>1. ReviewInv => TypeOK
  BY DEF ReviewInv
<1> QED
  BY <1>1, ReviewInvariant, PTL

\* However the closing nodes break off and are retried, an answered job has its
\* approval, audit row and answer and no refusal, and a refused job has a
\* refusal and neither approval, answer nor precedent.
THEOREM VerdictsBacked == Spec => []VerdictIsBacked
<1>1. ReviewInv => VerdictIsBacked
  BY DEF ReviewInv, RecordsSound, RecordSound, Backed, VerdictIsBacked
<1> QED
  BY <1>1, ReviewInvariant, PTL

\* The transcript, the job and the precedent of a question hold one answer.
THEOREM OneAnswer == Spec => []AnswersAgree
<1>1. ReviewInv => AnswersAgree
  BY DEF ReviewInv, RecordsSound, RecordSound, Backed, TranscriptSound,
         ChatSound, AnswersAgree
<1> QED
  BY <1>1, ReviewInvariant, PTL

\* A question remembers answered questions about its document only, and no
\* more of them than the cap.
THEOREM MemoryIsAnswered == Spec => []RemembersAnswersOnly
<1>1. ReviewInv => RemembersAnswersOnly
  BY DEF ReviewInv, TranscriptSound, MemorySound, RemembersAnswersOnly
<1> QED
  BY <1>1, ReviewInvariant, PTL

\* Revisions stay within the cap, the draft is the last round's, and every
\* round has its audit row.
THEOREM RevisionsOnRecord == Spec => []RevisionsCappedAndAudited
<1>1. ReviewInv => RevisionsCappedAndAudited
  <2> SUFFICES ASSUME ReviewInv, NEW t \in Threads
               PROVE  /\ rounds[t] <= MaxRevisions
                      /\ draft[t] # None => draft[t] = rounds[t] + 1
                      /\ \A r \in 1 .. rounds[t] : RevisionRow(r) \in audit[t]
    BY DEF RevisionsCappedAndAudited, RevisionRow
  <2>1. DraftSound(t)
    BY DEF ReviewInv, RunsSound
  <2>2. rounds[t] \in 0 .. MaxRevisions
    BY DEF ReviewInv, TypeOK
  <2> QED
    BY <2>1, <2>2, ConstantsOK DEF DraftSound
<1> QED
  BY <1>1, ReviewInvariant, PTL

\* A run at its end is closed, in the audit trail and, if nothing failed, in
\* the transcript exactly once.
THEOREM EndsOnRecord == Spec => []EndedRunIsOnRecord
<1>1. ReviewInv => EndedRunIsOnRecord
  <2> SUFFICES ASSUME ReviewInv, NEW t \in Threads, at[t] = "end"
               PROVE  /\ \E node \in Refusing \union {"finalize"} :
                           Verdict(node) = jobStatus[t] /\ AuditedAt(t, node)
                      /\ \A k \in TurnsOf(t) : chat[k].status = jobStatus[t]
                      /\ failures = 0 /\ doc[t] # None =>
                           Cardinality(TurnsOf(t)) = 1
    BY DEF EndedRunIsOnRecord
  <2>1. EndSound(t) /\ ChatSound /\ TurnSound(t)
    BY DEF ReviewInv, RecordsSound, RecordSound, TranscriptSound, TurnsSound
  <2>2. failures = 0 /\ doc[t] # None => \E k : TurnsOf(t) = {k}
    BY <2>1 DEF TurnSound, TurnWritten
  <2> QED
    BY <2>1, <2>2, FS_Singleton DEF EndSound, ChatSound, TurnsOf
<1> QED
  BY <1>1, ReviewInvariant, PTL

\* No step changes a verdict, whatever is retried.
THEOREM VerdictsFinal == Spec => VerdictIsFinal
<1>1. ReviewInv /\ [Next]_vars =>
        [\A t \in Threads :
           jobStatus[t] \in Refused \union {"answered"} =>
             jobStatus'[t] = jobStatus[t]]_vars
  BY ClosedStays DEF ReviewInv, Closed
<1> QED
  BY <1>1, ReviewInvariant, PTL DEF Spec, VerdictIsFinal

-----------------------------------------------------------------------------
(***************************************************************************)
(* The pipeline implements the ledger of ReviewLedger: reading the chat    *)
(* history grounds a question, the first closed status settles it, the     *)
(* write-back records it, and nothing else shows in the ledger.            *)
(***************************************************************************)
\* Three values for a verdict; only the job's status tells them.
LEMMA VerdictValues ==
  ASSUME NEW t \in Threads
  PROVE  /\ jobStatus[t] = "answered" <=> ledgerVerdict[t] = "answered"
         /\ jobStatus[t] \in Refused <=> ledgerVerdict[t] = "refused"
         /\ jobStatus[t] \notin Closed <=> ledgerVerdict[t] = "open"
BY Kinds DEF ledgerVerdict, Closed

\* An empty transcript is an empty ledger.
LEMMA InitRefines == Init => Ledger!LedgerInit
<1> SUFFICES ASSUME Init PROVE Ledger!LedgerInit
  OBVIOUS
<1>1. \A t \in Threads : jobStatus[t] = None /\ memory[t] = {} /\ precedents[t] = {}
  BY DEF Init
<1>2. ledgerVerdict = [t \in Threads |-> "open"]
  BY <1>1, Kinds DEF ledgerVerdict
<1>3. ledgerContext = [t \in Threads |-> {}]
  BY <1>1 DEF ledgerContext
<1>4. ledgerPrecedent = {}
  BY <1>1 DEF ledgerPrecedent
<1> QED
  BY <1>2, <1>3, <1>4 DEF Ledger!LedgerInit

\* Where turns and memories stay, the contexts of the ledger stay.
LEMMA SameContext ==
  ASSUME TypeOK, [Next]_vars, NEW t \in Threads, memory'[t] = memory[t]
  PROVE  ledgerContext'[t] = ledgerContext[t]
<1>1. \A k \in DOMAIN chat : k \in DOMAIN chat' /\ chat'[k] = chat[k]
  BY TranscriptGrows, TurnAppended
<1>2. memory[t] \subseteq DOMAIN chat
  BY DEF TypeOK
<1>3. {chat'[k].thread : k \in memory'[t]} = {chat[k].thread : k \in memory[t]}
  BY <1>1, <1>2
<1> QED
  BY <1>3 DEF ledgerContext

\* The first closed status settles the question; a repeated one does not show.
LEMMA StatusRefines ==
  ASSUME ReviewInv, [Next]_vars, NEW t \in Threads, UpdateJobStatus(t)
  PROVE  Ledger!Settle(t) \/ UNCHANGED Ledger!ledgerVars
<1>0. TypeOK /\ RunsSound /\ RecordsSound
  BY DEF ReviewInv
<1>1. /\ jobStatus' = [jobStatus EXCEPT ![t] = Verdict(at[t])]
      /\ memory' = memory /\ precedents' = precedents
  BY DEF UpdateJobStatus, state
<1>2. Verdict(at[t]) \in Closed
  <2>1. at[t] \in Refusing \union {"finalize"}
    BY <1>0, EffectPerformed DEF UpdateJobStatus
  <2> QED
    BY <2>1, Kinds DEF Closed
<1>3. ledgerContext' = ledgerContext
  <2>1. \A u \in Threads : ledgerContext'[u] = ledgerContext[u]
    BY <1>0, <1>1, SameContext
  <2> QED
    BY <2>1 DEF ledgerContext
<1>4. ledgerPrecedent' = ledgerPrecedent
  BY <1>1 DEF ledgerPrecedent
<1>5. CASE jobStatus[t] \in Closed
  <2>1. jobStatus' = jobStatus
    BY <1>0, <1>1, <1>5, ClosedStays DEF TypeOK
  <2>2. ledgerVerdict' = ledgerVerdict
    BY <2>1 DEF ledgerVerdict
  <2> QED
    BY <1>3, <1>4, <2>2 DEF Ledger!ledgerVars
<1>6. CASE jobStatus[t] \notin Closed
  <2>1. ledgerVerdict[t] = "open"
    BY <1>6, VerdictValues
  <2>2. PICK v \in {"answered", "refused"} :
          v = (CASE Verdict(at[t]) = "answered" -> "answered"
                 [] Verdict(at[t]) \in Refused  -> "refused"
                 [] OTHER                       -> "open")
    BY <1>2, Kinds DEF Closed
  <2>3. /\ jobStatus'[t] = Verdict(at[t])
        /\ \A u \in Threads \ {t} : jobStatus'[u] = jobStatus[u]
    BY <1>0, <1>1 DEF TypeOK
  <2>4. ledgerVerdict' = [ledgerVerdict EXCEPT ![t] = v]
    <3>1. ledgerVerdict'[t] = v
      BY <2>2, <2>3 DEF ledgerVerdict
    <3>2. \A u \in Threads \ {t} : ledgerVerdict'[u] = ledgerVerdict[u]
      BY <2>3 DEF ledgerVerdict
    <3>3. /\ ledgerVerdict' = [u \in Threads |-> ledgerVerdict'[u]]
          /\ ledgerVerdict = [u \in Threads |-> ledgerVerdict[u]]
      BY DEF ledgerVerdict
    <3> QED
      BY <3>1, <3>2, <3>3
  <2> QED
    BY <1>3, <1>4, <2>1, <2>4 DEF Ledger!Settle
<1> QED
  BY <1>5, <1>6

\* The write-back records a question that was answered.
LEMMA PrecedentRefines ==
  ASSUME ReviewInv, [Next]_vars, NEW t \in Threads, RecordAnsweredQuestion(t)
  PROVE  Ledger!Record(t)
<1>0. TypeOK /\ RunsSound /\ RecordsSound
  BY DEF ReviewInv
<1>1. /\ precedents' = [precedents EXCEPT ![t] = @ \union {FinalAnswer(t)}]
      /\ memory' = memory /\ jobStatus' = jobStatus
  BY DEF RecordAnsweredQuestion, state
<1>2. at[t] = "graph_update"
  BY <1>0, EffectPerformed DEF RecordAnsweredQuestion
<1>3. jobStatus[t] = "answered"
  BY <1>0, <1>2 DEF RecordsSound, RecordSound, ApprovalSound
<1>4. t \in Ledger!Answered
  BY <1>3, VerdictValues DEF Ledger!Answered
<1>5. ledgerPrecedent' = ledgerPrecedent \union {t}
  <2>1. /\ precedents'[t] # {}
        /\ \A u \in Threads \ {t} : precedents'[u] = precedents[u]
    BY <1>0, <1>1 DEF TypeOK
  <2> QED
    BY <2>1 DEF ledgerPrecedent
<1>6. ledgerContext' = ledgerContext
  <2>1. \A u \in Threads : ledgerContext'[u] = ledgerContext[u]
    BY <1>0, <1>1, SameContext
  <2> QED
    BY <2>1 DEF ledgerContext
<1>7. ledgerVerdict' = ledgerVerdict
  BY <1>1 DEF ledgerVerdict
<1> QED
  BY <1>4, <1>5, <1>6, <1>7 DEF Ledger!Record

\* Reading the history grounds the question in answered ones.
LEMMA HistoryRefines ==
  ASSUME ReviewInv, [Next]_vars, NEW t \in Threads, CompleteStartJob(t)
  PROVE  Ledger!Ground(t) \/ UNCHANGED Ledger!ledgerVars
<1>0. TypeOK /\ RunsSound /\ RecordsSound /\ TranscriptSound
  BY DEF ReviewInv
<1>1. /\ at[t] = "start_job" /\ jobStatus' = jobStatus
      /\ precedents' = precedents /\ chat' = chat
  BY DEF CompleteStartJob, Completes, neo4j, sql
<1>2. ledgerVerdict' = ledgerVerdict /\ ledgerPrecedent' = ledgerPrecedent
  BY <1>1 DEF ledgerVerdict, ledgerPrecedent
<1>3. CASE memory' = memory
  <2>1. ledgerContext' = ledgerContext
    BY <1>1, <1>3 DEF ledgerContext
  <2> QED
    BY <1>2, <2>1 DEF Ledger!ledgerVars
<1>4. CASE memory' = [memory EXCEPT ![t] = ConversationHistory(doc[t])]
  <2>1. ledgerVerdict[t] = "open"
    <3>1. at[t] \in Undecided
      BY <1>1 DEF Undecided, Gathering
    <3>2. jobStatus[t] \notin Closed
      BY <1>0, <3>1, Kinds
      DEF RecordsSound, RecordSound, OpenSound, Closed
    <3> QED
      BY <3>2, VerdictValues
  <2>2. ledgerContext[t] = {}
    BY <1>0, <1>1 DEF TranscriptSound, MemorySound, ledgerContext
  <2> DEFINE S == {chat[k].thread : k \in ConversationHistory(doc[t])}
  <2>3. S \in SUBSET Ledger!Answered
    <3>1. ASSUME NEW k \in ConversationHistory(doc[t])
          PROVE  chat[k].thread \in Ledger!Answered
      <4>1. k \in DOMAIN chat /\ chat[k].status = "answered"
        BY DEF ConversationHistory, AnsweredTurns
      <4>2. jobStatus[chat[k].thread] = "answered"
        BY <1>0, <4>1 DEF TranscriptSound, ChatSound
      <4>3. chat[k].thread \in Threads
        BY <1>0, <4>1, TurnThread
      <4> QED
        BY <4>2, <4>3, VerdictValues DEF Ledger!Answered
    <3> QED
      BY <3>1
  <2>4. /\ memory'[t] = ConversationHistory(doc[t])
        /\ \A u \in Threads \ {t} : memory'[u] = memory[u]
    BY <1>0, <1>4 DEF TypeOK
  <2>5. ledgerContext' = [ledgerContext EXCEPT ![t] = S]
    <3>1. ledgerContext'[t] = S
      BY <1>1, <2>4 DEF ledgerContext
    <3>2. \A u \in Threads \ {t} : ledgerContext'[u] = ledgerContext[u]
      BY <1>1, <2>4 DEF ledgerContext
    <3>3. /\ ledgerContext' = [u \in Threads |-> ledgerContext'[u]]
          /\ ledgerContext = [u \in Threads |-> ledgerContext[u]]
      BY DEF ledgerContext
    <3> HIDE DEF S
    <3> QED
      BY <3>1, <3>2, <3>3
  <2> HIDE DEF S
  <2> QED
    BY <1>2, <2>1, <2>2, <2>3, <2>5 DEF Ledger!Ground
<1> QED
  BY <1>3, <1>4 DEF CompleteStartJob

\* Creating the job leaves its question open.
LEMMA CreateRefines ==
  ASSUME ReviewInv, [Next]_vars, NEW t \in Threads, CreateQueryJob(t)
  PROVE  UNCHANGED Ledger!ledgerVars
<1>0. TypeOK /\ RunsSound /\ RecordsSound
  BY DEF ReviewInv
<1>1. /\ jobStatus' = [jobStatus EXCEPT ![t] = "processing"]
      /\ memory' = memory /\ precedents' = precedents /\ chat' = chat
  BY DEF CreateQueryJob, state, sql
<1>2. jobStatus[t] \notin Closed
  <2>1. at[t] \in Undecided
    BY <1>0, EffectPerformed DEF CreateQueryJob, Undecided, Gathering
  <2> QED
    BY <1>0, <2>1, Kinds DEF RecordsSound, RecordSound, OpenSound, Closed
<1>3. /\ jobStatus'[t] = "processing"
      /\ \A u \in Threads \ {t} : jobStatus'[u] = jobStatus[u]
  BY <1>0, <1>1 DEF TypeOK
<1>4. ledgerVerdict' = ledgerVerdict
  BY <1>2, <1>3, Kinds DEF ledgerVerdict, Closed
<1> QED
  BY <1>1, <1>4 DEF Ledger!ledgerVars, ledgerContext, ledgerPrecedent

\* Every step of the pipeline is a step of the ledger or does not show in it.
LEMMA StepRefines ==
  ReviewInv /\ [Next]_vars => [Ledger!LedgerNext]_(Ledger!ledgerVars)
<1> SUFFICES ASSUME ReviewInv, [Next]_vars
             PROVE  Ledger!LedgerNext \/ UNCHANGED Ledger!ledgerVars
  OBVIOUS
<1>1. ASSUME NEW t \in Threads,
             \/ UpdateJobStatus(t) \/ RecordAnsweredQuestion(t)
             \/ CompleteStartJob(t) \/ CreateQueryJob(t)
      PROVE  Ledger!LedgerNext \/ UNCHANGED Ledger!ledgerVars
  BY <1>1, StatusRefines, PrecedentRefines, HistoryRefines, CreateRefines
  DEF Ledger!LedgerNext
<1>2. CASE ~\E t \in Threads :
              \/ UpdateJobStatus(t) \/ RecordAnsweredQuestion(t)
              \/ CompleteStartJob(t) \/ CreateQueryJob(t)
  <2>1. UNCHANGED <<jobStatus, memory, precedents>>
    BY <1>2
    DEF Next, Resume, Execute, state, neo4j, sql, run, vars, StartQueryJob,
        ReviewEvidence, ReviewAnswer, RetryNode, ClearChatHistory,
        WriteAuditRecord, CreateReviewerDecision, StoreQueryAnswer,
        PersistChatMessage, CompleteRouter, CompleteRetrieval,
        CompleteEvidence, CompleteSynthesizer, CompleteReviseAnswer,
        CompleteClosing, NodeRaises, Restart
  <2>2. TypeOK
    BY DEF ReviewInv
  <2>3. ledgerContext' = ledgerContext
    <3>1. \A u \in Threads : ledgerContext'[u] = ledgerContext[u]
      BY <2>1, <2>2, SameContext
    <3> QED
      BY <3>1 DEF ledgerContext
  <2> QED
    BY <2>1, <2>3 DEF Ledger!ledgerVars, ledgerVerdict, ledgerPrecedent
<1> QED
  BY <1>1, <1>2

\* Every behaviour of the pipeline is a behaviour of the ledger.
THEOREM LedgerImplemented == Spec => ImplementsLedger
<1>1. Spec => Ledger!LedgerInit /\ [][Ledger!LedgerNext]_(Ledger!ledgerVars)
  BY InitRefines, StepRefines, ReviewInvariant, PTL DEF Spec
<1> QED
  BY <1>1 DEF ImplementsLedger, Ledger!LedgerSpec
=============================================================================
