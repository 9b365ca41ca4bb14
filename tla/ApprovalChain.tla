--------------------------- MODULE ApprovalChain ---------------------------
(***************************************************************************)
(* Decision briefs and their approval chains: generate_decision_brief and  *)
(* decide_approval_step, as executed by a set of API worker processes that *)
(* share one database.                                                     *)
(*                                                                         *)
(* A request is a sequence of short transactions (every repository         *)
(* function opens its own session), so each transaction is an action, and  *)
(* decide_approval_step, which reads a row, flushes an update of it and    *)
(* commits later, is three.  Between ApprovalStep's flush and its commit   *)
(* the row is locked and its new value is invisible to other workers (READ *)
(* COMMITTED; SQLite behaves the same way once a transaction has written). *)
(*                                                                         *)
(* A definition that is used nowhere is a variant with a plausible         *)
(* mistake; it stands before the definition it varies and documents what   *)
(* the properties guard against.                                           *)
(*                                                                         *)
(* One document is modelled: every query of this component is restricted   *)
(* to one document_id or one decision_brief_id.                            *)
(***************************************************************************)
EXTENDS Integers, Sequences, FiniteSets

CONSTANTS
    Workers,      \* API worker processes; each handles one request at a time
    Users,        \* authenticated reviewers
    UserRole,     \* the role of each user
    BriefIds,     \* primary keys available for decision_brief rows (bound)
    Contexts,     \* document facts a brief may be generated from
    MaxChain,     \* longest approval chain (bound)
    MaxFailures,  \* requests that die half-way (bound)
    None          \* the NULL of the database

ASSUME ConstantsOK ==
    /\ MaxChain \in Nat \ {0}
    /\ MaxFailures \in Nat
    /\ UserRole \in [Users -> STRING]

ASSUME FiniteOK == IsFiniteSet(Workers) /\ IsFiniteSet(BriefIds)

(***************************************************************************)
(* Roles and their seniority (security.py).  An assigned role the table    *)
(* does not list ranks lowest, an actor's unlisted role ranks below every  *)
(* assigned role.                                                          *)
(***************************************************************************)
ValidRoles == {"reviewer", "senior_counsel", "business_head", "clo", "admin"}

Seniority == [reviewer |-> 0, senior_counsel |-> 1, business_head |-> 2,
              clo |-> 3, admin |-> 4]

ActorSeniority(role) == IF role \in ValidRoles THEN Seniority[role] ELSE -1
RequiredSeniority(role) == IF role \in ValidRoles THEN Seniority[role] ELSE 0

KnownRoleSuffices(actorRole, assignedRole) == ActorSeniority(actorRole) >= 0

CanActOnAssignedRole(actorRole, assignedRole) ==
    ActorSeniority(actorRole) >= RequiredSeniority(assignedRole)

(***************************************************************************)
(* The chain a brief is issued with.  A context holds the facts the policy *)
(* looks at; `policy' is the organization's approval_policy, empty when    *)
(* none is configured.                                                     *)
(***************************************************************************)
ResolveApprovalChain(ctx) ==
    IF ctx.policy # << >> THEN ctx.policy
    ELSE <<"reviewer", "senior_counsel">>
         \o (IF ctx.highRisk \/ ctx.overValueThreshold
             THEN <<"business_head">> ELSE << >>)
         \o (IF ctx.highlyConfidential \/ ctx.requireCloApproval
             THEN <<"clo">> ELSE << >>)

Positions == 0 .. MaxChain - 1

Chains == {c \in Seq(STRING) : Len(c) \in 1 .. MaxChain}

\* an approval policy that is configured at all names at least one role
ASSUME ChainsOK ==
    \A ctx \in Contexts : ResolveApprovalChain(ctx) \in Chains

\* the chain as required_role column values, one per sequence number
RolesOf(chain) ==
    [i \in Positions |-> IF i < Len(chain) THEN chain[i + 1] ELSE None]

-----------------------------------------------------------------------------
Approvals  == {"approve", "approve_with_changes"}
Refusals   == {"reject", "send_back"}
Decisions  == Approvals \union Refusals

StepStatus  == Decisions \union {"pending", "skipped"}
BriefStatus == Decisions \union {"pending"}

ASSUME NoneOK ==
    /\ None \notin StepStatus
    /\ None \notin Users
    /\ None \notin BriefIds

PC == {"idle",
       "gathered", "last_read", "brief_created",           \* generate
       "checked", "step_read", "flushed", "decided"}       \* decide

VARIABLES
    reviewed,     \* some ReviewAction row exists for the document
    briefStatus,  \* decision_brief.status, None when the row does not exist
    version,      \* decision_brief.version_number
    superseded,   \* decision_brief.superseded_by_version
    requiredRole, \* approval_step.required_role by brief and sequence
    stepStatus,   \* approval_step.status, None past the end of the chain
    decidedBy,    \* approval_step.decided_by
    pc,           \* where each worker is in its request
    req,          \* the decide request a worker handles
    others,       \* pending rows decide_approval_step read after its flush
    gen,          \* what the generate request has read so far
    auditedBriefs,\* briefs with a brief_generated audit row
    auditedSteps, \* audit rows of approval decisions
    failures      \* requests that died so far

tables == <<reviewed, briefStatus, version, superseded, requiredRole,
            stepStatus, decidedBy>>
audit  == <<auditedBriefs, auditedSteps>>
vars   == <<reviewed, briefStatus, version, superseded, requiredRole,
            stepStatus, decidedBy, pc, req, others, gen, auditedBriefs,
            auditedSteps, failures>>

Requests == [brief : BriefIds, pos : Positions, user : Users,
             decision : Decisions]

Briefs == {b \in BriefIds : briefStatus[b] # None}

\* rows of the brief that are still waiting for a decision
Pending(b) == {i \in Positions : stepStatus[b][i] = "pending"}

IsAnyPending(b, i) == i \in Pending(b)

\* get_next_pending_approval_step: the first pending row in sequence order
IsNextPending(b, i) ==
    /\ i \in Pending(b)
    /\ \A j \in Pending(b) : i <= j

\* ORDER BY version_number DESC, first row; a tie is broken arbitrarily
IsLast(b) ==
    /\ b \in Briefs
    /\ \A c \in Briefs : version[c] <= version[b]

\* a version that is still open is reissued under its own number
NextVersionOnceClosed(last) ==
    IF briefStatus[last] = "pending" THEN version[last] ELSE version[last] + 1

NextVersion(last) == version[last] + 1

\* a flushed, uncommitted update of the row holds its lock
Locked(b, i, w) ==
    \E v \in Workers \ {w} :
        pc[v] = "flushed" /\ req[v].brief = b /\ req[v].pos = i

Init ==
    /\ reviewed = FALSE
    /\ briefStatus = [b \in BriefIds |-> None]
    /\ version = [b \in BriefIds |-> 0]
    /\ superseded = [b \in BriefIds |-> None]
    /\ requiredRole = [b \in BriefIds |-> [i \in Positions |-> None]]
    /\ stepStatus = [b \in BriefIds |-> [i \in Positions |-> None]]
    /\ decidedBy = [b \in BriefIds |-> [i \in Positions |-> None]]
    /\ pc = [w \in Workers |-> "idle"]
    /\ req = [w \in Workers |-> None]
    /\ others = [w \in Workers |-> {}]
    /\ gen = [w \in Workers |-> None]
    /\ auditedBriefs = {}
    /\ auditedSteps = {}
    /\ failures = 0

-----------------------------------------------------------------------------
(***************************************************************************)
(* A reviewer records an action on a clause or risk flag.                  *)
(***************************************************************************)
RecordReviewAction ==
    /\ ~reviewed
    /\ reviewed' = TRUE
    /\ UNCHANGED <<briefStatus, version, superseded, requiredRole, stepStatus,
                   decidedBy, pc, req, others, gen, audit, failures>>

(***************************************************************************)
(* POST decision-brief: gather the context (400 without a review action),  *)
(* write the sections, resolve the chain.                                  *)
(***************************************************************************)
\* bound: requests are accepted only while a key is left for their brief
RoomForBrief ==
    Cardinality(Briefs) + Cardinality({v \in Workers :
        pc[v] \in {"gathered", "last_read"}}) < Cardinality(BriefIds)

\* what a generate request has worked out so far
Draft(chain, next, last, lastSentBack, brief) ==
    [chain |-> chain, next |-> next, last |-> last,
     lastSentBack |-> lastSentBack, brief |-> brief]

GatherDecisionBriefContext(w) ==
    /\ pc[w] = "idle"
    /\ reviewed
    /\ RoomForBrief
    /\ \E ctx \in Contexts :
         gen' = [gen EXCEPT ![w] =
                   Draft(ResolveApprovalChain(ctx), 1, None, FALSE, None)]
    /\ pc' = [pc EXCEPT ![w] = "gathered"]
    /\ UNCHANGED <<tables, req, others, audit, failures>>

\* create_decision_brief, its read of the last version ...
ReadLastBrief(w) ==
    /\ pc[w] = "gathered"
    /\ \/ /\ Briefs = {}
          /\ UNCHANGED gen
       \/ \E last \in BriefIds :
            /\ IsLast(last)
            /\ gen' = [gen EXCEPT ![w] =
                 Draft(gen[w].chain, NextVersion(last), last,
                       briefStatus[last] = "sent_back", None)]
    /\ pc' = [pc EXCEPT ![w] = "last_read"]
    /\ UNCHANGED <<tables, req, others, audit, failures>>

\* ... and the insert of the brief and its steps under a fresh key
CreateDecisionBrief(w) ==
    /\ pc[w] = "last_read"
    /\ \E b \in BriefIds \ Briefs :
         /\ briefStatus' = [briefStatus EXCEPT ![b] = "pending"]
         /\ version' = [version EXCEPT ![b] = gen[w].next]
         /\ superseded' = [c \in BriefIds |->
                IF gen[w].lastSentBack /\ c = gen[w].last
                THEN gen[w].next ELSE superseded[c]]
         /\ requiredRole' = [requiredRole EXCEPT ![b] = RolesOf(gen[w].chain)]
         /\ stepStatus' = [stepStatus EXCEPT ![b] =
                [i \in Positions |->
                    IF i < Len(gen[w].chain) THEN "pending" ELSE None]]
         /\ gen' = [gen EXCEPT ![w] =
                Draft(gen[w].chain, gen[w].next, gen[w].last,
                      gen[w].lastSentBack, b)]
    /\ pc' = [pc EXCEPT ![w] = "brief_created"]
    /\ UNCHANGED <<reviewed, decidedBy, req, others, audit, failures>>

AuditBrief(w) ==
    /\ pc[w] = "brief_created"
    /\ auditedBriefs' = auditedBriefs \union {gen[w].brief}
    /\ pc' = [pc EXCEPT ![w] = "idle"]
    /\ gen' = [gen EXCEPT ![w] = None]
    /\ UNCHANGED <<tables, req, others, auditedSteps, failures>>

-----------------------------------------------------------------------------
(***************************************************************************)
(* POST decide.  The endpoint accepts a request only for the first pending *)
(* step and only from a role senior enough for it; other requests are      *)
(* answered 404, 409 or 403 and change nothing.                            *)
(***************************************************************************)
CheckCurrentStep(w) ==
    /\ pc[w] = "idle"
    /\ \E r \in Requests :
         /\ r.brief \in Briefs
         /\ IsNextPending(r.brief, r.pos)
         /\ CanActOnAssignedRole(UserRole[r.user],
                                 requiredRole[r.brief][r.pos])
         /\ req' = [req EXCEPT ![w] = r]
    /\ pc' = [pc EXCEPT ![w] = "checked"]
    /\ UNCHANGED <<tables, others, gen, audit, failures>>

\* decide_approval_step loads the row; ValueError (409) unless it is pending
GetApprovalStep(w) ==
    /\ pc[w] = "checked"
    /\ IF stepStatus[req[w].brief][req[w].pos] = "pending"
       THEN pc' = [pc EXCEPT ![w] = "step_read"] /\ UNCHANGED req
       ELSE pc' = [pc EXCEPT ![w] = "idle"] /\ req' = [req EXCEPT ![w] = None]
    /\ UNCHANGED <<tables, others, gen, audit, failures>>

\* the flush of the new status takes the row lock; the rows still pending
\* are read next, in the same transaction
FlushDecisionAudited(w) ==
    /\ pc[w] = "step_read"
    /\ ~Locked(req[w].brief, req[w].pos, w)
    /\ others' = [others EXCEPT ![w] = Pending(req[w].brief) \ {req[w].pos}]
    /\ auditedSteps' = auditedSteps \union {req[w]}
    /\ pc' = [pc EXCEPT ![w] = "flushed"]
    /\ UNCHANGED <<tables, req, gen, auditedBriefs, failures>>

FlushDecision(w) ==
    /\ pc[w] = "step_read"
    /\ ~Locked(req[w].brief, req[w].pos, w)
    /\ others' = [others EXCEPT ![w] = Pending(req[w].brief) \ {req[w].pos}]
    /\ pc' = [pc EXCEPT ![w] = "flushed"]
    /\ UNCHANGED <<tables, req, gen, audit, failures>>

\* the status written for a decision is the decision's own word, not the
\* participle of models.py
RecordedStatus(decision) == decision

SkipsNothing(w) == {}
SkipsDecidedToo(w) ==
    IF req[w].decision \in Refusals THEN Positions \ {req[w].pos} ELSE {}

\* rows the commit updates besides the decided one
Skipped(w) == IF req[w].decision \in Refusals THEN others[w] ELSE {}

ClosesOnEveryDecision(w) == TRUE
ClosesOnRefusalOnly(w) == req[w].decision \in Refusals

\* the decision becomes the brief's verdict
ClosesBrief(w) == req[w].decision \in Refusals \/ others[w] = {}

CommitDecision(w) ==
    LET b == req[w].brief
        i == req[w].pos
    IN /\ pc[w] = "flushed"
       /\ \A j \in Skipped(w) : ~Locked(b, j, w)
       /\ stepStatus' = [stepStatus EXCEPT ![b] =
            [j \in Positions |->
                IF j = i THEN RecordedStatus(req[w].decision)
                ELSE IF j \in Skipped(w) THEN "skipped"
                ELSE stepStatus[b][j]]]
       /\ decidedBy' = [decidedBy EXCEPT ![b][i] = req[w].user]
       /\ briefStatus' = [briefStatus EXCEPT ![b] =
            IF ClosesBrief(w) THEN req[w].decision ELSE @]
       /\ pc' = [pc EXCEPT ![w] = "decided"]
       /\ others' = [others EXCEPT ![w] = {}]
       /\ UNCHANGED <<reviewed, version, superseded, requiredRole, req, gen,
                      audit, failures>>

AuditRowOfApproval(w) ==
    IF req[w].decision \in Approvals THEN {req[w]} ELSE {}

AuditRow(w) == {req[w]}

AuditDecision(w) ==
    /\ pc[w] = "decided"
    /\ auditedSteps' = auditedSteps \union AuditRow(w)
    /\ pc' = [pc EXCEPT ![w] = "idle"]
    /\ req' = [req EXCEPT ![w] = None]
    /\ UNCHANGED <<tables, others, gen, auditedBriefs, failures>>

-----------------------------------------------------------------------------
(***************************************************************************)
(* The request dies: the process is killed, or the database raises.  The   *)
(* open transaction is rolled back; what was committed stays.              *)
(***************************************************************************)
RequestFails(w) ==
    /\ pc[w] # "idle"
    /\ failures < MaxFailures
    /\ failures' = failures + 1
    /\ pc' = [pc EXCEPT ![w] = "idle"]
    /\ req' = [req EXCEPT ![w] = None]
    /\ gen' = [gen EXCEPT ![w] = None]
    /\ others' = [others EXCEPT ![w] = {}]
    /\ UNCHANGED <<tables, audit>>

\* a request, once accepted, runs to its end
Serve(w) ==
    \/ ReadLastBrief(w) \/ CreateDecisionBrief(w) \/ AuditBrief(w)
    \/ GetApprovalStep(w) \/ FlushDecision(w) \/ CommitDecision(w)
    \/ AuditDecision(w)

Next ==
    \/ RecordReviewAction
    \/ \E w \in Workers :
         \/ GatherDecisionBriefContext(w)
         \/ CheckCurrentStep(w)
         \/ Serve(w)
         \/ RequestFails(w)

Spec == Init /\ [][Next]_vars

(***************************************************************************)
(* A worker finishes the request it runs.  Nobody is obliged to generate a *)
(* brief, but somebody keeps answering the step that is currently due.     *)
(***************************************************************************)
FairSpec ==
    /\ Spec
    /\ \A w \in Workers : WF_vars(Serve(w))
    /\ WF_vars(\E w \in Workers : CheckCurrentStep(w))

-----------------------------------------------------------------------------
(***************************************************************************)
(* Properties.                                                             *)
(***************************************************************************)

GenRecord == [chain : Chains, next : Nat, last : BriefIds \union {None},
              lastSentBack : BOOLEAN, brief : BriefIds \union {None}]

\* Every column and every request holds a value of its kind.
TypeOK ==
    /\ reviewed \in BOOLEAN
    /\ briefStatus \in [BriefIds -> BriefStatus \union {None}]
    /\ version \in [BriefIds -> Nat]
    /\ superseded \in [BriefIds -> Nat \union {None}]
    /\ requiredRole \in [BriefIds -> [Positions -> STRING \union {None}]]
    /\ stepStatus \in [BriefIds -> [Positions -> StepStatus \union {None}]]
    /\ decidedBy \in [BriefIds -> [Positions -> Users \union {None}]]
    /\ pc \in [Workers -> PC]
    /\ req \in [Workers -> Requests \union {None}]
    /\ others \in [Workers -> SUBSET Positions]
    /\ gen \in [Workers -> GenRecord \union {None}]
    /\ auditedBriefs \subseteq BriefIds
    /\ auditedSteps \subseteq Requests
    /\ failures \in 0 .. MaxFailures

\* A brief has a verdict exactly when none of its steps is left pending,
\* whatever overlaps: no decided chain keeps an open step, and no chain runs
\* out of steps without a verdict (decide_approval_step's two branches).
VerdictIffChainClosed ==
    \A b \in Briefs : (briefStatus[b] = "pending") <=> (Pending(b) # {})

\* Approval goes down the chain: behind a step that still waits, every later
\* step still waits.  The check that enforces it runs in an earlier
\* transaction than the decision it admits.
DecidedInOrder ==
    \A b \in Briefs : \A i, j \in Positions :
        i < j /\ stepStatus[b][i] = "pending" /\ stepStatus[b][j] # None
            => stepStatus[b][j] = "pending"

\* No step carries the decision of somebody too junior for it.
SeniorEnough ==
    \A b \in Briefs : \A i \in Positions :
        decidedBy[b][i] # None =>
            RequiredSeniority(requiredRole[b][i])
                <= ActorSeniority(UserRole[decidedBy[b][i]])

\* A rejection or a send-back stops the entire remaining chain (README):
\* nobody behind it decides.
RefusalEndsChain ==
    \A b \in Briefs : \A i, j \in Positions :
        i < j /\ stepStatus[b][i] \in Refusals /\ stepStatus[b][j] # None
            => stepStatus[b][j] = "skipped"

\* The brief's verdict is the decision of the last approver who decided.
VerdictIsLastDecision ==
    \A b \in Briefs : briefStatus[b] # "pending" =>
        \E i \in Positions :
            /\ stepStatus[b][i] = briefStatus[b]
            /\ \A j \in Positions :
                 j > i => stepStatus[b][j] \in {"skipped", None}

\* The decision on a step is an immutable event: no step of the system
\* changes a decision, who made it, or a verdict.
DecidedStepsNeverEdited ==
    [][\A b \in Briefs :
         /\ \A i \in Positions : stepStatus[b][i] \in Decisions =>
                /\ stepStatus'[b][i] = stepStatus[b][i]
                /\ decidedBy'[b][i] = decidedBy[b][i]
         /\ briefStatus[b] # "pending" => briefStatus'[b] = briefStatus[b]
      ]_vars

\* The audit log tells the truth about a step: what it reports as decided, by
\* whom, is what the step says.
AuditMatchesDecision ==
    \A e \in auditedSteps :
        /\ stepStatus[e.brief][e.pos] = e.decision
        /\ decidedBy[e.brief][e.pos] = e.user

Decided == {p \in BriefIds \X Positions : decidedBy[p[1]][p[2]] # None}

\* The audit log misses a brief or a decision only while the request that
\* made it is about to write the row, or because that request died.
AuditGapsAreFailures ==
    Cardinality(Briefs \ auditedBriefs)
      + Cardinality(Decided \ {<<e.brief, e.pos>> : e \in auditedSteps})
    <= failures + Cardinality({w \in Workers :
                                 pc[w] \in {"brief_created", "decided"}})

\* The words that the column comments of models.py list, which
\* create_decision_brief (sent_back) and the user interface look for.  The code
\* stores the decision's own word.
DocumentedStatus ==
    {"pending", "approved", "approved_with_changes", "rejected", "sent_back"}
StatusIsDocumented ==
    \A b \in Briefs :
        /\ briefStatus[b] \in DocumentedStatus
        /\ \A i \in Positions :
             stepStatus[b][i] \in DocumentedStatus \union {"skipped", None}

\* Version numbers identify the briefs of a document.
VersionsDistinct ==
    \A b, c \in Briefs : version[b] = version[c] => b = c

\* An accepted request points at a step of an existing brief that its user
\* may act on and whose predecessors are all closed; nothing is pending that
\* its flush did not see.  (What makes the properties above inductive.)
RequestSound(w) ==
    /\ pc[w] \in {"gathered", "last_read", "brief_created"} => gen[w] \in GenRecord
    /\ pc[w] = "brief_created" => gen[w].brief \in Briefs
    /\ pc[w] \in {"checked", "step_read", "flushed", "decided"} =>
          /\ req[w] \in Requests
          /\ req[w].brief \in Briefs
          /\ stepStatus[req[w].brief][req[w].pos] # None
          /\ RequiredSeniority(requiredRole[req[w].brief][req[w].pos])
               <= ActorSeniority(UserRole[req[w].user])
          /\ \A j \in Pending(req[w].brief) : req[w].pos <= j
    /\ pc[w] = "flushed" =>
          /\ Pending(req[w].brief) \ {req[w].pos} \subseteq others[w]
          /\ \A j \in others[w] : /\ req[w].pos < j
                                  /\ stepStatus[req[w].brief][j] # None

RequestsSound == \A w \in Workers : RequestSound(w)

\* However requests overlap, the chain is a gate: ApprovalGate's promise.
gateOpen == [b \in BriefIds |-> Pending(b)]
gatePhase == [b \in BriefIds |->
    IF briefStatus[b] = None THEN "none"
    ELSE IF briefStatus[b] = "pending" THEN "open" ELSE "closed"]

Gate == INSTANCE ApprovalGate WITH open <- gateOpen, phase <- gatePhase
ImplementsGate == Gate!GateSpec

\* Every brief gets a verdict as long as the step that is due gets answered.
EveryBriefGetsVerdict ==
    \A b \in BriefIds :
        (briefStatus[b] = "pending") ~> (briefStatus[b] \in Decisions)
=============================================================================
