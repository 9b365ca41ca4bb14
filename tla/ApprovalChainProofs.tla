------------------------- MODULE ApprovalChainProofs -------------------------
(***************************************************************************)
(* What holds of approval chains for every number of workers, users,       *)
(* briefs, chain lengths and failures.                                     *)
(***************************************************************************)
EXTENDS ApprovalChain, TLAPS, FiniteSetTheorems

\* A key that is not in use has no step rows.
RowsTogether ==
    \A b \in BriefIds \ Briefs : \A i \in Positions :
        stepStatus[b][i] = None /\ decidedBy[b][i] = None

\* The inductive invariant: the checked properties and what carries them from
\* a request's check to its commit.
ChainInv ==
    /\ TypeOK
    /\ RowsTogether
    /\ RequestsSound
    /\ VerdictIffChainClosed
    /\ DecidedInOrder
    /\ SeniorEnough

\* The empty database and idle workers have the right types.
LEMMA InitTypeOK == Init => TypeOK
<1> SUFFICES ASSUME Init PROVE TypeOK
  OBVIOUS
<1> USE DEF Init
<1>1. failures \in 0 .. MaxFailures
  BY ConstantsOK
<1>2. /\ stepStatus \in [BriefIds -> [Positions -> StepStatus \union {None}]]
      /\ decidedBy \in [BriefIds -> [Positions -> Users \union {None}]]
      /\ requiredRole \in [BriefIds -> [Positions -> STRING \union {None}]]
  OBVIOUS
<1>3. /\ briefStatus \in [BriefIds -> BriefStatus \union {None}]
      /\ version \in [BriefIds -> Nat]
      /\ superseded \in [BriefIds -> Nat \union {None}]
  OBVIOUS
<1>4. /\ pc \in [Workers -> PC]
      /\ req \in [Workers -> Requests \union {None}]
      /\ others \in [Workers -> SUBSET Positions]
      /\ gen \in [Workers -> GenRecord \union {None}]
  BY DEF PC
<1> QED
  BY <1>1, <1>2, <1>3, <1>4 DEF TypeOK

(***************************************************************************)
(* Every column and every request keeps its type (TypeOK of the module).   *)
(***************************************************************************)
LEMMA TypeStep == TypeOK /\ RequestsSound /\ [Next]_vars => TypeOK'
<1> SUFFICES ASSUME TypeOK, RequestsSound, [Next]_vars PROVE TypeOK'
  OBVIOUS
<1> USE ConstantsOK DEF TypeOK, PC
<1>1. CASE RecordReviewAction
  BY <1>1 DEF RecordReviewAction, audit
<1>2. ASSUME NEW w \in Workers, GatherDecisionBriefContext(w)
      PROVE TypeOK'
  <2>1. PICK ctx \in Contexts : gen' = [gen EXCEPT ![w] =
                   Draft(ResolveApprovalChain(ctx), 1, None, FALSE, None)]
    BY <1>2 DEF GatherDecisionBriefContext
  <2>2. Draft(ResolveApprovalChain(ctx), 1, None, FALSE, None) \in GenRecord
    BY ChainsOK DEF GenRecord, Draft
  <2> QED
    BY <1>2, <2>1, <2>2 DEF GatherDecisionBriefContext, tables, audit
<1>3. ASSUME NEW w \in Workers, ReadLastBrief(w) PROVE TypeOK'
  <2>1. gen[w] \in GenRecord
    BY <1>3 DEF ReadLastBrief, RequestsSound, RequestSound
  <2>2. ASSUME NEW last \in BriefIds
        PROVE  Draft(gen[w].chain, NextVersion(last), last,
                     briefStatus[last] = "sent_back", None) \in GenRecord
    BY <2>1 DEF GenRecord, Draft, NextVersion
  <2>3. gen' \in [Workers -> GenRecord \union {None}]
    BY <1>3, <2>2 DEF ReadLastBrief
  <2> QED
    BY <1>3, <2>3 DEF ReadLastBrief, tables, audit
<1>4. ASSUME NEW w \in Workers, CreateDecisionBrief(w)
      PROVE TypeOK'
  <2>1. gen[w] \in GenRecord
    BY <1>4 DEF CreateDecisionBrief, RequestsSound, RequestSound
  <2>2. PICK b \in BriefIds \ Briefs :
         /\ briefStatus' = [briefStatus EXCEPT ![b] = "pending"]
         /\ version' = [version EXCEPT ![b] = gen[w].next]
         /\ superseded' = [c \in BriefIds |->
                IF gen[w].lastSentBack /\ c = gen[w].last
                THEN gen[w].next ELSE superseded[c]]
         /\ requiredRole' = [requiredRole EXCEPT ![b] = RolesOf(gen[w].chain)]
         /\ stepStatus' = [stepStatus EXCEPT ![b] =
                [i \in Positions |->
                    IF i < Len(gen[w].chain) THEN "pending" ELSE None]]
         /\ gen' = [gen EXCEPT ![w] =
                Draft(gen[w].chain, gen[w].next, gen[w].last,
                      gen[w].lastSentBack, b)]
    BY <1>4 DEF CreateDecisionBrief
  <2>3. RolesOf(gen[w].chain) \in [Positions -> STRING \union {None}]
    BY <2>1 DEF RolesOf, GenRecord, Chains, Positions
  <2>4. Draft(gen[w].chain, gen[w].next, gen[w].last, gen[w].lastSentBack, b)
          \in GenRecord
    BY <2>1 DEF GenRecord, Draft, Briefs
  <2>5. gen[w].next \in Nat
    BY <2>1 DEF GenRecord
  <2>6. /\ briefStatus' \in [BriefIds -> BriefStatus \union {None}]
        /\ stepStatus' \in [BriefIds -> [Positions -> StepStatus \union {None}]]
    BY <2>2 DEF BriefStatus, StepStatus
  <2>7. /\ version' \in [BriefIds -> Nat]
        /\ superseded' \in [BriefIds -> Nat \union {None}]
    BY <2>2, <2>5
  <2>8. requiredRole' \in [BriefIds -> [Positions -> STRING \union {None}]]
    BY <2>2, <2>3
  <2>9. gen' \in [Workers -> GenRecord \union {None}]
    BY <2>2, <2>4
  <2> QED
    BY <1>4, <2>6, <2>7, <2>8, <2>9 DEF CreateDecisionBrief, audit
<1>5. ASSUME NEW w \in Workers, AuditBrief(w) PROVE TypeOK'
  <2>1. gen[w] \in GenRecord /\ gen[w].brief \in BriefIds
    BY <1>5 DEF AuditBrief, RequestsSound, RequestSound, Briefs
  <2> QED
    BY <1>5, <2>1 DEF AuditBrief, tables
<1>6. ASSUME NEW w \in Workers, CheckCurrentStep(w) PROVE TypeOK'
  BY <1>6 DEF CheckCurrentStep, tables, audit
<1>7. ASSUME NEW w \in Workers, GetApprovalStep(w) PROVE TypeOK'
  BY <1>7 DEF GetApprovalStep, tables, audit
<1>8. ASSUME NEW w \in Workers, FlushDecision(w) PROVE TypeOK'
  BY <1>8 DEF FlushDecision, tables, audit, Pending
<1>9. ASSUME NEW w \in Workers, CommitDecision(w) PROVE TypeOK'
  <2>1. req[w] \in Requests
    BY <1>9 DEF CommitDecision, RequestsSound, RequestSound
  <2>2. /\ req[w].brief \in BriefIds /\ req[w].pos \in Positions
        /\ req[w].user \in Users /\ req[w].decision \in Decisions
    BY <2>1 DEF Requests
  <2>3. stepStatus' \in [BriefIds -> [Positions -> StepStatus \union {None}]]
    BY <1>9, <2>2 DEF CommitDecision, StepStatus, RecordedStatus
  <2>4. briefStatus' \in [BriefIds -> BriefStatus \union {None}]
    BY <1>9, <2>2 DEF CommitDecision, BriefStatus
  <2>5. decidedBy' \in [BriefIds -> [Positions -> Users \union {None}]]
    BY <1>9, <2>2 DEF CommitDecision
  <2> QED
    BY <1>9, <2>3, <2>4, <2>5 DEF CommitDecision, audit
<1>10. ASSUME NEW w \in Workers, AuditDecision(w) PROVE TypeOK'
  BY <1>10 DEF AuditDecision, tables, RequestsSound, RequestSound, AuditRow
<1>11. ASSUME NEW w \in Workers, RequestFails(w) PROVE TypeOK'
  BY <1>11 DEF RequestFails, tables, audit
<1>12. CASE UNCHANGED vars
  BY <1>12 DEF vars
<1> QED
  BY <1>1, <1>2, <1>3, <1>4, <1>5, <1>6, <1>7, <1>8, <1>9, <1>10, <1>11,
     <1>12 DEF Next, Serve

-----------------------------------------------------------------------------
\* The empty database satisfies the inductive invariant.
LEMMA InitChainInv == Init => ChainInv
<1> SUFFICES ASSUME Init PROVE ChainInv
  OBVIOUS
<1>1. Briefs = {}
  BY DEF Init, Briefs
<1>2. RowsTogether
  BY DEF Init, RowsTogether, Briefs
<1>3. RequestsSound
  BY DEF Init, RequestsSound, RequestSound
<1> QED
  BY <1>1, <1>2, <1>3, InitTypeOK
  DEF ChainInv, VerdictIffChainClosed, DecidedInOrder, SeniorEnough

\* The columns the properties of a chain are about.
chainTables == <<briefStatus, requiredRole, stepStatus, decidedBy>>

(***************************************************************************)
(* Steps that leave the tables alone can only disturb what is said of the  *)
(* requests in flight.                                                     *)
(***************************************************************************)
LEMMA SameTables ==
  ASSUME ChainInv, UNCHANGED chainTables
  PROVE  /\ RowsTogether' /\ VerdictIffChainClosed'
         /\ DecidedInOrder' /\ SeniorEnough'
         /\ Briefs' = Briefs /\ \A b : Pending(b)' = Pending(b)
<1> USE DEF chainTables, ChainInv, Briefs, Pending
<1>1. Briefs' = Briefs /\ \A b : Pending(b)' = Pending(b)
  OBVIOUS
<1>2. RowsTogether' /\ VerdictIffChainClosed'
  BY DEF RowsTogether, VerdictIffChainClosed
<1>3. DecidedInOrder'
  BY DEF DecidedInOrder
<1>4. SeniorEnough'
  BY DEF SeniorEnough
<1> QED
  BY <1>1, <1>2, <1>3, <1>4

\* Every role, listed or not, has an integer rank on either side of the check.
LEMMA SeniorityIsInt ==
  \A role : ActorSeniority(role) \in Int /\ RequiredSeniority(role) \in Int
BY DEF ActorSeniority, RequiredSeniority, ValidRoles, Seniority

\* The steps before a commit, and a dying request, keep what is known of every
\* request in flight: where it points, who may act, what its flush saw.
LEMMA RequestsSoundStep ==
  ASSUME ChainInv, UNCHANGED chainTables,
         \/ RecordReviewAction
         \/ UNCHANGED vars
         \/ \E w \in Workers :
              \/ GatherDecisionBriefContext(w) \/ ReadLastBrief(w)
              \/ AuditBrief(w) \/ CheckCurrentStep(w) \/ GetApprovalStep(w)
              \/ FlushDecision(w) \/ AuditDecision(w) \/ RequestFails(w)
  PROVE  RequestsSound'
<1> USE SameTables, NoneOK DEF ChainInv, chainTables, TypeOK, RequestsSound,
            RequestSound
<1>1. CASE RecordReviewAction
  BY <1>1 DEF RecordReviewAction
<1>2. CASE UNCHANGED vars
  BY <1>2 DEF vars
<1>3. ASSUME NEW w \in Workers, GatherDecisionBriefContext(w)
      PROVE  RequestsSound'
  <2>1. PICK ctx \in Contexts :
          gen' = [gen EXCEPT ![w] =
                    Draft(ResolveApprovalChain(ctx), 1, None, FALSE, None)]
    BY <1>3 DEF GatherDecisionBriefContext
  <2>2. gen'[w] \in GenRecord
    BY <2>1, ChainsOK DEF GenRecord, Draft
  <2>3. /\ \A v \in Workers \ {w} : gen'[v] = gen[v] /\ pc'[v] = pc[v]
        /\ pc'[w] = "gathered" /\ UNCHANGED <<req, others>>
    BY <1>3, <2>1 DEF GatherDecisionBriefContext
  <2>4. ASSUME NEW v \in Workers PROVE RequestSound(v)'
    BY <2>2, <2>3, <2>4
  <2> QED
    BY <2>4
<1>4. ASSUME NEW w \in Workers, ReadLastBrief(w) PROVE RequestsSound'
  <2>1. gen[w] \in GenRecord
    BY <1>4 DEF ReadLastBrief
  <2>2. ASSUME NEW last \in BriefIds
        PROVE  Draft(gen[w].chain, NextVersion(last), last,
                     briefStatus[last] = "sent_back", None) \in GenRecord
    BY <2>1 DEF GenRecord, Draft, NextVersion
  <2>3. /\ gen'[w] \in GenRecord
        /\ \A v \in Workers \ {w} : gen'[v] = gen[v]
    BY <1>4, <2>1, <2>2 DEF ReadLastBrief
  <2>4. ASSUME NEW v \in Workers PROVE RequestSound(v)'
    BY <1>4, <2>3, <2>4 DEF ReadLastBrief
  <2> QED
    BY <2>4
<1>5. ASSUME NEW w \in Workers, AuditBrief(w) PROVE RequestsSound'
  BY <1>5 DEF AuditBrief
<1>6. ASSUME NEW w \in Workers, CheckCurrentStep(w) PROVE RequestsSound'
  <2>1. PICK r \in Requests :
         /\ r.brief \in Briefs
         /\ IsNextPending(r.brief, r.pos)
         /\ CanActOnAssignedRole(UserRole[r.user],
                                 requiredRole[r.brief][r.pos])
         /\ req' = [req EXCEPT ![w] = r]
    BY <1>6 DEF CheckCurrentStep
  <2>2. /\ stepStatus[r.brief][r.pos] # None
        /\ \A j \in Pending(r.brief) : r.pos <= j
        /\ RequiredSeniority(requiredRole[r.brief][r.pos])
             <= ActorSeniority(UserRole[r.user])
    BY <2>1, SeniorityIsInt
    DEF IsNextPending, Pending, CanActOnAssignedRole, StepStatus
  <2>3. req'[w] = r /\ \A v \in Workers \ {w} : req'[v] = req[v]
    BY <2>1
  <2>4. ASSUME NEW v \in Workers PROVE RequestSound(v)'
    BY <1>6, <2>1, <2>2, <2>3, <2>4 DEF CheckCurrentStep
  <2> QED
    BY <2>4
<1>7. ASSUME NEW w \in Workers, GetApprovalStep(w) PROVE RequestsSound'
  BY <1>7 DEF GetApprovalStep
<1>8. ASSUME NEW w \in Workers, FlushDecision(w) PROVE RequestsSound'
  <2>1. others' = [others EXCEPT ![w] =
                     Pending(req[w].brief) \ {req[w].pos}]
    BY <1>8 DEF FlushDecision
  <2>2. \A j \in others'[w] : /\ req[w].pos < j
                              /\ stepStatus[req[w].brief][j] # None
    <3>1. /\ req[w] \in Requests
          /\ \A j \in Pending(req[w].brief) : req[w].pos <= j
      BY <1>8 DEF FlushDecision
    <3>2. req[w].pos \in Int /\ Positions \subseteq Int
      BY <3>1, ConstantsOK DEF Requests, Positions
    <3>3. others'[w] = Pending(req[w].brief) \ {req[w].pos}
      BY <2>1
    <3>4. "pending" # None
      BY NoneOK DEF StepStatus
    <3>5. ASSUME NEW j \in others'[w]
          PROVE  req[w].pos < j /\ stepStatus[req[w].brief][j] # None
      <4>1. j \in Pending(req[w].brief) /\ j # req[w].pos
        BY <3>3
      <4>2. j \in Int /\ stepStatus[req[w].brief][j] = "pending"
        BY <3>2, <4>1 DEF Pending
      <4> HIDE DEF ChainInv, TypeOK, RequestsSound, RequestSound, chainTables
      <4>3. req[w].pos <= j
        BY <3>1, <4>1
      <4>4. req[w].pos < j
        BY <3>2, <4>1, <4>2, <4>3
      <4> QED
        BY <3>4, <4>2, <4>4
    <3> QED
      BY <3>5
  <2>3. ASSUME NEW v \in Workers PROVE RequestSound(v)'
    BY <1>8, <2>1, <2>2, <2>3 DEF FlushDecision
  <2> QED
    BY <2>3
<1>9. ASSUME NEW w \in Workers, AuditDecision(w) PROVE RequestsSound'
  BY <1>9 DEF AuditDecision
<1>10. ASSUME NEW w \in Workers, RequestFails(w) PROVE RequestsSound'
  <2>1. /\ pc'[w] = "idle"
        /\ \A v \in Workers \ {w} :
             /\ pc'[v] = pc[v] /\ req'[v] = req[v]
             /\ gen'[v] = gen[v] /\ others'[v] = others[v]
    BY <1>10 DEF RequestFails
  <2>2. ASSUME NEW v \in Workers PROVE RequestSound(v)'
    BY <2>1, <2>2
  <2> QED
    BY <2>2
<1> QED
  BY <1>1, <1>2, <1>3, <1>4, <1>5, <1>6, <1>7, <1>8, <1>9, <1>10

(***************************************************************************)
(* The insert of a brief touches no row a request in flight points at: its *)
(* key is fresh.                                                           *)
(***************************************************************************)
LEMMA CreateStep ==
  ASSUME ChainInv, NEW w \in Workers, CreateDecisionBrief(w)
  PROVE  /\ RowsTogether' /\ RequestsSound'
         /\ VerdictIffChainClosed' /\ DecidedInOrder' /\ SeniorEnough'
<1> USE DEF ChainInv, TypeOK
<1>1. gen[w] \in GenRecord
  BY DEF CreateDecisionBrief, RequestsSound, RequestSound
<1>2. Len(gen[w].chain) \in 1 .. MaxChain
  BY <1>1 DEF GenRecord, Chains
<1>3. PICK b \in BriefIds \ Briefs :
       /\ briefStatus' = [briefStatus EXCEPT ![b] = "pending"]
       /\ requiredRole' = [requiredRole EXCEPT ![b] = RolesOf(gen[w].chain)]
       /\ stepStatus' = [stepStatus EXCEPT ![b] =
              [i \in Positions |->
                  IF i < Len(gen[w].chain) THEN "pending" ELSE None]]
       /\ gen' = [gen EXCEPT ![w] =
              Draft(gen[w].chain, gen[w].next, gen[w].last,
                    gen[w].lastSentBack, b)]
       /\ UNCHANGED <<decidedBy, req, others>>
       /\ pc' = [pc EXCEPT ![w] = "brief_created"]
  BY DEF CreateDecisionBrief
<1>4. /\ b \in BriefIds /\ briefStatus[b] = None
      /\ \A i \in Positions : decidedBy[b][i] = None
  BY <1>3 DEF Briefs, RowsTogether
<1>5. /\ Briefs' = Briefs \union {b}
      /\ \A c \in Briefs : c # b
  BY <1>3, <1>4, NoneOK DEF Briefs, StepStatus
<1>6. \A c \in Briefs : /\ briefStatus'[c] = briefStatus[c]
                       /\ requiredRole'[c] = requiredRole[c]
                       /\ stepStatus'[c] = stepStatus[c]
                       /\ Pending(c)' = Pending(c)
  BY <1>3, <1>5 DEF Briefs, Pending
<1>7. stepStatus'[b] = [i \in Positions |->
                         IF i < Len(gen[w].chain) THEN "pending" ELSE None]
  BY <1>3, <1>4
<1>8. 0 \in Positions /\ Positions \subseteq Nat
  BY ConstantsOK DEF Positions
<1>9. 0 \in Pending(b)'
  BY <1>2, <1>7, <1>8 DEF Pending
<1>10. RowsTogether'
  <2> SUFFICES ASSUME NEW c \in BriefIds, c \notin Briefs', NEW i \in Positions
               PROVE  stepStatus'[c][i] = None /\ decidedBy'[c][i] = None
    BY DEF RowsTogether
  <2>1. c # b /\ c \notin Briefs
    BY <1>5
  <2> QED
    BY <2>1, <1>3 DEF RowsTogether
<1>11. RequestsSound'
  <2>1. gen'[w] \in GenRecord /\ gen'[w].brief = b
    BY <1>1, <1>3, <1>4 DEF GenRecord, Draft
  <2>2. ASSUME NEW v \in Workers PROVE RequestSound(v)'
    <3>1. RequestSound(v)
      BY DEF RequestsSound
    <3>2. CASE v = w
      BY <1>3, <1>5, <2>1, <3>2 DEF RequestSound
    <3>3. CASE v # w
      <4>1. /\ pc'[v] = pc[v] /\ req'[v] = req[v]
            /\ gen'[v] = gen[v] /\ others'[v] = others[v]
        BY <1>3, <3>3
      <4> QED
        BY <1>5, <1>6, <3>1, <4>1 DEF RequestSound
    <3> QED
      BY <3>2, <3>3
  <2> QED
    BY <2>2 DEF RequestsSound
<1>12. VerdictIffChainClosed'
  <2> SUFFICES ASSUME NEW c \in Briefs'
               PROVE  (briefStatus'[c] = "pending") <=> (Pending(c)' # {})
    BY DEF VerdictIffChainClosed
  <2>1. CASE c = b
    BY <1>3, <1>4, <1>9, <2>1
  <2>2. CASE c \in Briefs
    BY <1>6, <2>2 DEF VerdictIffChainClosed
  <2> QED
    BY <1>5, <2>1, <2>2
<1>13. DecidedInOrder'
  <2> SUFFICES ASSUME NEW c \in Briefs', NEW i \in Positions,
                      NEW j \in Positions, i < j,
                      stepStatus'[c][i] = "pending", stepStatus'[c][j] # None
               PROVE  stepStatus'[c][j] = "pending"
    BY DEF DecidedInOrder
  <2>1. CASE c = b
    BY <1>7, <2>1
  <2>2. CASE c \in Briefs
    BY <1>6, <2>2 DEF DecidedInOrder
  <2> QED
    BY <1>5, <2>1, <2>2
<1>14. SeniorEnough'
  BY <1>3, <1>4, <1>5, <1>6 DEF SeniorEnough
<1> QED
  BY <1>10, <1>11, <1>12, <1>13, <1>14

(***************************************************************************)
(* The commit of a decision closes its own step, and every other pending   *)
(* one when it refuses; it never makes a step pending.                     *)
(***************************************************************************)
LEMMA CommitStep ==
  ASSUME ChainInv, NEW w \in Workers, CommitDecision(w),
         NEW b, b = req[w].brief, NEW i, i = req[w].pos,
         NEW d, d = req[w].decision
  PROVE  /\ RowsTogether' /\ RequestsSound'
         /\ VerdictIffChainClosed' /\ DecidedInOrder' /\ SeniorEnough'
<1> USE DEF ChainInv, TypeOK
<1>1. /\ pc[w] = "flushed" /\ RequestSound(w)
      /\ stepStatus' = [stepStatus EXCEPT ![b] =
            [j \in Positions |->
                IF j = i THEN d
                ELSE IF j \in Skipped(w) THEN "skipped"
                ELSE stepStatus[b][j]]]
      /\ decidedBy' = [decidedBy EXCEPT ![b][i] = req[w].user]
      /\ briefStatus' = [briefStatus EXCEPT ![b] =
            IF ClosesBrief(w) THEN d ELSE @]
      /\ pc' = [pc EXCEPT ![w] = "decided"]
      /\ others' = [others EXCEPT ![w] = {}]
      /\ UNCHANGED <<requiredRole, req, gen>>
  BY DEF CommitDecision, RecordedStatus, RequestsSound
<1>2. /\ b \in Briefs /\ b \in BriefIds /\ i \in Positions
      /\ d \in Decisions /\ req[w].user \in Users
      /\ \A j \in Pending(b) : i <= j
      /\ Pending(b) \ {i} \subseteq others[w]
      /\ others[w] \subseteq Positions
      /\ \A j \in others[w] : i < j /\ stepStatus[b][j] # None
      /\ stepStatus[b][i] # None
  BY <1>1 DEF RequestSound, Requests, Briefs
<1>3. Skipped(w) \subseteq others[w]
  BY DEF Skipped
<1>4. \A c \in BriefIds \ {b} :
        /\ stepStatus'[c] = stepStatus[c] /\ decidedBy'[c] = decidedBy[c]
        /\ briefStatus'[c] = briefStatus[c] /\ Pending(c)' = Pending(c)
  BY <1>1, <1>2 DEF Pending
<1>5. \A j \in Positions : stepStatus'[b][j] =
        IF j = i THEN d ELSE IF j \in Skipped(w) THEN "skipped"
        ELSE stepStatus[b][j]
  BY <1>1, <1>2
<1>6. briefStatus'[b] = IF ClosesBrief(w) THEN d ELSE briefStatus[b]
  BY <1>1, <1>2
<1>7. Briefs' = Briefs
  BY <1>1, <1>2, <1>4, <1>6, NoneOK DEF Briefs, StepStatus
<1>8. Pending(b)' = Pending(b) \ ({i} \union Skipped(w))
  BY <1>2, <1>3, <1>5 DEF Pending, Decisions, Approvals, Refusals
<1>9. \A c \in BriefIds : \A j \in Positions :
        stepStatus'[c][j] = None <=> stepStatus[c][j] = None
  <2>1. d # None /\ "skipped" # None
    BY <1>2, NoneOK DEF StepStatus
  <2>2. \A j \in Positions :
          stepStatus'[b][j] = None <=> stepStatus[b][j] = None
    BY <1>2, <1>3, <1>5, <2>1
  <2> QED
    BY <1>4, <2>2
<1>10. \A c \in BriefIds : Pending(c)' \subseteq Pending(c)
  BY <1>4, <1>8
<1>11. Positions \subseteq Nat
  BY ConstantsOK DEF Positions
<1>12. RowsTogether'
  BY <1>4, <1>7, <1>2 DEF RowsTogether
<1>13. RequestsSound'
  <2>1. ASSUME NEW v \in Workers PROVE RequestSound(v)'
    <3>1. RequestSound(v)
      BY DEF RequestsSound
    <3>2. req'[v] \in Requests => req'[v].brief \in BriefIds
                                 /\ req'[v].pos \in Positions
      BY DEF Requests
    <3>3. CASE v = w
      BY <1>1, <1>2, <1>7, <1>9, <1>10, <3>1, <3>3 DEF RequestSound
    <3>4. CASE v # w
      BY <1>1, <1>7, <1>9, <1>10, <3>1, <3>2, <3>4 DEF RequestSound
    <3> QED
      BY <3>3, <3>4
  <2> QED
    BY <2>1 DEF RequestsSound
<1>14. VerdictIffChainClosed'
  <2>1. (briefStatus[b] = "pending") <=> (Pending(b) # {})
    BY <1>2 DEF VerdictIffChainClosed
  <2>2. d # "pending"
    BY <1>2 DEF Decisions, Approvals, Refusals
  <2>3. CASE d \in Refusals
    <3>1. Pending(b)' = {}
      BY <1>2, <1>8, <2>3 DEF Skipped
    <3> QED
      BY <1>4, <1>6, <1>7, <2>2, <2>3, <3>1
      DEF VerdictIffChainClosed, ClosesBrief, Briefs
  <2>4. CASE d \notin Refusals
    <3>1. Pending(b)' = Pending(b) \ {i}
      BY <1>8, <2>4 DEF Skipped
    <3>2. CASE others[w] = {}
      BY <1>2, <1>4, <1>6, <1>7, <2>2, <3>1, <3>2
      DEF VerdictIffChainClosed, ClosesBrief, Briefs
    <3>3. CASE others[w] # {}
      <4>1. briefStatus'[b] = briefStatus[b]
        BY <1>6, <2>4, <3>3 DEF ClosesBrief
      <4>2. CASE i \notin Pending(b)
        BY <1>4, <1>7, <2>1, <3>1, <4>1, <4>2
        DEF VerdictIffChainClosed, Briefs
      <4>3. CASE i \in Pending(b)
        <5>1. PICK j \in others[w] : TRUE
          BY <3>3
        <5>2. i < j /\ j \in Positions /\ stepStatus[b][j] # None
          BY <1>2
        <5>3. j \in Pending(b) /\ j # i
          BY <1>2, <1>11, <4>3, <5>2 DEF DecidedInOrder, Pending
        <5> QED
          BY <1>4, <1>7, <2>1, <3>1, <4>1, <4>3, <5>3
          DEF VerdictIffChainClosed, Briefs
      <4> QED
        BY <4>2, <4>3
    <3> QED
      BY <3>2, <3>3
  <2> QED
    BY <2>3, <2>4
<1>15. DecidedInOrder'
  <2> SUFFICES ASSUME NEW c \in Briefs, NEW k \in Positions,
                      NEW j \in Positions, k < j,
                      stepStatus'[c][k] = "pending", stepStatus'[c][j] # None
               PROVE  stepStatus'[c][j] = "pending"
    BY <1>7 DEF DecidedInOrder
  <2>1. CASE c # b
    BY <1>4, <2>1 DEF DecidedInOrder, Briefs
  <2>2. CASE c = b
    <3>1. k \in Pending(b)' /\ k \in Pending(b)
      BY <1>10, <1>2, <2>2 DEF Pending
    <3>2. stepStatus[b][j] = "pending"
      BY <1>2, <1>9, <2>2, <3>1 DEF DecidedInOrder, Pending
    <3>3. j # i
      BY <1>2, <1>11, <3>1
    <3>4. j \notin Skipped(w)
      <4>1. k \notin Skipped(w) /\ k # i
        BY <1>8, <3>1
      <4>2. k \in others[w]
        BY <1>2, <3>1, <4>1
      <4> QED
        BY <4>1, <4>2 DEF Skipped
    <3> QED
      BY <1>5, <2>2, <3>2, <3>3, <3>4
  <2> QED
    BY <2>1, <2>2
<1>16. SeniorEnough'
  <2> SUFFICES ASSUME NEW c \in Briefs, NEW k \in Positions,
                      decidedBy'[c][k] # None
               PROVE  RequiredSeniority(requiredRole[c][k])
                        <= ActorSeniority(UserRole[decidedBy'[c][k]])
    BY <1>1, <1>7 DEF SeniorEnough
  <2>1. CASE c = b /\ k = i
    <3>1. decidedBy'[b][i] = req[w].user
      BY <1>1, <1>2
    <3>2. RequiredSeniority(requiredRole[b][i])
            <= ActorSeniority(UserRole[req[w].user])
      BY <1>1 DEF RequestSound
    <3> QED
      BY <2>1, <3>1, <3>2
  <2>2. CASE ~(c = b /\ k = i)
    <3>1. decidedBy'[c][k] = decidedBy[c][k]
      BY <1>1, <1>2, <1>4, <2>2 DEF Briefs
    <3> QED
      BY <3>1 DEF SeniorEnough
  <2> QED
    BY <2>1, <2>2
<1> QED
  BY <1>12, <1>13, <1>14, <1>15, <1>16

-----------------------------------------------------------------------------
\* Every step of every worker preserves the inductive invariant.
LEMMA ChainInvStep == ChainInv /\ [Next]_vars => ChainInv'
<1> SUFFICES ASSUME ChainInv, [Next]_vars PROVE ChainInv'
  OBVIOUS
<1>1. TypeOK'
  BY TypeStep DEF ChainInv
<1>2. CASE \E w \in Workers : CreateDecisionBrief(w)
  BY <1>1, <1>2, CreateStep DEF ChainInv
<1>3. CASE \E w \in Workers : CommitDecision(w)
  BY <1>1, <1>3, CommitStep DEF ChainInv
<1>4. CASE /\ ~\E w \in Workers : CreateDecisionBrief(w)
           /\ ~\E w \in Workers : CommitDecision(w)
  <2>1. \/ RecordReviewAction
        \/ UNCHANGED vars
        \/ \E w \in Workers :
             \/ GatherDecisionBriefContext(w) \/ ReadLastBrief(w)
             \/ AuditBrief(w) \/ CheckCurrentStep(w) \/ GetApprovalStep(w)
             \/ FlushDecision(w) \/ AuditDecision(w) \/ RequestFails(w)
    BY <1>4 DEF Next, Serve
  <2>2. UNCHANGED chainTables
    BY <2>1
    DEF RecordReviewAction, GatherDecisionBriefContext, ReadLastBrief,
        AuditBrief, CheckCurrentStep, GetApprovalStep, FlushDecision,
        AuditDecision, RequestFails, vars, tables, chainTables
  <2> QED
    BY <1>1, <2>1, <2>2, SameTables, RequestsSoundStep DEF ChainInv
<1> QED
  BY <1>2, <1>3, <1>4

\* The inductive invariant holds for ever, for any number of workers, users and
\* briefs: types, rows, requests in flight, order, seniority and verdict.
THEOREM ChainInvariant == Spec => []ChainInv
BY InitChainInv, ChainInvStep, PTL DEF Spec

\* Whatever overlaps, an accepted request still points at a step its user may
\* act on and whose predecessors are closed, and its flush saw every other step
\* that is pending.
THEOREM RequestsStaySound == Spec => []RequestsSound
<1>1. ChainInv => RequestsSound
  BY DEF ChainInv
<1> QED
  BY <1>1, ChainInvariant, PTL

\* Types are kept (TypeOK of the module).
THEOREM TypeCorrect == Spec => []TypeOK
<1>1. ChainInv => TypeOK
  BY DEF ChainInv
<1> QED
  BY <1>1, ChainInvariant, PTL

\* However many workers decide at once, a brief has a verdict exactly when no
\* step of its chain is left pending.
THEOREM VerdictExactlyWhenClosed == Spec => []VerdictIffChainClosed
<1>1. ChainInv => VerdictIffChainClosed
  BY DEF ChainInv
<1> QED
  BY <1>1, ChainInvariant, PTL

\* However many workers decide at once, no step behind a pending one is decided.
THEOREM ChainInOrder == Spec => []DecidedInOrder
<1>1. ChainInv => DecidedInOrder
  BY DEF ChainInv
<1> QED
  BY <1>1, ChainInvariant, PTL

\* Every decision that is stored was made by somebody senior enough.
THEOREM DecidersSenior == Spec => []SeniorEnough
<1>1. ChainInv => SeniorEnough
  BY DEF ChainInv
<1> QED
  BY <1>1, ChainInvariant, PTL

-----------------------------------------------------------------------------
(***************************************************************************)
(* The chain implements the gate: an insert issues a brief, a commit lets  *)
(* the front step pass, refuses, or (when it overwrites a decision another *)
(* worker made meanwhile) changes nothing the gate shows.                  *)
(***************************************************************************)
\* No brief, no open gate.
LEMMA InitRefines == Init => Gate!GateInit
<1> SUFFICES ASSUME Init PROVE Gate!GateInit
  OBVIOUS
<1>1. \A b \in BriefIds : Pending(b) = {}
  BY NoneOK DEF Init, Pending, StepStatus
<1>2. gateOpen = [b \in BriefIds |-> {}]
  BY <1>1 DEF gateOpen
<1>3. gatePhase = [b \in BriefIds |-> "none"]
  BY DEF Init, gatePhase
<1> QED
  BY <1>2, <1>3 DEF Gate!GateInit

\* The insert of a brief and its steps is the issue of one gate.
LEMMA CreateRefines ==
  ASSUME ChainInv, NEW w \in Workers, CreateDecisionBrief(w)
  PROVE  \E b \in BriefIds : Gate!Issue(b)
<1> USE DEF ChainInv, TypeOK
<1>1. Len(gen[w].chain) \in 1 .. MaxChain
  BY DEF CreateDecisionBrief, RequestsSound, RequestSound, GenRecord, Chains
<1>2. PICK b \in BriefIds \ Briefs :
       /\ briefStatus' = [briefStatus EXCEPT ![b] = "pending"]
       /\ stepStatus' = [stepStatus EXCEPT ![b] =
              [i \in Positions |->
                  IF i < Len(gen[w].chain) THEN "pending" ELSE None]]
  BY DEF CreateDecisionBrief
<1> DEFINE last == Len(gen[w].chain) - 1
<1>3. last \in Positions
  BY <1>1, ConstantsOK DEF Positions
<1>4. stepStatus'[b] = [i \in Positions |->
                         IF i < Len(gen[w].chain) THEN "pending" ELSE None]
  BY <1>2
<1>5. Pending(b)' = {i \in Positions : i <= last}
  <2>1. \A i \in Positions : i < Len(gen[w].chain) <=> i <= last
    BY <1>1, ConstantsOK DEF Positions
  <2> QED
    BY <1>4, <2>1, NoneOK DEF Pending, StepStatus
<1>6. \A c \in BriefIds \ {b} : Pending(c)' = Pending(c)
  BY <1>2 DEF Pending
<1>7. gateOpen' = [gateOpen EXCEPT ![b] = {i \in Positions : i <= last}]
  BY <1>5, <1>6 DEF gateOpen
<1>8. gatePhase' = [gatePhase EXCEPT ![b] = "open"]
  BY <1>2, NoneOK DEF gatePhase, StepStatus
<1>9. gatePhase[b] = "none"
  BY <1>2 DEF gatePhase, Briefs
<1> QED
  BY <1>2, <1>3, <1>7, <1>8, <1>9 DEF Gate!Issue

\* A commit passes the front of the gate, refuses it, or is invisible to it.
LEMMA CommitRefines ==
  ASSUME ChainInv, ChainInv', NEW w \in Workers, CommitDecision(w),
         NEW b, b = req[w].brief, NEW i, i = req[w].pos
  PROVE  \/ Gate!Pass(b) \/ Gate!Refuse(b)
         \/ UNCHANGED <<gateOpen, gatePhase>>
<1> USE DEF ChainInv, TypeOK
<1>1. /\ b \in Briefs /\ b \in BriefIds /\ i \in Positions
      /\ req[w].decision \in Decisions
      /\ \A j \in Pending(b) : i <= j
      /\ Pending(b) \ {i} \subseteq others[w]
      /\ others[w] \subseteq Positions
  BY DEF CommitDecision, RequestsSound, RequestSound, Requests, Briefs
<1>2. /\ stepStatus' = [stepStatus EXCEPT ![b] =
            [j \in Positions |->
                IF j = i THEN req[w].decision
                ELSE IF j \in Skipped(w) THEN "skipped"
                ELSE stepStatus[b][j]]]
      /\ briefStatus' = [briefStatus EXCEPT ![b] =
            IF ClosesBrief(w) THEN req[w].decision ELSE @]
  BY DEF CommitDecision, RecordedStatus
<1>3. \A c \in BriefIds \ {b} :
        Pending(c)' = Pending(c) /\ briefStatus'[c] = briefStatus[c]
  BY <1>1, <1>2 DEF Pending
<1>4. Pending(b)' = Pending(b) \ ({i} \union Skipped(w))
  BY <1>1, <1>2 DEF Pending, Decisions, Approvals, Refusals
<1>5. Pending(b)' \in {{}, Pending(b) \ {i}}
  BY <1>1, <1>4 DEF Skipped
<1>6. b \in Briefs'
  BY <1>1, <1>2, NoneOK DEF Briefs, StepStatus
<1>7. (briefStatus'[b] = "pending") <=> (Pending(b)' # {})
  BY <1>6 DEF VerdictIffChainClosed
<1>8. gateOpen' = [gateOpen EXCEPT ![b] = Pending(b)']
  BY <1>3 DEF gateOpen
<1>9. gatePhase' = [gatePhase EXCEPT ![b] =
                      IF Pending(b)' = {} THEN "closed" ELSE "open"]
  BY <1>1, <1>3, <1>6, <1>7 DEF gatePhase, Briefs
<1>10. gatePhase[b] = IF Pending(b) = {} THEN "closed" ELSE "open"
  BY <1>1 DEF gatePhase, VerdictIffChainClosed, Briefs
<1>11. gateOpen[b] = Pending(b)
  BY <1>1 DEF gateOpen
<1>12. CASE Pending(b) = {}
  <2>1. Pending(b)' = {}
    BY <1>4, <1>12
  <2>2. gateOpen' = gateOpen
    BY <1>8, <1>11, <1>12, <2>1 DEF gateOpen
  <2>3. gatePhase' = gatePhase
    BY <1>9, <1>10, <1>12, <2>1 DEF gatePhase
  <2> QED
    BY <2>2, <2>3
<1>13. CASE Pending(b) # {} /\ Pending(b)' = {}
  BY <1>8, <1>9, <1>10, <1>13 DEF Gate!Refuse, Gate!LeaveOpen
<1>14. CASE Pending(b)' = Pending(b) \ {i} /\ i \in Pending(b)
  <2> HIDE DEF ChainInv, TypeOK
  <2>1. gatePhase[b] = "open"
    BY <1>10, <1>14
  <2>2. Gate!LeaveOpen(b, gateOpen[b] \ {i})
    BY <1>8, <1>9, <1>11, <1>14 DEF Gate!LeaveOpen
  <2>3. i \in gateOpen[b] /\ \A j \in gateOpen[b] : i <= j
    BY <1>1, <1>11, <1>14
  <2> QED
    BY <2>1, <2>2, <2>3 DEF Gate!Pass
<1>15. CASE Pending(b)' = Pending(b) \ {i} /\ i \notin Pending(b)
  <2>1. Pending(b)' = Pending(b)
    BY <1>15
  <2> HIDE DEF ChainInv, TypeOK
  <2>2. gateOpen' = gateOpen
    BY <1>8, <1>11, <2>1 DEF gateOpen
  <2>3. gatePhase' = gatePhase
    BY <1>9, <1>10, <2>1 DEF gatePhase
  <2> QED
    BY <2>2, <2>3
<1> QED
  BY <1>5, <1>12, <1>13, <1>14, <1>15

\* What leaves the tables alone leaves the gate alone.
LEMMA OtherStepsStutter ==
  ASSUME UNCHANGED chainTables
  PROVE  UNCHANGED <<gateOpen, gatePhase>>
BY DEF chainTables, gateOpen, gatePhase, Pending

\* Every step of the workers is a step of the gate or a stutter.
LEMMA StepRefines ==
  ChainInv /\ ChainInv' /\ [Next]_vars => [Gate!GateNext]_(Gate!gateVars)
<1> SUFFICES ASSUME ChainInv, ChainInv', [Next]_vars
             PROVE  Gate!GateNext \/ UNCHANGED <<gateOpen, gatePhase>>
  BY DEF Gate!gateVars
<1>1. CASE \E w \in Workers : CreateDecisionBrief(w)
  BY <1>1, CreateRefines DEF Gate!GateNext
<1>2. ASSUME NEW w \in Workers, CommitDecision(w)
      PROVE  Gate!GateNext \/ UNCHANGED <<gateOpen, gatePhase>>
  <2>1. req[w].brief \in BriefIds
    BY <1>2 DEF ChainInv, CommitDecision, RequestsSound, RequestSound, Briefs
  <2> QED
    BY <1>2, <2>1, CommitRefines DEF Gate!GateNext
<1>3. CASE /\ ~\E w \in Workers : CreateDecisionBrief(w)
           /\ ~\E w \in Workers : CommitDecision(w)
  <2>1. UNCHANGED chainTables
    BY <1>3
    DEF Next, Serve, RecordReviewAction, GatherDecisionBriefContext,
        ReadLastBrief, AuditBrief, CheckCurrentStep, GetApprovalStep,
        FlushDecision, AuditDecision, RequestFails, vars, tables, chainTables
  <2> QED
    BY <2>1, OtherStepsStutter
<1> QED
  BY <1>1, <1>2, <1>3

\* Every behaviour of the workers is a behaviour of the gate (ImplementsGate).
THEOREM GateImplemented == Spec => ImplementsGate
<1>1. Spec => Gate!GateInit /\ [][Gate!GateNext]_(Gate!gateVars)
  BY InitRefines, StepRefines, ChainInvariant, PTL DEF Spec
<1> QED
  BY <1>1 DEF ImplementsGate, Gate!GateSpec
-----------------------------------------------------------------------------
(***************************************************************************)
(* The audit log.  A brief or decision without its audit row is either the *)
(* one some worker is about to log, or an orphan of a request that died;   *)
(* only a dying request makes an orphan.  (The count the property bounds   *)
(* is not inductive: two workers that decided one step log it twice.)      *)
(***************************************************************************)
OrphanBriefs ==
    {b \in Briefs \ auditedBriefs :
        \A w \in Workers : pc[w] = "brief_created" => gen[w].brief # b}

AuditedPairs == {<<e.brief, e.pos>> : e \in auditedSteps}

OrphanSteps ==
    {p \in Decided \ AuditedPairs :
        \A w \in Workers :
            pc[w] = "decided" => <<req[w].brief, req[w].pos>> # p}

OrphansAreFailures ==
    Cardinality(OrphanBriefs) + Cardinality(OrphanSteps) <= failures

\* Briefs, steps and workers can be counted.
LEMMA FiniteOrphans ==
  /\ IsFiniteSet(Briefs) /\ IsFiniteSet(Decided)
  /\ IsFiniteSet(OrphanBriefs) /\ Cardinality(OrphanBriefs) \in Nat
  /\ IsFiniteSet(OrphanSteps) /\ Cardinality(OrphanSteps) \in Nat
<1>1. IsFiniteSet(Positions)
  BY ConstantsOK, FS_Interval DEF Positions
<1>2. IsFiniteSet(BriefIds \X Positions)
  BY <1>1, FiniteOK, FS_Product
<1>3. /\ Briefs \in SUBSET BriefIds
      /\ Decided \in SUBSET (BriefIds \X Positions)
  BY DEF Briefs, Decided
<1>4. IsFiniteSet(Briefs) /\ IsFiniteSet(Decided)
  BY <1>2, <1>3, FiniteOK, FS_Subset
<1>5. OrphanBriefs \in SUBSET Briefs /\ OrphanSteps \in SUBSET Decided
  BY DEF OrphanBriefs, OrphanSteps
<1>6. IsFiniteSet(OrphanBriefs) /\ IsFiniteSet(OrphanSteps)
  BY <1>4, <1>5, FS_Subset
<1> QED
  BY <1>4, <1>6, FS_CardinalityType

\* A set whose members are in O or picked by some member of W has at most as
\* many members as O and W together.
LEMMA CountedBy ==
  ASSUME NEW G, NEW O, NEW W, IsFiniteSet(O), IsFiniteSet(W), NEW f,
         \A g \in G : g \in O \/ \E w \in W : f[w] = g
  PROVE  IsFiniteSet(G) /\ Cardinality(G) <= Cardinality(O) + Cardinality(W)
<1> DEFINE T == {f[w] : w \in W}
           h == [w \in W |-> f[w]]
<1>1. h \in Surjection(W, T)
  BY DEF Surjection
<1>2. IsFiniteSet(T) /\ Cardinality(T) <= Cardinality(W)
  BY <1>1, FS_Surjection
<1>3. G \in SUBSET (O \union T)
  OBVIOUS
<1> HIDE DEF T
<1>4. /\ IsFiniteSet(O \union T)
      /\ Cardinality(O \union T)
           = Cardinality(O) + Cardinality(T) - Cardinality(O \cap T)
  BY <1>2, FS_Union
<1>5. IsFiniteSet(O \cap T)
  BY <1>2, FS_Intersection
<1>6. IsFiniteSet(G) /\ Cardinality(G) <= Cardinality(O \union T)
  BY <1>3, <1>4, FS_Subset
<1>7. /\ Cardinality(O) \in Nat /\ Cardinality(T) \in Nat
      /\ Cardinality(O \cap T) \in Nat /\ Cardinality(W) \in Nat
      /\ Cardinality(G) \in Nat
  BY <1>2, <1>5, <1>6, FS_CardinalityType
<1> QED
  BY <1>2, <1>4, <1>6, <1>7

\* A step that makes no orphan and forgets no failure keeps the count.
LEMMA NoNewOrphan ==
  ASSUME OrphansAreFailures, OrphanBriefs' \subseteq OrphanBriefs,
         OrphanSteps' \subseteq OrphanSteps, UNCHANGED failures, TypeOK
  PROVE  OrphansAreFailures'
<1>1. /\ OrphanBriefs' \in SUBSET OrphanBriefs
      /\ OrphanSteps' \in SUBSET OrphanSteps
  OBVIOUS
<1>2. /\ IsFiniteSet(OrphanBriefs') /\ IsFiniteSet(OrphanSteps')
      /\ Cardinality(OrphanBriefs') <= Cardinality(OrphanBriefs)
      /\ Cardinality(OrphanSteps') <= Cardinality(OrphanSteps)
  BY <1>1, FiniteOrphans, FS_Subset
<1>3. Cardinality(OrphanBriefs') \in Nat /\ Cardinality(OrphanSteps') \in Nat
  BY <1>2, FS_CardinalityType
<1>4. failures \in Int
  BY DEF TypeOK
<1> QED
  BY <1>2, <1>3, <1>4, FiniteOrphans DEF OrphansAreFailures

\* The insert of a brief leaves its worker about to log it.
LEMMA CreateAudit ==
  ASSUME ChainInv, OrphansAreFailures, NEW w \in Workers,
         CreateDecisionBrief(w)
  PROVE  OrphansAreFailures'
<1> USE DEF ChainInv, TypeOK
<1>1. PICK b \in BriefIds \ Briefs :
       /\ briefStatus' = [briefStatus EXCEPT ![b] = "pending"]
       /\ gen' = [gen EXCEPT ![w] =
              Draft(gen[w].chain, gen[w].next, gen[w].last,
                    gen[w].lastSentBack, b)]
  BY DEF CreateDecisionBrief
<1>2. /\ pc[w] = "last_read" /\ pc' = [pc EXCEPT ![w] = "brief_created"]
      /\ UNCHANGED <<decidedBy, req, auditedBriefs, auditedSteps, failures>>
  BY DEF CreateDecisionBrief, audit
<1>3. gen'[w].brief = b /\ \A v \in Workers \ {w} : gen'[v] = gen[v]
  BY <1>1 DEF Draft
<1>4. Briefs' \subseteq Briefs \union {b}
  BY <1>1 DEF Briefs
<1>5. /\ pc'[w] = "brief_created"
      /\ \A v \in Workers \ {w} : pc'[v] = pc[v]
  BY <1>2
<1>6. OrphanBriefs' \subseteq OrphanBriefs
  BY <1>2, <1>3, <1>4, <1>5 DEF OrphanBriefs
<1>7. OrphanSteps' \subseteq OrphanSteps
  BY <1>2, <1>5 DEF OrphanSteps, Decided, AuditedPairs
<1> QED
  BY <1>2, <1>6, <1>7, NoNewOrphan

\* The commit of a decision leaves its worker about to log it.
LEMMA CommitAudit ==
  ASSUME ChainInv, OrphansAreFailures, NEW w \in Workers, CommitDecision(w)
  PROVE  OrphansAreFailures'
<1> USE DEF ChainInv, TypeOK
<1>1. /\ pc[w] = "flushed" /\ pc' = [pc EXCEPT ![w] = "decided"]
      /\ decidedBy' = [decidedBy EXCEPT ![req[w].brief][req[w].pos] =
                         req[w].user]
      /\ briefStatus' = [briefStatus EXCEPT ![req[w].brief] =
            IF ClosesBrief(w) THEN req[w].decision ELSE @]
      /\ UNCHANGED <<gen, req, auditedBriefs, auditedSteps, failures>>
  BY DEF CommitDecision, audit
<1>2. req[w].brief \in Briefs
  BY <1>1 DEF RequestsSound, RequestSound
<1>3. Briefs' \subseteq Briefs
  BY <1>1, <1>2 DEF Briefs
<1>4. Decided' \subseteq Decided \union {<<req[w].brief, req[w].pos>>}
  <2> SUFFICES ASSUME NEW b \in BriefIds, NEW i \in Positions,
                      decidedBy'[b][i] # None,
                      ~(b = req[w].brief /\ i = req[w].pos)
               PROVE  decidedBy[b][i] # None
    BY DEF Decided
  <2>1. decidedBy'[b][i] = decidedBy[b][i]
    BY <1>1
  <2> QED
    BY <2>1
<1>5. /\ pc'[w] = "decided"
      /\ \A v \in Workers \ {w} : pc'[v] = pc[v]
  BY <1>1
<1>6. OrphanBriefs' \subseteq OrphanBriefs
  BY <1>1, <1>3, <1>5 DEF OrphanBriefs
<1>7. OrphanSteps' \subseteq OrphanSteps
  BY <1>1, <1>4, <1>5 DEF OrphanSteps, AuditedPairs
<1> QED
  BY <1>1, <1>6, <1>7, NoNewOrphan

\* A request that dies leaves at most one orphan behind, and is counted.
LEMMA FailureAudit ==
  ASSUME ChainInv, OrphansAreFailures, NEW w \in Workers, RequestFails(w)
  PROVE  OrphansAreFailures'
<1> USE DEF ChainInv, TypeOK
<1> DEFINE b == gen[w].brief
           p == <<req[w].brief, req[w].pos>>
<1>1. /\ failures' = failures + 1 /\ pc' = [pc EXCEPT ![w] = "idle"]
      /\ UNCHANGED <<briefStatus, decidedBy, auditedBriefs, auditedSteps>>
      /\ \A v \in Workers \ {w} : gen'[v] = gen[v] /\ req'[v] = req[v]
  BY DEF RequestFails, tables, audit
<1>2. /\ Briefs' = Briefs /\ Decided' = Decided
      /\ AuditedPairs' = AuditedPairs
      /\ \A v \in Workers \ {w} : pc'[v] = pc[v]
  BY <1>1 DEF Briefs, Decided, AuditedPairs
<1>3. \/ /\ OrphanBriefs' \subseteq OrphanBriefs \union {b}
         /\ OrphanSteps' \subseteq OrphanSteps
      \/ /\ OrphanBriefs' \subseteq OrphanBriefs
         /\ OrphanSteps' \subseteq OrphanSteps \union {p}
  <2>1. CASE pc[w] = "brief_created"
    BY <1>1, <1>2, <2>1 DEF OrphanBriefs, OrphanSteps
  <2>2. CASE pc[w] # "brief_created"
    BY <1>1, <1>2, <2>2 DEF OrphanBriefs, OrphanSteps
  <2> QED
    BY <2>1, <2>2
<1> HIDE DEF b, p
<1>4. \A T : IsFiniteSet(T) => Cardinality(T) \in Nat
  BY FS_CardinalityType
<1>5. ASSUME NEW S, NEW T, NEW x, IsFiniteSet(S), T \subseteq S \union {x}
      PROVE  IsFiniteSet(T) /\ Cardinality(T) <= Cardinality(S) + 1
  <2>0. Cardinality(S) \in Nat
    BY <1>5, FS_CardinalityType
  <2> HIDE DEF ChainInv, TypeOK
  <2>1. /\ IsFiniteSet(S \union {x})
        /\ Cardinality(S \union {x}) =
             IF x \in S THEN Cardinality(S) ELSE Cardinality(S) + 1
    BY <1>5, FS_AddElement, Zenon
  <2>2. /\ IsFiniteSet(T) /\ Cardinality(T) <= Cardinality(S \union {x})
    BY <1>5, <2>1, FS_Subset, Zenon
  <2>3. Cardinality(T) \in Nat
    BY <1>4, <2>2
  <2> QED
    BY <2>0, <2>1, <2>2, <2>3
<1>6. ASSUME NEW S, NEW T, IsFiniteSet(S), T \subseteq S
      PROVE  IsFiniteSet(T) /\ Cardinality(T) <= Cardinality(S)
  BY <1>6, FS_Subset
<1>7. /\ IsFiniteSet(OrphanBriefs') /\ IsFiniteSet(OrphanSteps')
      /\ \/ /\ Cardinality(OrphanBriefs') <= Cardinality(OrphanBriefs) + 1
            /\ Cardinality(OrphanSteps') <= Cardinality(OrphanSteps)
         \/ /\ Cardinality(OrphanBriefs') <= Cardinality(OrphanBriefs)
            /\ Cardinality(OrphanSteps') <= Cardinality(OrphanSteps) + 1
  BY <1>3, <1>5, <1>6, FiniteOrphans, Zenon
<1>8. Cardinality(OrphanBriefs') \in Nat /\ Cardinality(OrphanSteps') \in Nat
  BY <1>4, <1>7
<1>9. failures \in Int
  OBVIOUS
<1> QED
  BY <1>1, <1>7, <1>8, <1>9, FiniteOrphans DEF OrphansAreFailures

\* Only a dying request adds to the decisions and briefs nobody will log.
LEMMA AuditStep ==
  ChainInv /\ OrphansAreFailures /\ [Next]_vars => OrphansAreFailures'
<1> SUFFICES ASSUME ChainInv, OrphansAreFailures, [Next]_vars
             PROVE  OrphansAreFailures'
  OBVIOUS
<1>0. TypeOK
  BY DEF ChainInv
<1>1. ASSUME NEW w \in Workers, AuditBrief(w) PROVE OrphansAreFailures'
  <2>1. /\ auditedBriefs' = auditedBriefs \union {gen[w].brief}
        /\ pc' = [pc EXCEPT ![w] = "idle"] /\ pc[w] = "brief_created"
        /\ \A v \in Workers \ {w} : gen'[v] = gen[v]
        /\ UNCHANGED <<briefStatus, decidedBy, req, auditedSteps, failures>>
    BY <1>0, <1>1 DEF AuditBrief, tables, TypeOK
  <2>2. \A v \in Workers \ {w} : pc'[v] = pc[v]
    BY <1>0, <2>1 DEF TypeOK
  <2>3. OrphanBriefs' \subseteq OrphanBriefs
    BY <2>1, <2>2 DEF OrphanBriefs, Briefs
  <2>4. OrphanSteps' \subseteq OrphanSteps
    BY <2>1, <2>2 DEF OrphanSteps, Decided, AuditedPairs
  <2> QED
    BY <1>0, <2>1, <2>3, <2>4, NoNewOrphan
<1>2. ASSUME NEW w \in Workers, AuditDecision(w) PROVE OrphansAreFailures'
  <2>1. /\ auditedSteps' = auditedSteps \union {req[w]}
        /\ pc' = [pc EXCEPT ![w] = "idle"] /\ pc[w] = "decided"
        /\ \A v \in Workers \ {w} : req'[v] = req[v]
        /\ UNCHANGED <<briefStatus, decidedBy, gen, auditedBriefs, failures>>
    BY <1>0, <1>2 DEF AuditDecision, AuditRow, tables, TypeOK
  <2>2. \A v \in Workers \ {w} : pc'[v] = pc[v]
    BY <1>0, <2>1 DEF TypeOK
  <2>3. AuditedPairs' = AuditedPairs \union {<<req[w].brief, req[w].pos>>}
    BY <2>1 DEF AuditedPairs
  <2>4. OrphanBriefs' \subseteq OrphanBriefs
    BY <2>1, <2>2 DEF OrphanBriefs, Briefs
  <2>5. OrphanSteps' \subseteq OrphanSteps
    BY <2>1, <2>2, <2>3 DEF OrphanSteps, Decided
  <2> QED
    BY <1>0, <2>1, <2>4, <2>5, NoNewOrphan
<1>3. ASSUME NEW w \in Workers,
             \/ GatherDecisionBriefContext(w) \/ ReadLastBrief(w)
             \/ CheckCurrentStep(w) \/ GetApprovalStep(w) \/ FlushDecision(w)
      PROVE  OrphansAreFailures'
  <2>1. /\ pc[w] \notin {"brief_created", "decided"}
        /\ \A v \in Workers \ {w} :
              gen'[v] = gen[v] /\ req'[v] = req[v] /\ pc'[v] = pc[v]
        /\ UNCHANGED <<briefStatus, decidedBy, audit, failures>>
    BY <1>0, <1>3 DEF GatherDecisionBriefContext, ReadLastBrief,
         CheckCurrentStep, GetApprovalStep, FlushDecision, tables, TypeOK
  <2>2. OrphanBriefs' \subseteq OrphanBriefs
    BY <2>1 DEF OrphanBriefs, Briefs, audit
  <2>3. OrphanSteps' \subseteq OrphanSteps
    BY <2>1 DEF OrphanSteps, Decided, AuditedPairs, audit
  <2> QED
    BY <1>0, <2>1, <2>2, <2>3, NoNewOrphan
<1>4. CASE RecordReviewAction \/ UNCHANGED vars
  <2>1. UNCHANGED <<briefStatus, decidedBy, gen, req, pc, audit, failures>>
    BY <1>4 DEF RecordReviewAction, vars, audit
  <2>2. OrphanBriefs' = OrphanBriefs /\ OrphanSteps' = OrphanSteps
    BY <2>1 DEF OrphanBriefs, OrphanSteps, Briefs, Decided, AuditedPairs,
                audit
  <2> QED
    BY <2>1, <2>2 DEF OrphansAreFailures
<1> QED
  BY <1>1, <1>2, <1>3, <1>4, CreateAudit, CommitAudit, FailureAudit
  DEF Next, Serve

\* The audit log misses a brief or a decision only while its request is about
\* to write the row or because that request died, however requests overlap.
THEOREM AuditNearlyComplete == Spec => []AuditGapsAreFailures
<1>1. Init => OrphansAreFailures
  <2> SUFFICES ASSUME Init PROVE OrphansAreFailures
    OBVIOUS
  <2>1. OrphanBriefs = {} /\ OrphanSteps = {}
    BY DEF Init, OrphanBriefs, OrphanSteps, Briefs, Decided
  <2>2. failures = 0
    BY DEF Init
  <2> QED
    BY <2>1, <2>2, FS_EmptySet DEF OrphansAreFailures
<1>2. ASSUME ChainInv, OrphansAreFailures PROVE AuditGapsAreFailures
  <2> DEFINE LB == {w \in Workers : pc[w] = "brief_created"}
             LS == {w \in Workers : pc[w] = "decided"}
             L  == {w \in Workers : pc[w] \in {"brief_created", "decided"}}
             GB == Briefs \ auditedBriefs
             GS == Decided \ AuditedPairs
  <2>1. LB \in SUBSET Workers /\ LS \in SUBSET Workers
    OBVIOUS
  <2>2. IsFiniteSet(LB) /\ IsFiniteSet(LS)
    BY <2>1, FiniteOK, FS_Subset
  <2>3. L = LB \union LS /\ LB \cap LS = {}
    OBVIOUS
  <2>4. \A b \in GB : \/ b \in OrphanBriefs
                      \/ \E w \in LB : [v \in LB |-> gen[v].brief][w] = b
    BY DEF OrphanBriefs
  <2>5. \A p \in GS :
           \/ p \in OrphanSteps
           \/ \E w \in LS :
                [v \in LS |-> <<req[v].brief, req[v].pos>>][w] = p
    BY DEF OrphanSteps
  <2> HIDE DEF LB, LS, L, GB, GS
  <2>6. /\ IsFiniteSet(GB)
        /\ Cardinality(GB) <= Cardinality(OrphanBriefs) + Cardinality(LB)
    BY <2>2, <2>4, FiniteOrphans, CountedBy
  <2>7. /\ IsFiniteSet(GS)
        /\ Cardinality(GS) <= Cardinality(OrphanSteps) + Cardinality(LS)
    BY <2>2, <2>5, FiniteOrphans, CountedBy
  <2>8. /\ Cardinality(GB) \in Nat /\ Cardinality(GS) \in Nat
        /\ Cardinality(LB) \in Nat /\ Cardinality(LS) \in Nat
    BY <2>2, <2>6, <2>7, FS_CardinalityType
  <2>9. Cardinality(L) = Cardinality(LB) + Cardinality(LS)
    <3>1. Cardinality(L) =
            Cardinality(LB) + Cardinality(LS) - Cardinality(LB \cap LS)
      BY <2>2, <2>3, FS_Union, Zenon
    <3>2. Cardinality(LB \cap LS) = 0
      BY <2>3, FS_EmptySet, Zenon
    <3> QED
      BY <2>8, <3>1, <3>2
  <2>10. failures \in Int
    BY <1>2 DEF ChainInv, TypeOK
  <2>11. Cardinality(GB) + Cardinality(GS) <= failures + Cardinality(L)
    BY <1>2, <2>6, <2>7, <2>8, <2>9, <2>10, FiniteOrphans
    DEF OrphansAreFailures
  <2> QED
    BY <2>11 DEF AuditGapsAreFailures, GB, GS, L, AuditedPairs
<1> QED
  BY <1>1, <1>2, AuditStep, ChainInvariant, PTL DEF Spec

-----------------------------------------------------------------------------
(***************************************************************************)
(* What one worker process guarantees and several do not: a decided step   *)
(* stays decided, a refusal ends its chain, the audit log is true, and     *)
(* version numbers identify briefs.  With one worker nothing moves between *)
(* a request's check and its commit.  (With two, a decision can be lost:   *)
(* the run ApprovalLostDecision.)                                          *)
(***************************************************************************)
\* One worker process, as the Dockerfile starts it.
OneWorker == \A v, w \in Workers : v = w

\* The request in flight still finds what it read: its number is free, its
\* step waits, its flush saw exactly the other steps that wait, and what it
\* committed is still there to be logged.
RequestDue(w) ==
    /\ pc[w] = "last_read" => \A b \in Briefs : version[b] < gen[w].next
    /\ pc[w] \in {"checked", "step_read", "flushed"} =>
          stepStatus[req[w].brief][req[w].pos] = "pending"
    /\ pc[w] = "flushed" => others[w] = Pending(req[w].brief) \ {req[w].pos}
    /\ pc[w] = "decided" =>
          /\ stepStatus[req[w].brief][req[w].pos] = req[w].decision
          /\ decidedBy[req[w].brief][req[w].pos] = req[w].user

AllDue == \A w \in Workers : RequestDue(w)

\* The inductive invariant of a single worker.
SeqInv ==
    /\ ChainInv
    /\ AllDue
    /\ RefusalEndsChain
    /\ VerdictIsLastDecision
    /\ AuditMatchesDecision
    /\ VersionsDistinct

\* The columns the properties of one worker are about.
seqTables == <<briefStatus, version, stepStatus, decidedBy, auditedSteps>>

-----------------------------------------------------------------------------
(***************************************************************************)
(* What the two actions that write a chain do to it.                       *)
(***************************************************************************)
\* The insert of a brief: a fresh key, a chain that waits, the number read.
LEMMA CreateMoves ==
  ASSUME ChainInv, NEW w \in Workers, CreateDecisionBrief(w)
  PROVE  \E b \in BriefIds \ Briefs :
           /\ Briefs' = Briefs \union {b}
           /\ briefStatus'[b] = "pending" /\ version'[b] = gen[w].next
           /\ \A i \in Positions : /\ stepStatus[b][i] = None
                                   /\ stepStatus'[b][i] \in {"pending", None}
           /\ \A c \in BriefIds \ {b} :
                /\ briefStatus'[c] = briefStatus[c]
                /\ version'[c] = version[c]
                /\ stepStatus'[c] = stepStatus[c]
           /\ pc'[w] = "brief_created"
           /\ UNCHANGED <<decidedBy, auditedSteps>>
<1> USE DEF ChainInv, TypeOK
<1>1. PICK b \in BriefIds \ Briefs :
       /\ briefStatus' = [briefStatus EXCEPT ![b] = "pending"]
       /\ version' = [version EXCEPT ![b] = gen[w].next]
       /\ stepStatus' = [stepStatus EXCEPT ![b] =
              [i \in Positions |->
                  IF i < Len(gen[w].chain) THEN "pending" ELSE None]]
  BY DEF CreateDecisionBrief
<1>2. \A i \in Positions : stepStatus[b][i] = None
  BY <1>1 DEF RowsTogether
<1>3. briefStatus'[b] = "pending" /\ Briefs' = Briefs \union {b}
  BY <1>1, NoneOK DEF Briefs, StepStatus
<1>4. /\ version'[b] = gen[w].next
      /\ \A i \in Positions : stepStatus'[b][i] \in {"pending", None}
      /\ \A c \in BriefIds \ {b} :
           /\ briefStatus'[c] = briefStatus[c]
           /\ version'[c] = version[c]
           /\ stepStatus'[c] = stepStatus[c]
  BY <1>1
<1>5. pc'[w] = "brief_created" /\ UNCHANGED <<decidedBy, auditedSteps>>
  BY DEF CreateDecisionBrief, audit
<1> HIDE DEF ChainInv, TypeOK
<1> QED
  BY <1>2, <1>3, <1>4, <1>5

\* The commit of a decision whose step still waits: it decides that step and,
\* when it refuses, skips every other step that waits; it closes the brief when
\* it refuses or no step is left; everything decided before is left alone.
LEMMA CommitMoves ==
  ASSUME ChainInv, NEW w \in Workers, RequestDue(w), CommitDecision(w),
         NEW b, b = req[w].brief, NEW i, i = req[w].pos,
         NEW d, d = req[w].decision
  PROVE  /\ b \in Briefs /\ i \in Positions /\ d \in Decisions
         /\ stepStatus[b][i] = "pending" /\ briefStatus[b] = "pending"
         /\ stepStatus'[b][i] = d /\ decidedBy'[b][i] = req[w].user
         /\ \A j \in Positions \ {i} :
              /\ decidedBy'[b][j] = decidedBy[b][j]
              /\ stepStatus'[b][j] =
                   IF d \in Refusals /\ stepStatus[b][j] = "pending"
                   THEN "skipped" ELSE stepStatus[b][j]
         /\ \/ /\ briefStatus'[b] = d
               /\ \/ d \in Refusals
                  \/ \A j \in Positions \ {i} : stepStatus[b][j] # "pending"
            \/ briefStatus'[b] = "pending" /\ d \notin Refusals
         /\ \A c \in BriefIds \ {b} :
              /\ briefStatus'[c] = briefStatus[c]
              /\ stepStatus'[c] = stepStatus[c]
              /\ decidedBy'[c] = decidedBy[c]
         /\ Briefs' = Briefs /\ pc'[w] = "decided"
         /\ UNCHANGED <<version, req, auditedSteps>>
<1> USE DEF ChainInv, TypeOK
<1>1. /\ pc[w] = "flushed" /\ RequestSound(w)
      /\ stepStatus' = [stepStatus EXCEPT ![b] =
            [j \in Positions |->
                IF j = i THEN d
                ELSE IF j \in Skipped(w) THEN "skipped"
                ELSE stepStatus[b][j]]]
      /\ decidedBy' = [decidedBy EXCEPT ![b][i] = req[w].user]
      /\ briefStatus' = [briefStatus EXCEPT ![b] =
            IF ClosesBrief(w) THEN d ELSE @]
      /\ pc' = [pc EXCEPT ![w] = "decided"]
      /\ UNCHANGED <<version, req, auditedSteps>>
  BY DEF CommitDecision, RecordedStatus, RequestsSound, audit
<1>2. /\ b \in Briefs /\ b \in BriefIds /\ i \in Positions
      /\ d \in Decisions
  BY <1>1 DEF RequestSound, Requests, Briefs
<1>3. /\ stepStatus[b][i] = "pending"
      /\ others[w] = Pending(b) \ {i}
  BY <1>1 DEF RequestDue
<1>4. briefStatus[b] = "pending"
  BY <1>2, <1>3 DEF VerdictIffChainClosed, Pending
<1>5. \A j \in Positions \ {i} :
        j \in Skipped(w) <=> d \in Refusals /\ stepStatus[b][j] = "pending"
  BY <1>3 DEF Skipped, Pending
<1>6. /\ stepStatus'[b][i] = d /\ decidedBy'[b][i] = req[w].user
      /\ \A j \in Positions \ {i} :
           /\ decidedBy'[b][j] = decidedBy[b][j]
           /\ stepStatus'[b][j] = IF j \in Skipped(w) THEN "skipped"
                                  ELSE stepStatus[b][j]
      /\ \A c \in BriefIds \ {b} :
           /\ briefStatus'[c] = briefStatus[c]
           /\ stepStatus'[c] = stepStatus[c]
           /\ decidedBy'[c] = decidedBy[c]
  BY <1>1, <1>2
<1>7. briefStatus'[b] = IF ClosesBrief(w) THEN d ELSE "pending"
  BY <1>1, <1>2, <1>4
<1>8. /\ ClosesBrief(w) =>
           \/ d \in Refusals
           \/ \A j \in Positions \ {i} : stepStatus[b][j] # "pending"
      /\ ~ClosesBrief(w) => d \notin Refusals
  BY <1>3 DEF ClosesBrief, Pending
<1>9. Briefs' = Briefs
  <2>1. d # None /\ "pending" # None
    BY <1>2, NoneOK DEF StepStatus
  <2> QED
    BY <1>2, <1>6, <1>7, <2>1 DEF Briefs
<1>10. pc'[w] = "decided" /\ UNCHANGED <<version, req, auditedSteps>>
  BY <1>1
<1> HIDE DEF ChainInv, TypeOK
<1>11. \A j \in Positions \ {i} :
         /\ decidedBy'[b][j] = decidedBy[b][j]
         /\ stepStatus'[b][j] =
              IF d \in Refusals /\ stepStatus[b][j] = "pending"
              THEN "skipped" ELSE stepStatus[b][j]
  BY <1>5, <1>6
<1>12. \/ /\ briefStatus'[b] = d
          /\ \/ d \in Refusals
             \/ \A j \in Positions \ {i} : stepStatus[b][j] # "pending"
       \/ briefStatus'[b] = "pending" /\ d \notin Refusals
  BY <1>7, <1>8
<1> QED
  BY <1>2, <1>3, <1>4, <1>6, <1>9, <1>10, <1>11, <1>12

-----------------------------------------------------------------------------
(***************************************************************************)
(* Each conjunct of the invariant, step by step.                           *)
(***************************************************************************)
\* The single request stays due.
LEMMA DueStep ==
  ASSUME OneWorker, SeqInv, [Next]_vars PROVE AllDue'
<1> USE DEF SeqInv, ChainInv, TypeOK
<1>1. SUFFICES ASSUME NEW w \in Workers PROVE RequestDue(w)'
  BY DEF AllDue
<1>2. RequestDue(w) /\ RequestSound(w)
  BY DEF AllDue, RequestsSound
<1>3. CASE RecordReviewAction \/ UNCHANGED vars
  <2>1. UNCHANGED <<pc, gen, req, others, briefStatus, version, stepStatus,
                    decidedBy>>
    BY <1>3 DEF RecordReviewAction, vars
  <2> QED
    BY <1>2, <2>1 DEF RequestDue, Briefs, Pending
<1>4. CASE GatherDecisionBriefContext(w)
  BY <1>4 DEF GatherDecisionBriefContext, RequestDue
<1>5. CASE ReadLastBrief(w)
  <2>1. /\ pc[w] = "gathered" /\ pc' = [pc EXCEPT ![w] = "last_read"]
        /\ UNCHANGED <<briefStatus, version>>
    BY <1>5 DEF ReadLastBrief, tables
  <2>2. Briefs' = Briefs
    BY <2>1 DEF Briefs
  <2>3. CASE Briefs = {}
    BY <2>1, <2>2, <2>3 DEF RequestDue
  <2>4. CASE Briefs # {}
    <3>1. PICK last \in BriefIds :
            /\ IsLast(last)
            /\ gen' = [gen EXCEPT ![w] =
                 Draft(gen[w].chain, NextVersion(last), last,
                       briefStatus[last] = "sent_back", None)]
      BY <1>5, <2>4 DEF ReadLastBrief
    <3>2. gen'[w].next = version[last] + 1
      BY <3>1 DEF Draft, NextVersion
    <3>3. \A b \in Briefs : version[b] <= version[last]
      BY <3>1 DEF IsLast
    <3>4. \A b \in Briefs : version[b] \in Nat
      BY DEF Briefs
    <3>5. \A b \in Briefs : version[b] < gen'[w].next
      BY <3>1, <3>2, <3>3, <3>4
    <3> QED
      BY <2>1, <2>2, <3>5 DEF RequestDue
  <2> QED
    BY <2>3, <2>4
<1>6. CASE CreateDecisionBrief(w)
  BY <1>6 DEF CreateDecisionBrief, RequestDue
<1>7. CASE AuditBrief(w) \/ AuditDecision(w) \/ RequestFails(w)
  BY <1>7 DEF AuditBrief, AuditDecision, RequestFails, RequestDue
<1>8. CASE CheckCurrentStep(w)
  BY <1>8 DEF CheckCurrentStep, RequestDue, IsNextPending, Pending, tables
<1>9. CASE GetApprovalStep(w)
  BY <1>9 DEF GetApprovalStep, RequestDue, tables
<1>10. CASE FlushDecision(w)
  <2>1. /\ pc[w] = "step_read" /\ pc'[w] = "flushed"
        /\ others'[w] = Pending(req[w].brief) \ {req[w].pos}
        /\ UNCHANGED <<stepStatus, req>>
    BY <1>10 DEF FlushDecision, tables
  <2> QED
    BY <1>2, <2>1 DEF RequestDue, Pending
<1>11. CASE CommitDecision(w)
  BY <1>2, <1>11, CommitMoves DEF RequestDue
<1> QED
  BY <1>3, <1>4, <1>5, <1>6, <1>7, <1>8, <1>9, <1>10, <1>11
  DEF Next, Serve, OneWorker

\* A new number is larger than every other: it was read with no insert since.
LEMMA VersionsStep ==
  ASSUME OneWorker, SeqInv, [Next]_vars PROVE VersionsDistinct'
<1> USE DEF SeqInv
<1>1. ASSUME NEW w \in Workers, CreateDecisionBrief(w)
      PROVE  VersionsDistinct'
  <2>1. PICK b \in BriefIds \ Briefs :
          /\ Briefs' = Briefs \union {b} /\ version'[b] = gen[w].next
          /\ \A c \in BriefIds \ {b} : version'[c] = version[c]
    BY <1>1, CreateMoves
  <2>2. \A c \in Briefs : version[c] < gen[w].next
    BY <1>1 DEF CreateDecisionBrief, AllDue, RequestDue
  <2>3. /\ gen[w].next \in Nat
        /\ \A c \in Briefs : c \in BriefIds /\ version[c] \in Nat
    BY <1>1 DEF CreateDecisionBrief, ChainInv, RequestsSound, RequestSound,
                GenRecord, TypeOK, Briefs
  <2>4. \A c \in Briefs : /\ version'[c] = version[c]
                          /\ version'[c] # version'[b]
    BY <2>1, <2>2, <2>3
  <2> QED
    BY <2>1, <2>4 DEF VersionsDistinct
<1>2. ASSUME NEW w \in Workers, CommitDecision(w)
      PROVE  VersionsDistinct'
  <2>1. Briefs' = Briefs /\ UNCHANGED version
    BY <1>2, CommitMoves DEF AllDue
  <2> QED
    BY <2>1 DEF VersionsDistinct
<1>3. ASSUME UNCHANGED <<briefStatus, version>> PROVE VersionsDistinct'
  BY <1>3 DEF VersionsDistinct, Briefs
<1> QED
  BY <1>1, <1>2, <1>3
  DEF Next, Serve, RecordReviewAction, GatherDecisionBriefContext,
      ReadLastBrief, AuditBrief, CheckCurrentStep, GetApprovalStep,
      FlushDecision, AuditDecision, RequestFails, vars, tables

\* A chain in which a step waits has not been refused: its refusal would have
\* skipped what is behind it, and what is before it is decided.
LEMMA WaitingIsUnrefused ==
  ASSUME SeqInv, NEW b \in Briefs, NEW i \in Positions,
         stepStatus[b][i] = "pending", NEW k \in Positions
  PROVE  stepStatus[b][k] \notin Refusals
<1> SUFFICES ASSUME stepStatus[b][k] \in Refusals PROVE FALSE
  OBVIOUS
<1>1. "pending" # None /\ stepStatus[b][k] # None
  BY NoneOK DEF StepStatus, Decisions
<1>2. stepStatus[b][k] # "pending"
  BY DEF Refusals
<1>3. k < i \/ i < k \/ i = k
  BY ConstantsOK DEF Positions
<1>4. ~(k < i)
  BY <1>1 DEF SeqInv, RefusalEndsChain
<1>5. ~(i < k)
  BY <1>1, <1>2 DEF SeqInv, ChainInv, DecidedInOrder
<1> QED
  BY <1>2, <1>3, <1>4, <1>5

\* A commit keeps what is said of refusals and verdicts.
LEMMA CommitOutcome ==
  ASSUME SeqInv, NEW w \in Workers, CommitDecision(w)
  PROVE  RefusalEndsChain' /\ VerdictIsLastDecision' /\ AuditMatchesDecision'
<1> DEFINE b == req[w].brief
           i == req[w].pos
           d == req[w].decision
<1>1. RequestDue(w) /\ ChainInv
  BY DEF SeqInv, AllDue
<1>2. /\ b \in Briefs /\ i \in Positions /\ d \in Decisions
      /\ stepStatus[b][i] = "pending" /\ briefStatus[b] = "pending"
      /\ stepStatus'[b][i] = d
  BY <1>1, CommitMoves
<1>3. \A j \in Positions \ {i} :
        /\ decidedBy'[b][j] = decidedBy[b][j]
        /\ stepStatus'[b][j] =
             IF d \in Refusals /\ stepStatus[b][j] = "pending"
             THEN "skipped" ELSE stepStatus[b][j]
  BY <1>1, CommitMoves
<1>4. \/ /\ briefStatus'[b] = d
         /\ \/ d \in Refusals
            \/ \A j \in Positions \ {i} : stepStatus[b][j] # "pending"
      \/ briefStatus'[b] = "pending" /\ d \notin Refusals
  BY <1>1, CommitMoves
<1>5. /\ \A c \in BriefIds \ {b} :
           /\ briefStatus'[c] = briefStatus[c]
           /\ stepStatus'[c] = stepStatus[c]
           /\ decidedBy'[c] = decidedBy[c]
      /\ Briefs' = Briefs /\ UNCHANGED auditedSteps
  BY <1>1, CommitMoves
<1>6. Briefs \subseteq BriefIds /\ Positions \subseteq Int
  BY ConstantsOK DEF Briefs, Positions
<1> HIDE DEF b, i, d
<1>7. "pending" # None
  BY NoneOK DEF StepStatus
<1>8. \A j \in Positions : i < j /\ stepStatus[b][j] # None =>
                             stepStatus[b][j] = "pending"
  BY <1>1, <1>2, <1>7 DEF ChainInv, DecidedInOrder
<1>9. \A k \in Positions : stepStatus[b][k] \notin Refusals
  BY <1>2, WaitingIsUnrefused
<1>10. RefusalEndsChain'
  <2> SUFFICES ASSUME NEW c \in Briefs, NEW k \in Positions,
                      NEW j \in Positions, k < j,
                      stepStatus'[c][k] \in Refusals, stepStatus'[c][j] # None
               PROVE  stepStatus'[c][j] = "skipped"
    BY <1>5 DEF RefusalEndsChain
  <2>1. CASE c # b
    BY <1>5, <1>6, <2>1 DEF SeqInv, RefusalEndsChain
  <2>2. CASE c = b
    <3>1. "skipped" \notin Refusals
      BY DEF Refusals
    <3>2. k = i /\ d \in Refusals
      BY <1>2, <1>3, <1>9, <2>2, <3>1
    <3>3. j # i
      BY <1>6, <3>2
    <3>4. stepStatus[b][j] # None
      BY <1>3, <1>7, <2>2, <3>3
    <3> QED
      BY <1>3, <1>8, <2>2, <3>2, <3>3, <3>4
  <2> QED
    BY <2>1, <2>2
<1>11. VerdictIsLastDecision'
  <2> SUFFICES ASSUME NEW c \in Briefs, briefStatus'[c] # "pending"
               PROVE  \E k \in Positions :
                        /\ stepStatus'[c][k] = briefStatus'[c]
                        /\ \A j \in Positions :
                             j > k => stepStatus'[c][j] \in {"skipped", None}
    BY <1>5 DEF VerdictIsLastDecision
  <2>1. CASE c # b
    <3>1. /\ briefStatus'[c] = briefStatus[c]
          /\ stepStatus'[c] = stepStatus[c]
      BY <1>5, <1>6, <2>1
    <3>2. \E k \in Positions :
            /\ stepStatus[c][k] = briefStatus[c]
            /\ \A j \in Positions :
                 j > k => stepStatus[c][j] \in {"skipped", None}
      BY <3>1 DEF SeqInv, VerdictIsLastDecision
    <3> QED
      BY <3>1, <3>2, Zenon
  <2>2. CASE c = b
    <3>1. /\ briefStatus'[b] = d
          /\ \/ d \in Refusals
             \/ \A j \in Positions \ {i} : stepStatus[b][j] # "pending"
      BY <1>4, <2>2
    <3>2. ASSUME NEW j \in Positions, j > i
          PROVE  stepStatus'[b][j] \in {"skipped", None}
      BY <1>2, <1>3, <1>6, <1>8, <3>1, <3>2
    <3> QED
      BY <1>2, <2>2, <3>1, <3>2
  <2> QED
    BY <2>1, <2>2
<1>12. AuditMatchesDecision'
  <2> SUFFICES ASSUME NEW e \in auditedSteps
               PROVE  /\ stepStatus'[e.brief][e.pos] = e.decision
                      /\ decidedBy'[e.brief][e.pos] = e.user
    BY <1>5 DEF AuditMatchesDecision
  <2>1. /\ e.brief \in BriefIds /\ e.pos \in Positions
        /\ e.decision \in Decisions
        /\ stepStatus[e.brief][e.pos] = e.decision
        /\ decidedBy[e.brief][e.pos] = e.user
    BY DEF SeqInv, ChainInv, TypeOK, Requests, AuditMatchesDecision
  <2>2. e.decision # "pending"
    BY <2>1 DEF Decisions, Approvals, Refusals
  <2>3. CASE e.brief # b
    BY <1>5, <2>1, <2>3
  <2>4. CASE e.brief = b
    BY <1>2, <1>3, <2>1, <2>2, <2>4
  <2> QED
    BY <2>3, <2>4
<1> QED
  BY <1>10, <1>11, <1>12

\* An insert keeps it too: nothing of the new chain is decided.
LEMMA CreateOutcome ==
  ASSUME SeqInv, NEW w \in Workers, CreateDecisionBrief(w)
  PROVE  RefusalEndsChain' /\ VerdictIsLastDecision' /\ AuditMatchesDecision'
<1>1. PICK b \in BriefIds \ Briefs :
        /\ Briefs' = Briefs \union {b}
        /\ briefStatus'[b] = "pending"
        /\ \A i \in Positions : /\ stepStatus[b][i] = None
                                /\ stepStatus'[b][i] \in {"pending", None}
        /\ \A c \in BriefIds \ {b} :
             /\ briefStatus'[c] = briefStatus[c]
             /\ stepStatus'[c] = stepStatus[c]
        /\ UNCHANGED <<decidedBy, auditedSteps>>
  BY CreateMoves DEF SeqInv
<1>2. \A c \in Briefs : /\ c \in BriefIds \ {b}
                        /\ briefStatus'[c] = briefStatus[c]
                        /\ stepStatus'[c] = stepStatus[c]
  BY <1>1 DEF Briefs
<1>3. "pending" \notin Refusals /\ None \notin Refusals
  BY NoneOK DEF StepStatus, Decisions, Refusals
<1>4. RefusalEndsChain'
  BY <1>1, <1>2, <1>3 DEF SeqInv, RefusalEndsChain
<1>5. VerdictIsLastDecision'
  <2> SUFFICES ASSUME NEW c \in Briefs', briefStatus'[c] # "pending"
               PROVE  \E k \in Positions :
                        /\ stepStatus'[c][k] = briefStatus'[c]
                        /\ \A j \in Positions :
                             j > k => stepStatus'[c][j] \in {"skipped", None}
    BY DEF VerdictIsLastDecision
  <2>1. /\ c \in Briefs
        /\ briefStatus'[c] = briefStatus[c]
        /\ stepStatus'[c] = stepStatus[c]
    BY <1>1, <1>2
  <2>2. \E k \in Positions :
          /\ stepStatus[c][k] = briefStatus[c]
          /\ \A j \in Positions :
               j > k => stepStatus[c][j] \in {"skipped", None}
    BY <2>1 DEF SeqInv, VerdictIsLastDecision
  <2> QED
    BY <2>1, <2>2
<1>6. AuditMatchesDecision'
  <2> SUFFICES ASSUME NEW e \in auditedSteps
               PROVE  /\ stepStatus'[e.brief][e.pos] = e.decision
                      /\ decidedBy'[e.brief][e.pos] = e.user
    BY <1>1 DEF AuditMatchesDecision
  <2>1. /\ e.brief \in BriefIds /\ e.pos \in Positions
        /\ e.decision \in Decisions
        /\ stepStatus[e.brief][e.pos] = e.decision
        /\ decidedBy[e.brief][e.pos] = e.user
    BY DEF SeqInv, ChainInv, TypeOK, Requests, AuditMatchesDecision
  <2>2. e.decision # None
    BY <2>1, NoneOK DEF StepStatus
  <2>3. e.brief # b
    BY <1>1, <2>1, <2>2
  <2> QED
    BY <1>1, <2>1, <2>3
<1> QED
  BY <1>4, <1>5, <1>6

\* The audit row repeats what its own request committed.
LEMMA AuditOutcome ==
  ASSUME SeqInv, NEW w \in Workers, AuditDecision(w)
  PROVE  RefusalEndsChain' /\ VerdictIsLastDecision' /\ AuditMatchesDecision'
<1>1. /\ auditedSteps' = auditedSteps \union {req[w]}
      /\ UNCHANGED <<briefStatus, stepStatus, decidedBy>>
  BY DEF AuditDecision, AuditRow, tables
<1>2. /\ stepStatus[req[w].brief][req[w].pos] = req[w].decision
      /\ decidedBy[req[w].brief][req[w].pos] = req[w].user
  BY DEF SeqInv, AllDue, RequestDue, AuditDecision
<1>3. AuditMatchesDecision'
  BY <1>1, <1>2 DEF SeqInv, AuditMatchesDecision
<1>4. Briefs' = Briefs
  BY <1>1 DEF Briefs
<1> QED
  BY <1>1, <1>3, <1>4 DEF SeqInv, RefusalEndsChain, VerdictIsLastDecision

\* Every step of the one worker preserves its invariant.
LEMMA SeqInvStep ==
  ASSUME OneWorker PROVE SeqInv /\ [Next]_vars => SeqInv'
<1> SUFFICES ASSUME SeqInv, [Next]_vars PROVE SeqInv'
  OBVIOUS
<1>1. ChainInv' /\ AllDue' /\ VersionsDistinct'
  BY ChainInvStep, DueStep, VersionsStep DEF SeqInv
<1>2. ASSUME UNCHANGED <<briefStatus, stepStatus, decidedBy, auditedSteps>>
      PROVE  RefusalEndsChain' /\ VerdictIsLastDecision'
               /\ AuditMatchesDecision'
  <2>1. Briefs' = Briefs
    BY <1>2 DEF Briefs
  <2> QED
    BY <1>2, <2>1 DEF SeqInv, RefusalEndsChain, VerdictIsLastDecision,
                      AuditMatchesDecision
<1>3. RefusalEndsChain' /\ VerdictIsLastDecision' /\ AuditMatchesDecision'
  BY <1>2, CreateOutcome, CommitOutcome, AuditOutcome
  DEF Next, Serve, RecordReviewAction, GatherDecisionBriefContext,
      ReadLastBrief, AuditBrief, CheckCurrentStep, GetApprovalStep,
      FlushDecision, RequestFails, vars, tables, audit
<1> QED
  BY <1>1, <1>3 DEF SeqInv

\* The empty database satisfies it.
LEMMA InitSeqInv == Init => SeqInv
<1> SUFFICES ASSUME Init PROVE SeqInv
  OBVIOUS
<1>1. Briefs = {} /\ auditedSteps = {}
  BY DEF Init, Briefs
<1>2. AllDue
  BY DEF Init, AllDue, RequestDue
<1> QED
  BY <1>1, <1>2, InitChainInv
  DEF SeqInv, RefusalEndsChain, VerdictIsLastDecision, AuditMatchesDecision,
      VersionsDistinct

-----------------------------------------------------------------------------
(***************************************************************************)
(* The theorems.                                                           *)
(***************************************************************************)
\* With one worker the request in flight always finds what it read.
THEOREM SequentialInvariant == ASSUME OneWorker PROVE Spec => []SeqInv
BY InitSeqInv, SeqInvStep, PTL DEF Spec

\* With one worker nobody behind a rejection or a send-back decides.
THEOREM RefusalsEndChains ==
  ASSUME OneWorker PROVE Spec => []RefusalEndsChain
<1>1. SeqInv => RefusalEndsChain
  BY DEF SeqInv
<1> QED
  BY <1>1, SequentialInvariant, PTL

\* With one worker a brief's verdict is the last decision of its chain.
THEOREM LastDecisionDecides ==
  ASSUME OneWorker PROVE Spec => []VerdictIsLastDecision
<1>1. SeqInv => VerdictIsLastDecision
  BY DEF SeqInv
<1> QED
  BY <1>1, SequentialInvariant, PTL

\* With one worker the audit log says of a step what the step says.
THEOREM AuditTrue == ASSUME OneWorker PROVE Spec => []AuditMatchesDecision
<1>1. SeqInv => AuditMatchesDecision
  BY DEF SeqInv
<1> QED
  BY <1>1, SequentialInvariant, PTL

\* With one worker no two briefs of a document share a version number.
THEOREM VersionsIdentify == ASSUME OneWorker PROVE Spec => []VersionsDistinct
<1>1. SeqInv => VersionsDistinct
  BY DEF SeqInv
<1> QED
  BY <1>1, SequentialInvariant, PTL

\* With one worker no step of the system edits a decision, who made it, or a
\* verdict: a commit finds its step, the steps it skips and its brief waiting.
THEOREM DecisionsImmutable ==
  ASSUME OneWorker PROVE Spec => DecidedStepsNeverEdited
<1> DEFINE Kept ==
      \A b \in Briefs :
         /\ \A i \in Positions : stepStatus[b][i] \in Decisions =>
                /\ stepStatus'[b][i] = stepStatus[b][i]
                /\ decidedBy'[b][i] = decidedBy[b][i]
         /\ briefStatus[b] # "pending" => briefStatus'[b] = briefStatus[b]
<1>1. ASSUME SeqInv, [Next]_vars PROVE Kept
  <2>1. Briefs \subseteq BriefIds /\ "pending" \notin Decisions
    BY DEF Briefs, Decisions, Approvals, Refusals
  <2>2. ASSUME NEW w \in Workers, CommitDecision(w) PROVE Kept
    <3>1. RequestDue(w) /\ ChainInv
      BY <1>1 DEF SeqInv, AllDue
    <3>2. /\ stepStatus[req[w].brief][req[w].pos] = "pending"
          /\ briefStatus[req[w].brief] = "pending"
          /\ \A j \in Positions \ {req[w].pos} :
               /\ decidedBy'[req[w].brief][j] = decidedBy[req[w].brief][j]
               /\ stepStatus'[req[w].brief][j] =
                    IF req[w].decision \in Refusals
                       /\ stepStatus[req[w].brief][j] = "pending"
                    THEN "skipped" ELSE stepStatus[req[w].brief][j]
          /\ \A c \in BriefIds \ {req[w].brief} :
               /\ briefStatus'[c] = briefStatus[c]
               /\ stepStatus'[c] = stepStatus[c]
               /\ decidedBy'[c] = decidedBy[c]
      BY <2>2, <3>1, CommitMoves
    <3> QED
      BY <2>1, <3>2
  <2>3. ASSUME NEW w \in Workers, CreateDecisionBrief(w) PROVE Kept
    <3>1. PICK b \in BriefIds \ Briefs :
            /\ \A c \in BriefIds \ {b} :
                 /\ briefStatus'[c] = briefStatus[c]
                 /\ stepStatus'[c] = stepStatus[c]
            /\ UNCHANGED decidedBy
      BY <1>1, <2>3, CreateMoves DEF SeqInv
    <3> QED
      BY <2>1, <3>1
  <2>4. ASSUME UNCHANGED <<briefStatus, stepStatus, decidedBy>> PROVE Kept
    BY <2>4
  <2> HIDE DEF Kept
  <2> QED
    BY <1>1, <2>2, <2>3, <2>4
    DEF Next, Serve, RecordReviewAction, GatherDecisionBriefContext,
        ReadLastBrief, AuditBrief, CheckCurrentStep, GetApprovalStep,
        FlushDecision, AuditDecision, RequestFails, vars, tables
<1>2. SeqInv /\ [Next]_vars => [Kept]_vars
  BY <1>1
<1> QED
  BY <1>2, SequentialInvariant, PTL DEF DecidedStepsNeverEdited, Spec
=============================================================================
