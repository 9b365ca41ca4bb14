-------------------------- MODULE IngestionProofs --------------------------
(***************************************************************************)
(* Proofs about Ingestion, for any uploads, workers, number of clauses and *)
(* failures, with checkpoints that survive a restart and without.          *)
(*                                                                         *)
(* The inductive invariant says how far an upload got (what each node has  *)
(* left behind once the run is past it), that nothing of a decision exists *)
(* before a person was asked, and what apply_decision has written up to    *)
(* the effect it is at, in its first execution or in a repeated one.       *)
(***************************************************************************)
EXTENDS Ingestion, TLAPS, SequenceTheorems

-----------------------------------------------------------------------------
(***************************************************************************)
(* The inductive invariant, upload by upload.                              *)
(***************************************************************************)

\* the nodes a run can be at when it is past an upload step
After(node) ==
    {UploadSteps[i] : i \in Stage(node) + 1 .. 10} \union {"apply_decision", "end"}

\* the place of the audit record among the effects of a node of the graph
AuditPlace(node) ==
    CASE node = "start_job"       -> 4
      [] node = "extract_clauses" -> ClausesPer + 1
      [] OTHER                    -> 2

\* the run of u is past effect k of a node
Past(u, node, k) == at[u] \in After(node) \/ (at[u] = node /\ step[u] > k)

\* A node of the upload is executed or lost, never waiting; only
\* apply_decision can wait to be executed again.
RunSound(u) ==
    /\ running[u] => at[u] \in Uploading \union {"apply_decision"}
    /\ at[u] \in Uploading => running[u]
    /\ ~running[u] => step[u] = 1

\* What a run is past has left its trace.
Progress(u) ==
    /\ Past(u, "index", 1) => u \in indexed
    /\ \A k \in 1 .. ClausesPer :
         Past(u, "extract_clauses", k) => <<u, k>> \in clauses
    /\ \A n \in GraphNodes : Past(u, n, AuditPlace(n)) => n \in audit[u]

\* Before a person was asked there is nothing of a decision anywhere.
Undecided(u) ==
    at[u] \in Uploading \union {"none", "human_approval"} =>
        /\ decisionRows[u] = {} /\ approved[u] = None
        /\ jobStatus[u] \notin Verdicts
        /\ reviewActions[u] = {} /\ auditLog[u] = {}

\* What apply_decision leaves behind is the decision it applies, as far as it
\* got, in this execution or in an earlier one.
Deciding(u) ==
    at[u] = "apply_decision" =>
        LET a == Action(decision[u]) IN
        /\ decision[u] \in Decisions
        /\ decisionRows[u] \in {{}, {a = "approve"}}
        /\ step[u] > 1 => decisionRows[u] # {}
        /\ approved[u] \in {None, ApprovedOf(a)}
        /\ approved[u] # None => decisionRows[u] # {}
        /\ step[u] > 2 => approved[u] = ApprovedOf(a)
        /\ jobStatus[u] \in Verdicts =>
             /\ jobStatus[u] = StatusOf(a)
             /\ approved[u] = ApprovedOf(a) /\ decisionRows[u] # {}
        /\ step[u] > 3 => jobStatus[u] \in Verdicts
        /\ step[u] > 4 => "apply_decision" \in audit[u]
        /\ reviewActions[u] \subseteq {a}
        /\ step[u] = 6 /\ docStatus[u] # None => a \in reviewActions[u]

\* A verdict rests on one decision, an approval on the complete analysis, the
\* SQL rows of a decision on the graph's.
Backed(u) ==
    /\ \A a \in Actions : jobStatus[u] = StatusOf(a) =>
         decisionRows[u] = {a = "approve"} /\ approved[u] = ApprovedOf(a)
    /\ approved[u] = TRUE => TRUE \in decisionRows[u] /\ GraphNodes \subseteq audit[u]
    /\ \A a \in reviewActions[u] :
         jobStatus[u] = StatusOf(a) /\ "apply_decision" \in audit[u]
    /\ auditLog[u] \subseteq reviewActions[u]

\* A document that awaits its review is completely ingested.
Ingested(u) ==
    docStatus[u] = "awaiting_review" =>
        /\ u \in indexed /\ docJob[u]
        /\ \A k \in 1 .. ClausesPer : <<u, k>> \in clauses
        /\ GraphNodes \subseteq audit[u]

Sound(u) ==
    /\ RunSound(u) /\ Progress(u) /\ Undecided(u)
    /\ Deciding(u) /\ Backed(u) /\ Ingested(u)

IngestInv == TypeOK /\ \A u \in Uploads : Sound(u)

-----------------------------------------------------------------------------
(***************************************************************************)
(* The order of the work.                                                  *)
(***************************************************************************)

\* The place of a step in the order is the one it stands at: no node occurs
\* twice.
LEMMA StageIsPlace ==
  ASSUME NEW i \in 1 .. 10
  PROVE  Stage(UploadSteps[i]) = i
<1>1. \A j \in 1 .. 10 : UploadSteps[j] = UploadSteps[i] => j = i
  BY SMT DEF UploadSteps
<1>2. DOMAIN UploadSteps = 1 .. 10
  BY SMT DEF UploadSteps
<1>. QED  BY <1>1, <1>2, Zenon DEF Stage

\* The nodes of the upload, one by one, with their places.
LEMMA Stages ==
  /\ Uploading = {"register", "index", "start_job", "extract_clauses",
                  "link_same_clause", "detect_conflicts", "risk_flag",
                  "missing_clause", "finish_upload"}
  /\ Stage("register") = 1 /\ Stage("index") = 2 /\ Stage("start_job") = 3
  /\ Stage("extract_clauses") = 4 /\ Stage("link_same_clause") = 5
  /\ Stage("detect_conflicts") = 6 /\ Stage("risk_flag") = 7
  /\ Stage("missing_clause") = 8 /\ Stage("finish_upload") = 9
<1>1. Uploading = {"register", "index", "start_job", "extract_clauses",
                  "link_same_clause", "detect_conflicts", "risk_flag",
                  "missing_clause", "finish_upload"}
  <2>1. UploadSteps[1] = "register" /\ UploadSteps[2] = "index" /\ UploadSteps[3] = "start_job"
        /\ UploadSteps[4] = "extract_clauses" /\ UploadSteps[5] = "link_same_clause"
        /\ UploadSteps[6] = "detect_conflicts" /\ UploadSteps[7] = "risk_flag"
        /\ UploadSteps[8] = "missing_clause" /\ UploadSteps[9] = "finish_upload"
    BY SMT DEF UploadSteps
  <2>2. 1 .. 9 = {1, 2, 3, 4, 5, 6, 7, 8, 9}
    BY SMT
  <2>. QED  BY <2>1, <2>2, SMT DEF Uploading
<1>2. \A i \in 1 .. 10 : Stage(UploadSteps[i]) = i
  BY StageIsPlace
<1>. QED  BY <1>1, <1>2, SMT DEF UploadSteps

\* After each node of the upload come the approval, the decision and the end,
\* and after none of them the beginning or a loss.
LEMMA AfterAll ==
  ASSUME NEW n \in Uploading
  PROVE  /\ "human_approval" \in After(n)
         /\ "apply_decision" \in After(n)
         /\ "end" \in After(n)
         /\ "none" \notin After(n)
         /\ "lost" \notin After(n)
         /\ "register" \notin After(n)
         /\ n \notin After(n)
<1>1. Stage(n) \in 1 .. 9
  BY Stages, SMT
<1>2. UploadSteps[10] = "human_approval" /\ 10 \in Stage(n) + 1 .. 10
  BY <1>1, SMT DEF UploadSteps
<1>3. \A i \in Stage(n) + 1 .. 10 : UploadSteps[i] \notin {"none", "lost", "register"}
  BY <1>1, SMT DEF UploadSteps
<1>4. \A i \in Stage(n) + 1 .. 10 : UploadSteps[i] # n
  BY <1>1, StageIsPlace, SMT
<1>5. n \notin {"apply_decision", "end"}
  BY Stages, SMT
<1>. QED  BY <1>2, <1>3, <1>4, <1>5, Zenon DEF After

\* The next node is past another one only if the node before it was, or was
\* that node itself; and it is never the decision.
LEMMA NextAfter ==
  ASSUME NEW n \in Uploading
  PROVE  /\ NextNode(n) \in Uploading \union {"human_approval"}
         /\ NextNode(n) # "register"
         /\ \A m \in Uploading :
              NextNode(n) \in After(m) => n \in After(m) \/ n = m
<1>1. Stage(n) \in 1 .. 9 /\ NextNode(n) = UploadSteps[Stage(n) + 1]
      /\ UploadSteps[Stage(n)] = n
  <2>1. n # "apply_decision"
    BY Stages, SMT
  <2>. QED  BY <2>1, Stages, SMT DEF NextNode, UploadSteps
<1>2. NextNode(n) \in Uploading \union {"human_approval"} /\ NextNode(n) # "register"
  <2>1. CASE Stage(n) + 1 \in 1 .. 9
    <3>1. UploadSteps[Stage(n) + 1] # UploadSteps[1]
      BY <1>1, StageIsPlace, SMT
    <3>2. UploadSteps[1] = "register"
      BY SMT DEF UploadSteps
    <3>. QED  BY <1>1, <2>1, <3>1, <3>2, Zenon DEF Uploading
  <2>2. CASE Stage(n) = 9
    BY <1>1, <2>2, SMT DEF UploadSteps
  <2>. QED  BY <1>1, <2>1, <2>2, SMT
<1>3. ASSUME NEW m \in Uploading, NextNode(n) \in After(m)
      PROVE  n \in After(m) \/ n = m
  <2>1. Stage(m) \in 1 .. 9 /\ UploadSteps[Stage(m)] = m
    BY Stages, SMT DEF UploadSteps
  <2>2. NextNode(n) \notin {"apply_decision", "end"}
    BY <1>2, Stages, SMT
  <2>3. PICK i \in Stage(m) + 1 .. 10 : UploadSteps[Stage(n) + 1] = UploadSteps[i]
    BY <1>1, <1>3, <2>2, Zenon DEF After
  <2>4. i = Stage(n) + 1
    BY <1>1, <2>1, <2>3, StageIsPlace, SMT
  <2>5. Stage(n) = Stage(m) \/ Stage(n) \in Stage(m) + 1 .. 10
    BY <1>1, <2>1, <2>3, <2>4, SMT
  <2>. QED  BY <1>1, <2>1, <2>5, Zenon DEF After
<1>. QED  BY <1>2, <1>3

\* Where each node of the graph comes in the order, as far as the proofs ask:
\* all of them before the row is updated.
LEMMA GraphNodesBefore ==
  /\ GraphNodes = {"start_job", "extract_clauses", "link_same_clause",
                   "detect_conflicts", "risk_flag", "missing_clause"}
  /\ GraphNodes \subseteq Uploading
  /\ \A n \in GraphNodes \union {"index"} : "finish_upload" \in After(n)
  /\ "index" \in Uploading
<1>1. GraphNodes = {"start_job", "extract_clauses", "link_same_clause",
                   "detect_conflicts", "risk_flag", "missing_clause"}
  BY Stages, SMT DEF GraphNodes
<1>2. ASSUME NEW n \in GraphNodes \union {"index"}
      PROVE  "finish_upload" \in After(n)
  <2>1. 9 \in Stage(n) + 1 .. 10
    BY <1>1, Stages, SMT
  <2>2. UploadSteps[9] = "finish_upload"
    BY SMT DEF UploadSteps
  <2>. QED  BY <2>1, <2>2, Zenon DEF After
<1>. QED  BY <1>1, <1>2, Stages, SMT

-----------------------------------------------------------------------------
(***************************************************************************)
(* Effects.                                                                *)
(***************************************************************************)

\* The effects of extract_clauses: one clause after the other, then the audit.
LEMMA ClauseEffects ==
  /\ Len(Effects("extract_clauses")) = ClausesPer + 1
  /\ \A k \in 1 .. ClausesPer : Effects("extract_clauses")[k] = "clause"
  /\ Effects("extract_clauses")[ClausesPer + 1] = "audit"
<1>. DEFINE W  == {"clause", "audit"}
            cs == [k \in 1 .. ClausesPer |-> "clause"]
<1>1. ClausesPer \in Nat
  BY ConstantsOK
<1>2. Effects("extract_clauses") = cs \o <<"audit">>
  BY Zenon DEF Effects
<1>3. cs \in [1 .. ClausesPer -> W] /\ \A k \in 1 .. ClausesPer : cs[k] = "clause"
  BY Zenon
<1>4. <<"audit">> \in Seq(W) /\ Len(<<"audit">>) = 1
  BY SMT
<1>. HIDE DEF cs
<1>5. cs \in Seq(W)
  BY <1>1, <1>3, SeqDef, Zenon
<1>. HIDE DEF W
<1>6. Len(cs) = ClausesPer
  <2>1. DOMAIN cs = 1 .. ClausesPer
    BY <1>3, Zenon
  <2>2. Len(cs) \in Nat /\ DOMAIN cs = 1 .. Len(cs)
    BY <1>5, LenProperties
  <2>. QED  BY <1>1, <2>1, <2>2, SMT
<1>7. Len(cs \o <<"audit">>) = ClausesPer + 1
      /\ \A i \in 1 .. ClausesPer + 1 :
           (cs \o <<"audit">>)[i] = IF i <= ClausesPer THEN cs[i] ELSE <<"audit">>[i - ClausesPer]
  BY <1>4, <1>5, <1>6, ConcatProperties, Zenon
<1>. QED  BY <1>1, <1>2, <1>3, <1>7, SMT

\* How many effects each node has.
LEMMA EffectCounts ==
  /\ Len(Effects("register")) = 1 /\ Len(Effects("index")) = 1
  /\ Len(Effects("start_job")) = 5
  /\ Len(Effects("link_same_clause")) = 2 /\ Len(Effects("detect_conflicts")) = 2
  /\ Len(Effects("risk_flag")) = 2 /\ Len(Effects("missing_clause")) = 2
  /\ Len(Effects("finish_upload")) = 1 /\ Len(Effects("apply_decision")) = 6
<1>1. Effects("register") = <<"row">> /\ Effects("index") = <<"vectors">>
      /\ Effects("finish_upload") = <<"row_update">>
  BY SMT DEF Effects
<1>2. Effects("start_job") = <<"job", "contract", "metadata", "audit", "summary">>
  BY SMT DEF Effects
<1>3. Effects("link_same_clause") = <<"links", "audit">>
  BY SMT DEF Effects
<1>4. \A n \in {"detect_conflicts", "risk_flag", "missing_clause"} :
        Effects(n) = <<"flags", "audit">>
  BY SMT DEF Effects
<1>5. Effects("apply_decision") = <<"decision", "approval", "status", "audit",
                                    "review_action", "audit_log">>
  BY SMT DEF Effects, ApplyDecision
<1>6. Len(Effects("register")) = 1 /\ Len(Effects("index")) = 1
      /\ Len(Effects("finish_upload")) = 1
  BY <1>1, SMT
<1>7. Len(Effects("start_job")) = 5
  BY <1>2, SMT
<1>8. Len(Effects("link_same_clause")) = 2
  BY <1>3, SMT
<1>9. \A n \in {"detect_conflicts", "risk_flag", "missing_clause"} : Len(Effects(n)) = 2
  BY <1>4, SMT
<1>10. Len(Effects("apply_decision")) = 6
  BY <1>5, SMT
<1>. QED  BY <1>6, <1>7, <1>8, <1>9, <1>10, SMT

\* The node and the place at which an effect is performed.
PlaceOf(e, n, k) ==
    /\ e = "row"      => n = "register" /\ k = 1
    /\ e = "vectors"  => n = "index" /\ k = 1
    /\ e = "job"      => n = "start_job" /\ k = 1
    /\ e = "contract" => n = "start_job" /\ k = 2
    /\ e = "metadata" => n = "start_job" /\ k = 3
    /\ e = "summary"  => n = "start_job" /\ k = 5
    /\ e = "clause"   => n = "extract_clauses" /\ k \in 1 .. ClausesPer
    /\ e = "links"    => n = "link_same_clause" /\ k = 1
    /\ e = "flags"    =>
         n \in {"detect_conflicts", "risk_flag", "missing_clause"} /\ k = 1
    /\ e = "audit"    => \/ n \in GraphNodes /\ k = AuditPlace(n)
                         \/ n = "apply_decision" /\ k = 4
    /\ e = "row_update"    => n = "finish_upload" /\ k = 1
    /\ e = "decision"      => n = "apply_decision" /\ k = 1
    /\ e = "approval"      => n = "apply_decision" /\ k = 2
    /\ e = "status"        => n = "apply_decision" /\ k = 3
    /\ e = "review_action" => n = "apply_decision" /\ k = 5
    /\ e = "audit_log"     => n = "apply_decision" /\ k = 6

\* Each effect of a node is performed at its place and nowhere else.
LEMMA EffectPlaces ==
  ASSUME NEW n \in Uploading \union {"apply_decision"},
         NEW k \in Nat \ {0}, k <= Len(Effects(n))
  PROVE  PlaceOf(Effects(n)[k], n, k)
<1>1. CASE n = "register"
  <2>1. k = 1 /\ Effects(n)[k] = "row"
    BY <1>1, EffectCounts, SMT DEF Effects
  <2>. QED  BY <1>1, <2>1, SMT DEF PlaceOf
<1>2. CASE n = "index"
  <2>1. k = 1 /\ Effects(n)[k] = "vectors"
    BY <1>2, EffectCounts, SMT DEF Effects
  <2>. QED  BY <1>2, <2>1, SMT DEF PlaceOf
<1>3. CASE n = "start_job"
  <2>1. Effects(n) = <<"job", "contract", "metadata", "audit", "summary">>
    BY <1>3, SMT DEF Effects
  <2>2. k \in 1 .. 5
    BY <2>1, SMT
  <2>3. n \in GraphNodes /\ AuditPlace(n) = 4
    BY <1>3, GraphNodesBefore, SMT DEF AuditPlace
  <2>4. \/ k = 1 /\ Effects(n)[k] = "job"
        \/ k = 2 /\ Effects(n)[k] = "contract"
        \/ k = 3 /\ Effects(n)[k] = "metadata"
        \/ k = 4 /\ Effects(n)[k] = "audit"
        \/ k = 5 /\ Effects(n)[k] = "summary"
    BY <2>1, <2>2, SMT
  <2>. QED  BY <1>3, <2>3, <2>4, SMT DEF PlaceOf
<1>4. CASE n = "extract_clauses"
  <2>1. k \in 1 .. ClausesPer \/ k = ClausesPer + 1
    BY <1>4, ClauseEffects, ConstantsOK, SMT
  <2>2. n \in GraphNodes /\ AuditPlace(n) = ClausesPer + 1
    BY <1>4, GraphNodesBefore, SMT DEF AuditPlace
  <2>3. \/ k \in 1 .. ClausesPer /\ Effects(n)[k] = "clause"
        \/ k = ClausesPer + 1 /\ Effects(n)[k] = "audit"
    BY <1>4, <2>1, ClauseEffects, Zenon
  <2>4. CASE k \in 1 .. ClausesPer
    BY <1>4, <2>2, <2>4, ClauseEffects, SMT DEF PlaceOf
  <2>5. CASE k = ClausesPer + 1
    <3>1. Effects(n)[k] = "audit" /\ k = AuditPlace(n)
      BY <1>4, <2>2, <2>5, ClauseEffects, Zenon
    <3>2. PlaceOf("audit", n, AuditPlace(n))
      BY <2>2, SMT DEF PlaceOf
    <3>. QED  BY <3>1, <3>2, Zenon
  <2>. QED  BY <2>1, <2>4, <2>5
<1>5. CASE n = "link_same_clause"
  <2>1. Effects(n) = <<"links", "audit">>
    BY <1>5, SMT DEF Effects
  <2>2. k \in 1 .. 2
    BY <2>1, SMT
  <2>3. n \in GraphNodes /\ AuditPlace(n) = 2
    BY <1>5, GraphNodesBefore, SMT DEF AuditPlace
  <2>4. \/ k = 1 /\ Effects(n)[k] = "links"
        \/ k = 2 /\ Effects(n)[k] = "audit"
    BY <2>1, <2>2, SMT
  <2>5. CASE k = 1
    BY <1>5, <2>3, <2>4, <2>5, SMT DEF PlaceOf
  <2>6. CASE k = 2
    <3>1. Effects(n)[k] = "audit" /\ k = AuditPlace(n)
      BY <2>3, <2>4, <2>6, SMT
    <3>2. PlaceOf("audit", n, AuditPlace(n))
      BY <2>3, SMT DEF PlaceOf
    <3>. QED  BY <3>1, <3>2, Zenon
  <2>. QED  BY <2>2, <2>5, <2>6, SMT
<1>6. CASE n \in {"detect_conflicts", "risk_flag", "missing_clause"}
  <2>1. Effects(n) = <<"flags", "audit">>
    BY <1>6, SMT DEF Effects
  <2>2. k \in 1 .. 2
    BY <2>1, SMT
  <2>3. n \in GraphNodes /\ AuditPlace(n) = 2
    BY <1>6, GraphNodesBefore, SMT DEF AuditPlace
  <2>4. \/ k = 1 /\ Effects(n)[k] = "flags"
        \/ k = 2 /\ Effects(n)[k] = "audit"
    BY <2>1, <2>2, SMT
  <2>5. CASE k = 1
    BY <1>6, <2>3, <2>4, <2>5, SMT DEF PlaceOf
  <2>6. CASE k = 2
    <3>1. Effects(n)[k] = "audit" /\ k = AuditPlace(n)
      BY <2>3, <2>4, <2>6, SMT
    <3>2. PlaceOf("audit", n, AuditPlace(n))
      BY <2>3, SMT DEF PlaceOf
    <3>. QED  BY <3>1, <3>2, Zenon
  <2>. QED  BY <2>2, <2>5, <2>6, SMT
<1>7. CASE n = "finish_upload"
  <2>1. k = 1 /\ Effects(n)[k] = "row_update"
    BY <1>7, EffectCounts, SMT DEF Effects
  <2>. QED  BY <1>7, <2>1, SMT DEF PlaceOf
<1>8. CASE n = "apply_decision"
  <2>1. Effects(n) = <<"decision", "approval", "status", "audit",
                       "review_action", "audit_log">>
    BY <1>8, SMT DEF Effects, ApplyDecision
  <2>2. k \in 1 .. 6
    BY <2>1, SMT
  <2>3. \/ k = 1 /\ Effects(n)[k] = "decision"
        \/ k = 2 /\ Effects(n)[k] = "approval"
        \/ k = 3 /\ Effects(n)[k] = "status"
        \/ k = 4 /\ Effects(n)[k] = "audit"
        \/ k = 5 /\ Effects(n)[k] = "review_action"
        \/ k = 6 /\ Effects(n)[k] = "audit_log"
    BY <2>1, <2>2, SMT
  <2>. QED  BY <1>8, <2>3, SMT DEF PlaceOf
<1>. QED  BY <1>1, <1>2, <1>3, <1>4, <1>5, <1>6, <1>7, <1>8, Stages, SMT

\* What is performed stands at the place the run is at.
LEMMA EffectPerformed ==
  ASSUME TypeOK, NEW u \in Uploads, RunSound(u), NEW e, IsAt(u, e)
  PROVE  /\ PlaceOf(e, at[u], step[u])
         /\ at[u] \in Uploading \union {"apply_decision"}
         /\ running[u] = TRUE
<1>1. at[u] \in Uploading \union {"apply_decision"} /\ running[u] = TRUE
  BY DEF TypeOK, RunSound, IsAt
<1>2. step[u] \in Nat \ {0} /\ step[u] <= Len(Effects(at[u])) /\ Effects(at[u])[step[u]] = e
  BY DEF TypeOK, IsAt
<1>3. PlaceOf(Effects(at[u])[step[u]], at[u], step[u])
  BY <1>1, <1>2, EffectPlaces
<1>. QED  BY <1>1, <1>2, <1>3

\* The audit is one of its node's effects.
LEMMA AuditPlaces ==
  ASSUME NEW n \in GraphNodes
  PROVE  AuditPlace(n) \in Nat \ {0} /\ AuditPlace(n) <= Len(Effects(n))
<1>1. ClausesPer \in Nat
  BY ConstantsOK
<1>2. CASE n = "start_job"
  <2>1. AuditPlace(n) = 4 /\ Len(Effects(n)) = 5
    BY <1>2, EffectCounts, Zenon DEF AuditPlace
  <2>. QED  BY <2>1, SMT
<1>3. CASE n = "extract_clauses"
  <2>1. AuditPlace(n) = ClausesPer + 1
    BY <1>3, SMT DEF AuditPlace
  <2>2. Len(Effects(n)) = ClausesPer + 1
    BY <1>3, ClauseEffects, Zenon
  <2>. QED  BY <1>1, <2>1, <2>2, SMT
<1>4. CASE n \in {"link_same_clause", "detect_conflicts", "risk_flag", "missing_clause"}
  <2>1. AuditPlace(n) = 2
    BY <1>4, SMT DEF AuditPlace
  <2>2. Len(Effects(n)) = 2
    BY <1>4, EffectCounts, Zenon
  <2>. QED  BY <2>1, <2>2, SMT
<1>. QED  BY <1>2, <1>3, <1>4, GraphNodesBefore

\* The words of a decision.
LEMMA Words ==
  /\ \A d \in Decisions : Action(d) \in Actions
  /\ \A a \in Actions : StatusOf(a) \in Verdicts /\ ApprovedOf(a) \in {TRUE, FALSE, None}
  /\ \A a, b \in Actions : StatusOf(a) = StatusOf(b) => a = b
  /\ "processing" \notin Verdicts
<1>1. \A d \in Decisions : Action(d) \in Actions
  BY SMT DEF Decisions, Action, Actions
<1>2. \A a \in Actions : StatusOf(a) \in Verdicts
  BY Zenon DEF Verdicts
<1>3. \A a \in Actions : ApprovedOf(a) \in {TRUE, FALSE, None}
  <2>1. /\ ApprovedOf("approve") = TRUE /\ ApprovedOf("reject") = FALSE
        /\ ApprovedOf("escalate") = None /\ ApprovedOf("hold") = FALSE
    BY DEF ApprovedOf
  <2>. QED  BY <2>1, Zenon DEF Actions
<1>4. \A a, b \in Actions : StatusOf(a) = StatusOf(b) => a = b
  BY SMT DEF StatusOf, Actions
<1>5. \A a \in Actions : StatusOf(a) # "processing"
  BY SMT DEF StatusOf, Actions
<1>6. "processing" \notin Verdicts
  BY <1>5, Zenon DEF Verdicts
<1>. QED  BY <1>1, <1>2, <1>3, <1>4, <1>6

-----------------------------------------------------------------------------
(***************************************************************************)
(* Types.                                                                  *)
(***************************************************************************)

\* a step of the run of u
RunSteps(u) == StartIngestionJob(u) \/ Resume(u) \/ Execute(u) \/ SqlFails(u) \/ NodeRaises(u)

\* The initial state is typed and sound.
LEMMA InitSound == Init => IngestInv
<1>. SUFFICES ASSUME Init PROVE IngestInv
  OBVIOUS
<1>1. MaxFailures \in Nat
  BY ConstantsOK
<1>2. TypeOK
  BY <1>1, SMT DEF Init, TypeOK, Nodes
<1>3. ASSUME NEW u \in Uploads PROVE Sound(u)
  <2>1. /\ at[u] = "none" /\ running[u] = FALSE /\ step[u] = 1
        /\ docStatus[u] = None /\ jobStatus[u] = None /\ approved[u] = None
        /\ decisionRows[u] = {} /\ reviewActions[u] = {} /\ auditLog[u] = {}
    BY DEF Init
  <2>2. RunSound(u)
    BY <2>1, Stages, SMT DEF RunSound
  <2>3. \A m \in Uploading, k \in Nat : ~Past(u, m, k)
    BY <2>1, AfterAll, Stages, SMT DEF Past
  <2>4. Progress(u)
    <3>1. ClausesPer \in Nat
      BY ConstantsOK
    <3>2. "extract_clauses" \in Uploading
      BY Stages
    <3>3. \A n \in GraphNodes : AuditPlace(n) \in Nat
      BY AuditPlaces
    <3>. QED  BY <2>3, <3>1, <3>2, <3>3, GraphNodesBefore, SMT DEF Progress
  <2>5. Undecided(u)
    BY <2>1, NoneOK DEF Undecided
  <2>6. Deciding(u)
    BY <2>1 DEF Deciding
  <2>7. Backed(u)
    BY <2>1, NoneOK, Words DEF Backed
  <2>8. Ingested(u)
    BY <2>1, NoneOK DEF Ingested
  <2>. QED  BY <2>2, <2>4, <2>5, <2>6, <2>7, <2>8 DEF Sound
<1>. QED  BY <1>2, <1>3 DEF IngestInv

\* Where a run is and how far it got stays typed.
LEMMA RunTyped ==
  ASSUME TypeOK, NEW u \in Uploads, RunSound(u), RunSteps(u)
  PROVE  /\ at' \in [Uploads -> Nodes]
         /\ running' \in [Uploads -> BOOLEAN]
         /\ step' \in [Uploads -> Nat \ {0}]
         /\ decision' \in [Uploads -> Decisions \union {None}]
         /\ failures' \in 0 .. MaxFailures
<1>1. /\ at \in [Uploads -> Nodes] /\ running \in [Uploads -> BOOLEAN]
      /\ step \in [Uploads -> Nat \ {0}]
      /\ decision \in [Uploads -> Decisions \union {None}]
      /\ failures \in 0 .. MaxFailures /\ MaxFailures \in Nat
  BY ConstantsOK DEF TypeOK
<1>2. Uploading \subseteq Nodes
      /\ {"human_approval", "apply_decision", "end", "lost", "register"} \subseteq Nodes
  BY Stages, SMT DEF Nodes
<1>3. CASE StartIngestionJob(u) \/ Resume(u)
  <2>1. PICK node \in {"register", "apply_decision"} : Enter(u, node)
    BY <1>3, Zenon
    DEF StartIngestionJob, Resume, RetryApplyDecision, HumanApproval
  <2>2. /\ at' \in [Uploads -> Nodes] /\ running' \in [Uploads -> BOOLEAN]
        /\ step' \in [Uploads -> Nat \ {0}]
    BY <1>1, <1>2, <2>1, SMT DEF Enter
  <2>3. decision' = decision \/ \E d \in Decisions : decision' = [decision EXCEPT ![u] = d]
    BY <1>3, Zenon DEF StartIngestionJob, Resume, RetryApplyDecision, HumanApproval
  <2>4. decision' \in [Uploads -> Decisions \union {None}]
    BY <1>1, <2>3, SMT
  <2>5. failures' = failures
    BY <1>3, Zenon DEF StartIngestionJob, Resume, RetryApplyDecision, HumanApproval
  <2>. QED  BY <1>1, <2>2, <2>4, <2>5, SMT
<1>4. CASE \/ CreateDocument(u) \/ EmbedAndStore(u) \/ CreateDocumentJob(u)
           \/ CreateContract(u) \/ WriteDerivedRows(u) \/ CreateClause(u)
           \/ LinkSameClause(u) \/ WriteAuditRecord(u) \/ UpdateDocument(u)
           \/ CreateReviewerDecision(u) \/ SetContractApproval(u) \/ UpdateJobStatus(u)
           \/ RecordReviewAction(u) \/ WriteAuditLog(u)
  <2>1. step' = [step EXCEPT ![u] = @ + 1] /\ UNCHANGED <<at, running, decision, failures>>
    BY <1>4, Zenon
    DEF Performs, CreateDocument, EmbedAndStore, CreateDocumentJob, CreateContract,
        WriteDerivedRows, CreateClause, LinkSameClause, WriteAuditRecord,
        UpdateDocument, CreateReviewerDecision, SetContractApproval,
        UpdateJobStatus, RecordReviewAction, WriteAuditLog
  <2>. QED  BY <1>1, <2>1, SMT
<1>5. CASE CompleteNode(u)
  <2>1. at[u] \in Uploading \union {"apply_decision"}
    BY <1>5 DEF CompleteNode, RunSound, TypeOK
  <2>2. NextNode(at[u]) \in Nodes
    <3>1. CASE at[u] = "apply_decision"
      BY <1>2, <3>1 DEF NextNode
    <3>2. CASE at[u] \in Uploading
      BY <1>2, <3>2, NextAfter
    <3>. QED  BY <2>1, <3>1, <3>2
  <2>. QED  BY <1>1, <1>5, <2>2, SMT DEF CompleteNode, neo4j, sql
<1>6. CASE SqlFails(u)
  <2>1. /\ failures' = failures + 1 /\ failures < MaxFailures
        /\ step' = [step EXCEPT ![u] = IF IsAt(u, "review_action") THEN @ + 2 ELSE @ + 1]
        /\ UNCHANGED <<at, running, decision>>
    BY <1>6, Zenon DEF SqlFails
  <2>. QED  BY <1>1, <2>1, SMT
<1>7. CASE NodeRaises(u)
  BY <1>1, <1>2, <1>7, SMT DEF NodeRaises
<1>. QED  BY <1>3, <1>4, <1>5, <1>6, <1>7, Zenon DEF RunSteps, Execute

\* What the run has written stays typed.
LEMMA DataTyped ==
  ASSUME TypeOK, NEW u \in Uploads, RunSound(u), Deciding(u), RunSteps(u)
  PROVE  /\ docStatus' \in [Uploads -> {"processing", "awaiting_review", None}]
         /\ docJob' \in [Uploads -> BOOLEAN]
         /\ reviewActions' \in [Uploads -> SUBSET Actions]
         /\ auditLog' \in [Uploads -> SUBSET Actions]
         /\ jobStatus' \in [Uploads -> Verdicts \union {"processing", None}]
         /\ contract' \in [Uploads -> BOOLEAN]
         /\ approved' \in [Uploads -> {TRUE, FALSE, None}]
         /\ clauses' \subseteq Clauses
         /\ links' \subseteq clauses' \X clauses'
         /\ audit' \in [Uploads -> SUBSET Nodes]
         /\ decisionRows' \in [Uploads -> SUBSET BOOLEAN]
         /\ indexed' \subseteq Uploads
<1>1. /\ docStatus \in [Uploads -> {"processing", "awaiting_review", None}]
      /\ docJob \in [Uploads -> BOOLEAN]
      /\ reviewActions \in [Uploads -> SUBSET Actions]
      /\ auditLog \in [Uploads -> SUBSET Actions]
      /\ jobStatus \in [Uploads -> Verdicts \union {"processing", None}]
      /\ contract \in [Uploads -> BOOLEAN]
      /\ approved \in [Uploads -> {TRUE, FALSE, None}]
      /\ clauses \subseteq Clauses
      /\ links \subseteq clauses \X clauses
      /\ audit \in [Uploads -> SUBSET Nodes]
      /\ decisionRows \in [Uploads -> SUBSET BOOLEAN]
      /\ indexed \subseteq Uploads
      /\ at[u] \in Nodes
  BY DEF TypeOK
<1>a. ASSUME at[u] = "apply_decision" PROVE Action(decision[u]) \in Actions
  BY <1>a, Words DEF Deciding
<1>2. CASE \/ StartIngestionJob(u) \/ Resume(u) \/ WriteDerivedRows(u)
           \/ CompleteNode(u) \/ SqlFails(u) \/ NodeRaises(u)
  <2>1. UNCHANGED <<sql, neo4j, indexed>>
    BY <1>2, Zenon
    DEF StartIngestionJob, Resume, HumanApproval, RetryApplyDecision,
        WriteDerivedRows, CompleteNode, SqlFails, NodeRaises
  <2>. QED  BY <1>1, <2>1 DEF sql, neo4j
<1>3. CASE CreateDocument(u)
  <2>1. docStatus' \in [Uploads -> {"processing", "awaiting_review", None}]
    BY <1>1, <1>3 DEF CreateDocument
  <2>. QED  BY <1>1, <1>3, <2>1 DEF CreateDocument, neo4j
<1>4. CASE EmbedAndStore(u)
  BY <1>1, <1>4 DEF EmbedAndStore, sql, neo4j
<1>5. CASE CreateDocumentJob(u)
  <2>1. jobStatus' \in [Uploads -> Verdicts \union {"processing", None}]
    BY <1>1, <1>5 DEF CreateDocumentJob
  <2>. QED  BY <1>1, <1>5, <2>1 DEF CreateDocumentJob, sql
<1>6. CASE CreateContract(u)
  <2>1. contract' \in [Uploads -> BOOLEAN]
    BY <1>1, <1>6 DEF CreateContract
  <2>2. approved' \in [Uploads -> {TRUE, FALSE, None}]
    BY <1>1, <1>6 DEF CreateContract
  <2>. QED  BY <1>1, <1>6, <2>1, <2>2 DEF CreateContract, sql
<1>7. CASE CreateClause(u)
  <2>1. IsAt(u, "clause")
    BY <1>7 DEF CreateClause, Performs
  <2>2. step[u] \in 1 .. ClausesPer
    BY <2>1, EffectPerformed DEF PlaceOf
  <2>3. clauses' = clauses \union {<<u, step[u]>>}
    BY <1>7 DEF CreateClause
  <2>4. clauses' \subseteq Clauses
    BY <1>1, <2>2, <2>3 DEF Clauses
  <2>5. links' \subseteq clauses' \X clauses'
    BY <1>1, <1>7, <2>3 DEF CreateClause
  <2>. QED  BY <1>1, <1>7, <2>4, <2>5 DEF CreateClause, sql
<1>8. CASE LinkSameClause(u)
  <2>1. /\ clauses' = clauses
        /\ links' = links \union {p \in Similar : /\ p[1] \in clauses /\ p[2] \in clauses
                                                  /\ p[1][1] = u /\ p[1] # p[2]}
    BY <1>8 DEF LinkSameClause
  <2>2. \A p \in Similar : p[1] \in clauses /\ p[2] \in clauses => p \in clauses \X clauses
    BY ConstantsOK
  <2>3. links' \subseteq clauses' \X clauses'
    BY <1>1, <2>1, <2>2
  <2>. QED  BY <1>1, <1>8, <2>3 DEF LinkSameClause, sql
<1>9. CASE WriteAuditRecord(u)
  <2>1. audit' \in [Uploads -> SUBSET Nodes]
    BY <1>1, <1>9 DEF WriteAuditRecord
  <2>. QED  BY <1>1, <1>9, <2>1 DEF WriteAuditRecord, sql
<1>10. CASE UpdateDocument(u)
  <2>1. docStatus' \in [Uploads -> {"processing", "awaiting_review", None}]
    BY <1>1, <1>10 DEF UpdateDocument
  <2>2. docJob' \in [Uploads -> BOOLEAN]
    BY <1>1, <1>10 DEF UpdateDocument
  <2>. QED  BY <1>1, <1>10, <2>1, <2>2 DEF UpdateDocument, neo4j
<1>11. CASE CreateReviewerDecision(u)
  <2>1. decisionRows' \in [Uploads -> SUBSET BOOLEAN]
    BY <1>1, <1>11 DEF CreateReviewerDecision
  <2>. QED  BY <1>1, <1>11, <2>1 DEF CreateReviewerDecision, sql
<1>b. ASSUME NEW e \in {"approval", "status", "review_action", "audit_log"}, Performs(u, e)
      PROVE  Action(decision[u]) \in Actions
  <2>1. PlaceOf(e, at[u], step[u])
    BY <1>b, EffectPerformed DEF Performs
  <2>. QED  BY <1>a, <1>b, <2>1 DEF PlaceOf
<1>12. CASE SetContractApproval(u)
  <2>1. ApprovedOf(Action(decision[u])) \in {TRUE, FALSE, None}
    BY <1>b, <1>12, Words DEF SetContractApproval
  <2>2. approved' \in [Uploads -> {TRUE, FALSE, None}]
    BY <1>1, <1>12, <2>1 DEF SetContractApproval
  <2>. QED  BY <1>1, <1>12, <2>2 DEF SetContractApproval, sql
<1>13. CASE UpdateJobStatus(u)
  <2>1. StatusOf(Action(decision[u])) \in Verdicts
    BY <1>b, <1>13, Words DEF UpdateJobStatus
  <2>2. jobStatus' \in [Uploads -> Verdicts \union {"processing", None}]
    BY <1>1, <1>13, <2>1 DEF UpdateJobStatus
  <2>. QED  BY <1>1, <1>13, <2>2 DEF UpdateJobStatus, sql
<1>14. CASE RecordReviewAction(u)
  <2>1. Action(decision[u]) \in Actions
    BY <1>b, <1>14 DEF RecordReviewAction
  <2>2. reviewActions' \in [Uploads -> SUBSET Actions]
    BY <1>1, <1>14, <2>1 DEF RecordReviewAction
  <2>. QED  BY <1>1, <1>14, <2>2 DEF RecordReviewAction, neo4j
<1>15. CASE WriteAuditLog(u)
  <2>1. Action(decision[u]) \in Actions
    BY <1>b, <1>15 DEF WriteAuditLog
  <2>2. auditLog' \in [Uploads -> SUBSET Actions]
    BY <1>1, <1>15, <2>1 DEF WriteAuditLog
  <2>. QED  BY <1>1, <1>15, <2>2 DEF WriteAuditLog, neo4j
<1>. QED
  BY <1>2, <1>3, <1>4, <1>5, <1>6, <1>7, <1>8, <1>9, <1>10, <1>11, <1>12, <1>13,
     <1>14, <1>15, Zenon DEF RunSteps, Execute

-----------------------------------------------------------------------------
(***************************************************************************)
(* Steps of other uploads.                                                 *)
(***************************************************************************)

\* u keeps its place, its rows and its records; what all uploads share only grows
Untouched(u) ==
    /\ at'[u] = at[u] /\ running'[u] = running[u] /\ step'[u] = step[u]
    /\ decision'[u] = decision[u]
    /\ docStatus'[u] = docStatus[u] /\ docJob'[u] = docJob[u]
    /\ reviewActions'[u] = reviewActions[u] /\ auditLog'[u] = auditLog[u]
    /\ jobStatus'[u] = jobStatus[u] /\ approved'[u] = approved[u]
    /\ audit'[u] = audit[u] /\ decisionRows'[u] = decisionRows[u]
    /\ clauses \subseteq clauses' /\ indexed \subseteq indexed'

\* An upload that is left alone stays sound.
LEMMA UntouchedSound ==
  ASSUME NEW u, Sound(u), Untouched(u)
  PROVE  Sound(u)'
<1>1. RunSound(u)'
  BY DEF Sound, Untouched, RunSound
<1>2. Progress(u)'
  BY DEF Sound, Untouched, Progress, Past
<1>3. Undecided(u)'
  BY DEF Sound, Untouched, Undecided
<1>4. Deciding(u)'
  BY DEF Sound, Untouched, Deciding
<1>5. Backed(u)'
  BY DEF Sound, Untouched, Backed
<1>6. Ingested(u)'
  BY DEF Sound, Untouched, Ingested
<1>. QED  BY <1>1, <1>2, <1>3, <1>4, <1>5, <1>6 DEF Sound

\* The run of one upload leaves the others alone.
LEMMA OthersUntouched ==
  ASSUME TypeOK, NEW u \in Uploads, NEW v \in Uploads \ {u}, RunSteps(u)
  PROVE  Untouched(v)
<1>. USE DEF TypeOK, Untouched, sql, neo4j
<1>1. CASE StartIngestionJob(u) \/ Resume(u)
  BY <1>1 DEF StartIngestionJob, Resume, HumanApproval, RetryApplyDecision, Enter
<1>2. CASE CreateDocument(u) \/ EmbedAndStore(u) \/ CreateDocumentJob(u) \/ CreateContract(u)
  BY <1>2 DEF Performs, CreateDocument, EmbedAndStore, CreateDocumentJob, CreateContract
<1>3. CASE WriteDerivedRows(u) \/ CreateClause(u) \/ LinkSameClause(u) \/ WriteAuditRecord(u)
  BY <1>3 DEF Performs, WriteDerivedRows, CreateClause, LinkSameClause, WriteAuditRecord
<1>4. CASE UpdateDocument(u) \/ CreateReviewerDecision(u) \/ SetContractApproval(u)
  BY <1>4 DEF Performs, UpdateDocument, CreateReviewerDecision, SetContractApproval
<1>5. CASE UpdateJobStatus(u) \/ RecordReviewAction(u) \/ WriteAuditLog(u)
  BY <1>5 DEF Performs, UpdateJobStatus, RecordReviewAction, WriteAuditLog
<1>6. CASE CompleteNode(u) \/ NodeRaises(u)
  BY <1>6 DEF CompleteNode, NodeRaises
<1>7. CASE SqlFails(u)
  <2>1. /\ step' = [step EXCEPT ![u] = IF IsAt(u, "review_action") THEN @ + 2 ELSE @ + 1]
        /\ UNCHANGED <<at, running, decision, sql, neo4j, indexed>>
    BY <1>7 DEF SqlFails
  <2>. QED  BY <2>1
<1>. QED  BY <1>1, <1>2, <1>3, <1>4, <1>5, <1>6, <1>7, Zenon DEF RunSteps, Execute

-----------------------------------------------------------------------------
(***************************************************************************)
(* Traces of the progress.                                                 *)
(***************************************************************************)

\* An effect that leaves the trace its place asks for keeps what holds of the
\* places before it.
LEMMA ProgressKept ==
  ASSUME TypeOK, NEW u \in Uploads, Progress(u),
         at'[u] = at[u], step'[u] = step[u] + 1,
         indexed \subseteq indexed', clauses \subseteq clauses', audit[u] \subseteq audit'[u],
         at[u] = "index" /\ step[u] = 1 => u \in indexed',
         at[u] = "extract_clauses" /\ step[u] \in 1 .. ClausesPer =>
             <<u, step[u]>> \in clauses',
         at[u] \in GraphNodes /\ step[u] = AuditPlace(at[u]) => at[u] \in audit'[u]
  PROVE  Progress(u)'
<1>1. step[u] \in Nat
  BY DEF TypeOK
<1>2. ASSUME NEW n, NEW k \in Nat, Past(u, n, k)'
      PROVE  Past(u, n, k) \/ (at[u] = n /\ step[u] = k)
  BY <1>1, <1>2, SMT DEF Past
<1>3. (Past(u, "index", 1) => u \in indexed)'
  BY <1>2 DEF Progress
<1>4. ASSUME NEW k \in 1 .. ClausesPer, Past(u, "extract_clauses", k)'
      PROVE  <<u, k>> \in clauses'
  <2>1. k \in Nat
    BY ConstantsOK
  <2>. QED  BY <1>2, <1>4, <2>1 DEF Progress
<1>5. ASSUME NEW n \in GraphNodes, Past(u, n, AuditPlace(n))'
      PROVE  n \in audit'[u]
  <2>1. AuditPlace(n) \in Nat
    BY AuditPlaces
  <2>. QED  BY <1>2, <1>5, <2>1 DEF Progress
<1>. QED  BY <1>3, <1>4, <1>5, Zenon DEF Progress

\* A run that moves on has done all of what it leaves, so it is past nothing new.
LEMMA ProgressMoved ==
  ASSUME TypeOK, NEW u \in Uploads, Progress(u), step'[u] = 1,
         UNCHANGED <<indexed, clauses, audit>>,
         \A m \in Uploading : at'[u] \in After(m) =>
             at[u] \in After(m) \/ (at[u] = m /\ step[u] > Len(Effects(m)))
  PROVE  Progress(u)'
<1>1. step[u] \in Nat
  BY DEF TypeOK
<1>2. ASSUME NEW n \in Uploading, NEW k \in Nat \ {0}, k <= Len(Effects(n)),
             Len(Effects(n)) \in Nat, Past(u, n, k)'
      PROVE  Past(u, n, k)
  <2>1. at'[u] \in After(n)
    BY <1>2, SMT DEF Past
  <2>. QED  BY <1>1, <1>2, <2>1, SMT DEF Past
<1>3. ASSUME Past(u, "index", 1)'
      PROVE  u \in indexed'
  <2>1. Len(Effects("index")) = 1
    BY EffectCounts
  <2>2. "index" \in Uploading
    BY GraphNodesBefore
  <2>3. Past(u, "index", 1)
    BY <1>2, <1>3, <2>1, <2>2, SMT
  <2>. QED  BY <2>3 DEF Progress
<1>4. ASSUME NEW k \in 1 .. ClausesPer, Past(u, "extract_clauses", k)'
      PROVE  <<u, k>> \in clauses'
  <2>1. k \in Nat \ {0} /\ k <= Len(Effects("extract_clauses"))
        /\ Len(Effects("extract_clauses")) \in Nat
    BY ClauseEffects, ConstantsOK, SMT
  <2>2. "extract_clauses" \in Uploading
    BY Stages
  <2>3. Past(u, "extract_clauses", k)
    BY <1>2, <1>4, <2>1, <2>2
  <2>. QED  BY <2>3 DEF Progress
<1>5. ASSUME NEW n \in GraphNodes, Past(u, n, AuditPlace(n))'
      PROVE  n \in audit'[u]
  <2>1. AuditPlace(n) \in Nat \ {0} /\ AuditPlace(n) <= Len(Effects(n))
    BY AuditPlaces
  <2>2. Len(Effects(n)) \in Nat
    BY EffectCounts, ClauseEffects, ConstantsOK, GraphNodesBefore
  <2>3. Past(u, n, AuditPlace(n))
    BY <1>2, <1>5, <2>1, <2>2, GraphNodesBefore, Zenon
  <2>. QED  BY <2>3 DEF Progress
<1>. QED  BY <1>3, <1>4, <1>5, Zenon DEF Progress

\* A run whose decision is asked for or applied is past all of the upload.
LEMMA AnalysisOnRecord ==
  ASSUME NEW u \in Uploads, Progress(u),
         at[u] \in {"finish_upload", "human_approval", "apply_decision", "end"}
  PROVE  /\ u \in indexed
         /\ \A k \in 1 .. ClausesPer : <<u, k>> \in clauses
         /\ GraphNodes \subseteq audit[u]
<1>1. \A m \in GraphNodes \union {"index"} : at[u] \in After(m)
  BY AfterAll, GraphNodesBefore
<1>2. "extract_clauses" \in GraphNodes
  BY GraphNodesBefore
<1>. QED  BY <1>1, <1>2 DEF Progress, Past

-----------------------------------------------------------------------------
(***************************************************************************)
(* Steps of a run, about its own upload.                                   *)
(***************************************************************************)

\* what has been decided about u
SameRecord(u) ==
    /\ decisionRows'[u] = decisionRows[u] /\ approved'[u] = approved[u]
    /\ jobStatus'[u] = jobStatus[u]
    /\ reviewActions'[u] = reviewActions[u] /\ auditLog'[u] = auditLog[u]

\* What the run's place and its records say is kept while records only grow by
\* audit entries and the run stays out of the decision.
LEMMA UploadKept ==
  ASSUME TypeOK, NEW u \in Uploads, Sound(u), SameRecord(u),
         at'[u] \in Uploading \union {"human_approval", "lost", "end"},
         at'[u] \in Uploading \union {"human_approval"} =>
             at[u] \in Uploading \union {"none", "human_approval"},
         audit[u] \subseteq audit'[u]
  PROVE  Undecided(u)' /\ Deciding(u)' /\ Backed(u)'
<1>1. Undecided(u)'
  <2>1. at'[u] # "none" \/ at[u] = "none"
    BY Stages
  <2>. QED  BY <2>1, Stages DEF Sound, Undecided, SameRecord
<1>2. at'[u] # "apply_decision"
  BY Stages
<1>3. Deciding(u)'
  BY <1>2 DEF Deciding
<1>4. Backed(u)'
  BY DEF Sound, Backed, SameRecord
<1>. QED  BY <1>1, <1>3, <1>4

\* Entering the upload.
LEMMA StartSound ==
  ASSUME TypeOK, NEW u \in Uploads, Sound(u), StartIngestionJob(u)
  PROVE  Sound(u)'
<1>1. /\ at[u] = "none" /\ at'[u] = "register" /\ running'[u] = TRUE /\ step'[u] = 1
      /\ UNCHANGED <<decision, sql, neo4j, indexed>>
  BY DEF StartIngestionJob, Enter, TypeOK
<1>2. "register" \in Uploading
  BY Stages
<1>3. RunSound(u)'
  BY <1>1, <1>2 DEF RunSound
<1>4. Progress(u)'
  <2>1. \A m \in Uploading : at'[u] \notin After(m)
    BY <1>1, AfterAll
  <2>2. UNCHANGED <<indexed, clauses, audit>>
    BY <1>1 DEF neo4j
  <2>. QED  BY <1>1, <2>1, <2>2, ProgressMoved DEF Sound
<1>5. Undecided(u)' /\ Deciding(u)' /\ Backed(u)'
  BY <1>1, <1>2, UploadKept DEF SameRecord, sql, neo4j
<1>6. Ingested(u)'
  BY <1>1 DEF Sound, Ingested, sql, neo4j
<1>. QED  BY <1>3, <1>4, <1>5, <1>6 DEF Sound

\* A person's decision, and a repeated execution of it.
LEMMA ResumeSound ==
  ASSUME TypeOK, NEW u \in Uploads, Sound(u), Resume(u)
  PROVE  Sound(u)'
<1>1. /\ at[u] \in {"human_approval", "apply_decision"}
      /\ at'[u] = "apply_decision" /\ running'[u] = TRUE /\ step'[u] = 1
      /\ UNCHANGED <<sql, neo4j, indexed>>
  BY DEF Resume, HumanApproval, RetryApplyDecision, Enter, TypeOK
<1>2. at[u] = "human_approval" => decision'[u] \in Decisions
  BY DEF Resume, HumanApproval, RetryApplyDecision, TypeOK
<1>3. at[u] = "apply_decision" => decision'[u] = decision[u]
  BY DEF Resume, HumanApproval, RetryApplyDecision
<1>4. RunSound(u)'
  BY <1>1, Stages DEF RunSound
<1>5. Progress(u)'
  <2>1. \A m \in Uploading : at[u] \in After(m)
    BY <1>1, AfterAll
  <2>2. UNCHANGED <<indexed, clauses, audit>>
    BY <1>1 DEF neo4j
  <2>. QED  BY <1>1, <2>1, <2>2, ProgressMoved DEF Sound
<1>6. Undecided(u)'
  BY <1>1, Stages DEF Undecided
<1>7. Deciding(u)'
  <2>1. CASE at[u] = "human_approval"
    <3>1. /\ decisionRows[u] = {} /\ approved[u] = None /\ jobStatus[u] \notin Verdicts
          /\ reviewActions[u] = {}
      BY <2>1 DEF Sound, Undecided
    <3>. QED  BY <1>1, <1>2, <2>1, <3>1, SMT DEF Deciding, sql, neo4j
  <2>2. CASE at[u] = "apply_decision"
    BY <1>1, <1>3, <2>2, SMT DEF Sound, Deciding, sql, neo4j
  <2>. QED  BY <1>1, <2>1, <2>2
<1>8. Backed(u)'
  BY <1>1 DEF Sound, Backed, sql, neo4j
<1>9. Ingested(u)'
  BY <1>1 DEF Sound, Ingested, sql, neo4j
<1>. QED  BY <1>4, <1>5, <1>6, <1>7, <1>8, <1>9 DEF Sound

\* Completing a node.
LEMMA CompleteSound ==
  ASSUME TypeOK, NEW u \in Uploads, Sound(u), CompleteNode(u)
  PROVE  Sound(u)'
<1>1. /\ running[u] = TRUE /\ step[u] > Len(Effects(at[u]))
      /\ at'[u] = NextNode(at[u]) /\ step'[u] = 1
      /\ running'[u] = (NextNode(at[u]) \in Uploading)
      /\ UNCHANGED <<decision, sql, neo4j, indexed>>
  BY DEF CompleteNode, TypeOK
<1>2. at[u] \in Uploading \union {"apply_decision"}
  BY <1>1 DEF Sound, RunSound
<1>3. \/ at[u] \in Uploading /\ at'[u] \in Uploading \union {"human_approval"}
      \/ at[u] = "apply_decision" /\ at'[u] = "end"
  BY <1>1, <1>2, NextAfter DEF NextNode
<1>4. RunSound(u)'
  BY <1>1, <1>3, Stages DEF RunSound
<1>5. Progress(u)'
  <2>1. ASSUME NEW m \in Uploading, at'[u] \in After(m)
        PROVE  at[u] \in After(m) \/ (at[u] = m /\ step[u] > Len(Effects(m)))
    <3>1. CASE at[u] = "apply_decision"
      BY <3>1, AfterAll
    <3>2. CASE at[u] \in Uploading
      BY <1>1, <2>1, <3>2, NextAfter
    <3>. QED  BY <1>2, <3>1, <3>2
  <2>2. UNCHANGED <<indexed, clauses, audit>>
    BY <1>1 DEF neo4j
  <2>. QED  BY <1>1, <2>1, <2>2, ProgressMoved DEF Sound
<1>6. Undecided(u)' /\ Deciding(u)' /\ Backed(u)'
  <2>1. "end" \notin Uploading \union {"human_approval"}
    BY Stages
  <2>. QED  BY <1>1, <1>3, <2>1, UploadKept DEF SameRecord, sql, neo4j
<1>7. Ingested(u)'
  BY <1>1 DEF Sound, Ingested, sql, neo4j
<1>. QED  BY <1>4, <1>5, <1>6, <1>7 DEF Sound

\* An upload whose run is lost keeps its rows.
LEMMA LostSound ==
  ASSUME TypeOK, NEW u \in Uploads, Sound(u),
         at'[u] = "lost", running'[u] = FALSE, step'[u] = 1,
         UNCHANGED <<sql, neo4j, indexed>>
  PROVE  Sound(u)'
<1>1. RunSound(u)'
  BY Stages DEF RunSound
<1>2. Progress(u)'
  <2>1. \A m \in Uploading : at'[u] \notin After(m)
    BY AfterAll
  <2>2. UNCHANGED <<indexed, clauses, audit>>
    BY DEF neo4j
  <2>. QED  BY <2>1, <2>2, ProgressMoved DEF Sound
<1>3. Undecided(u)' /\ Deciding(u)' /\ Backed(u)'
  <2>1. "lost" \notin Uploading \union {"human_approval"}
    BY Stages
  <2>. QED  BY <2>1, UploadKept DEF SameRecord, sql, neo4j
<1>4. Ingested(u)'
  BY DEF Sound, Ingested, sql, neo4j
<1>. QED  BY <1>1, <1>2, <1>3, <1>4 DEF Sound

\* A node that raises.
LEMMA RaiseSound ==
  ASSUME TypeOK, NEW u \in Uploads, Sound(u), NodeRaises(u)
  PROVE  Sound(u)'
<1>1. /\ at'[u] = IF at[u] = "apply_decision" THEN at[u] ELSE "lost"
      /\ running'[u] = FALSE /\ step'[u] = 1
      /\ UNCHANGED <<decision, sql, neo4j, indexed>>
  BY DEF NodeRaises, TypeOK
<1>2. CASE at[u] # "apply_decision"
  BY <1>1, <1>2, LostSound
<1>3. CASE at[u] = "apply_decision"
  <2>1. RunSound(u)'
    BY <1>1, <1>3, Stages DEF RunSound
  <2>2. Progress(u)'
    <3>1. \A m \in Uploading : at[u] \in After(m)
      BY <1>3, AfterAll
    <3>2. UNCHANGED <<indexed, clauses, audit>>
      BY <1>1 DEF neo4j
    <3>. QED  BY <1>1, <3>1, <3>2, ProgressMoved DEF Sound
  <2>3. Undecided(u)'
    BY <1>1, <1>3, Stages DEF Undecided
  <2>4. Deciding(u)'
    BY <1>1, <1>3, SMT DEF Sound, Deciding, sql, neo4j
  <2>5. Backed(u)'
    BY <1>1 DEF Sound, Backed, sql, neo4j
  <2>6. Ingested(u)'
    BY <1>1 DEF Sound, Ingested, sql, neo4j
  <2>. QED  BY <2>1, <2>2, <2>3, <2>4, <2>5, <2>6 DEF Sound
<1>. QED  BY <1>2, <1>3

-----------------------------------------------------------------------------
(***************************************************************************)
(* Effects of the upload.                                                  *)
(***************************************************************************)

\* An effect leaves the run at its node, one place on.
LEMMA EffectMoves ==
  ASSUME TypeOK, NEW u \in Uploads, Sound(u), NEW e, Performs(u, e)
  PROVE  /\ at'[u] = at[u] /\ running'[u] = TRUE /\ step'[u] = step[u] + 1
         /\ decision'[u] = decision[u] /\ step[u] \in Nat \ {0}
         /\ at[u] \in Uploading \union {"apply_decision"}
         /\ PlaceOf(e, at[u], step[u])
         /\ RunSound(u)'
<1>1. IsAt(u, e) /\ step' = [step EXCEPT ![u] = @ + 1] /\ UNCHANGED <<at, running, decision>>
  BY DEF Performs
<1>2. at[u] \in Uploading \union {"apply_decision"} /\ running[u] = TRUE
      /\ PlaceOf(e, at[u], step[u])
  BY <1>1, EffectPerformed DEF Sound
<1>3. step'[u] = step[u] + 1 /\ step[u] \in Nat \ {0}
  BY <1>1 DEF TypeOK
<1>. QED  BY <1>1, <1>2, <1>3 DEF RunSound

\* The rows of the document and of other components leave the graph's record alone.
LEMMA RowsSound ==
  ASSUME TypeOK, NEW u \in Uploads, Sound(u),
         CreateDocument(u) \/ WriteDerivedRows(u) \/ UpdateDocument(u)
  PROVE  Sound(u)'
<1>1. PICK e \in {"row", "metadata", "summary", "flags", "row_update"} : Performs(u, e)
  BY Zenon DEF CreateDocument, WriteDerivedRows, UpdateDocument
<1>2. /\ at'[u] = at[u] /\ step'[u] = step[u] + 1 /\ at[u] \in Uploading
      /\ PlaceOf(e, at[u], step[u]) /\ RunSound(u)'
  <2>1. /\ at'[u] = at[u] /\ step'[u] = step[u] + 1 /\ RunSound(u)'
        /\ at[u] \in Uploading \union {"apply_decision"}
        /\ PlaceOf(e, at[u], step[u])
    BY <1>1, EffectMoves
  <2>2. at[u] # "apply_decision"
    BY <1>1, <2>1, SMT DEF PlaceOf
  <2>. QED  BY <2>1, <2>2
<1>3. UNCHANGED <<reviewActions, auditLog, neo4j, indexed>>
  BY Zenon DEF CreateDocument, WriteDerivedRows, UpdateDocument, sql
<1>4. Progress(u)'
  <2>1. /\ ~(at[u] = "index" /\ step[u] = 1)
        /\ ~(at[u] = "extract_clauses" /\ step[u] \in 1 .. ClausesPer)
    BY <1>1, <1>2, SMT DEF PlaceOf
  <2>2. ~(at[u] \in GraphNodes /\ step[u] = AuditPlace(at[u]))
    <3>1. CASE e \in {"row", "row_update"}
      BY <1>2, <3>1, GraphNodesBefore, SMT DEF PlaceOf
    <3>2. CASE e \in {"metadata", "summary", "flags"}
      BY <1>2, <3>2, SMT DEF PlaceOf, AuditPlace
    <3>. QED  BY <1>1, <3>1, <3>2
  <2>. QED  BY <1>2, <1>3, <2>1, <2>2, ProgressKept DEF Sound, neo4j
<1>5. Undecided(u)' /\ Deciding(u)' /\ Backed(u)'
  BY <1>2, <1>3, UploadKept DEF SameRecord, neo4j
<1>6. Ingested(u)'
  <2>1. CASE WriteDerivedRows(u)
    BY <1>3, <2>1 DEF WriteDerivedRows, Sound, Ingested, sql, neo4j
  <2>2. CASE CreateDocument(u)
    <3>1. docStatus'[u] = "processing"
      BY <2>2 DEF CreateDocument, TypeOK
    <3>. QED  BY <3>1 DEF Ingested
  <2>3. CASE UpdateDocument(u)
    <3>1. at[u] = "finish_upload"
      BY <2>3, EffectMoves DEF UpdateDocument, PlaceOf
    <3>2. /\ u \in indexed
          /\ \A k \in 1 .. ClausesPer : <<u, k>> \in clauses
          /\ GraphNodes \subseteq audit[u]
      BY <3>1, AnalysisOnRecord DEF Sound
    <3>3. docStatus'[u] = "awaiting_review" => docJob'[u]
      BY <2>3, NoneOK DEF UpdateDocument, TypeOK
    <3>. QED  BY <1>3, <3>2, <3>3 DEF Ingested, neo4j
  <2>. QED  BY <2>1, <2>2, <2>3
<1>. QED  BY <1>2, <1>4, <1>5, <1>6 DEF Sound

\* Indexing, clauses and links add to what all uploads share.
LEMMA SharedSound ==
  ASSUME TypeOK, NEW u \in Uploads, Sound(u),
         EmbedAndStore(u) \/ CreateClause(u) \/ LinkSameClause(u)
  PROVE  Sound(u)'
<1>1. PICK e \in {"vectors", "clause", "links"} : Performs(u, e)
  BY Zenon DEF EmbedAndStore, CreateClause, LinkSameClause
<1>2. /\ at'[u] = at[u] /\ step'[u] = step[u] + 1 /\ at[u] \in Uploading
      /\ PlaceOf(e, at[u], step[u]) /\ RunSound(u)'
  <2>1. /\ at'[u] = at[u] /\ step'[u] = step[u] + 1 /\ RunSound(u)'
        /\ at[u] \in Uploading \union {"apply_decision"}
        /\ PlaceOf(e, at[u], step[u])
    BY <1>1, EffectMoves
  <2>2. at[u] # "apply_decision"
    BY <1>1, <2>1, SMT DEF PlaceOf
  <2>. QED  BY <2>1, <2>2
<1>3. /\ UNCHANGED <<sql, jobStatus, contract, approved, audit, decisionRows>>
      /\ indexed \subseteq indexed' /\ clauses \subseteq clauses'
  BY DEF EmbedAndStore, CreateClause, LinkSameClause, neo4j
<1>4. Progress(u)'
  <2>1. at[u] = "index" /\ step[u] = 1 => u \in indexed'
    <3>1. CASE EmbedAndStore(u)
      BY <3>1 DEF EmbedAndStore
    <3>2. CASE CreateClause(u) \/ LinkSameClause(u)
      <4>1. at[u] # "index"
        BY <3>2, EffectMoves DEF CreateClause, LinkSameClause, PlaceOf
      <4>. QED  BY <4>1
    <3>. QED  BY <3>1, <3>2
  <2>2. at[u] = "extract_clauses" /\ step[u] \in 1 .. ClausesPer =>
          <<u, step[u]>> \in clauses'
    <3>1. CASE CreateClause(u)
      BY <3>1 DEF CreateClause
    <3>2. CASE EmbedAndStore(u) \/ LinkSameClause(u)
      <4>1. at[u] # "extract_clauses"
        BY <3>2, EffectMoves DEF EmbedAndStore, LinkSameClause, PlaceOf
      <4>. QED  BY <4>1
    <3>. QED  BY <3>1, <3>2
  <2>3. ~(at[u] \in GraphNodes /\ step[u] = AuditPlace(at[u]))
    <3>1. CASE e = "vectors"
      BY <1>2, <3>1, GraphNodesBefore, SMT DEF PlaceOf
    <3>2. CASE e = "links"
      BY <1>2, <3>2, SMT DEF PlaceOf, AuditPlace
    <3>3. CASE e = "clause"
      <4>1. at[u] = "extract_clauses" /\ step[u] \in 1 .. ClausesPer
        BY <1>2, <3>3 DEF PlaceOf
      <4>2. AuditPlace(at[u]) = ClausesPer + 1
        BY <4>1, SMT DEF AuditPlace
      <4>. QED  BY <4>1, <4>2, ConstantsOK, SMT
    <3>. QED  BY <1>1, <3>1, <3>2, <3>3
  <2>. QED  BY <1>2, <1>3, <2>1, <2>2, <2>3, ProgressKept DEF Sound
<1>5. Undecided(u)' /\ Deciding(u)' /\ Backed(u)'
  BY <1>2, <1>3, UploadKept DEF SameRecord, sql
<1>6. Ingested(u)'
  BY <1>3 DEF Sound, Ingested, sql
<1>. QED  BY <1>2, <1>4, <1>5, <1>6 DEF Sound

\* The job and the contract are created before anything is decided.
LEMMA JobSound ==
  ASSUME TypeOK, NEW u \in Uploads, Sound(u), CreateDocumentJob(u) \/ CreateContract(u)
  PROVE  Sound(u)'
<1>1. PICK e \in {"job", "contract"} : Performs(u, e)
  BY Zenon DEF CreateDocumentJob, CreateContract
<1>2. /\ at'[u] = at[u] /\ step'[u] = step[u] + 1 /\ at[u] = "start_job"
      /\ step[u] \in {1, 2} /\ RunSound(u)'
  <2>1. /\ at'[u] = at[u] /\ step'[u] = step[u] + 1 /\ RunSound(u)'
        /\ PlaceOf(e, at[u], step[u])
    BY <1>1, EffectMoves
  <2>2. at[u] = "start_job" /\ step[u] \in {1, 2}
    BY <1>1, <2>1, SMT DEF PlaceOf
  <2>. QED  BY <2>1, <2>2
<1>3. UNCHANGED <<sql, clauses, audit, decisionRows, indexed>>
  BY DEF CreateDocumentJob, CreateContract
<1>4. /\ jobStatus'[u] \in {jobStatus[u], "processing"}
      /\ approved'[u] \in {approved[u], None}
  BY DEF CreateDocumentJob, CreateContract, TypeOK
<1>5. /\ decisionRows[u] = {} /\ approved[u] = None /\ jobStatus[u] \notin Verdicts
      /\ reviewActions[u] = {} /\ auditLog[u] = {}
  BY <1>2, Stages DEF Sound, Undecided
<1>6. Progress(u)'
  <2>1. step[u] # AuditPlace(at[u])
    BY <1>2, SMT DEF AuditPlace
  <2>. QED  BY <1>2, <1>3, <2>1, ProgressKept DEF Sound
<1>7. Undecided(u)'
  BY <1>3, <1>4, <1>5, Words DEF Undecided, sql
<1>8. Deciding(u)'
  BY <1>2 DEF Deciding
<1>9. Backed(u)'
  <2>1. jobStatus'[u] \notin Verdicts
    BY <1>4, <1>5, Words
  <2>2. \A a \in Actions : jobStatus'[u] # StatusOf(a)
    BY <2>1, Words
  <2>3. approved'[u] = None
    BY <1>4, <1>5
  <2>. QED  BY <1>3, <1>5, <2>2, <2>3, NoneOK DEF Backed, sql
<1>10. Ingested(u)'
  BY <1>3 DEF Sound, Ingested, sql
<1>. QED  BY <1>2, <1>6, <1>7, <1>8, <1>9, <1>10 DEF Sound

\* An analysis is noted in the audit trail.
LEMMA AnalysisSound ==
  ASSUME TypeOK, NEW u \in Uploads, Sound(u), WriteAuditRecord(u), at[u] # "apply_decision"
  PROVE  Sound(u)'
<1>1. /\ at'[u] = at[u] /\ step'[u] = step[u] + 1 /\ RunSound(u)'
      /\ at[u] \in GraphNodes /\ at[u] \in Uploading
  BY EffectMoves, GraphNodesBefore DEF WriteAuditRecord, PlaceOf
<1>2. /\ UNCHANGED <<sql, jobStatus, contract, approved, clauses, decisionRows, indexed>>
      /\ audit'[u] = audit[u] \union {at[u]}
  BY DEF WriteAuditRecord, TypeOK
<1>3. Progress(u)'
  <2>1. at[u] = "index" /\ step[u] = 1 => u \in indexed'
    BY <1>1, GraphNodesBefore
  <2>2. at[u] = "extract_clauses" /\ step[u] \in 1 .. ClausesPer =>
          <<u, step[u]>> \in clauses'
    <3>1. step[u] = AuditPlace(at[u])
      BY EffectMoves DEF WriteAuditRecord, PlaceOf
    <3>2. at[u] = "extract_clauses" => step[u] = ClausesPer + 1
      BY <3>1, SMT DEF AuditPlace
    <3>. QED  BY <3>2, ConstantsOK, SMT
  <2>. QED  BY <1>1, <1>2, <2>1, <2>2, ProgressKept DEF Sound
<1>4. Undecided(u)' /\ Deciding(u)' /\ Backed(u)'
  BY <1>1, <1>2, UploadKept DEF SameRecord, sql
<1>5. Ingested(u)'
  BY <1>2 DEF Sound, Ingested, sql
<1>. QED  BY <1>1, <1>3, <1>4, <1>5 DEF Sound

-----------------------------------------------------------------------------
(***************************************************************************)
(* Effects of the decision.                                                *)
(***************************************************************************)

\* What an effect of the decision changes nothing about: the document, its
\* clauses and its index, and its place in the upload.
LEMMA DecisionKept ==
  ASSUME TypeOK, NEW u \in Uploads, Sound(u), at[u] = "apply_decision",
         at'[u] = at[u], audit[u] \subseteq audit'[u], step'[u] \in Nat,
         UNCHANGED <<docStatus, docJob, clauses, indexed>>
  PROVE  Progress(u)' /\ Undecided(u)' /\ Ingested(u)'
<1>1. Undecided(u)'
  BY Stages DEF Undecided
<1>2. Progress(u)'
  <2>1. /\ u \in indexed
        /\ \A k \in 1 .. ClausesPer : <<u, k>> \in clauses
        /\ GraphNodes \subseteq audit[u]
    BY AnalysisOnRecord DEF Sound
  <2>. QED  BY <2>1 DEF Progress
<1>3. Ingested(u)'
  BY DEF Sound, Ingested
<1>. QED  BY <1>1, <1>2, <1>3

\* The reviewer's decision is a record of its own; a repeated execution finds
\* the same one there.
LEMMA DecisionSound ==
  ASSUME TypeOK, NEW u \in Uploads, Sound(u), CreateReviewerDecision(u)
  PROVE  Sound(u)'
<1>. DEFINE a == Action(decision[u])
<1>1. /\ at[u] = "apply_decision" /\ at'[u] = at[u] /\ step[u] = 1 /\ step'[u] = 2
      /\ decision'[u] = decision[u] /\ RunSound(u)'
  <2>1. /\ at'[u] = at[u] /\ step'[u] = step[u] + 1 /\ decision'[u] = decision[u]
        /\ RunSound(u)' /\ PlaceOf("decision", at[u], step[u])
    BY EffectMoves DEF CreateReviewerDecision
  <2>2. at[u] = "apply_decision" /\ step[u] = 1
    BY <2>1, SMT DEF PlaceOf
  <2>. QED  BY <2>1, <2>2, SMT
<1>2. /\ UNCHANGED <<sql, jobStatus, contract, approved, clauses, audit, indexed>>
      /\ decisionRows'[u] = decisionRows[u] \union {a = "approve"}
  BY DEF CreateReviewerDecision, TypeOK
<1>3. decisionRows[u] \in {{}, {a = "approve"}}
  BY <1>1 DEF Sound, Deciding
<1>4. decisionRows'[u] = {a = "approve"}
  BY <1>2, <1>3
<1>5. Progress(u)' /\ Undecided(u)' /\ Ingested(u)'
  BY <1>1, <1>2, DecisionKept DEF sql
<1>6. Deciding(u)'
  <2>1. decisionRows'[u] # {} /\ decisionRows'[u] \in {{}, {a = "approve"}}
    BY <1>4
  <2>. HIDE DEF a
  <2>. QED  BY <1>1, <1>2, <2>1, SMT DEF Sound, Deciding, sql, a
<1>7. Backed(u)'
  <2>1. ASSUME NEW b \in Actions, jobStatus'[u] = StatusOf(b)
        PROVE  decisionRows'[u] = {b = "approve"} /\ approved'[u] = ApprovedOf(b)
    <3>1. jobStatus[u] = StatusOf(b) /\ StatusOf(b) \in Verdicts
      BY <1>2, <2>1, Words
    <3>2. decisionRows[u] = {b = "approve"} /\ approved[u] = ApprovedOf(b)
      BY <3>1 DEF Sound, Backed
    <3>3. decisionRows'[u] = decisionRows[u]
      BY <1>3, <1>4, <3>2
    <3>. QED  BY <1>2, <3>2, <3>3
  <2>2. decisionRows[u] \subseteq decisionRows'[u]
    BY <1>2
  <2>. QED  BY <1>2, <2>1, <2>2 DEF Sound, Backed, sql
<1>. QED  BY <1>1, <1>5, <1>6, <1>7 DEF Sound

\* The contract's approval follows the recorded decision.
LEMMA ApprovalSound ==
  ASSUME TypeOK, NEW u \in Uploads, Sound(u), SetContractApproval(u)
  PROVE  Sound(u)'
<1>. DEFINE a == Action(decision[u])
<1>1. /\ at[u] = "apply_decision" /\ at'[u] = at[u] /\ step[u] = 2 /\ step'[u] = 3
      /\ decision'[u] = decision[u] /\ RunSound(u)'
  <2>1. /\ at'[u] = at[u] /\ step'[u] = step[u] + 1 /\ decision'[u] = decision[u]
        /\ RunSound(u)' /\ PlaceOf("approval", at[u], step[u])
    BY EffectMoves DEF SetContractApproval
  <2>2. at[u] = "apply_decision" /\ step[u] = 2
    BY <2>1, SMT DEF PlaceOf
  <2>. QED  BY <2>1, <2>2, SMT
<1>2. /\ UNCHANGED <<sql, jobStatus, contract, decisionRows, clauses, audit, indexed>>
      /\ approved'[u] = ApprovedOf(a)
  BY DEF SetContractApproval, TypeOK
<1>3. decisionRows[u] = {a = "approve"} /\ a \in Actions
  BY <1>1, Words DEF Sound, Deciding
<1>4. Progress(u)' /\ Undecided(u)' /\ Ingested(u)'
  BY <1>1, <1>2, DecisionKept DEF sql
<1>. HIDE DEF a
<1>5. Deciding(u)'
  BY <1>1, <1>2, <1>3, SMT DEF Sound, Deciding, sql, a
<1>6. Backed(u)'
  <2>1. ASSUME NEW b \in Actions, jobStatus'[u] = StatusOf(b)
        PROVE  decisionRows'[u] = {b = "approve"} /\ approved'[u] = ApprovedOf(b)
    <3>1. jobStatus[u] = StatusOf(b) /\ jobStatus[u] \in Verdicts
      BY <1>2, <2>1, Words
    <3>2. decisionRows[u] = {b = "approve"} /\ approved[u] = ApprovedOf(b)
      BY <3>1 DEF Sound, Backed
    <3>3. approved[u] = ApprovedOf(a)
      BY <1>1, <3>1 DEF Sound, Deciding, a
    <3>. QED  BY <1>2, <3>2, <3>3
  <2>2. ASSUME approved'[u] = TRUE
        PROVE  TRUE \in decisionRows'[u] /\ GraphNodes \subseteq audit'[u]
    <3>1. a = "approve"
      BY <1>2, <1>3, <2>2, NoneOK DEF ApprovedOf, Actions
    <3>2. GraphNodes \subseteq audit[u]
      BY <1>1, AnalysisOnRecord DEF Sound
    <3>3. TRUE \in decisionRows[u]
      BY <1>3, <3>1
    <3>. QED  BY <1>2, <3>2, <3>3
  <2>3. (\A b \in reviewActions[u] :
           jobStatus[u] = StatusOf(b) /\ "apply_decision" \in audit[u])'
        /\ (auditLog[u] \subseteq reviewActions[u])'
    BY <1>2 DEF Sound, Backed, sql
  <2>. QED  BY <2>1, <2>2, <2>3 DEF Backed
<1>. QED  BY <1>1, <1>4, <1>5, <1>6 DEF Sound

\* The status shows the verdict when decision and approval are there.
LEMMA StatusSound ==
  ASSUME TypeOK, NEW u \in Uploads, Sound(u), UpdateJobStatus(u)
  PROVE  Sound(u)'
<1>. DEFINE a == Action(decision[u])
<1>1. /\ at[u] = "apply_decision" /\ at'[u] = at[u] /\ step[u] = 3 /\ step'[u] = 4
      /\ decision'[u] = decision[u] /\ RunSound(u)'
  <2>1. /\ at'[u] = at[u] /\ step'[u] = step[u] + 1 /\ decision'[u] = decision[u]
        /\ RunSound(u)' /\ PlaceOf("status", at[u], step[u])
    BY EffectMoves DEF UpdateJobStatus
  <2>2. at[u] = "apply_decision" /\ step[u] = 3
    BY <2>1, SMT DEF PlaceOf
  <2>. QED  BY <2>1, <2>2, SMT
<1>2. /\ UNCHANGED <<sql, approved, contract, decisionRows, clauses, audit, indexed>>
      /\ jobStatus'[u] = StatusOf(a)
  BY DEF UpdateJobStatus, TypeOK
<1>3. /\ decisionRows[u] = {a = "approve"} /\ approved[u] = ApprovedOf(a)
      /\ a \in Actions /\ reviewActions[u] \subseteq {a}
  BY <1>1, Words DEF Sound, Deciding
<1>4. Progress(u)' /\ Undecided(u)' /\ Ingested(u)'
  BY <1>1, <1>2, DecisionKept DEF sql
<1>. HIDE DEF a
<1>5. Deciding(u)'
  <2>1. jobStatus'[u] \in Verdicts
    BY <1>2, <1>3, Words
  <2>. QED  BY <1>1, <1>2, <1>3, <2>1, SMT DEF Sound, Deciding, sql, a
<1>6. Backed(u)'
  <2>1. ASSUME NEW b \in Actions, jobStatus'[u] = StatusOf(b)
        PROVE  decisionRows'[u] = {b = "approve"} /\ approved'[u] = ApprovedOf(b)
    <3>1. b = a
      BY <1>2, <1>3, <2>1, Words
    <3>. QED  BY <1>2, <1>3, <3>1
  <2>2. (\A b \in reviewActions[u] :
           jobStatus[u] = StatusOf(b) /\ "apply_decision" \in audit[u])'
    BY <1>2, <1>3 DEF Sound, Backed, sql
  <2>. QED  BY <1>2, <2>1, <2>2 DEF Sound, Backed, sql
<1>. QED  BY <1>1, <1>4, <1>5, <1>6 DEF Sound

\* The decision is noted in the audit trail.
LEMMA NoteSound ==
  ASSUME TypeOK, NEW u \in Uploads, Sound(u), WriteAuditRecord(u), at[u] = "apply_decision"
  PROVE  Sound(u)'
<1>1. /\ at'[u] = at[u] /\ step[u] = 4 /\ step'[u] = 5
      /\ decision'[u] = decision[u] /\ RunSound(u)'
  <2>1. "apply_decision" \notin GraphNodes
    BY GraphNodesBefore
  <2>2. /\ at'[u] = at[u] /\ step'[u] = step[u] + 1 /\ decision'[u] = decision[u]
        /\ RunSound(u)' /\ PlaceOf("audit", at[u], step[u])
    BY EffectMoves DEF WriteAuditRecord
  <2>3. step[u] = 4
    BY <2>1, <2>2, SMT DEF PlaceOf
  <2>. QED  BY <2>2, <2>3, SMT
<1>2. /\ UNCHANGED <<sql, approved, contract, decisionRows, clauses, jobStatus, indexed>>
      /\ audit'[u] = audit[u] \union {"apply_decision"}
  BY DEF WriteAuditRecord, TypeOK
<1>3. Progress(u)' /\ Undecided(u)' /\ Ingested(u)'
  BY <1>1, <1>2, DecisionKept DEF sql
<1>4. Deciding(u)'
  <2>1. "apply_decision" \in audit'[u]
    BY <1>2
  <2>. QED  BY <1>1, <1>2, <2>1, SMT DEF Sound, Deciding, sql
<1>5. Backed(u)'
  BY <1>2 DEF Sound, Backed, sql
<1>. QED  BY <1>1, <1>3, <1>4, <1>5 DEF Sound

\* The action is copied into SQL when the graph shows it.
LEMMA ActionSound ==
  ASSUME TypeOK, NEW u \in Uploads, Sound(u), RecordReviewAction(u)
  PROVE  Sound(u)'
<1>. DEFINE a == Action(decision[u])
<1>1. /\ at[u] = "apply_decision" /\ at'[u] = at[u] /\ step[u] = 5 /\ step'[u] = 6
      /\ decision'[u] = decision[u] /\ RunSound(u)'
  <2>1. /\ at'[u] = at[u] /\ step'[u] = step[u] + 1 /\ decision'[u] = decision[u]
        /\ RunSound(u)' /\ PlaceOf("review_action", at[u], step[u])
    BY EffectMoves DEF RecordReviewAction
  <2>2. at[u] = "apply_decision" /\ step[u] = 5
    BY <2>1, SMT DEF PlaceOf
  <2>. QED  BY <2>1, <2>2, SMT
<1>2. /\ UNCHANGED <<docStatus, docJob, auditLog, neo4j, indexed>>
      /\ docStatus[u] = None => reviewActions'[u] = reviewActions[u]
      /\ docStatus[u] # None => reviewActions'[u] = reviewActions[u] \union {a}
  BY DEF RecordReviewAction, TypeOK
<1>3. /\ a \in Actions /\ reviewActions[u] \subseteq {a}
      /\ jobStatus[u] = StatusOf(a) /\ "apply_decision" \in audit[u]
  BY <1>1, Words DEF Sound, Deciding
<1>4. Progress(u)' /\ Undecided(u)' /\ Ingested(u)'
  BY <1>1, <1>2, DecisionKept DEF neo4j
<1>. HIDE DEF a
<1>5. Deciding(u)'
  <2>1. reviewActions'[u] \subseteq {a} /\ (docStatus[u] # None => a \in reviewActions'[u])
    BY <1>2, <1>3
  <2>. QED  BY <1>1, <1>2, <2>1, SMT DEF Sound, Deciding, neo4j, a
<1>6. Backed(u)'
  <2>1. reviewActions'[u] \subseteq {a} /\ reviewActions[u] \subseteq reviewActions'[u]
    BY <1>2, <1>3
  <2>. QED  BY <1>2, <1>3, <2>1 DEF Sound, Backed, neo4j
<1>. QED  BY <1>1, <1>4, <1>5, <1>6 DEF Sound

\* The audit log follows the review action.
LEMMA LogSound ==
  ASSUME TypeOK, NEW u \in Uploads, Sound(u), WriteAuditLog(u)
  PROVE  Sound(u)'
<1>. DEFINE a == Action(decision[u])
<1>1. /\ at[u] = "apply_decision" /\ at'[u] = at[u] /\ step[u] = 6 /\ step'[u] = 7
      /\ decision'[u] = decision[u] /\ RunSound(u)'
  <2>1. /\ at'[u] = at[u] /\ step'[u] = step[u] + 1 /\ decision'[u] = decision[u]
        /\ RunSound(u)' /\ PlaceOf("audit_log", at[u], step[u])
    BY EffectMoves DEF WriteAuditLog
  <2>2. at[u] = "apply_decision" /\ step[u] = 6
    BY <2>1, SMT DEF PlaceOf
  <2>. QED  BY <2>1, <2>2, SMT
<1>2. /\ UNCHANGED <<docStatus, docJob, reviewActions, neo4j, indexed>>
      /\ docStatus[u] = None => auditLog'[u] = auditLog[u]
      /\ docStatus[u] # None => auditLog'[u] = auditLog[u] \union {a}
  BY DEF WriteAuditLog, TypeOK
<1>3. docStatus[u] # None => a \in reviewActions[u]
  BY <1>1 DEF Sound, Deciding
<1>4. Progress(u)' /\ Undecided(u)' /\ Ingested(u)'
  BY <1>1, <1>2, DecisionKept DEF neo4j
<1>. HIDE DEF a
<1>5. Deciding(u)'
  BY <1>1, <1>2, SMT DEF Sound, Deciding, neo4j, a
<1>6. Backed(u)'
  <2>1. auditLog'[u] \subseteq reviewActions[u]
    BY <1>2, <1>3 DEF Sound, Backed
  <2>. QED  BY <1>2, <2>1 DEF Sound, Backed, neo4j
<1>. QED  BY <1>1, <1>4, <1>5, <1>6 DEF Sound

-----------------------------------------------------------------------------
(***************************************************************************)
(* Errors, restarts and the whole step.                                    *)
(***************************************************************************)

\* A swallowed SQL error costs rows, never the order of what is recorded.
LEMMA FailSound ==
  ASSUME TypeOK, NEW u \in Uploads, Sound(u), SqlFails(u)
  PROVE  Sound(u)'
<1>1. /\ UNCHANGED <<at, running, decision, sql, neo4j, indexed>>
      /\ step'[u] = IF IsAt(u, "review_action") THEN step[u] + 2 ELSE step[u] + 1
      /\ step[u] \in Nat \ {0}
  BY DEF SqlFails, TypeOK
<1>2. PICK e \in {"row", "metadata", "summary", "row_update", "review_action", "audit_log"} :
        IsAt(u, e)
  BY Zenon DEF SqlFails
<1>3. /\ PlaceOf(e, at[u], step[u]) /\ running[u] = TRUE
      /\ at[u] \in Uploading \union {"apply_decision"}
  BY <1>2, EffectPerformed DEF Sound
<1>4. RunSound(u)'
  BY <1>1, <1>3 DEF RunSound
<1>5. Ingested(u)'
  BY <1>1 DEF Sound, Ingested, sql, neo4j
<1>6. Backed(u)'
  BY <1>1 DEF Sound, Backed, sql, neo4j
<1>7. CASE e \in {"review_action", "audit_log"}
  <2>1. /\ at[u] = "apply_decision"
        /\ step[u] \in {5, 6} /\ (step[u] = 5 => e = "review_action")
    BY <1>3, <1>7, SMT DEF PlaceOf
  <2>2. step'[u] = 7
    <3>1. CASE e = "review_action"
      <4>1. step[u] = 5
        BY <1>3, <3>1, SMT DEF PlaceOf
      <4>. QED  BY <1>1, <1>2, <3>1, <4>1, SMT
    <3>2. CASE e = "audit_log"
      <4>1. step[u] = 6
        BY <1>3, <3>2, SMT DEF PlaceOf
      <4>2. ~IsAt(u, "review_action")
        BY <1>2, <3>2 DEF IsAt
      <4>. QED  BY <1>1, <4>1, <4>2, SMT
    <3>. QED  BY <1>7, <3>1, <3>2
  <2>3. Progress(u)' /\ Undecided(u)'
    BY <1>1, <2>1, <2>2, DecisionKept DEF sql, neo4j
  <2>4. Deciding(u)'
    BY <1>1, <2>1, <2>2, SMT DEF Sound, Deciding, sql, neo4j
  <2>. QED  BY <1>4, <1>5, <1>6, <2>3, <2>4 DEF Sound
<1>8. CASE e \in {"row", "metadata", "summary", "row_update"}
  <2>1. at[u] # "apply_decision"
    BY <1>3, <1>8, SMT DEF PlaceOf
  <2>2. step'[u] = step[u] + 1
    <3>1. ~IsAt(u, "review_action")
      BY <1>2, <1>8 DEF IsAt
    <3>. QED  BY <1>1, <3>1
  <2>3. Progress(u)'
    <3>1. /\ ~(at[u] = "index" /\ step[u] = 1)
          /\ ~(at[u] = "extract_clauses" /\ step[u] \in 1 .. ClausesPer)
      BY <1>3, <1>8, SMT DEF PlaceOf
    <3>2. ~(at[u] \in GraphNodes /\ step[u] = AuditPlace(at[u]))
      <4>1. CASE e \in {"row", "row_update"}
        BY <1>3, <4>1, GraphNodesBefore, SMT DEF PlaceOf
      <4>2. CASE e \in {"metadata", "summary"}
        BY <1>3, <4>2, SMT DEF PlaceOf, AuditPlace
      <4>. QED  BY <1>8, <4>1, <4>2
    <3>. QED  BY <1>1, <2>2, <3>1, <3>2, ProgressKept DEF Sound, neo4j
  <2>4. Undecided(u)' /\ Deciding(u)' /\ Backed(u)'
    BY <1>1, <1>3, <2>1, UploadKept DEF SameRecord, sql, neo4j
  <2>. QED  BY <1>4, <1>5, <2>3, <2>4 DEF Sound
<1>. QED  BY <1>7, <1>8

\* A step of a run keeps its own upload sound.
LEMMA OwnSound ==
  ASSUME TypeOK, NEW u \in Uploads, Sound(u), RunSteps(u)
  PROVE  Sound(u)'
<1>1. CASE StartIngestionJob(u) \/ Resume(u) \/ CompleteNode(u)
  BY <1>1, StartSound, ResumeSound, CompleteSound
<1>2. CASE SqlFails(u) \/ NodeRaises(u)
  BY <1>2, FailSound, RaiseSound
<1>3. CASE CreateDocument(u) \/ WriteDerivedRows(u) \/ UpdateDocument(u)
  BY <1>3, RowsSound
<1>4. CASE EmbedAndStore(u) \/ CreateClause(u) \/ LinkSameClause(u)
  BY <1>4, SharedSound
<1>5. CASE CreateDocumentJob(u) \/ CreateContract(u)
  BY <1>5, JobSound
<1>6. CASE WriteAuditRecord(u)
  BY <1>6, AnalysisSound, NoteSound
<1>7. CASE CreateReviewerDecision(u) \/ SetContractApproval(u) \/ UpdateJobStatus(u)
  BY <1>7, DecisionSound, ApprovalSound, StatusSound
<1>8. CASE RecordReviewAction(u) \/ WriteAuditLog(u)
  BY <1>8, ActionSound, LogSound
<1>. QED
  BY <1>1, <1>2, <1>3, <1>4, <1>5, <1>6, <1>7, <1>8, Zenon DEF RunSteps, Execute

\* The invariant is inductive.
LEMMA StepSound == IngestInv /\ [Next]_vars => IngestInv'
<1>. SUFFICES ASSUME IngestInv, [Next]_vars PROVE IngestInv'
  OBVIOUS
<1>0. TypeOK /\ \A v \in Uploads : Sound(v)
  BY DEF IngestInv
<1>1. ASSUME NEW u \in Uploads, RunSteps(u) PROVE IngestInv'
  <2>1. RunSound(u) /\ Deciding(u)
    BY <1>0 DEF Sound
  <2>2. TypeOK'
    BY <1>0, <1>1, <2>1, RunTyped, DataTyped DEF TypeOK
  <2>3. ASSUME NEW v \in Uploads PROVE Sound(v)'
    <3>1. CASE v = u
      BY <1>0, <1>1, <3>1, OwnSound
    <3>2. CASE v # u
      <4>1. Untouched(v)
        BY <1>0, <1>1, <3>2, OthersUntouched
      <4>. QED  BY <1>0, <4>1, UntouchedSound
    <3>. QED  BY <3>1, <3>2
  <2>. QED  BY <2>2, <2>3 DEF IngestInv
<1>2. CASE Restart
  <2>1. /\ at' = [v \in Uploads |-> IF at[v] = "none" THEN "none" ELSE "lost"]
        /\ running' = [v \in Uploads |-> FALSE] /\ step' = [v \in Uploads |-> 1]
        /\ failures < MaxFailures /\ failures' = failures + 1
        /\ UNCHANGED <<decision, sql, neo4j, indexed>>
    BY <1>2 DEF Restart
  <2>2. TypeOK'
    <3>1. at' \in [Uploads -> Nodes] /\ running' \in [Uploads -> BOOLEAN]
          /\ step' \in [Uploads -> Nat \ {0}]
      BY <2>1 DEF Nodes
    <3>2. failures' \in 0 .. MaxFailures
      BY <1>0, <2>1, ConstantsOK, SMT DEF TypeOK
    <3>. QED  BY <1>0, <2>1, <3>1, <3>2 DEF TypeOK, sql, neo4j
  <2>3. ASSUME NEW v \in Uploads PROVE Sound(v)'
    <3>0. Sound(v) /\ running'[v] = FALSE /\ step'[v] = 1
      BY <1>0, <2>1
    <3>1. CASE at[v] = "none"
      <4>1. at'[v] = at[v]
        BY <2>1, <3>1
      <4>2. running[v] = FALSE
        <5>1. "none" \notin Uploading \union {"apply_decision"}
          BY Stages
        <5>. QED  BY <1>0, <3>0, <3>1, <5>1 DEF Sound, RunSound, TypeOK
      <4>3. Untouched(v)
        BY <2>1, <3>0, <4>1, <4>2 DEF Untouched, Sound, RunSound, sql, neo4j
      <4>. QED  BY <3>0, <4>3, UntouchedSound
    <3>2. CASE at[v] # "none"
      <4>1. at'[v] = "lost"
        BY <2>1, <3>2
      <4>. QED  BY <1>0, <2>1, <3>0, <4>1, LostSound
    <3>. QED  BY <3>1, <3>2
  <2>. QED  BY <2>2, <2>3 DEF IngestInv
<1>3. CASE UNCHANGED vars
  <2>1. TypeOK'
    BY <1>0, <1>3 DEF TypeOK, vars
  <2>2. ASSUME NEW v \in Uploads PROVE Sound(v)'
    <3>1. Untouched(v)
      BY <1>3 DEF Untouched, vars
    <3>. QED  BY <1>0, <3>1, UntouchedSound
  <2>. QED  BY <2>1, <2>2 DEF IngestInv
<1>. QED  BY <1>1, <1>2, <1>3, Zenon DEF Next, RunSteps

-----------------------------------------------------------------------------
(***************************************************************************)
(* The theorems.                                                           *)
(***************************************************************************)

\* In every reachable state every upload is sound: what its run is past is on
\* record, nothing is decided before a person was asked, and what
\* apply_decision wrote, however often it broke off, is one decision.
THEOREM IngestInvariant == Spec => []IngestInv
<1>. QED  BY InitSound, StepSound, PTL DEF Spec

\* Every part of the state keeps its type.
THEOREM TypeCorrect == Spec => []TypeOK
<1>1. IngestInv => TypeOK
  BY DEF IngestInv
<1>. QED  BY <1>1, IngestInvariant, PTL

\* A verdict on a job is one recorded decision with which the contract's
\* approval agrees, and no contract is approved before its analysis is on
\* record: whatever _ingestion_apply_decision repeats after an error.
THEOREM VerdictsBacked == Spec => []VerdictIsBacked
<1>1. IngestInv => VerdictIsBacked
  <2>. SUFFICES ASSUME IngestInv, NEW u \in Uploads
                PROVE  /\ \A a \in Actions : jobStatus[u] = StatusOf(a) =>
                            /\ decisionRows[u] = {a = "approve"}
                            /\ approved[u] = TRUE <=> a = "approve"
                            /\ approved[u] = None <=> a = "escalate"
                       /\ approved[u] = TRUE =>
                            TRUE \in decisionRows[u] /\ GraphNodes \subseteq audit[u]
    BY DEF VerdictIsBacked
  <2>1. Backed(u)
    BY DEF IngestInv, Sound
  <2>2. ASSUME NEW a \in Actions
        PROVE  (ApprovedOf(a) = TRUE <=> a = "approve")
               /\ (ApprovedOf(a) = None <=> a = "escalate")
    <3>1. CASE a = "approve"
      BY <3>1, NoneOK DEF ApprovedOf
    <3>2. CASE a = "reject"
      BY <3>2, NoneOK DEF ApprovedOf
    <3>3. CASE a = "escalate"
      BY <3>3, NoneOK DEF ApprovedOf
    <3>4. CASE a = "hold"
      BY <3>4, NoneOK DEF ApprovedOf
    <3>. QED  BY <3>1, <3>2, <3>3, <3>4 DEF Actions
  <2>. QED  BY <2>1, <2>2 DEF Backed
<1>. QED  BY <1>1, IngestInvariant, PTL

\* What SQL says of a review, the contract graph already shows, although the
\* two are written in separate transactions and SQL errors are swallowed.
THEOREM SqlBehindGraph == Spec => []SqlFollowsGraph
<1>1. IngestInv => SqlFollowsGraph
  BY DEF IngestInv, Sound, Backed, SqlFollowsGraph
<1>. QED  BY <1>1, IngestInvariant, PTL

\* Only a completely ingested document awaits its review, whatever failed on
\* the way.
THEOREM AwaitingComplete == Spec => []AwaitingReviewIsComplete
<1>1. IngestInv => AwaitingReviewIsComplete
  BY DEF IngestInv, Sound, Ingested, AwaitingReviewIsComplete
<1>. QED  BY <1>1, IngestInvariant, PTL

\* No step changes a verdict that is shown, nor the approval under it: a retry
\* applies the checkpoint's decision, not the one it is sent with.
THEOREM VerdictsFinal == Spec => VerdictIsFinal
<1>. DEFINE Final == \A u \in Uploads : jobStatus[u] \in Verdicts =>
                       jobStatus'[u] = jobStatus[u] /\ approved'[u] = approved[u]
<1>1. IngestInv /\ [Next]_vars => Final
  <2>. SUFFICES ASSUME IngestInv, [Next]_vars, NEW u \in Uploads, jobStatus[u] \in Verdicts
                PROVE  jobStatus'[u] = jobStatus[u] /\ approved'[u] = approved[u]
    OBVIOUS
  <2>1. TypeOK /\ Sound(u)
    BY DEF IngestInv
  <2>2. ASSUME NEW w \in Uploads, RunSteps(w), w # u
        PROVE  jobStatus'[u] = jobStatus[u] /\ approved'[u] = approved[u]
    BY <2>1, <2>2, OthersUntouched DEF Untouched
  <2>3. CASE CreateDocumentJob(u) \/ CreateContract(u)
    <3>1. at[u] = "start_job"
      BY <2>1, <2>3, EffectMoves DEF CreateDocumentJob, CreateContract, PlaceOf
    <3>. QED  BY <2>1, <3>1, Stages DEF Sound, Undecided
  <2>4. CASE SetContractApproval(u)
    <3>1. at[u] = "apply_decision"
      BY <2>1, <2>4, EffectMoves DEF SetContractApproval, PlaceOf
    <3>2. approved[u] = ApprovedOf(Action(decision[u]))
      BY <2>1, <3>1 DEF Sound, Deciding
    <3>. QED  BY <2>1, <2>4, <3>2 DEF SetContractApproval, TypeOK
  <2>5. CASE UpdateJobStatus(u)
    <3>1. at[u] = "apply_decision"
      BY <2>1, <2>5, EffectMoves DEF UpdateJobStatus, PlaceOf
    <3>2. jobStatus[u] = StatusOf(Action(decision[u]))
      BY <2>1, <3>1 DEF Sound, Deciding
    <3>. QED  BY <2>1, <2>5, <3>2 DEF UpdateJobStatus, TypeOK
  <2>6. CASE \/ StartIngestionJob(u) \/ Resume(u) \/ CreateDocument(u)
             \/ EmbedAndStore(u) \/ WriteDerivedRows(u) \/ CreateClause(u)
             \/ LinkSameClause(u) \/ WriteAuditRecord(u) \/ UpdateDocument(u)
             \/ CreateReviewerDecision(u) \/ RecordReviewAction(u) \/ WriteAuditLog(u)
             \/ CompleteNode(u) \/ SqlFails(u) \/ NodeRaises(u)
    BY <2>6
    DEF StartIngestionJob, Resume, HumanApproval, RetryApplyDecision, CreateDocument,
        EmbedAndStore, WriteDerivedRows, CreateClause, LinkSameClause,
        WriteAuditRecord, UpdateDocument, CreateReviewerDecision,
        RecordReviewAction, WriteAuditLog, CompleteNode, SqlFails, NodeRaises, neo4j
  <2>7. CASE Restart \/ UNCHANGED vars
    BY <2>7 DEF Restart, vars, neo4j
  <2>8. CASE RunSteps(u)
    BY <2>3, <2>4, <2>5, <2>6, <2>8, Zenon DEF RunSteps, Execute
  <2>. QED  BY <2>2, <2>7, <2>8, Zenon DEF Next, RunSteps
<1>. QED  BY <1>1, IngestInvariant, PTL DEF Spec, VerdictIsFinal
=============================================================================
