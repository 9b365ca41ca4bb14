---------------------------- MODULE RiskAnalysis ----------------------------
(***************************************************************************)
(* The rows of risk_flag an ingestion leaves for the reviewer              *)
(* (risk_flag_node and missing_clause_node of langgraph_agent.py): the     *)
(* findings of the language model, each saved for itself, the seven checks *)
(* of compliance.py and of the standards, saved in one try, and the        *)
(* clauses a checklist misses.  Module Ingestion has both nodes as its     *)
(* WriteDerivedRows.  The review of the language model is a choice; of the *)
(* scores only what is decided by them is kept.                            *)
(*                                                                         *)
(* A definition that is used nowhere is a variant with a plausible         *)
(* mistake; it stands before the definition it varies and documents what   *)
(* the properties guard against.                                           *)
(***************************************************************************)
EXTENDS Standards

CONSTANTS
    Jobs,     \* the ingestions considered: document, clauses and metadata
    Tables    \* knowledge_reference, business_unit, jurisdiction, org_profile

\* knowledge_reference_id is the primary key
ASSUME TablesOK ==
    /\ IsLibrary(Tables.library)
    /\ \A row, other \in Tables.library :
         row.knowledge_reference_id = other.knowledge_reference_id => row = other

VARIABLES
    job,            \* what the earlier nodes have made of the upload
    document_type,  \* the column of the document's row
    settings,       \* risk_threshold_overrides of the organisation's profile
    context,        \* standards_context
    todo,           \* indexes of the clauses the review has yet to come to
    flags,          \* rows of risk_flag of this document
    playbook,       \* rows of playbook_entry, each of one risk_flag
    check,          \* the check the analysis is at
    pc,
    errors          \* the stages in which a statement has failed

vars == <<job, document_type, settings, context, todo, flags, playbook,
          check, pc, errors>>

Today == 1
HighValue == 10
Checks == <<"duplicate_clause", "auto_renewal", "excessive_liability",
            "value_threshold", "unusual_governing_law", "compliance_gap",
            "prohibited_language">>

Clauses == {job.clauses[i] : i \in DOMAIN job.clauses}
StoredClauses == {clause \in Clauses : clause.stored}
PresentTypes == {clause.clause_type : clause \in Clauses} \ {None}
Library(clause_type) ==
    {row \in Tables.library : row.clause_type = clause_type}

Flag(category, clause, clause_type, role) ==
    [category |-> category, clause |-> clause, clause_type |-> clause_type,
     assigned_role |-> role, compared |-> None, evidence |-> {}]

-----------------------------------------------------------------------------
(***************************************************************************)
(* The scope of the document, resolved once.  An error leaves the columns  *)
(* resolved until then.                                                    *)
(***************************************************************************)
NoOverrides == [senior_counsel_severity |-> None, expected_country |-> None]

ResolvedInOrder ==
    <<"document_type", "business_unit_id", "jurisdiction_id", "customer_id">>
Truncated(full, n) ==
    [field \in DOMAIN full |->
       IF \E i \in DOMAIN ResolvedInOrder :
            ResolvedInOrder[i] = field /\ i > n
       THEN None ELSE full[field]]

DocumentRow ==
    [org_profile_id |-> job.org_profile_id, document_type |-> document_type,
     business_unit |-> job.business_unit, geography |-> job.geography]

ResolveScope ==
    /\ pc = "start"
    /\ settings' \in {NoOverrides} \union
         IF job.org_profile_id = None THEN {}
         ELSE {Tables.overrides[job.org_profile_id]}
    /\ \E full \in StandardsContexts(Tables, DocumentRow),
          n \in 0 .. Len(ResolvedInOrder) :
         /\ job.stored \/ n = 0
         /\ context' = Truncated(full, n)
         /\ errors' = IF job.stored /\ n < Len(ResolvedInOrder)
                      THEN {"scope"} ELSE {}
    /\ pc' = "review"
    /\ UNCHANGED <<job, document_type, todo, flags, playbook, check>>

-----------------------------------------------------------------------------
(***************************************************************************)
(* The findings of the language model.                                     *)
(***************************************************************************)
Severities == {"low", "medium", "high"}

AssignedRole(severity, sure) ==
    LET bar == IF settings.senior_counsel_severity = None THEN "high"
               ELSE settings.senior_counsel_severity
    IN  IF severity = bar \/ (~sure /\ severity \in {"medium", "high"})
        THEN "senior_counsel" ELSE "reviewer"

ComparedByProfile(clause) ==
    IF clause.clause_type = None THEN {None}
    ELSE SimpleLookup(Library(clause.clause_type), context.org_profile_id)
ComparedWith(clause) ==
    IF clause.clause_type = None THEN {None}
    ELSE ApprovedClauseLanguage(Library(clause.clause_type), context, Today)

StandardsEvidence(clause) ==
    IF clause.clause_type = None THEN {{}}
    ELSE {{row.knowledge_reference_id : row \in result.selected} :
            result \in Resolutions(Library(clause.clause_type), context, Today)}

\* The flag of the graph is not kept here.  Its row and the playbook entry
\* are best effort, and each of the three lookups is made for itself.
LlmFlag(clause, role, text, evidence) ==
    [Flag("llm", clause.id, clause.clause_type, role)
       EXCEPT !.compared = text, !.evidence = evidence]

SavePlaybookEntry(flag, position) ==
    playbook' = playbook \union
      {[risk_flag |-> flag, position |-> position,
        fallback_source |->
          IF position = None THEN "llm_generated" ELSE "org_profile"]}

\* An error in a resolution leads to the lookup by profile, one there to none.
Lookups(clause) ==
    {[text |-> text, failed |-> FALSE] : text \in ComparedWith(clause)}
      \union {[text |-> text, failed |-> TRUE] :
                text \in {None} \union ComparedByProfile(clause)}

LookupErrors(lookups) ==
    IF \E lookup \in lookups : lookup.failed THEN {"lookup"} ELSE {}

FlagRisk(clause, severity, sure) ==
    /\ clause.stored
    /\ \E compared, position \in Lookups(clause),
          evidence \in StandardsEvidence(clause) \union {{}} :
         LET flag == LlmFlag(clause, AssignedRole(severity, sure),
                             compared.text, evidence) IN
         /\ flags' = flags \union {flag}
         /\ \/ /\ severity = "low"
               /\ errors' = errors \union LookupErrors({compared})
               /\ UNCHANGED playbook
            \/ /\ severity # "low"
               /\ SavePlaybookEntry(flag, position.text)
               /\ errors' = errors \union LookupErrors({compared, position})
            \/ /\ severity # "low"
               /\ errors' = errors \union LookupErrors({compared}) \union {"review"}
               /\ UNCHANGED playbook

\* No risk, a flag, or an error that is logged.  The model may return several
\* flags for one clause: each takes this path by itself, and one is kept here.
ReviewClause ==
    /\ pc = "review"
    /\ todo # <<>>
    /\ todo' = Tail(todo)
    /\ LET clause == job.clauses[Head(todo)] IN
         \/ \E severity \in Severities, sure \in BOOLEAN :
              FlagRisk(clause, severity, sure)
         \/ UNCHANGED <<flags, playbook, errors>>
         \/ /\ clause.stored
            /\ errors' = errors \union {"review"}
            /\ UNCHANGED <<flags, playbook>>
    /\ UNCHANGED <<job, document_type, settings, context, check, pc>>

ReviewEnds ==
    /\ pc = "review"
    /\ todo = <<>>
    /\ pc' = IF job.stored THEN "checks" ELSE "missing"
    /\ UNCHANGED <<job, document_type, settings, context, todo, flags,
                   playbook, check, errors>>

-----------------------------------------------------------------------------
(***************************************************************************)
(* The seven checks.                                                       *)
(***************************************************************************)
DuplicateExempt == {"payment", "service_levels", "warranty"}

OfType(clauses, clause_type) ==
    {clause \in clauses : clause.clause_type = clause_type}

FirstOf(clauses) ==
    LET indexes == {i \in DOMAIN job.clauses : job.clauses[i] \in clauses}
    IN  job.clauses[CHOOSE i \in indexes : \A j \in indexes : i <= j]

DuplicateClauses ==
    {Flag("duplicate_clause", FirstOf(OfType(StoredClauses, type)).id, type,
          "reviewer") :
       type \in {t \in PresentTypes \ DuplicateExempt :
                   Cardinality(OfType(StoredClauses, t)) > 1}}

AutoRenewal ==
    {Flag("auto_renewal", clause.id, clause.clause_type, "reviewer") :
       clause \in {c \in StoredClauses : c.wording = "auto_renewal"}}

LiabilityTypes == {"limitation_of_liability", "liability_cap", "liability"}
ExcessiveLiability ==
    {Flag("excessive_liability", clause.id, clause.clause_type,
          "senior_counsel") :
       clause \in {c \in StoredClauses : /\ c.wording = "unlimited_liability"
                                         /\ c.clause_type \in LiabilityTypes}}

DocumentFlag(category) == Flag(category, None, None, "reviewer")

ValueThreshold ==
    IF job.monetary_value = None \/ job.monetary_value < HighValue THEN {}
    ELSE {DocumentFlag("value_threshold")}

ExpectedCountry ==
    IF settings.expected_country # None THEN settings.expected_country
    ELSE IF job.org_profile_id = None THEN None
    ELSE Tables.governing_law[job.org_profile_id]

UnusualGoverningLaw ==
    IF None \in {job.governing_law, ExpectedCountry} THEN {}
    ELSE IF job.governing_law = ExpectedCountry THEN {}
    ELSE {DocumentFlag("unusual_governing_law")}

\* one scan over all clause types
FindAllMandatoryAndProhibited ==
    CheckMandatoryAndProhibited(Tables.library, context, Today)

TypesOf(rows) == {row.clause_type : row \in rows}

GapsAmongPresentTypes ==
    {Flag("compliance_gap", None, type, "reviewer") :
       type \in TypesOf(FindAllMandatoryAndProhibited.mandatory)
                  \intersect PresentTypes}
ComplianceGaps ==
    {Flag("compliance_gap", None, type, "reviewer") :
       type \in TypesOf(FindAllMandatoryAndProhibited.mandatory) \ PresentTypes}

ProhibitedLanguage ==
    {LET clause == FirstOf(OfType(Clauses, type))
     IN  Flag("prohibited_language", IF clause.stored THEN clause.id ELSE None,
              type, "senior_counsel") :
       type \in TypesOf(FindAllMandatoryAndProhibited.prohibited)
                  \intersect PresentTypes}

Findings(category) ==
    CASE category = "duplicate_clause" -> DuplicateClauses
      [] category = "auto_renewal" -> AutoRenewal
      [] category = "excessive_liability" -> ExcessiveLiability
      [] category = "value_threshold" -> ValueThreshold
      [] category = "unusual_governing_law" -> UnusualGoverningLaw
      [] category = "compliance_gap" -> ComplianceGaps
      [] category = "prohibited_language" -> ProhibitedLanguage

Unsaved(category) == Findings(category) \ flags

SaveFinding ==
    /\ pc = "checks"
    /\ \E flag \in Unsaved(Checks[check]) : flags' = flags \union {flag}
    /\ UNCHANGED <<job, document_type, settings, context, todo, playbook,
                   check, pc, errors>>

CheckEnds ==
    /\ pc = "checks"
    /\ Unsaved(Checks[check]) = {}
    /\ check' = check + 1
    /\ pc' = IF check = Len(Checks) THEN "missing" ELSE "checks"
    /\ UNCHANGED <<job, document_type, settings, context, todo, flags,
                   playbook, errors>>

\* an insert fails, or the query of the standards: the try is left
CheckFails ==
    /\ pc = "checks"
    /\ Unsaved(Checks[check]) # {} \/ Checks[check] = "compliance_gap"
    /\ pc' = "missing"
    /\ errors' = errors \union {"checks"}
    /\ UNCHANGED <<job, document_type, settings, context, todo, flags,
                   playbook, check>>

\* the country a profile expects is read in a try of its own
CountryLookupFails ==
    /\ pc = "checks"
    /\ Checks[check] = "unusual_governing_law"
    /\ settings.expected_country = None
    /\ job.org_profile_id # None
    /\ check' = check + 1
    /\ errors' = errors \union {"country"}
    /\ UNCHANGED <<job, document_type, settings, context, todo, flags,
                   playbook, pc>>

-----------------------------------------------------------------------------
(***************************************************************************)
(* Missing clauses, and the end of the upload.                             *)
(***************************************************************************)
CommonClauses ==
    {"termination", "liability_cap", "confidentiality", "governing_law"}
FallbackExpectedClauses(contract_type) ==
    CASE contract_type = "outsourcing" -> CommonClauses \union {"indemnification"}
      [] contract_type \in {"license agreement", "non-compete/solicit"} ->
           CommonClauses \ {"liability_cap"}
      [] OTHER -> CommonClauses

\* the profile's checklist, its default, the general list
GetExpectedClauses(checklist, contract_type) ==
    IF contract_type \in DOMAIN checklist THEN checklist[contract_type]
    ELSE IF "default" \in DOMAIN checklist THEN checklist["default"]
    ELSE CommonClauses

ExpectedClauses ==
    {FallbackExpectedClauses(job.contract_type)} \union
      IF job.org_profile_id = None THEN {}
      ELSE {GetExpectedClauses(Tables.checklists[job.org_profile_id],
                               job.contract_type)}

\* each row is saved for itself
FlagMissingClauses ==
    /\ pc = "missing"
    /\ \E expected \in ExpectedClauses :
         LET missing == {Flag("missing_clause", None, type, "reviewer") :
                           type \in expected \ PresentTypes}
         IN  \E saved \in SUBSET missing :
               /\ saved = {} \/ job.stored
               /\ flags' = flags \union saved
               /\ errors' = IF job.stored /\ saved # missing
                            THEN errors \union {"missing"} ELSE errors
    /\ pc' = "reviewed"
    /\ UNCHANGED <<job, document_type, settings, context, todo, playbook, check>>

\* update_document after the run of the graph, which an error leaves undone
FinishUpload ==
    /\ pc = "reviewed"
    /\ pc' = "uploaded"
    /\ \/ job.stored /\ document_type' = job.contract_type /\ UNCHANGED errors
       \/ ~job.stored /\ UNCHANGED <<document_type, errors>>
       \/ /\ job.stored
          /\ errors' = errors \union {"upload"}
          /\ UNCHANGED document_type
    /\ UNCHANGED <<job, settings, context, todo, flags, playbook, check>>

\* the row is created without a document_type
Init ==
    /\ job \in Jobs
    /\ document_type = None
    /\ settings = NoOverrides
    /\ context = [org_profile_id |-> job.org_profile_id,
                  business_unit_id |-> None, jurisdiction_id |-> None,
                  document_type |-> None, customer_id |-> None]
    /\ todo = [i \in DOMAIN job.clauses |-> i]
    /\ flags = {}
    /\ playbook = {}
    /\ check = 1
    /\ pc = "start"
    /\ errors = {}

Next ==
    \/ ResolveScope
    \/ ReviewClause
    \/ ReviewEnds
    \/ SaveFinding
    \/ CheckEnds
    \/ CheckFails
    \/ CountryLookupFails
    \/ FlagMissingClauses
    \/ FinishUpload

Spec == Init /\ [][Next]_vars

-----------------------------------------------------------------------------
(***************************************************************************)
(* Properties.                                                             *)
(***************************************************************************)
Reported(category, clause_type) ==
    \E flag \in flags :
      flag.category = category /\ flag.clause_type = clause_type

ScopesOf(type) ==
    StandardsContexts(Tables, [DocumentRow EXCEPT !.document_type = type])

\* every standard in force for a document of this type has been applied
StandardsApplied(type) ==
    \A row \in Tables.library :
      IsActiveAndApproved(row, Today)
        /\ (\A scope \in ScopesOf(type) : ScopeCompatible(row, scope))
      => /\ row.is_mandatory /\ row.clause_type \notin PresentTypes
              => Reported("compliance_gap", row.clause_type)
         /\ row.is_prohibited /\ row.clause_type \in PresentTypes
              => Reported("prohibited_language", row.clause_type)

\* An error in the checks loses findings of the check it happens in and of
\* those after it, never of an earlier one, and an unread country only the
\* check of the governing law; without an error every standard in force
\* whatever the type of the document is applied to what is absent as to what
\* is present, and no flag lacks its standard.
ChecksReported ==
    /\ \A i, j \in DOMAIN Checks :
         i < j /\ (\E flag \in flags : flag.category = Checks[j])
           => \/ Findings(Checks[i]) \subseteq flags
              \/ Checks[i] = "unusual_governing_law" /\ "country" \in errors
    /\ /\ pc \in {"missing", "reviewed", "uploaded"}
       /\ job.stored
       /\ errors \intersect {"scope", "checks"} = {}
       => /\ StandardsApplied(None)
          /\ \A flag \in flags :
               flag.category \in {"compliance_gap", "prohibited_language"} =>
                 \E row \in Library(flag.clause_type), scope \in ScopesOf(None) :
                   /\ IsActiveAndApproved(row, Today)
                   /\ ScopeCompatible(row, scope)

\* two approved clauses of one type and version that say different things
Tie == \E row, other \in Tables.library :
         /\ RuleKey(row) = RuleKey(other)
         /\ row.version = other.version
         /\ row.reference_text # other.reference_text

\* What a reviewer is shown of a clause agrees, though it is looked up three
\* times: unless two standards tie or a lookup failed, the redline of the
\* playbook is the text the deviation is measured against, and it is that of
\* the evidence when the evidence has an approved clause.
RedlineIsBacked ==
    ~Tie /\ "lookup" \notin errors => \A flag \in flags :
      flag.category = "llm" /\ flag.compared # None =>
        /\ \A entry \in playbook :
             entry.risk_flag = flag /\ entry.position # None
               => entry.position = flag.compared
        /\ \A row \in Library(flag.clause_type) :
             /\ row.knowledge_reference_id \in flag.evidence
             /\ row.source_kind = "approved_clause"
             => row.reference_text = flag.compared

\* What risk_flag_node says of its scan and the tests say of a mandatory
\* standard, once the document's row carries the type: every standard in
\* force for the document has been applied.
StandardsOfItsTypeApplied ==
    pc = "uploaded" /\ job.stored /\ errors = {}
      => StandardsApplied(document_type)
=============================================================================
