------------------------------ MODULE MCRules ------------------------------
(***************************************************************************)
(* Model checking of Rules.                                                *)
(***************************************************************************)
EXTENDS Rules, TLC

-----------------------------------------------------------------------------
(***************************************************************************)
(* Standards.                                                              *)
(***************************************************************************)
NoScope == [customer_id |-> None, org_profile_id |-> None,
            business_unit_id |-> None, jurisdiction_id |-> None,
            document_type |-> None]
\* a text of its own; that of a sample of scopes is the scope itself
Says(words) == [wording |-> words]
PlainRule == [clause_type |-> "liability", source_kind |-> "approved_clause",
              reference_text |-> Says("capped"), version |-> 1,
              approval_status |-> "approved", effective_date |-> None,
              expiry_date |-> None, is_mandatory |-> FALSE,
              is_prohibited |-> FALSE]
Row(id, scope, rule) == [knowledge_reference_id |-> id] @@ scope @@ rule

Scopes == [customer_id : {None, "c1", "c2"}, org_profile_id : {None, "o1"},
           business_unit_id : {None, "b1"}, jurisdiction_id : {None, "j1"},
           document_type : {None, "supply", "service"}]
ScopedLibraries ==
    {{Row(scope, scope, [PlainRule EXCEPT !.reference_text = scope]) :
        scope \in scopes} : scopes \in {{a, b} : a, b \in Scopes}}

Dates == {<<None, None>>, <<0, 1>>, <<None, 0>>, <<2, None>>, <<1, 1>>}
Rules == {[PlainRule EXCEPT !.source_kind = kind, !.reference_text = text,
                            !.version = version, !.approval_status = status,
                            !.effective_date = dates[1], !.expiry_date = dates[2]] :
            kind \in {"approved_clause", "policy"},
            text \in {Says("capped"), Says("mutual")},
            version \in 1 .. 2, status \in {"approved", "draft"}, dates \in Dates}
RulesInForce == {rule \in Rules : /\ rule.approval_status = "approved"
                                  /\ rule.effective_date = None
                                  /\ rule.expiry_date = None}
DisputedLibraries ==
    {{Row(rule, NoScope, rule) : rule \in rules} :
       rules \in {{a, b} : a, b \in Rules}
                  \union {{a, b, c} : a, b, c \in RulesInForce}}

MCLibraries == ScopedLibraries \union DisputedLibraries

MCContexts ==
    {c \in [org_profile_id : {None, "o1", "o2"}, business_unit_id : {None, "b1"},
            jurisdiction_id : {None, "j1"}, document_type : {None, "supply"},
            customer_id : {None, "c1"}] :
       /\ c.customer_id = "c1" <=> c.org_profile_id = "o1"
       /\ c.business_unit_id = "b1" => c.org_profile_id = "o1"}

-----------------------------------------------------------------------------
(***************************************************************************)
(* Confidentiality.                                                        *)
(***************************************************************************)
MCTexts == [labels : SUBSET Level, signals : SUBSET SignalLevel, nda : BOOLEAN]
MCAnswers == [level : Level \union {Unknown}, confidence : {0, 4, 5, 6, 9, 10}]
MCOcrRatios == {0, 5, 6, 8, 9}

-----------------------------------------------------------------------------
(***************************************************************************)
(* Ingestions.                                                             *)
(***************************************************************************)
Mandatory(type) ==
    [PlainRule EXCEPT !.clause_type = type, !.source_kind = "policy",
                      !.is_mandatory = TRUE]
Prohibited(type) ==
    [PlainRule EXCEPT !.clause_type = type, !.source_kind = "policy",
                      !.is_prohibited = TRUE]
OfOrg == [NoScope EXCEPT !.org_profile_id = "o1"]

MCTables ==
    [library |->
       {Row("r1", OfOrg, Mandatory("termination")),
        Row("r2", [NoScope EXCEPT !.document_type = "license agreement"],
            Mandatory("insurance")),
        Row("r3", [NoScope EXCEPT !.jurisdiction_id = "j1"],
            Prohibited("liability")),
        Row("r4", OfOrg, PlainRule),
        Row("r5", [OfOrg EXCEPT !.business_unit_id = "b1"],
            [PlainRule EXCEPT !.reference_text = Says("low cap"), !.version = 2]),
        Row("r6", NoScope,
            [Mandatory("escrow") EXCEPT !.expiry_date = 0])},
     units |-> {[org_profile_id |-> "o1", name |-> "B1", code |-> "B",
                 business_unit_id |-> "b1"]},
     jurisdictions |-> {[name |-> "J1", code |-> "J", jurisdiction_id |-> "j1"]},
     upper |-> [name \in {"j", "J", "J1"} |-> IF name = "j" THEN "J" ELSE name],
     profiles |-> [o \in {"o1"} |-> "c1"],
     overrides |-> [o \in {"o1"} |->
       [senior_counsel_severity |-> "medium", expected_country |-> None]],
     governing_law |-> [o \in {"o1"} |-> "IN"],
     checklists |-> [o \in {"o1"} |->
       [type \in {"license agreement"} |-> {"liability"}]]]

Clause(id, type, wording, stored) ==
    [id |-> id, clause_type |-> type, wording |-> wording, stored |-> stored]
StoredLists ==
    {<<>>,
     <<Clause("a", "liability", "unlimited_liability", TRUE)>>,
     <<Clause("a", "termination", "auto_renewal", TRUE),
       Clause("b", "termination", "plain", TRUE)>>,
     <<Clause("a", "liability", "plain", FALSE),
       Clause("b", None, "plain", TRUE)>>}
Cheap == [contract_type |-> "license agreement", monetary_value |-> None,
          governing_law |-> None]
Dear == [Cheap EXCEPT !.monetary_value = 10, !.governing_law = "US"]
Place(profile, unit, geography) ==
    [org_profile_id |-> profile, business_unit |-> unit, geography |-> geography]
Uploads ==
    {Place(None, "B1", "j") @@ Cheap,
     Place("o1", "B", "J1") @@ Dear,
     Place("o1", None, None) @@ Cheap}
MCJobs ==
    {[stored |-> TRUE, clauses |-> clauses] @@ upload :
       clauses \in StoredLists, upload \in Uploads}
    \union {[stored |-> FALSE,
             clauses |-> <<Clause("a", "liability", "plain", FALSE)>>] @@ upload :
               upload \in Uploads}
=============================================================================
