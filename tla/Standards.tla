----------------------------- MODULE Standards -----------------------------
(***************************************************************************)
(* The resolution of standards (graphrag/standards.py and the functions of *)
(* repository.py it calls): which approved text a clause of a document is  *)
(* held against.  Everything here is a function of the library, a set of   *)
(* rows of knowledge_reference of one clause type, and of the context of a *)
(* document.  The queries have no ORDER BY, so where the code takes the    *)
(* first of several rows the operator gives the set of results it can      *)
(* have.                                                                   *)
(*                                                                         *)
(* A definition that is used nowhere is a variant with a plausible         *)
(* mistake; it stands before the definition it varies and documents what   *)
(* the properties guard against.                                           *)
(***************************************************************************)
EXTENDS Integers, Sequences, FiniteSets

CONSTANT None

\* rows of knowledge_reference: versions are numbers, dates numbers or null
IsLibrary(rows) ==
    /\ IsFiniteSet(rows)
    /\ \A row \in rows : /\ row.version \in Int
                         /\ row.effective_date \in Int \union {None}
                         /\ row.expiry_date \in Int \union {None}

-----------------------------------------------------------------------------
(***************************************************************************)
(* The context of a document.                                              *)
(***************************************************************************)
First(rows, column) ==
    IF rows = {} THEN {None} ELSE {row[column] : row \in rows}

\* a unit is looked up by its name or its code among those of the profile
ResolveBusinessUnit(units, org_profile_id, name) ==
    IF None \in {org_profile_id, name} THEN {None}
    ELSE First({unit \in units : /\ unit.org_profile_id = org_profile_id
                                 /\ name \in {unit.name, unit.code}},
               "business_unit_id")

\* upper: a name -> the name in capitals, which is how codes are written
ResolveJurisdiction(jurisdictions, upper, name) ==
    IF name = None THEN {None}
    ELSE First({j \in jurisdictions : name = j.name \/ upper[name] = j.code},
               "jurisdiction_id")

\* profiles: org_profile_id -> customer_id
CustomerOf(profiles, org_profile_id) ==
    IF org_profile_id \in DOMAIN profiles THEN profiles[org_profile_id] ELSE None

\* tables: the rows of business_unit, jurisdiction and org_profile, and upper
StandardsContexts(tables, document) ==
    {[org_profile_id |-> document.org_profile_id,
      business_unit_id |-> unit,
      jurisdiction_id |-> jurisdiction,
      document_type |-> document.document_type,
      customer_id |-> CustomerOf(tables.profiles, document.org_profile_id)] :
        unit \in ResolveBusinessUnit(tables.units, document.org_profile_id,
                                     document.business_unit),
        jurisdiction \in ResolveJurisdiction(tables.jurisdictions, tables.upper,
                                             document.geography)}

-----------------------------------------------------------------------------
(***************************************************************************)
(* Candidates.                                                             *)
(***************************************************************************)
ScopeFields == {"customer_id", "org_profile_id", "business_unit_id",
                "jurisdiction_id", "document_type"}

\* the tenant filter of the query and the scope filter after it
ScopeCompatible(row, context) ==
    \A field \in ScopeFields : row[field] \in {None, context[field]}

FindStandardsCandidates(library, context) ==
    {row \in library : ScopeCompatible(row, context)}

IsExpired(row, as_of) == row.expiry_date # None /\ row.expiry_date < as_of
IsNotYetEffective(row, as_of) ==
    row.effective_date # None /\ row.effective_date > as_of

IsActiveAndApproved(row, as_of) ==
    /\ row.approval_status = "approved"
    /\ ~IsExpired(row, as_of)
    /\ ~IsNotYetEffective(row, as_of)

-----------------------------------------------------------------------------
(***************************************************************************)
(* The hierarchy, from the most to the least specific level.  The document *)
(* type is compared at every level and is left out of the sets.            *)
(***************************************************************************)
Hierarchy ==
    << {"business_unit_id", "jurisdiction_id"},
       {"business_unit_id"},
       {"org_profile_id", "jurisdiction_id"},
       {"org_profile_id"},
       {"customer_id", "jurisdiction_id"},
       {"customer_id"},
       {"jurisdiction_id"},
       {} >>
NoLevel == 0

SpecificityFields == {"business_unit_id", "jurisdiction_id"}

MatchesLevel(row, level, context) ==
    /\ row.document_type \in {None, context.document_type}
    /\ \A field \in level : row[field] = context[field]
    /\ \A field \in SpecificityFields \ level : row[field] = None

Matched(active, context, level) ==
    {row \in active : \A field \in Hierarchy[level] : context[field] # None}
      \intersect {row \in active : MatchesLevel(row, Hierarchy[level], context)}

ScopeLevel(active, context) ==
    LET levels == {k \in DOMAIN Hierarchy : Matched(active, context, k) # {}}
    IN  IF levels = {} THEN NoLevel
        ELSE CHOOSE k \in levels : \A other \in levels : k <= other

\* the rule key of section 11.2
RuleKey(row) == <<row.clause_type, row.source_kind>>
TextsOf(rows) == {row.reference_text : row \in rows}

AnyOf(rows) == rows

\* rows that say the same are taken for one rule, whichever comes first
Preferred(rows) ==
    IF Cardinality(TextsOf(rows)) > 1
    THEN {row \in rows : \A other \in rows : other.version <= row.version}
    ELSE rows

\* the results resolve_standards can have
Resolutions(library, context, as_of) ==
    LET active == {row \in FindStandardsCandidates(library, context) :
                     IsActiveAndApproved(row, as_of)}
        level == ScopeLevel(active, context)
        matched == IF level = NoLevel THEN {} ELSE Matched(active, context, level)
        keys == {RuleKey(row) : row \in matched}
        Group(key) == {row \in matched : RuleKey(row) = key}
        Disputed(key) == Cardinality(TextsOf(Group(key))) > 1
        picks == {pick \in [keys -> matched] :
                    \A key \in keys : pick[key] \in Preferred(Group(key))}
    IN  {[scope_level |-> level,
          selected |-> {pick[key] : key \in keys},
          conflicts |-> UNION {Group(key) \ {pick[key]} :
                                 key \in {k \in keys : Disputed(k)}},
          fallback |-> IF level = NoLevel THEN {} ELSE active \ matched] :
            pick \in picks}

CheckMandatoryAndProhibited(library, context, as_of) ==
    LET active == {row \in FindStandardsCandidates(library, context) :
                     IsActiveAndApproved(row, as_of)}
    IN  [mandatory |-> {row \in active : row.is_mandatory},
         prohibited |-> {row \in active : row.is_prohibited}]

-----------------------------------------------------------------------------
(***************************************************************************)
(* The text a clause is compared with.  The lookup without a hierarchy is  *)
(* by the profile alone and knows no dates.                                *)
(***************************************************************************)
FindKnowledgeReferences(library, org_profile_id) ==
    {row \in library : /\ row.approval_status = "approved"
                       /\ org_profile_id \in {None, row.org_profile_id}}

SimpleLookup(library, org_profile_id) ==
    LET refs == {row \in FindKnowledgeReferences(library, org_profile_id) :
                   row.source_kind = "approved_clause"}
        newest == {row \in refs :
                     \A other \in refs : other.version <= row.version}
    IN  First(newest, "reference_text")

ApprovedClauseLanguage(library, context, as_of) ==
    LET Approved(result) == {row \in result.selected :
                               row.source_kind = "approved_clause"}
    IN  UNION {IF Approved(result) # {} THEN TextsOf(Approved(result))
               ELSE SimpleLookup(library, context.org_profile_id) :
                 result \in Resolutions(library, context, as_of)}

-----------------------------------------------------------------------------
(***************************************************************************)
(* What the resolution promises, from the fields a row sets.               *)
(***************************************************************************)
Rank(row) ==
    IF row.business_unit_id # None
    THEN IF row.jurisdiction_id # None THEN 1 ELSE 2
    ELSE IF row.org_profile_id # None
    THEN IF row.jurisdiction_id # None THEN 3 ELSE 4
    ELSE IF row.customer_id # None
    THEN IF row.jurisdiction_id # None THEN 5 ELSE 6
    ELSE IF row.jurisdiction_id # None THEN 7 ELSE 8

\* Whatever the library holds and in whatever order its rows come: the level
\* is that of the most specific row in force, every result of that level
\* comes from it, a rule in dispute is won by its highest version, every text
\* in force is either selected, a conflict or a fallback, none is of another
\* customer, and the language of a clause is a text in force if its level has
\* an approved clause.
SoundResolution(library, context, as_of) ==
    LET inForce == {row \in library :
                      /\ ScopeCompatible(row, context)
                      /\ row.approval_status = "approved"
                      /\ row.effective_date # None => row.effective_date <= as_of
                      /\ row.expiry_date # None => row.expiry_date >= as_of}
        top == {row \in inForce :
                  \A other \in inForce : Rank(row) <= Rank(other)}
        clauses == {row \in top : row.source_kind = "approved_clause"}
    IN  /\ \A result \in Resolutions(library, context, as_of) :
             /\ {result.scope_level} =
                  IF top = {} THEN {NoLevel} ELSE {Rank(row) : row \in top}
             /\ {RuleKey(row) : row \in result.selected} =
                  {RuleKey(row) : row \in top}
             /\ result.selected \union result.conflicts \subseteq top
             /\ \A lost \in result.conflicts : \E won \in result.selected :
                  RuleKey(won) = RuleKey(lost) /\ won.version >= lost.version
             /\ TextsOf(inForce) =
                  TextsOf(result.selected \union result.conflicts
                            \union result.fallback)
             /\ \A row \in result.selected \union result.conflicts
                             \union result.fallback :
                  row.customer_id \in {None, context.customer_id}
        /\ clauses # {} =>
             ApprovedClauseLanguage(library, context, as_of) \subseteq
               TextsOf(clauses)
=============================================================================
