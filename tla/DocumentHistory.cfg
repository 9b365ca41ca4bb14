\* two workers on one document: edits, restores, approvals, overrides, ingestion
SPECIFICATION Spec
CONSTANTS
    None = None
    w1 = w1
    w2 = w2
    Workers = {w1, w2}
    lead = lead
    terms = terms
    Texts = {lead, terms}
    Levels = {"internal", "confidential"}
    MaxVersions = 3
    MaxChanges = 2
SYMMETRY MCSymmetry
CHECK_DEADLOCK FALSE
INVARIANTS
    VersionNumbersSound
    LatestRowShown
    OverrideStands
PROPERTY
    RestoreAddsADraft
