CONSTANTS
    None = None
    Jobs <- MCJobs
    Tables <- MCTables
    Libraries <- MCLibraries
    Contexts <- MCContexts
    Texts <- MCTexts
    Answers <- MCAnswers
    OcrRatios <- MCOcrRatios

SPECIFICATION RulesSpec

INVARIANT StandardsOfItsTypeApplied

CHECK_DEADLOCK FALSE
