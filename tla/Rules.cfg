CONSTANTS
    None = None
    Jobs <- MCJobs
    Tables <- MCTables
    Libraries <- MCLibraries
    Contexts <- MCContexts
    Texts <- MCTexts
    Answers <- MCAnswers
    OcrRatios <- MCOcrRatios

SPECIFICATION RulesSpec

INVARIANTS
    ResolvesMostSpecific
    LevelNeverTooLow
    ChecksReported
    RedlineIsBacked

CHECK_DEADLOCK FALSE
