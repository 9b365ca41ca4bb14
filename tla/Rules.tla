------------------------------- MODULE Rules -------------------------------
(***************************************************************************)
(* The rules an ingestion applies, together: an initial state either is an *)
(* ingestion for RiskAnalysis, which then runs, or it rests and has, in    *)
(* place of the job, what one of the two stateless rules is asked about, a *)
(* library of standards or the text of a document.                         *)
(***************************************************************************)
EXTENDS RiskAnalysis, ConfidentialityRules

CONSTANTS
    Libraries,   \* rows of knowledge_reference of one clause type
    Contexts,    \* the documents the standards are resolved for
    Texts,       \* what the scan for signals finds in a document
    Answers,     \* what the language model says of its level
    OcrRatios    \* the share of scanned pages, in tenths

ASSUME RulesOK ==
    /\ \A library \in Libraries : IsLibrary(library)
    /\ Texts \subseteq
         [labels : SUBSET Level, signals : SUBSET SignalLevel, nda : BOOLEAN]
    /\ Answers \subseteq [level : Level \union {Unknown}, confidence : Int]
    /\ OcrRatios \subseteq Int

Questions == ({"standards"} \X Libraries) \union ({"confidentiality"} \X Texts)

Resting ==
    /\ job \in Questions
    /\ document_type = None
    /\ settings = None
    /\ context = None
    /\ todo = <<>>
    /\ flags = {}
    /\ playbook = {}
    /\ check = 1
    /\ pc = "resting"
    /\ errors = {}

RulesSpec == (Init \/ Resting) /\ [][Next]_vars

Asks(topic) == pc = "resting" /\ job[1] = topic
Question == job[2]

-----------------------------------------------------------------------------
\* SoundResolution of every library in every context, section 11 of the
\* standards.
ResolvesMostSpecific ==
    Asks("standards") => \A c \in Contexts : SoundResolution(Question, c, Today)

\* SoundClassification of every text, answer and share of scanned pages.
LevelNeverTooLow ==
    Asks("confidentiality") =>
      \A answer \in Answers, ocr_ratio \in OcrRatios :
        SoundClassification(Question, answer, ocr_ratio)
=============================================================================
