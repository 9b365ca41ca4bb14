------------------------ MODULE ConfidentialityRules ------------------------
(***************************************************************************)
(* The automatic confidentiality level of a document                       *)
(* (graphrag/confidentiality.py): what the keyword scan suggests, what the *)
(* language model says, and how the two are combined.  A text is known by  *)
(* the labels and the levels of the sensitive signals it contains; scores  *)
(* are in tenths.                                                          *)
(*                                                                         *)
(* A definition that is used nowhere is a variant with a plausible         *)
(* mistake; it stands before the definition it varies and documents what   *)
(* the properties guard against.                                           *)
(***************************************************************************)
EXTENDS Integers, Sequences

Levels == <<"public", "internal", "confidential", "highly_confidential">>
Level == {Levels[i] : i \in DOMAIN Levels}
LevelRank(level) == CHOOSE i \in DOMAIN Levels : Levels[i] = level

Highest(levels) ==
    CHOOSE level \in levels : \A other \in levels : LevelRank(other) <= LevelRank(level)
Unknown == "unknown"
HighestOrUnknown(levels) == IF levels = {} THEN Unknown ELSE Highest(levels)
Smaller(a, b) == IF a < b THEN a ELSE b
Larger(a, b) == IF a > b THEN a ELSE b
Distance(a, b) == Larger(LevelRank(a), LevelRank(b)) - Smaller(LevelRank(a), LevelRank(b))

\* every signal stands for one of these
SignalLevel == {"confidential", "highly_confidential"}

\* text: [labels, signals : SUBSET Level, nda : the type is a non-disclosure
\* agreement].  The patterns of labels are tried from the highest level down.
ExplicitLevel(text) == HighestOrUnknown(text.labels)

SuggestedLevel(text) ==
    IF text.labels # {} THEN ExplicitLevel(text)
    ELSE IF text.signals # {} THEN Highest(text.signals)
    ELSE IF text.nda THEN "confidential"
    ELSE Unknown

\* answer: [level, confidence]; a failed call or an unknown level is Unknown
ClassifyWithLlm(answer) ==
    IF answer.level \in Level THEN answer
    ELSE [level |-> "internal", confidence |-> 0]

CombineTrustingTheModel(text, llm, ocr_ratio) ==
    LET explicit == ExplicitLevel(text)
        suggested == SuggestedLevel(text)
        level == IF explicit # Unknown THEN Highest({explicit, llm.level})
                 ELSE llm.level
        disagree == /\ explicit = Unknown
                    /\ suggested # Unknown
                    /\ Distance(suggested, llm.level) > 1
    IN  [level |-> level, confidence |-> llm.confidence,
         needs_confirmation |-> disagree]
CombineClassification(text, llm, ocr_ratio) ==
    LET explicit == ExplicitLevel(text)
        suggested == SuggestedLevel(text)
        safer == IF suggested = Unknown THEN llm.level
                 ELSE Highest({suggested, llm.level})
        disagree == /\ explicit = Unknown
                    /\ suggested # Unknown
                    /\ Distance(suggested, llm.level) > 1
        combined == CASE explicit # Unknown -> Larger(llm.confidence, 9)
                      [] disagree -> Smaller(llm.confidence, 5)
                      [] OTHER -> llm.confidence
        confidence == IF ocr_ratio > 5 THEN Smaller(combined, 4) ELSE combined
        demoted == safer = "public" /\ (confidence < 6 \/ suggested = Unknown)
    IN  [level |-> IF demoted THEN "internal" ELSE safer,
         confidence |-> confidence,
         needs_confirmation |-> disagree \/ ocr_ratio > 8 \/ demoted]

ClassifyDocumentConfidentiality(text, answer, ocr_ratio) ==
    CombineClassification(text, ClassifyWithLlm(answer), ocr_ratio)

\* who may open a document; one without a level counts as internal, and the
\* two most senior approvers are on no list
Roles == {"reviewer", "senior_counsel", "business_head", "clo", "admin"}
AccessRoles(level) ==
    {"senior_counsel", "admin"}
      \union IF level = "highly_confidential" THEN {} ELSE {"reviewer"}
EnforceConfidentialityAccess(level, role) == role \in AccessRoles(level)

\* Whatever the model answers and however the pages were read: the level is
\* never below a label, below what the scan suggests or below what the model
\* says; it is public only if label and model say so and the score is not
\* poor; a disagreement without a label, bad scans and a level that was raised
\* to internal go to a human and are not confident; one more signal in the text
\* never lowers the level; and nobody may open the document whom one of its
\* labels, the scan or the model would keep out.
SoundClassification(text, answer, ocr_ratio) ==
    LET result == ClassifyDocumentConfidentiality(text, answer, ocr_ratio)
        suggested == SuggestedLevel(text)
        AtLeast(level) == LevelRank(result.level) >= LevelRank(level)
    IN  /\ \A label \in text.labels : AtLeast(label)
        /\ suggested # Unknown => AtLeast(suggested)
        /\ answer.level \in Level => AtLeast(answer.level)
        /\ result.level = "public" =>
             /\ text.labels = {"public"}
             /\ answer.level = "public"
             /\ result.confidence >= 6
        /\ /\ text.labels = {}
           /\ suggested # Unknown
           /\ answer.level \in Level
           /\ Distance(suggested, answer.level) > 1
           => result.needs_confirmation /\ result.confidence <= 5
        /\ ocr_ratio > 8 => result.needs_confirmation /\ result.confidence <= 4
        /\ \A signal \in SignalLevel :
             LET more == [text EXCEPT !.signals = @ \union {signal}]
             IN  LevelRank(ClassifyDocumentConfidentiality(more, answer,
                                                      ocr_ratio).level)
                   >= LevelRank(result.level)
        /\ \A role \in Roles :
             EnforceConfidentialityAccess(result.level, role) =>
               \A level \in text.labels
                            \union ({suggested, answer.level} \intersect Level) :
                 EnforceConfidentialityAccess(level, role)
=============================================================================
