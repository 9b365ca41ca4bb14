---------------------------- MODULE RulesProofs ----------------------------
(***************************************************************************)
(* What the rules of an ingestion promise: the confidentiality level,      *)
(* whatever the text, the answer of the language model and the share of    *)
(* scanned pages; the resolution of standards, for every library and every *)
(* context; and the risk analysis of an upload, for every upload and every *)
(* library, whose checks report in their order and lose nothing silently   *)
(* and whose texts of a clause agree.                                      *)
(***************************************************************************)
EXTENDS Rules, FiniteSetTheorems, TLAPS

-----------------------------------------------------------------------------
(***************************************************************************)
(* The confidentiality level.                                              *)
(***************************************************************************)
\* What the scan makes of a text.
Text == [labels : SUBSET Level, signals : SUBSET SignalLevel, nda : BOOLEAN]
\* What the model says; scores are numbers.
Answer == [level : Level \union {Unknown}, confidence : Int]

-----------------------------------------------------------------------------
\* The levels in their order.
LEMMA LevelRanks ==
  /\ Level = {"public", "internal", "confidential", "highly_confidential"}
  /\ LevelRank("public") = 1
  /\ LevelRank("internal") = 2
  /\ LevelRank("confidential") = 3
  /\ LevelRank("highly_confidential") = 4
  /\ Unknown \notin Level
<1>1. /\ DOMAIN Levels = 1 .. 4
      /\ Levels[1] = "public" /\ Levels[2] = "internal"
      /\ Levels[3] = "confidential" /\ Levels[4] = "highly_confidential"
  BY DEF Levels
<1>2. Level = {"public", "internal", "confidential", "highly_confidential"}
  BY <1>1 DEF Level
<1>3. LevelRank("public") = 1
  BY <1>1 DEF LevelRank
<1>4. LevelRank("internal") = 2
  BY <1>1 DEF LevelRank
<1>5. LevelRank("confidential") = 3
  BY <1>1 DEF LevelRank
<1>6. LevelRank("highly_confidential") = 4
  BY <1>1 DEF LevelRank
<1>7. Unknown \notin Level
  BY <1>2 DEF Unknown
<1> QED
  BY <1>2, <1>3, <1>4, <1>5, <1>6, <1>7

\* Every set of levels has a highest one.
LEMMA HighestOfLevels ==
  ASSUME NEW levels \in SUBSET Level, levels # {}
  PROVE  /\ Highest(levels) \in levels
         /\ \A other \in levels : LevelRank(other) <= LevelRank(Highest(levels))
<1>1. \E level \in levels : \A other \in levels : LevelRank(other) <= LevelRank(level)
  <2>1. CASE "highly_confidential" \in levels
    BY <2>1, LevelRanks
  <2>2. CASE "highly_confidential" \notin levels /\ "confidential" \in levels
    BY <2>2, LevelRanks
  <2>3. CASE /\ "highly_confidential" \notin levels
             /\ "confidential" \notin levels
             /\ "internal" \in levels
    BY <2>3, LevelRanks
  <2>4. CASE levels = {"public"}
    BY <2>4, LevelRanks
  <2> QED
    BY <2>1, <2>2, <2>3, <2>4, LevelRanks
<1> QED
  BY <1>1 DEF Highest

\* A larger set of levels has no lower highest.
LEMMA HighestGrows ==
  ASSUME NEW levels \in SUBSET Level, NEW more \in SUBSET Level,
         levels # {}, levels \subseteq more
  PROVE  LevelRank(Highest(levels)) <= LevelRank(Highest(more))
BY HighestOfLevels

\* What the scan suggests is a level, no lower than a label, and one more
\* signal does not lower it.
LEMMA Suggested ==
  ASSUME NEW text \in Text
  PROVE  /\ SuggestedLevel(text) \in Level \union {Unknown}
         /\ ExplicitLevel(text) # Unknown <=> text.labels # {}
         /\ text.labels # {} => /\ SuggestedLevel(text) # Unknown
                                /\ SuggestedLevel(text) \in text.labels
         /\ \A label \in text.labels : LevelRank(label) <= LevelRank(SuggestedLevel(text))
         /\ text.labels = {} => SuggestedLevel(text) # "public"
         /\ \A signal \in SignalLevel :
              LET more == [text EXCEPT !.signals = @ \union {signal}] IN
              /\ more \in Text
              /\ more.labels = text.labels
              /\ text.labels # {} => SuggestedLevel(more) = SuggestedLevel(text)
              /\ text.labels = {} => SuggestedLevel(more) \in SignalLevel
              /\ SuggestedLevel(text) # Unknown =>
                   LevelRank(SuggestedLevel(text)) <= LevelRank(SuggestedLevel(more))
<1>1. /\ text.labels \in SUBSET Level /\ text.signals \in SUBSET SignalLevel
      /\ SignalLevel \subseteq Level /\ "public" \notin SignalLevel
      /\ "confidential" \in SignalLevel
  BY LevelRanks DEF Text, SignalLevel
<1>2. CASE text.labels # {}
  <2>1. /\ ExplicitLevel(text) = Highest(text.labels)
        /\ SuggestedLevel(text) = Highest(text.labels)
    BY <1>2 DEF SuggestedLevel, ExplicitLevel, HighestOrUnknown
  <2>2. /\ Highest(text.labels) \in text.labels
        /\ \A label \in text.labels : LevelRank(label) <= LevelRank(Highest(text.labels))
    BY <1>1, <1>2, HighestOfLevels
  <2>3. ASSUME NEW signal \in SignalLevel, NEW more,
               more = [text EXCEPT !.signals = @ \union {signal}]
        PROVE  /\ more \in Text
               /\ more.labels = text.labels
               /\ SuggestedLevel(more) = Highest(text.labels)
    <3>1. more \in Text /\ more.labels = text.labels
      BY <1>1, <2>3 DEF Text
    <3> QED
      BY <1>2, <3>1 DEF SuggestedLevel, ExplicitLevel, HighestOrUnknown
  <2> QED
    BY <1>1, <1>2, <2>1, <2>2, <2>3, LevelRanks
<1>3. CASE text.labels = {}
  <2>1. /\ ExplicitLevel(text) = Unknown
        /\ SuggestedLevel(text) = IF text.signals # {} THEN Highest(text.signals)
                                  ELSE IF text.nda THEN "confidential" ELSE Unknown
    BY <1>3 DEF SuggestedLevel, ExplicitLevel, HighestOrUnknown
  <2>2. text.signals # {} => Highest(text.signals) \in SignalLevel
    BY <1>1, HighestOfLevels
  <2>3. ASSUME NEW signal \in SignalLevel, NEW more,
               more = [text EXCEPT !.signals = @ \union {signal}]
        PROVE  /\ more \in Text
               /\ more.labels = text.labels
               /\ SuggestedLevel(more) \in SignalLevel
               /\ SuggestedLevel(text) # Unknown =>
                    LevelRank(SuggestedLevel(text)) <= LevelRank(SuggestedLevel(more))
    <3>1. /\ more \in Text /\ more.labels = text.labels
          /\ more.signals = text.signals \union {signal}
      BY <1>1, <2>3 DEF Text
    <3>2. SuggestedLevel(more) = Highest(more.signals)
      BY <1>3, <3>1 DEF SuggestedLevel
    <3>3. more.signals \in SUBSET Level /\ more.signals # {}
      BY <1>1, <3>1
    <3>4. Highest(more.signals) \in SignalLevel
      BY <1>1, <3>1, <3>3, HighestOfLevels
    <3>5. text.signals # {} =>
            LevelRank(Highest(text.signals)) <= LevelRank(Highest(more.signals))
      BY <1>1, <3>1, <3>3, HighestGrows
    <3>6. LevelRank("confidential") <= LevelRank(Highest(more.signals))
      BY <3>4, LevelRanks DEF SignalLevel
    <3> QED
      BY <2>1, <3>1, <3>2, <3>4, <3>5, <3>6
  <2>4. SuggestedLevel(text) \in SignalLevel \union {Unknown}
    BY <1>1, <2>1, <2>2
  <2>5. "public" # Unknown
    BY LevelRanks
  <2> QED
    BY <1>1, <1>3, <2>1, <2>3, <2>4, <2>5
<1> QED
  BY <1>2, <1>3

\* The higher of what the scan suggests and the model says.
LEMMA HigherOfTwo ==
  ASSUME NEW a \in Level, NEW b \in Level
  PROVE  /\ Highest({a, b}) \in {a, b}
         /\ LevelRank(a) <= LevelRank(Highest({a, b}))
         /\ LevelRank(b) <= LevelRank(Highest({a, b}))
BY HighestOfLevels

\* The combination of the scan and the model.
LEMMA Combined ==
  ASSUME NEW text \in Text,
         NEW llm \in [level : Level, confidence : Int], NEW ocr_ratio \in Int
  PROVE  LET result == CombineClassification(text, llm, ocr_ratio)
             suggested == SuggestedLevel(text)
         IN  /\ result.level \in Level
             /\ LevelRank(result.level) >= LevelRank(llm.level)
             /\ suggested # Unknown => LevelRank(result.level) >= LevelRank(suggested)
             /\ result.level = "public" =>
                  /\ suggested = "public" /\ llm.level = "public"
                  /\ result.confidence >= 6
             /\ result.level \notin {suggested, llm.level} =>
                  result.level = "internal" /\ llm.level = "public"
             /\ /\ text.labels = {} /\ suggested # Unknown
                /\ Distance(suggested, llm.level) > 1
                => result.needs_confirmation /\ result.confidence <= 5
             /\ ocr_ratio > 8 => result.needs_confirmation /\ result.confidence <= 4
<1> DEFINE explicit == ExplicitLevel(text)
           suggested == SuggestedLevel(text)
           safer == IF suggested = Unknown THEN llm.level
                    ELSE Highest({suggested, llm.level})
           disagree == /\ explicit = Unknown
                       /\ suggested # Unknown
                       /\ Distance(suggested, llm.level) > 1
           combined == CASE explicit # Unknown -> Larger(llm.confidence, 9)
                         [] disagree -> Smaller(llm.confidence, 5)
                         [] OTHER -> llm.confidence
           confidence == IF ocr_ratio > 5 THEN Smaller(combined, 4) ELSE combined
           demoted == safer = "public" /\ (confidence < 6 \/ suggested = Unknown)
           result == CombineClassification(text, llm, ocr_ratio)
<1>1. /\ result.level = IF demoted THEN "internal" ELSE safer
      /\ result.confidence = confidence
      /\ result.needs_confirmation = (disagree \/ ocr_ratio > 8 \/ demoted)
  BY DEF CombineClassification
<1>2. /\ suggested \in Level \union {Unknown}
      /\ explicit # Unknown <=> text.labels # {}
  BY Suggested
<1>3. llm.level \in Level /\ llm.confidence \in Int
  OBVIOUS
<1>4. /\ safer \in Level /\ safer \in {suggested, llm.level}
      /\ LevelRank(llm.level) <= LevelRank(safer)
      /\ suggested # Unknown => LevelRank(suggested) <= LevelRank(safer)
  <2>1. CASE suggested = Unknown
    BY <1>3, <2>1, LevelRanks
  <2>2. CASE suggested # Unknown
    <3>1. suggested \in Level
      BY <1>2, <2>2
    <3> QED
      BY <1>3, <2>2, <3>1, HigherOfTwo
  <2> QED
    BY <2>1, <2>2
<1>5. combined \in Int /\ confidence \in Int
  <2>1. combined \in Int
    BY <1>3 DEF Larger, Smaller
  <2> QED
    BY <2>1 DEF Smaller
<1>6. /\ disagree => confidence <= 5
      /\ ocr_ratio > 5 => confidence <= 4
  <2>1. disagree => combined <= 5
    BY <1>3 DEF Smaller
  <2> QED
    BY <1>5, <2>1 DEF Smaller
<1>7. disagree <=> /\ text.labels = {} /\ suggested # Unknown
                   /\ Distance(suggested, llm.level) > 1
  BY <1>2
<1> HIDE DEF explicit, suggested, disagree, combined, confidence, result, safer
<1>8. /\ result.level \in Level
      /\ LevelRank(safer) <= LevelRank(result.level)
      /\ result.level # safer => result.level = "internal" /\ safer = "public"
      /\ result.level = "public" =>
           safer = "public" /\ confidence >= 6 /\ suggested # Unknown
  BY <1>1, <1>4, <1>5, LevelRanks
<1>9. /\ result.level \in Level
      /\ LevelRank(result.level) >= LevelRank(llm.level)
      /\ suggested # Unknown => LevelRank(result.level) >= LevelRank(suggested)
  BY <1>2, <1>3, <1>4, <1>8, LevelRanks
<1>10. result.level = "public" => suggested = "public" /\ llm.level = "public"
  BY <1>2, <1>3, <1>4, <1>8, LevelRanks
<1>11. result.level \notin {suggested, llm.level} =>
         result.level = "internal" /\ llm.level = "public"
  BY <1>3, <1>4, <1>8, LevelRanks
<1>12. /\ disagree => result.needs_confirmation /\ result.confidence <= 5
       /\ ocr_ratio > 8 => result.needs_confirmation /\ result.confidence <= 4
  <2>1. /\ disagree => result.confidence <= 5
        /\ ocr_ratio > 8 => result.confidence <= 4
    BY <1>1, <1>6
  <2>2. /\ disagree => result.needs_confirmation
        /\ ocr_ratio > 8 => result.needs_confirmation
    BY <1>1, Zenon
  <2> QED
    BY <2>1, <2>2
<1>13. result.level = "public" => result.confidence >= 6
  BY <1>1, <1>8
<1>14. /\ text.labels = {} /\ suggested # Unknown
       /\ Distance(suggested, llm.level) > 1
       => result.needs_confirmation /\ result.confidence <= 5
  BY <1>7, <1>12
<1>15. /\ result.level \in Level
       /\ LevelRank(result.level) >= LevelRank(llm.level)
       /\ suggested # Unknown => LevelRank(result.level) >= LevelRank(suggested)
       /\ result.level = "public" =>
            /\ suggested = "public" /\ llm.level = "public"
            /\ result.confidence >= 6
       /\ result.level \notin {suggested, llm.level} =>
            result.level = "internal" /\ llm.level = "public"
       /\ /\ text.labels = {} /\ suggested # Unknown
          /\ Distance(suggested, llm.level) > 1
          => result.needs_confirmation /\ result.confidence <= 5
       /\ ocr_ratio > 8 => result.needs_confirmation /\ result.confidence <= 4
  BY <1>9, <1>10, <1>11, <1>12, <1>13, <1>14
<1> QED
  BY <1>15 DEF suggested, result

\* One more signal in the text never lowers the level.
LEMMA SignalNeverLowers ==
  ASSUME NEW text \in Text,
         NEW llm \in [level : Level, confidence : Int], NEW ocr_ratio \in Int,
         NEW signal \in SignalLevel,
         NEW more, more = [text EXCEPT !.signals = @ \union {signal}]
  PROVE  LevelRank(CombineClassification(text, llm, ocr_ratio).level)
           <= LevelRank(CombineClassification(more, llm, ocr_ratio).level)
<1> DEFINE less == CombineClassification(text, llm, ocr_ratio)
           result == CombineClassification(more, llm, ocr_ratio)
<1>1. /\ more \in Text /\ more.labels = text.labels
      /\ text.labels # {} => SuggestedLevel(more) = SuggestedLevel(text)
      /\ text.labels = {} => SuggestedLevel(more) \in SignalLevel
      /\ SuggestedLevel(text) # Unknown =>
           LevelRank(SuggestedLevel(text)) <= LevelRank(SuggestedLevel(more))
  BY Suggested
<1>2. CASE text.labels # {}
  <2>1. ExplicitLevel(more) = ExplicitLevel(text)
    BY <1>1 DEF ExplicitLevel
  <2>2. result = less
    BY <1>1, <1>2, <2>1, ZenonT(60) DEF CombineClassification
  <2>3. LevelRank(less.level) \in Int
    BY Combined, LevelRanks
  <2> QED
    BY <2>2, <2>3
<1>3. CASE text.labels = {}
  <2>1. /\ less.level \in Level /\ result.level \in Level
        /\ LevelRank(result.level) >= LevelRank(llm.level)
        /\ SuggestedLevel(more) # Unknown =>
             LevelRank(result.level) >= LevelRank(SuggestedLevel(more))
        /\ less.level \notin {SuggestedLevel(text), llm.level} =>
             less.level = "internal"
    BY <1>1, Combined
  <2>2. /\ SuggestedLevel(more) \in Level /\ SuggestedLevel(more) # Unknown
        /\ LevelRank(SuggestedLevel(more)) >= 3
    BY <1>1, <1>3, LevelRanks DEF SignalLevel
  <2>3. /\ LevelRank(llm.level) \in Int /\ LevelRank(less.level) \in Int
        /\ LevelRank(result.level) \in Int /\ LevelRank(SuggestedLevel(more)) \in Int
    BY <2>1, <2>2, LevelRanks
  <2> HIDE DEF less, result
  <2>4. LevelRank(less.level) <= LevelRank(result.level)
    <3>1. CASE less.level = SuggestedLevel(text)
      <4>1. SuggestedLevel(text) # Unknown
        BY <2>1, <3>1, LevelRanks
      <4> QED
        BY <1>1, <2>1, <2>2, <2>3, <3>1, <4>1
    <3>2. CASE less.level = llm.level
      BY <2>1, <2>3, <3>2
    <3>3. CASE less.level = "internal"
      BY <2>1, <2>2, <2>3, <3>3, LevelRanks
    <3> QED
      BY <2>1, <3>1, <3>2, <3>3
  <2> QED
    BY <2>4 DEF less, result
<1> QED
  BY <1>2, <1>3

\* Whatever the text, the answer of the model and the scan: the level is never
\* below a label, the scan or the model, it is public only on their word, a
\* disagreement and bad scans go to a human, one more signal never lowers it,
\* and nobody may open what a label, the scan or the model would keep from him
\* (SoundClassification).
THEOREM LevelSound ==
  ASSUME NEW text \in Text, NEW answer \in Answer,
         NEW ocr_ratio \in Int
  PROVE  SoundClassification(text, answer, ocr_ratio)
<1> DEFINE llm == ClassifyWithLlm(answer)
           result == CombineClassification(text, llm, ocr_ratio)
           suggested == SuggestedLevel(text)
<1>1. /\ llm \in [level : Level, confidence : Int]
      /\ answer.level \in Level => llm = answer
      /\ answer.level \notin Level => llm.level = "internal"
  BY LevelRanks DEF ClassifyWithLlm, Answer
<1>2. result = ClassifyDocumentConfidentiality(text, answer, ocr_ratio)
  BY DEF ClassifyDocumentConfidentiality
<1> HIDE DEF llm
<1>3. /\ result.level \in Level
      /\ LevelRank(result.level) >= LevelRank(llm.level)
      /\ suggested # Unknown => LevelRank(result.level) >= LevelRank(suggested)
      /\ result.level = "public" =>
           /\ suggested = "public" /\ llm.level = "public"
           /\ result.confidence >= 6
      /\ /\ text.labels = {} /\ suggested # Unknown
         /\ Distance(suggested, llm.level) > 1
         => result.needs_confirmation /\ result.confidence <= 5
      /\ ocr_ratio > 8 => result.needs_confirmation /\ result.confidence <= 4
  BY <1>1, Combined
<1>4. /\ suggested \in Level \union {Unknown}
      /\ text.labels # {} => suggested # Unknown /\ suggested \in text.labels
      /\ \A label \in text.labels : LevelRank(label) <= LevelRank(suggested)
      /\ text.labels = {} => suggested # "public"
  BY Suggested
<1>5. \A signal \in SignalLevel :
        LET more == [text EXCEPT !.signals = @ \union {signal}]
        IN  LevelRank(ClassifyDocumentConfidentiality(more, answer, ocr_ratio).level)
              >= LevelRank(result.level)
  <2> SUFFICES ASSUME NEW signal \in SignalLevel, NEW more,
                      more = [text EXCEPT !.signals = @ \union {signal}]
               PROVE  LevelRank(ClassifyDocumentConfidentiality(more, answer,
                                                           ocr_ratio).level)
                        >= LevelRank(result.level)
    OBVIOUS
  <2>1. more \in Text
    BY Suggested
  <2>2. /\ LevelRank(CombineClassification(more, llm, ocr_ratio).level) \in Int
        /\ LevelRank(result.level) \in Int
    BY <1>1, <2>1, Combined, LevelRanks
  <2>3. LevelRank(result.level)
          <= LevelRank(CombineClassification(more, llm, ocr_ratio).level)
    BY <1>1, SignalNeverLowers
  <2> QED
    BY <2>2, <2>3 DEF ClassifyDocumentConfidentiality, llm
<1> HIDE DEF result, suggested
<1>6. /\ text.labels \in SUBSET Level
      /\ \A level \in Level : LevelRank(level) \in Int
  BY LevelRanks DEF Text
<1>7. \A label \in text.labels : LevelRank(result.level) >= LevelRank(label)
  BY <1>3, <1>4, <1>6
<1>8. answer.level \in Level =>
        /\ LevelRank(result.level) >= LevelRank(answer.level)
        /\ /\ text.labels = {} /\ suggested # Unknown
           /\ Distance(suggested, answer.level) > 1
           => result.needs_confirmation /\ result.confidence <= 5
  BY <1>1, <1>3
<1>9. result.level = "public" =>
        /\ text.labels = {"public"} /\ answer.level = "public"
        /\ result.confidence >= 6
  <2> SUFFICES ASSUME result.level = "public"
               PROVE  text.labels = {"public"} /\ answer.level = "public"
    BY <1>3
  <2>1. answer.level = "public"
    BY <1>1, <1>3
  <2>2. "public" \in text.labels
    BY <1>3, <1>4
  <2>3. \A label \in text.labels : label = "public"
    BY <1>6, <1>7, LevelRanks
  <2> QED
    BY <2>1, <2>2, <2>3
<1>10. \A role \in Roles :
         EnforceConfidentialityAccess(result.level, role) =>
           \A level \in text.labels
                        \union ({suggested, answer.level} \intersect Level) :
             EnforceConfidentialityAccess(level, role)
  <2> SUFFICES ASSUME NEW role \in Roles,
                      EnforceConfidentialityAccess(result.level, role),
                      NEW level \in text.labels
                            \union ({suggested, answer.level} \intersect Level)
               PROVE  EnforceConfidentialityAccess(level, role)
    OBVIOUS
  <2>1. level \in Level /\ LevelRank(level) <= LevelRank(result.level)
    <3>1. CASE level \in text.labels
      BY <1>6, <1>7, <3>1, <1>3
    <3>2. CASE level = suggested /\ suggested \in Level
      BY <1>3, <1>6, <3>2, LevelRanks
    <3>3. CASE level = answer.level /\ answer.level \in Level
      BY <1>3, <1>6, <1>8, <3>3
    <3> QED
      BY <3>1, <3>2, <3>3
  <2>2. level = "highly_confidential" => result.level = "highly_confidential"
    BY <1>3, <2>1, LevelRanks
  <2> QED
    BY <2>2 DEF EnforceConfidentialityAccess, AccessRoles
<1> QED
  BY <1>2, <1>3, <1>5, <1>7, <1>8, <1>9, <1>10
     DEF SoundClassification, suggested

-----------------------------------------------------------------------------
(***************************************************************************)
(* The resolution of standards.                                            *)
(***************************************************************************)
\* Rows in force in a context, as resolve_standards selects them.
InForce(library, ctx, as_of) ==
    {row \in FindStandardsCandidates(library, ctx) :
       IsActiveAndApproved(row, as_of)}

\* The row belongs to level k of the hierarchy.
AtLevel(row, k, ctx) ==
    /\ \A field \in Hierarchy[k] : ctx[field] # None
    /\ MatchesLevel(row, Hierarchy[k], ctx)

-----------------------------------------------------------------------------
(***************************************************************************)
(* The hierarchy.                                                          *)
(***************************************************************************)
\* The levels, one by one.
LEMMA HierarchyLevels ==
  /\ DOMAIN Hierarchy = 1 .. 8
  /\ Hierarchy[1] = {"business_unit_id", "jurisdiction_id"}
  /\ Hierarchy[2] = {"business_unit_id"}
  /\ Hierarchy[3] = {"org_profile_id", "jurisdiction_id"}
  /\ Hierarchy[4] = {"org_profile_id"}
  /\ Hierarchy[5] = {"customer_id", "jurisdiction_id"}
  /\ Hierarchy[6] = {"customer_id"}
  /\ Hierarchy[7] = {"jurisdiction_id"}
  /\ Hierarchy[8] = {}
BY DEF Hierarchy

\* The rank by the fields a row sets, as implications.
LEMMA Ranks ==
  ASSUME NEW row,
         NEW unit, unit = row.business_unit_id,
         NEW place, place = row.jurisdiction_id,
         NEW org, org = row.org_profile_id,
         NEW customer, customer = row.customer_id
  PROVE  /\ unit # None /\ place # None => Rank(row) = 1
         /\ unit # None /\ place = None => Rank(row) = 2
         /\ unit = None /\ org # None /\ place # None => Rank(row) = 3
         /\ unit = None /\ org # None /\ place = None => Rank(row) = 4
         /\ unit = None /\ org = None /\ customer # None /\ place # None
              => Rank(row) = 5
         /\ unit = None /\ org = None /\ customer # None /\ place = None
              => Rank(row) = 6
         /\ unit = None /\ org = None /\ customer = None /\ place # None
              => Rank(row) = 7
         /\ unit = None /\ org = None /\ customer = None /\ place = None
              => Rank(row) = 8
         /\ Rank(row) \in 1 .. 8
BY DEF Rank

\* A level a row belongs to is at or below the rank of the fields it sets.
LEMMA LevelNotAboveRank ==
  ASSUME NEW row, NEW ctx, ScopeCompatible(row, ctx),
         NEW k \in 1 .. 8, AtLevel(row, k, ctx)
  PROVE  Rank(row) \in 1 .. 8 /\ Rank(row) <= k
<1> DEFINE unit == row.business_unit_id
           place == row.jurisdiction_id
           org == row.org_profile_id
           customer == row.customer_id
<1>1. /\ \A field \in Hierarchy[k] : row[field] = ctx[field] /\ row[field] # None
      /\ \A field \in SpecificityFields \ Hierarchy[k] : row[field] = None
  BY DEF AtLevel, MatchesLevel
<1>2. k = 1 => unit # None /\ place # None
  BY <1>1, HierarchyLevels
<1>3. k = 2 => unit # None
  BY <1>1, HierarchyLevels
<1>4. k = 3 => org # None /\ place # None /\ unit = None
  BY <1>1, HierarchyLevels DEF SpecificityFields
<1>5. k = 4 => org # None /\ unit = None
  BY <1>1, HierarchyLevels DEF SpecificityFields
<1>6. k = 5 => customer # None /\ place # None /\ unit = None
  BY <1>1, HierarchyLevels DEF SpecificityFields
<1>7. k = 6 => customer # None /\ unit = None
  BY <1>1, HierarchyLevels DEF SpecificityFields
<1>8. k = 7 => place # None /\ unit = None
  BY <1>1, HierarchyLevels DEF SpecificityFields
<1> QED
  BY <1>2, <1>3, <1>4, <1>5, <1>6, <1>7, <1>8, Ranks

\* A row that is compatible with a context belongs to the level of its rank.
LEMMA AtOwnRank ==
  ASSUME NEW row, NEW ctx, ScopeCompatible(row, ctx)
  PROVE  Rank(row) \in 1 .. 8 /\ AtLevel(row, Rank(row), ctx)
<1> DEFINE unit == row.business_unit_id
           place == row.jurisdiction_id
           org == row.org_profile_id
           customer == row.customer_id
<1>1. \A field \in ScopeFields :
        row[field] # None => row[field] = ctx[field] /\ ctx[field] # None
  BY DEF ScopeCompatible
<1>2. /\ unit # None => unit = ctx["business_unit_id"] /\ ctx["business_unit_id"] # None
      /\ place # None => place = ctx["jurisdiction_id"] /\ ctx["jurisdiction_id"] # None
      /\ org # None => org = ctx["org_profile_id"] /\ ctx["org_profile_id"] # None
      /\ customer # None => customer = ctx["customer_id"] /\ ctx["customer_id"] # None
  BY <1>1 DEF ScopeFields
<1>3. row.document_type \in {None, ctx.document_type}
  BY DEF ScopeCompatible, ScopeFields
<1>4. ASSUME NEW k \in 1 .. 8,
             \A field \in Hierarchy[k] :
               row[field] = ctx[field] /\ ctx[field] # None,
             \A field \in SpecificityFields \ Hierarchy[k] : row[field] = None
      PROVE  AtLevel(row, k, ctx)
  BY <1>3, <1>4 DEF AtLevel, MatchesLevel
<1>5. CASE unit # None /\ place # None
  <2>1. Rank(row) = 1
    BY <1>5, Ranks
  <2> QED
    BY <1>2, <1>4, <1>5, <2>1, HierarchyLevels DEF SpecificityFields
<1>6. CASE unit # None /\ place = None
  <2>1. Rank(row) = 2
    BY <1>6, Ranks
  <2> QED
    BY <1>2, <1>4, <1>6, <2>1, HierarchyLevels DEF SpecificityFields
<1>7. CASE unit = None /\ org # None /\ place # None
  <2>1. Rank(row) = 3
    BY <1>7, Ranks
  <2> QED
    BY <1>2, <1>4, <1>7, <2>1, HierarchyLevels DEF SpecificityFields
<1>8. CASE unit = None /\ org # None /\ place = None
  <2>1. Rank(row) = 4
    BY <1>8, Ranks
  <2> QED
    BY <1>2, <1>4, <1>8, <2>1, HierarchyLevels DEF SpecificityFields
<1>9. CASE unit = None /\ org = None /\ customer # None /\ place # None
  <2>1. Rank(row) = 5
    BY <1>9, Ranks
  <2> QED
    BY <1>2, <1>4, <1>9, <2>1, HierarchyLevels DEF SpecificityFields
<1>10. CASE unit = None /\ org = None /\ customer # None /\ place = None
  <2>1. Rank(row) = 6
    BY <1>10, Ranks
  <2> QED
    BY <1>2, <1>4, <1>10, <2>1, HierarchyLevels DEF SpecificityFields
<1>11. CASE unit = None /\ org = None /\ customer = None /\ place # None
  <2>1. Rank(row) = 7
    BY <1>11, Ranks
  <2> QED
    BY <1>2, <1>4, <1>11, <2>1, HierarchyLevels DEF SpecificityFields
<1>12. CASE unit = None /\ org = None /\ customer = None /\ place = None
  <2>1. Rank(row) = 8
    BY <1>12, Ranks
  <2> QED
    BY <1>2, <1>4, <1>12, <2>1, HierarchyLevels DEF SpecificityFields
<1> QED
  BY <1>5, <1>6, <1>7, <1>8, <1>9, <1>10, <1>11, <1>12
-----------------------------------------------------------------------------
(***************************************************************************)
(* The level the walk stops at is the best rank among the rows in force,   *)
(* and its rows are exactly those of that rank.                            *)
(***************************************************************************)
Top(rows) == {row \in rows : \A other \in rows : Rank(row) <= Rank(other)}

\* The rows matched at a level are those that belong to it.
LEMMA MatchedRows ==
  ASSUME NEW active, NEW ctx, NEW k
  PROVE  Matched(active, ctx, k) =
           {row \in active : AtLevel(row, k, ctx)}
BY DEF Matched, AtLevel

\* A nonempty set of levels has a most specific one.
LEMMA LeastLevel ==
  ASSUME NEW S, S \subseteq 1 .. 8, S # {}
  PROVE  \E k \in S : \A other \in S : k <= other
<1>0. \A k \in S : k \in 1 .. 8
  OBVIOUS
<1>1. \/ 1 \in S \/ 2 \in S \/ 3 \in S \/ 4 \in S
      \/ 5 \in S \/ 6 \in S \/ 7 \in S \/ 8 \in S
  <2>1. PICK k : k \in S
    OBVIOUS
  <2> QED
    BY <1>0, <2>1
<1>2. \A other \in S : other \in 1 .. 8
  BY <1>0
<1>3. CASE 1 \in S
  BY <1>2, <1>3
<1>4. CASE 1 \notin S /\ 2 \in S
  BY <1>2, <1>4
<1>5. CASE {1, 2} \cap S = {} /\ 3 \in S
  BY <1>2, <1>5
<1>6. CASE {1, 2, 3} \cap S = {} /\ 4 \in S
  BY <1>2, <1>6
<1>7. CASE {1, 2, 3, 4} \cap S = {} /\ 5 \in S
  BY <1>2, <1>7
<1>8. CASE {1, 2, 3, 4, 5} \cap S = {} /\ 6 \in S
  BY <1>2, <1>8
<1>9. CASE {1, 2, 3, 4, 5, 6} \cap S = {} /\ 7 \in S
  BY <1>2, <1>9
<1>10. CASE {1, 2, 3, 4, 5, 6, 7} \cap S = {} /\ 8 \in S
  BY <1>2, <1>10
<1> QED
  BY <1>1, <1>3, <1>4, <1>5, <1>6, <1>7, <1>8, <1>9, <1>10

\* The walk down the hierarchy ends at the most specific rows in force.
LEMMA LevelIsTopRank ==
  ASSUME NEW active, NEW ctx,
         \A row \in active : ScopeCompatible(row, ctx),
         NEW level, level = ScopeLevel(active, ctx)
  PROVE  /\ (active = {}) <=> (level = NoLevel)
         /\ active # {} => /\ level \in 1 .. 8
                           /\ Matched(active, ctx, level) = Top(active)
                           /\ Top(active) # {}
                           /\ \A row \in Top(active) : Rank(row) = level
<1> DEFINE levels == {k \in DOMAIN Hierarchy : Matched(active, ctx, k) # {}}
<1>1. /\ \A row \in active : /\ Rank(row) \in 1 .. 8
                             /\ AtLevel(row, Rank(row), ctx)
      /\ \A row \in active, k \in 1 .. 8 :
           AtLevel(row, k, ctx) => Rank(row) <= k
  BY AtOwnRank, LevelNotAboveRank
<1>2. levels = {k \in 1 .. 8 : \E row \in active : AtLevel(row, k, ctx)}
  BY MatchedRows, HierarchyLevels
<1>3. level = IF levels = {} THEN NoLevel
              ELSE CHOOSE k \in levels : \A other \in levels : k <= other
  BY DEF ScopeLevel
<1> HIDE DEF levels
<1>4. CASE active = {}
  BY <1>2, <1>3, <1>4 DEF NoLevel
<1>5. CASE active # {}
  <2>1. levels # {} /\ levels \subseteq 1 .. 8
    BY <1>1, <1>2, <1>5
  <2>2. \E k \in levels : \A other \in levels : k <= other
    BY <2>1, LeastLevel
  <2>3. level \in levels /\ \A other \in levels : level <= other
    BY <1>3, <2>1, <2>2, Zenon
  <2>4. level \in 1 .. 8
    BY <2>1, <2>3
  <2>5. \A row \in active : level <= Rank(row)
    BY <1>1, <1>2, <2>3
  <2>6. \A row \in active : AtLevel(row, level, ctx) <=> Rank(row) = level
    BY <1>1, <2>4, <2>5
  <2>7. PICK best \in active : Rank(best) = level
    BY <1>2, <2>3, <2>6
  <2>8. Top(active) = {row \in active : Rank(row) = level}
    BY <1>1, <2>4, <2>5, <2>7 DEF Top
  <2>9. Matched(active, ctx, level) = Top(active)
    BY <2>6, <2>8, MatchedRows
  <2>10. Top(active) # {} /\ \A row \in Top(active) : Rank(row) = level
    BY <2>7, <2>8
  <2>11. level # NoLevel
    BY <2>4 DEF NoLevel
  <2> QED
    BY <1>5, <2>4, <2>9, <2>10, <2>11
<1> QED
  BY <1>4, <1>5

-----------------------------------------------------------------------------
(***************************************************************************)
(* The result of a resolution.                                             *)
(***************************************************************************)
GroupOf(rows, key) == {row \in rows : RuleKey(row) = key}

\* What a finite set with at most one member says.
LEMMA AtMostOne ==
  ASSUME NEW S, IsFiniteSet(S), ~(Cardinality(S) > 1),
         NEW x \in S, NEW y \in S
  PROVE  x = y
<1> SUFFICES ASSUME x # y PROVE FALSE
  OBVIOUS
<1>1. IsFiniteSet({x}) /\ Cardinality({x}) = 1
  BY FS_Singleton
<1>2. /\ IsFiniteSet({x} \union {y})
      /\ Cardinality({x} \union {y}) =
           IF y \in {x} THEN Cardinality({x}) ELSE Cardinality({x}) + 1
  BY <1>1, FS_AddElement, Zenon
<1>3. {x} \union {y} \in SUBSET S
  OBVIOUS
<1>4. Cardinality({x} \union {y}) <= Cardinality(S)
  BY <1>3, FS_Subset
<1>5. Cardinality(S) \in Nat
  BY FS_CardinalityType
<1> QED
  BY <1>1, <1>2, <1>4, <1>5

\* The texts of finitely many rows are finitely many.
LEMMA FiniteTexts ==
  ASSUME NEW rows, IsFiniteSet(rows) PROVE IsFiniteSet(TextsOf(rows))
<1> DEFINE f == [row \in rows |-> row.reference_text]
<1>1. f \in Surjection(rows, TextsOf(rows))
  BY DEF Surjection, TextsOf
<1> QED
  BY <1>1, FS_Surjection

\* Each result picks, for every rule of the most specific rows in force, one
\* row; of a rule in dispute it is one of the newest, and the others are
\* conflicts; of any other rule all rows have the text of the pick.
LEMMA ResolutionPicks ==
  ASSUME NEW library, IsLibrary(library), NEW ctx, NEW as_of,
         NEW result \in Resolutions(library, ctx, as_of)
  PROVE  LET active == InForce(library, ctx, as_of) IN
         \E pick :
           /\ result.scope_level = ScopeLevel(active, ctx)
           /\ result.selected = {pick[RuleKey(row)] : row \in Top(active)}
           /\ \A row \in Top(active) :
                /\ pick[RuleKey(row)] \in Top(active)
                /\ RuleKey(pick[RuleKey(row)]) = RuleKey(row)
                /\ \/ /\ row.version <= pick[RuleKey(row)].version
                      /\ row # pick[RuleKey(row)] => row \in result.conflicts
                   \/ /\ row.reference_text =
                           pick[RuleKey(row)].reference_text
                      /\ row \notin result.conflicts
           /\ result.conflicts \subseteq Top(active)
           /\ result.fallback = active \ Top(active)
<1> DEFINE active == InForce(library, ctx, as_of)
           level == ScopeLevel(active, ctx)
           matched == IF level = NoLevel THEN {}
                      ELSE Matched(active, ctx, level)
           keys == {RuleKey(row) : row \in matched}
           Group(key) == GroupOf(matched, key)
           Disputed(key) == Cardinality(TextsOf(Group(key))) > 1
<1>1. PICK pick \in [keys -> matched] :
        /\ \A key \in keys : pick[key] \in Preferred(Group(key))
        /\ result = [scope_level |-> level,
                     selected |-> {pick[key] : key \in keys},
                     conflicts |-> UNION {Group(key) \ {pick[key]} :
                                      key \in {k \in keys : Disputed(k)}},
                     fallback |-> IF level = NoLevel THEN {}
                                  ELSE active \ matched]
  <2>1. Resolutions(library, ctx, as_of) =
          {[scope_level |-> level,
            selected |-> {pick[key] : key \in keys},
            conflicts |-> UNION {Group(key) \ {pick[key]} :
                                   key \in {k \in keys : Disputed(k)}},
            fallback |-> IF level = NoLevel THEN {} ELSE active \ matched] :
              pick \in {p \in [keys -> matched] :
                          \A key \in keys : p[key] \in Preferred(Group(key))}}
    BY DEF Resolutions, GroupOf, InForce
  <2> HIDE DEF level, matched, keys, Group, Disputed
  <2> QED
    BY <2>1
<1>2. \A row \in active : ScopeCompatible(row, ctx)
  BY DEF InForce, FindStandardsCandidates
<1>3. matched = Top(active)
  BY <1>2, LevelIsTopRank DEF Top
<1>4. result.fallback = active \ Top(active)
  BY <1>1, <1>2, <1>3, LevelIsTopRank DEF Top
<1>5. \A key \in keys : /\ pick[key] \in matched
                        /\ RuleKey(pick[key]) = key
                        /\ Disputed(key) =>
                             \A row \in Group(key) :
                               row.version <= pick[key].version
  BY <1>1 DEF Preferred, GroupOf
<1>6. \A row \in matched : /\ RuleKey(row) \in keys
                           /\ row \in Group(RuleKey(row))
  BY DEF GroupOf
<1>7. ASSUME NEW key \in keys, ~Disputed(key), NEW row \in Group(key)
      PROVE  row.reference_text = pick[key].reference_text
  <2>1. Group(key) \in SUBSET library
    BY <1>3 DEF GroupOf, Top, InForce, FindStandardsCandidates
  <2>2. IsFiniteSet(Group(key))
    BY <2>1, FS_Subset DEF IsLibrary
  <2>3. IsFiniteSet(TextsOf(Group(key)))
    BY <2>2, FiniteTexts
  <2>4. pick[key] \in Group(key)
    BY <1>5 DEF GroupOf
  <2>5. /\ row.reference_text \in TextsOf(Group(key))
        /\ pick[key].reference_text \in TextsOf(Group(key))
    BY <1>7, <2>4 DEF TextsOf
  <2> QED
    BY <1>7, <2>3, <2>5, AtMostOne
<1>8. /\ result.scope_level = level
      /\ result.selected = {pick[key] : key \in keys}
      /\ result.conflicts = UNION {Group(key) \ {pick[key]} :
                                     key \in {k \in keys : Disputed(k)}}
  BY <1>1
<1>9. result.selected = {pick[RuleKey(row)] : row \in matched}
  BY <1>8
<1> HIDE DEF level, Disputed
<1>10. \A row : row \in result.conflicts <=>
          \E key \in keys : /\ Disputed(key) /\ row \in Group(key)
                            /\ row # pick[key]
  BY <1>8
<1>11. result.conflicts \subseteq matched
  BY <1>10 DEF GroupOf
<1>12. ASSUME NEW row \in matched
       PROVE  \/ /\ row.version <= pick[RuleKey(row)].version
                 /\ row # pick[RuleKey(row)] => row \in result.conflicts
              \/ /\ row.reference_text = pick[RuleKey(row)].reference_text
                 /\ row \notin result.conflicts
  <2>1. CASE Disputed(RuleKey(row))
    BY <1>5, <1>6, <1>10, <2>1
  <2>2. CASE ~Disputed(RuleKey(row))
    <3>1. row.reference_text = pick[RuleKey(row)].reference_text
      BY <1>6, <1>7, <2>2
    <3>2. row \notin result.conflicts
      BY <1>10, <2>2 DEF GroupOf
    <3> QED
      BY <3>1, <3>2
  <2> QED
    BY <2>1, <2>2
<1> HIDE DEF matched, keys, Group
<1>13. \A row \in matched : /\ pick[RuleKey(row)] \in matched
                            /\ RuleKey(pick[RuleKey(row)]) = RuleKey(row)
  BY <1>5, <1>6
<1> QED
  BY <1>3, <1>4, <1>8, <1>9, <1>11, <1>12, <1>13, ZenonT(60) DEF level
-----------------------------------------------------------------------------
(***************************************************************************)
(* What SoundResolution calls in force is what the resolution considers.   *)
(***************************************************************************)
LEMMA InForceByDates ==
  ASSUME NEW library, IsLibrary(library), NEW ctx, NEW as_of \in Int
  PROVE  /\ InForce(library, ctx, as_of) =
              {row \in library :
                 /\ ScopeCompatible(row, ctx)
                 /\ row.approval_status = "approved"
                 /\ row.effective_date # None => row.effective_date <= as_of
                 /\ row.expiry_date # None => row.expiry_date >= as_of}
         /\ \A row \in InForce(library, ctx, as_of) :
              row \in library /\ ScopeCompatible(row, ctx)
<1>1. ASSUME NEW row \in library
      PROVE  IsActiveAndApproved(row, as_of) <=>
               /\ row.approval_status = "approved"
               /\ row.effective_date # None => row.effective_date <= as_of
               /\ row.expiry_date # None => row.expiry_date >= as_of
  BY DEF IsLibrary, IsActiveAndApproved, IsExpired, IsNotYetEffective
<1> QED
  BY <1>1 DEF InForce, FindStandardsCandidates

\* A result whose level has an approved clause has selected one.
LEMMA ClauseSelected ==
  ASSUME NEW library, IsLibrary(library), NEW ctx, NEW as_of,
         NEW result \in Resolutions(library, ctx, as_of),
         NEW row \in Top(InForce(library, ctx, as_of))
  PROVE  \E won \in result.selected : RuleKey(won) = RuleKey(row)
BY ResolutionPicks

\* Whatever the library holds, whatever the context and in whatever order the
\* rows come, resolve_standards keeps the promise of section 11: the most
\* specific level in force, one row per rule of it, the newest of a disputed
\* rule, every text in force accounted for, nothing of another customer, and an
\* approved clause as the language of its type (SoundResolution).
THEOREM ResolutionSound ==
  ASSUME NEW library, IsLibrary(library), NEW ctx, NEW as_of \in Int
  PROVE  SoundResolution(library, ctx, as_of)
<1> DEFINE inForce == InForce(library, ctx, as_of)
           top == Top(inForce)
           clauses == {row \in top : row.source_kind = "approved_clause"}
<1>1. \A row \in inForce : row \in library /\ ScopeCompatible(row, ctx)
  BY InForceByDates
<1>2. \A row \in inForce : row.version \in Int
  BY <1>1 DEF IsLibrary
<1>3. top \subseteq inForce
  BY DEF Top
<1> HIDE DEF inForce, top
<1>4. ASSUME NEW result \in Resolutions(library, ctx, as_of)
      PROVE  /\ {result.scope_level} =
                  IF top = {} THEN {NoLevel} ELSE {Rank(row) : row \in top}
             /\ {RuleKey(row) : row \in result.selected} =
                  {RuleKey(row) : row \in top}
             /\ result.selected \union result.conflicts \subseteq top
             /\ \A lost \in result.conflicts : \E won \in result.selected :
                  RuleKey(won) = RuleKey(lost) /\ won.version >= lost.version
             /\ TextsOf(inForce) =
                  TextsOf(result.selected \union result.conflicts
                            \union result.fallback)
             /\ \A row \in result.selected \union result.conflicts
                             \union result.fallback :
                  row.customer_id \in {None, ctx.customer_id}
  <2>1. PICK pick :
           /\ result.scope_level = ScopeLevel(inForce, ctx)
           /\ result.selected = {pick[RuleKey(row)] : row \in top}
           /\ \A row \in top :
                /\ pick[RuleKey(row)] \in top
                /\ RuleKey(pick[RuleKey(row)]) = RuleKey(row)
                /\ \/ /\ row.version <= pick[RuleKey(row)].version
                      /\ row # pick[RuleKey(row)] => row \in result.conflicts
                   \/ /\ row.reference_text =
                           pick[RuleKey(row)].reference_text
                      /\ row \notin result.conflicts
           /\ result.conflicts \subseteq top
           /\ result.fallback = inForce \ top
    BY ResolutionPicks DEF inForce, top
  <2>2. {result.scope_level} =
           IF top = {} THEN {NoLevel} ELSE {Rank(row) : row \in top}
    <3>1. /\ (inForce = {}) <=> (result.scope_level = NoLevel)
          /\ inForce # {} =>
               /\ top # {}
               /\ \A row \in top : Rank(row) = result.scope_level
      BY <1>1, <2>1, LevelIsTopRank DEF top
    <3>2. CASE inForce = {}
      BY <1>3, <3>1, <3>2
    <3>3. CASE inForce # {}
      BY <3>1, <3>3
    <3> QED
      BY <3>2, <3>3
  <2>3. result.selected \union result.conflicts \subseteq top
    BY <2>1
  <2>4. {RuleKey(row) : row \in result.selected} = {RuleKey(row) : row \in top}
    BY <2>1
  <2>5. ASSUME NEW lost \in result.conflicts
        PROVE  \E won \in result.selected :
                 RuleKey(won) = RuleKey(lost) /\ won.version >= lost.version
    <3>1. /\ lost \in top /\ pick[RuleKey(lost)] \in top
          /\ lost.version <= pick[RuleKey(lost)].version
          /\ RuleKey(pick[RuleKey(lost)]) = RuleKey(lost)
          /\ pick[RuleKey(lost)] \in result.selected
      BY <2>1
    <3>2. lost.version \in Int /\ pick[RuleKey(lost)].version \in Int
      BY <1>2, <1>3, <3>1
    <3> QED
      BY <3>1, <3>2
  <2>6. TextsOf(inForce) = TextsOf(result.selected \union result.conflicts
                                     \union result.fallback)
    <3>1. ASSUME NEW row \in inForce
          PROVE  \E kept \in result.selected \union result.conflicts
                               \union result.fallback :
                   kept.reference_text = row.reference_text
      BY <2>1
    <3>2. result.selected \union result.conflicts \union result.fallback
            \subseteq inForce
      BY <1>3, <2>1, <2>3
    <3> QED
      BY <3>1, <3>2 DEF TextsOf
  <2>7. ASSUME NEW row \in inForce
        PROVE  row.customer_id \in {None, ctx.customer_id}
    BY <1>1 DEF ScopeCompatible, ScopeFields
  <2>8. result.selected \union result.conflicts \union result.fallback
          \subseteq inForce
    BY <1>3, <2>1, <2>3
  <2> QED
    BY <2>2, <2>3, <2>4, <2>5, <2>6, <2>7, <2>8
<1>5. ASSUME clauses # {}
      PROVE  ApprovedClauseLanguage(library, ctx, as_of)
               \subseteq TextsOf(clauses)
  <2>1. PICK clause \in top : clause.source_kind = "approved_clause"
    BY <1>5
  <2>2. ASSUME NEW result \in Resolutions(library, ctx, as_of)
        PROVE  LET approved == {row \in result.selected :
                                  row.source_kind = "approved_clause"}
               IN  approved # {} /\ TextsOf(approved) \subseteq TextsOf(clauses)
    <3>1. PICK won \in result.selected : RuleKey(won) = RuleKey(clause)
      BY <2>1, ClauseSelected DEF top, inForce
    <3>2. won.source_kind = "approved_clause"
      BY <2>1, <3>1 DEF RuleKey
    <3>3. result.selected \subseteq top
      BY <1>4
    <3> QED
      BY <3>1, <3>2, <3>3 DEF TextsOf
  <2> QED
    BY <2>2 DEF ApprovedClauseLanguage
<1>6. inForce = {row \in library :
                   /\ ScopeCompatible(row, ctx)
                   /\ row.approval_status = "approved"
                   /\ row.effective_date # None => row.effective_date <= as_of
                   /\ row.expiry_date # None => row.expiry_date >= as_of}
  BY InForceByDates DEF inForce
<1>7. top = {row \in inForce : \A other \in inForce : Rank(row) <= Rank(other)}
  BY DEF top, Top
<1> QED
  BY <1>4, <1>5, <1>6, <1>7, ZenonT(60) DEF SoundResolution

-----------------------------------------------------------------------------
(***************************************************************************)
(* One clause, one text: what a clause type is compared with does not      *)
(* depend on the order of the rows, unless two approved clauses of one     *)
(* version say different things.                                           *)
(***************************************************************************)
Untied(library) ==
    \A row, other \in library :
      RuleKey(row) = RuleKey(other) /\ row.version = other.version
        => row.reference_text = other.reference_text

\* Two results select the same text for the same rule.
LEMMA SameSelection ==
  ASSUME NEW library, IsLibrary(library), Untied(library), NEW ctx,
         NEW as_of,
         NEW one \in Resolutions(library, ctx, as_of),
         NEW two \in Resolutions(library, ctx, as_of),
         NEW a \in one.selected, NEW b \in two.selected,
         RuleKey(a) = RuleKey(b)
  PROVE  a.reference_text = b.reference_text
<1> DEFINE top == Top(InForce(library, ctx, as_of))
<1>1. PICK p :
        /\ one.selected = {p[RuleKey(row)] : row \in top}
        /\ \A row \in top :
             /\ p[RuleKey(row)] \in top
             /\ RuleKey(p[RuleKey(row)]) = RuleKey(row)
             /\ \/ row.version <= p[RuleKey(row)].version
                \/ row.reference_text = p[RuleKey(row)].reference_text
  BY ResolutionPicks
<1>2. PICK q :
        /\ two.selected = {q[RuleKey(row)] : row \in top}
        /\ \A row \in top :
             /\ q[RuleKey(row)] \in top
             /\ RuleKey(q[RuleKey(row)]) = RuleKey(row)
             /\ \/ row.version <= q[RuleKey(row)].version
                \/ row.reference_text = q[RuleKey(row)].reference_text
  BY ResolutionPicks
<1>3. \A row \in top : row \in library /\ row.version \in Int
  BY DEF Top, InForce, FindStandardsCandidates, IsLibrary
<1> HIDE DEF top
<1>4. a \in top /\ a = p[RuleKey(a)]
  BY <1>1
<1>5. b \in top /\ b = q[RuleKey(a)]
  BY <1>2
<1>6. \/ b.version <= a.version \/ b.reference_text = a.reference_text
  BY <1>1, <1>4, <1>5
<1>7. \/ a.version <= b.version \/ b.reference_text = a.reference_text
  BY <1>2, <1>4, <1>5
<1> QED
  BY <1>3, <1>4, <1>5, <1>6, <1>7 DEF Untied

\* The lookup by profile alone finds one text as well.
LEMMA SameSimple ==
  ASSUME NEW library, IsLibrary(library), Untied(library), NEW profile,
         NEW clause_type, \A row \in library : row.clause_type = clause_type,
         NEW t \in SimpleLookup(library, profile),
         NEW u \in SimpleLookup(library, profile)
  PROVE  t = u
<1> DEFINE refs == {row \in FindKnowledgeReferences(library, profile) :
                      row.source_kind = "approved_clause"}
           newest == {row \in refs :
                        \A other \in refs : other.version <= row.version}
<1>1. SimpleLookup(library, profile) =
        IF newest = {} THEN {None} ELSE {row.reference_text : row \in newest}
  BY DEF SimpleLookup, First
<1>2. CASE newest = {}
  BY <1>1, <1>2
<1>3. CASE newest # {}
  <2>1. PICK a \in newest, b \in newest :
          t = a.reference_text /\ u = b.reference_text
    BY <1>1, <1>3
  <2>2. /\ a \in library /\ b \in library
        /\ a.version \in Int /\ b.version \in Int
        /\ a.version <= b.version /\ b.version <= a.version
    BY DEF FindKnowledgeReferences, IsLibrary
  <2>3. RuleKey(a) = RuleKey(b)
    BY <2>2 DEF RuleKey
  <2> QED
    BY <2>1, <2>2, <2>3 DEF Untied
<1> QED
  BY <1>2, <1>3

\* However often the approved language of a clause type is looked up in a
\* context, it is one text, and the text of every approved clause any result of
\* the resolution selects.
THEOREM OneLanguage ==
  ASSUME NEW library, IsLibrary(library), Untied(library), NEW ctx,
         NEW as_of, NEW clause_type,
         \A row \in library : row.clause_type = clause_type,
         NEW t \in ApprovedClauseLanguage(library, ctx, as_of)
  PROVE  /\ \A u \in ApprovedClauseLanguage(library, ctx, as_of) : u = t
         /\ \A result \in Resolutions(library, ctx, as_of) :
              \A row \in result.selected :
                row.source_kind = "approved_clause" => row.reference_text = t
<1> DEFINE Approved(result) == {row \in result.selected :
                                  row.source_kind = "approved_clause"}
           results == Resolutions(library, ctx, as_of)
           Language(result) ==
             IF Approved(result) # {} THEN TextsOf(Approved(result))
             ELSE SimpleLookup(library, ctx.org_profile_id)
<1>1. \A u : u \in ApprovedClauseLanguage(library, ctx, as_of) <=>
               \E result \in results : u \in Language(result)
  BY DEF ApprovedClauseLanguage
<1>2. ASSUME NEW result \in results, NEW row \in result.selected
      PROVE  row \in library /\ row \in Top(InForce(library, ctx, as_of))
  <2>1. row \in Top(InForce(library, ctx, as_of))
    BY ResolutionPicks
  <2> QED
    BY <2>1 DEF Top, InForce, FindStandardsCandidates
<1>3. ASSUME NEW one \in results, NEW a \in Approved(one), NEW two \in results
      PROVE  /\ Approved(two) # {}
             /\ \A b \in Approved(two) : b.reference_text = a.reference_text
  <2>1. \E b \in two.selected : RuleKey(b) = RuleKey(a)
    BY <1>2, ClauseSelected
  <2>2. Approved(two) # {}
    BY <2>1 DEF RuleKey
  <2>3. ASSUME NEW b \in Approved(two)
        PROVE  b.reference_text = a.reference_text
    <3>1. RuleKey(b) = RuleKey(a)
      BY <1>2 DEF RuleKey
    <3> QED
      BY <3>1, SameSelection
  <2> QED
    BY <2>2, <2>3
<1>4. PICK one \in results : t \in Language(one)
  BY <1>1
<1>5. CASE Approved(one) # {}
  <2>1. PICK a \in Approved(one) : t = a.reference_text
    BY <1>4, <1>5 DEF TextsOf
  <2>2. \A two \in results : Language(two) = {t}
    BY <1>3, <2>1 DEF TextsOf
  <2>3. \A u \in ApprovedClauseLanguage(library, ctx, as_of) : u = t
    <3> HIDE DEF Language, results
    <3> QED
      BY <1>1, <2>2
  <2>4. ASSUME NEW result \in results, NEW row \in result.selected,
               row.source_kind = "approved_clause"
        PROVE  row.reference_text = t
    BY <1>3, <2>1, <2>4
  <2> QED
    BY <2>3, <2>4
<1>6. CASE Approved(one) = {}
  <2>1. \A two \in results : Approved(two) = {}
    BY <1>3, <1>6
  <2>2. \A two \in results :
          Language(two) = SimpleLookup(library, ctx.org_profile_id)
    BY <2>1
  <2>3. \A u \in SimpleLookup(library, ctx.org_profile_id) : u = t
    BY <1>4, <2>2, SameSimple
  <2> QED
    BY <1>1, <2>1, <2>2, <2>3
<1> QED
  BY <1>5, <1>6

-----------------------------------------------------------------------------
(***************************************************************************)
(* The risk analysis.                                                      *)
(***************************************************************************)
-----------------------------------------------------------------------------
(***************************************************************************)
(* The inductive invariant.                                                *)
(***************************************************************************)
AfterChecks == {"missing", "reviewed", "uploaded"}

\* Where the analysis is, and that nothing is written before it has a scope.
Stages ==
    /\ pc \in {"start", "review", "checks"} \union AfterChecks
    /\ check \in 1 .. Len(Checks) + 1
    /\ pc \in {"start", "review"} => check = 1
    /\ pc = "checks" => check # Len(Checks) + 1 /\ job.stored
    /\ pc = "start" => flags = {} /\ playbook = {} /\ document_type = None

\* The checks that are behind have saved what they find, unless the country
\* of the governing law could not be read.
Saved ==
    \A i \in DOMAIN Checks :
      i < check => \/ Findings(Checks[i]) \subseteq flags
                   \/ Checks[i] = "unusual_governing_law" /\ "country" \in errors

\* A flag of a check is a finding of it, and the check has been come to.
Found ==
    \A flag \in flags, i \in DOMAIN Checks :
      flag.category = Checks[i] => i <= check /\ flag \in Findings(Checks[i])

\* Only an error ends the checks before the last.
Finished ==
    pc \in AfterChecks /\ job.stored /\ errors \intersect {"scope", "checks"} = {}
      => check = Len(Checks) + 1

\* The scope is the document's, resolved while its row has no type.
Scoped ==
    pc # "start" /\ job.stored /\ "scope" \notin errors
      => context \in ScopesOf(None)

\* Without a failed lookup what was stored with a flag came from the standards.
Looked ==
    "lookup" \notin errors =>
      /\ \A flag \in flags : flag.category = "llm" =>
           /\ flag.compared \in ComparedWith(flag)
           /\ flag.evidence \in StandardsEvidence(flag) \union {{}}
      /\ \A entry \in playbook : entry.position \in ComparedWith(entry.risk_flag)

RiskInv ==
    Stages /\ Saved /\ Found /\ Finished /\ Scoped /\ Looked

-----------------------------------------------------------------------------
(***************************************************************************)
(* What the operators of the analysis depend on.                           *)
(***************************************************************************)
\* The seven checks.
LEMMA SevenChecks ==
  /\ Len(Checks) = 7 /\ DOMAIN Checks = 1 .. 7
  /\ Checks[1] = "duplicate_clause"
  /\ Checks[2] = "auto_renewal"
  /\ Checks[3] = "excessive_liability"
  /\ Checks[4] = "value_threshold"
  /\ Checks[5] = "unusual_governing_law"
  /\ Checks[6] = "compliance_gap"
  /\ Checks[7] = "prohibited_language"
BY DEF Checks

\* What a check finds carries its name.
LEMMA FindingsNamed ==
  ASSUME NEW i \in DOMAIN Checks, NEW flag \in Findings(Checks[i])
  PROVE  flag.category = Checks[i]
BY SevenChecks
   DEF Findings, DuplicateClauses, AutoRenewal, ExcessiveLiability,
       ValueThreshold, UnusualGoverningLaw, ComplianceGaps, ProhibitedLanguage,
       Flag, DocumentFlag

\* Findings are a function of the upload, the settings and the scope.
LEMMA FindingsStay ==
  ASSUME UNCHANGED <<job, settings, context>>, NEW i \in DOMAIN Checks
  PROVE  Findings(Checks[i])' = Findings(Checks[i])
BY SevenChecks
   DEF Findings, DuplicateClauses, AutoRenewal, ExcessiveLiability,
       ValueThreshold, UnusualGoverningLaw, ComplianceGaps, ProhibitedLanguage,
       Flag, DocumentFlag, FirstOf, OfType, StoredClauses, Clauses, PresentTypes,
       ExpectedCountry, FindAllMandatoryAndProhibited, Checks

\* The scopes a type leads to are a function of the upload.
LEMMA ScopesStay ==
  ASSUME job' = job
  PROVE  ScopesOf(None)' = ScopesOf(None)
<1>1. [DocumentRow EXCEPT !.document_type = None]' =
        [DocumentRow EXCEPT !.document_type = None]
  BY DEF DocumentRow
<1> QED
  BY <1>1 DEF ScopesOf

\* The texts of the standards are a function of the type and of the scope.
LEMMA TextsStay ==
  ASSUME context' = context, NEW row, NEW other,
         row.clause_type = other.clause_type
  PROVE  /\ ComparedWith(row)' = ComparedWith(other)
         /\ StandardsEvidence(row)' = StandardsEvidence(other)
         /\ ComparedWith(row) = ComparedWith(other)
         /\ StandardsEvidence(row) = StandardsEvidence(other)
BY DEF ComparedWith, StandardsEvidence

-----------------------------------------------------------------------------
(***************************************************************************)
(* The steps.                                                              *)
(***************************************************************************)
\* A step after the scope is resolved saves findings of the check it is at, and
\* leaves a check only when its findings are saved or the country is unread.
LEMMA ChecksAdvance ==
  ASSUME RiskInv, UNCHANGED <<job, settings, context>>,
         pc # "start", pc' # "start",
         flags \subseteq flags', errors \subseteq errors',
         \A flag \in flags' \ flags, i \in DOMAIN Checks :
           flag.category = Checks[i] => i = check /\ flag \in Findings(Checks[i]),
         \/ check' = check
         \/ /\ check' = check + 1
            /\ \/ Findings(Checks[check]) \subseteq flags'
               \/ /\ Checks[check] = "unusual_governing_law"
                  /\ "country" \in errors'
  PROVE  Saved' /\ Found' /\ Scoped'
<1> USE DEF RiskInv
<1>1. \A i \in DOMAIN Checks : i \in Int
  BY SevenChecks
<1>2. check \in Int
  BY SevenChecks DEF Stages
<1>3. Saved'
  <2> SUFFICES ASSUME NEW i \in DOMAIN Checks, i < check'
               PROVE  \/ Findings(Checks[i])' \subseteq flags'
                      \/ /\ Checks[i] = "unusual_governing_law"
                         /\ "country" \in errors'
    BY DEF Saved, Checks
  <2>1. Findings(Checks[i])' = Findings(Checks[i])
    BY FindingsStay
  <2>2. CASE i < check
    BY <2>1, <2>2 DEF Saved
  <2>3. CASE i = check /\ check' # check
    BY <2>1, <2>3
  <2> QED
    BY <1>1, <1>2, <2>2, <2>3
<1>4. Found'
  <2> SUFFICES ASSUME NEW flag \in flags', NEW i \in DOMAIN Checks,
                      flag.category = Checks[i]
               PROVE  i <= check' /\ flag \in Findings(Checks[i])'
    BY DEF Found, Checks
  <2>1. Findings(Checks[i])' = Findings(Checks[i])
    BY FindingsStay
  <2>2. i <= check /\ flag \in Findings(Checks[i])
    BY <1>1, <1>2 DEF Found
  <2> QED
    BY <1>1, <1>2, <2>1, <2>2
<1>5. Scoped'
  BY ScopesStay DEF Scoped
<1> QED
  BY <1>3, <1>4, <1>5

\* A step that stores no finding of the language model disturbs none.
LEMMA LooksKept ==
  ASSUME Looked, UNCHANGED <<context, playbook>>, errors \subseteq errors',
         \A flag \in flags' \ flags : flag.category # "llm"
  PROVE  Looked'
<1> SUFFICES ASSUME "lookup" \notin errors'
             PROVE  /\ \A flag \in flags' : flag.category = "llm" =>
                         /\ flag.compared \in ComparedWith(flag)'
                         /\ flag.evidence \in StandardsEvidence(flag)' \union {{}}
                    /\ \A entry \in playbook' :
                         entry.position \in ComparedWith(entry.risk_flag)'
  BY DEF Looked
<1>1. ASSUME NEW flag \in flags', flag.category = "llm"
      PROVE  /\ flag.compared \in ComparedWith(flag)'
             /\ flag.evidence \in StandardsEvidence(flag)' \union {{}}
  <2>1. /\ flag.compared \in ComparedWith(flag)
        /\ flag.evidence \in StandardsEvidence(flag) \union {{}}
    BY <1>1 DEF Looked
  <2> QED
    BY <2>1, TextsStay
<1>2. ASSUME NEW entry \in playbook'
      PROVE  entry.position \in ComparedWith(entry.risk_flag)'
  <2>1. entry.position \in ComparedWith(entry.risk_flag)
    BY DEF Looked
  <2> DEFINE flag == entry.risk_flag
  <2>2. ComparedWith(flag)' = ComparedWith(flag)
    BY TextsStay
  <2> QED
    BY <2>1, <2>2
<1> QED
  BY <1>1, <1>2

\* A truncation that leaves nothing out is the scope itself.
LEMMA Untruncated ==
  ASSUME NEW full \in StandardsContexts(Tables, DocumentRow)
  PROVE  Truncated(full, Len(ResolvedInOrder)) = full
BY DEF Truncated, ResolvedInOrder, StandardsContexts

\* The scope is resolved before anything is written.
LEMMA ScopeStep ==
  ASSUME RiskInv, ResolveScope
  PROVE  RiskInv'
<1> USE DEF RiskInv, ResolveScope
<1>1. Stages'
  BY DEF Stages
<1>2. flags' = {} /\ playbook' = {} /\ check' = 1 /\ pc' = "review"
  BY DEF Stages
<1>3. Saved' /\ Found' /\ Finished' /\ Looked'
  BY <1>2, SevenChecks DEF Saved, Found, Finished, Looked, AfterChecks, Checks
<1>4. ASSUME job'.stored, "scope" \notin errors'
      PROVE  context' \in ScopesOf(None)'
  <2>1. PICK full \in StandardsContexts(Tables, DocumentRow),
             n \in 0 .. Len(ResolvedInOrder) :
          /\ context' = Truncated(full, n)
          /\ errors' = IF job.stored /\ n < Len(ResolvedInOrder)
                       THEN {"scope"} ELSE {}
    OBVIOUS
  <2>2. n = Len(ResolvedInOrder)
    BY <1>4, <2>1 DEF ResolvedInOrder
  <2>3. context' \in StandardsContexts(Tables, DocumentRow)
    BY <2>1, <2>2, Untruncated
  <2>4. DocumentRow = [DocumentRow EXCEPT !.document_type = None]
    BY DEF DocumentRow, Stages
  <2>5. context' \in ScopesOf(None)
    BY <2>3, <2>4 DEF ScopesOf
  <2> QED
    BY <2>5, ScopesStay
<1> QED
  BY <1>1, <1>3, <1>4 DEF Scoped

\* A lookup that has not failed has the text of the standards.
LEMMA LookupSound ==
  ASSUME NEW clause, NEW lookups \in SUBSET Lookups(clause),
         "lookup" \notin LookupErrors(lookups), NEW lookup \in lookups
  PROVE  lookup.text \in ComparedWith(clause)
BY DEF LookupErrors, Lookups

\* A finding of the language model is stored with the texts it was given.
LEMMA FlagStep ==
  ASSUME RiskInv, pc = "review", pc' = pc,
         UNCHANGED <<job, document_type, settings, context, check>>,
         NEW clause, NEW severity, NEW sure,
         FlagRisk(clause, severity, sure)
  PROVE  RiskInv'
<1> USE DEF RiskInv
<1>1. PICK compared \in Lookups(clause), position \in Lookups(clause),
           evidence \in StandardsEvidence(clause) \union {{}} :
        LET flag == LlmFlag(clause, AssignedRole(severity, sure),
                            compared.text, evidence) IN
        /\ flags' = flags \union {flag}
        /\ \/ /\ errors' = errors \union LookupErrors({compared})
              /\ UNCHANGED playbook
           \/ /\ SavePlaybookEntry(flag, position.text)
              /\ errors' = errors \union LookupErrors({compared, position})
           \/ /\ errors' = errors \union LookupErrors({compared})
                                  \union {"review"}
              /\ UNCHANGED playbook
  BY DEF FlagRisk
<1>2. PICK flag : flag = LlmFlag(clause, AssignedRole(severity, sure),
                                compared.text, evidence)
  OBVIOUS
<1>3. /\ flags' = flags \union {flag} /\ errors \subseteq errors'
      /\ flag.category = "llm" /\ flag.clause_type = clause.clause_type
      /\ flag.compared = compared.text /\ flag.evidence = evidence
  BY <1>1, <1>2 DEF LlmFlag, Flag
<1>4. \A i \in DOMAIN Checks : flag.category # Checks[i]
  BY <1>3, SevenChecks
<1>5. Stages' /\ Finished'
  BY DEF Stages, Finished, AfterChecks
<1>6. Saved' /\ Found' /\ Scoped'
  BY <1>3, <1>4, ChecksAdvance
<1>7. ASSUME "lookup" \notin errors'
      PROVE  /\ \A old \in flags' : old.category = "llm" =>
                  /\ old.compared \in ComparedWith(old)'
                  /\ old.evidence \in StandardsEvidence(old)' \union {{}}
             /\ \A entry \in playbook' :
                  entry.position \in ComparedWith(entry.risk_flag)'
  <2>1. /\ ComparedWith(flag)' = ComparedWith(clause)
        /\ StandardsEvidence(flag)' = StandardsEvidence(clause)
    BY <1>3, TextsStay
  <2>2. ASSUME NEW old \in flags, old.category = "llm"
        PROVE  /\ old.compared \in ComparedWith(old)'
               /\ old.evidence \in StandardsEvidence(old)' \union {{}}
    <3>1. /\ ComparedWith(old)' = ComparedWith(old)
          /\ StandardsEvidence(old)' = StandardsEvidence(old)
      BY TextsStay
    <3>2. "lookup" \notin errors
      BY <1>3, <1>7
    <3> QED
      BY <2>2, <3>1, <3>2 DEF Looked
  <2>3. ASSUME NEW entry \in playbook
        PROVE  entry.position \in ComparedWith(entry.risk_flag)'
    <3> DEFINE former == entry.risk_flag
    <3>1. ComparedWith(former)' = ComparedWith(former)
      BY TextsStay
    <3> QED
      BY <1>3, <1>7, <3>1 DEF Looked
  <2>4. "lookup" \notin LookupErrors({compared})
    BY <1>1, <1>7 DEF LookupErrors
  <2>5. flag.compared \in ComparedWith(flag)'
    BY <1>3, <2>1, <2>4, LookupSound
  <2>6. flag.evidence \in StandardsEvidence(flag)' \union {{}}
    BY <1>3, <2>1
  <2>7. ASSUME NEW entry \in playbook' \ playbook
        PROVE  entry.position \in ComparedWith(entry.risk_flag)'
    <3>1. /\ SavePlaybookEntry(flag, position.text)
          /\ errors' = errors \union LookupErrors({compared, position})
      BY <1>1, <1>2, <2>7
    <3>2. entry.risk_flag = flag /\ entry.position = position.text
      BY <3>1, <2>7 DEF SavePlaybookEntry
    <3>3. position.text \in ComparedWith(clause)
      BY <1>7, <3>1, LookupSound
    <3> QED
      BY <2>1, <3>2, <3>3
  <2>8. ASSUME NEW old \in flags', old.category = "llm"
        PROVE  /\ old.compared \in ComparedWith(old)'
               /\ old.evidence \in StandardsEvidence(old)' \union {{}}
    <3>1. CASE old \in flags
      BY <2>2, <2>8, <3>1
    <3>2. CASE old = flag
      BY <2>5, <2>6, <3>2
    <3> QED
      BY <1>3, <3>1, <3>2
  <2>9. ASSUME NEW entry \in playbook'
        PROVE  entry.position \in ComparedWith(entry.risk_flag)'
    BY <2>3, <2>7
  <2> QED
    BY <2>8, <2>9
<1>8. Looked'
  BY <1>7 DEF Looked
<1> QED
  BY <1>5, <1>6, <1>8

\* A clause of the review: a finding, nothing, or an error.
LEMMA ReviewStep ==
  ASSUME RiskInv, ReviewClause
  PROVE  RiskInv'
<1> DEFINE clause == job.clauses[Head(todo)]
<1> USE DEF RiskInv, ReviewClause
<1>1. PICK it : it = clause
  OBVIOUS
<1>2. CASE \E severity \in Severities, sure \in BOOLEAN :
             FlagRisk(it, severity, sure)
  BY <1>2, FlagStep
<1>3. CASE UNCHANGED <<flags, playbook>> /\ errors \subseteq errors'
  <2>1. Stages' /\ Finished'
    BY <1>3 DEF Stages, Finished, AfterChecks
  <2>2. Saved' /\ Found' /\ Scoped'
    BY <1>3, ChecksAdvance
  <2>3. Looked'
    BY <1>3, LooksKept
  <2> QED
    BY <2>1, <2>2, <2>3
<1> QED
  BY <1>1, <1>2, <1>3

LEMMA ReviewEndsStep ==
  ASSUME RiskInv, ReviewEnds
  PROVE  RiskInv'
<1> USE DEF RiskInv, ReviewEnds
<1>1. Stages' /\ Finished'
  BY SevenChecks DEF Stages, Finished, AfterChecks
<1>2. Saved' /\ Found' /\ Scoped'
  BY ChecksAdvance
<1>3. Looked'
  BY LooksKept
<1> QED
  BY <1>1, <1>2, <1>3

\* The check at hand is one of the seven.
LEMMA AtACheck ==
  ASSUME Stages, pc = "checks"
  PROVE  check \in DOMAIN Checks
BY SevenChecks DEF Stages

\* What a check finds is not a finding of the language model.
LEMMA FindingsNotLlm ==
  ASSUME NEW i \in DOMAIN Checks, NEW flag \in Findings(Checks[i])
  PROVE  flag.category # "llm"
BY SevenChecks, FindingsNamed

LEMMA SaveFindingStep ==
  ASSUME RiskInv, SaveFinding
  PROVE  RiskInv'
<1> USE DEF RiskInv, SaveFinding
<1>1. check \in DOMAIN Checks
  BY AtACheck
<1>2. PICK flag \in Findings(Checks[check]) : flags' = flags \union {flag}
  BY DEF Unsaved
<1>3. flag.category = Checks[check]
  BY <1>1, <1>2, FindingsNamed
<1>4. \A new \in flags' \ flags, i \in DOMAIN Checks :
        new.category = Checks[i] => i = check /\ new \in Findings(Checks[i])
  BY <1>1, <1>2, <1>3, SevenChecks
<1>5. Stages' /\ Finished'
  BY DEF Stages, Finished, AfterChecks
<1>6. Saved' /\ Found' /\ Scoped'
  BY <1>2, <1>4, ChecksAdvance
<1>7. flag.category # "llm"
  BY <1>1, <1>2, FindingsNotLlm
<1>8. Looked'
  BY <1>2, <1>7, LooksKept
<1> QED
  BY <1>5, <1>6, <1>8

LEMMA CheckEndsStep ==
  ASSUME RiskInv, CheckEnds
  PROVE  RiskInv'
<1> USE DEF RiskInv, CheckEnds
<1>1. check \in DOMAIN Checks
  BY AtACheck
<1>2. Findings(Checks[check]) \subseteq flags'
  BY DEF Unsaved
<1>3. Stages' /\ Finished'
  BY <1>1, SevenChecks DEF Stages, Finished, AfterChecks
<1>4. Saved' /\ Found' /\ Scoped'
  BY <1>2, ChecksAdvance
<1>5. Looked'
  BY LooksKept
<1> QED
  BY <1>3, <1>4, <1>5

LEMMA CheckFailsStep ==
  ASSUME RiskInv, CheckFails
  PROVE  RiskInv'
<1> USE DEF RiskInv, CheckFails
<1>1. Stages' /\ Finished'
  BY DEF Stages, Finished, AfterChecks
<1>2. Saved' /\ Found' /\ Scoped'
  BY ChecksAdvance
<1>3. Looked'
  BY LooksKept
<1> QED
  BY <1>1, <1>2, <1>3

\* The fifth check is passed over, so that the last is still ahead.
LEMMA CountryStep ==
  ASSUME RiskInv, CountryLookupFails
  PROVE  RiskInv'
<1> USE DEF RiskInv, CountryLookupFails
<1>1. check = 5
  BY AtACheck, SevenChecks
<1>2. Stages' /\ Finished'
  BY <1>1, SevenChecks DEF Stages, Finished, AfterChecks
<1>3. Saved' /\ Found' /\ Scoped'
  BY ChecksAdvance
<1>4. Looked'
  BY LooksKept
<1> QED
  BY <1>2, <1>3, <1>4

LEMMA MissingStep ==
  ASSUME RiskInv, FlagMissingClauses
  PROVE  RiskInv'
<1> USE DEF RiskInv, FlagMissingClauses
<1>1. /\ \A flag \in flags' \ flags : flag.category = "missing_clause"
      /\ flags \subseteq flags'
      /\ errors' = errors \/ errors' = errors \union {"missing"}
  BY DEF Flag
<1>2. Stages' /\ Finished'
  BY <1>1 DEF Stages, Finished, AfterChecks
<1>3. Saved' /\ Found' /\ Scoped'
  BY <1>1, SevenChecks, ChecksAdvance
<1>4. Looked'
  BY <1>1, LooksKept
<1> QED
  BY <1>2, <1>3, <1>4

LEMMA FinishStep ==
  ASSUME RiskInv, FinishUpload
  PROVE  RiskInv'
<1> USE DEF RiskInv, FinishUpload
<1>1. errors' = errors \/ errors' = errors \union {"upload"}
  OBVIOUS
<1>2. Stages' /\ Finished'
  BY <1>1 DEF Stages, Finished, AfterChecks
<1>3. Saved' /\ Found' /\ Scoped'
  BY <1>1, ChecksAdvance
<1>4. Looked'
  BY <1>1, LooksKept
<1> QED
  BY <1>2, <1>3, <1>4

-----------------------------------------------------------------------------
(***************************************************************************)
(* The theorems.                                                           *)
(***************************************************************************)
Rests == pc = "resting" /\ job \in Questions /\ flags = {}

\* What rests makes no step.
LEMMA StepsDoNotRest == Next => pc # "resting"
<1>1. ResolveScope => pc # "resting"
  BY DEF ResolveScope
<1>2. ReviewClause => pc # "resting"
  BY DEF ReviewClause
<1>3. ReviewEnds => pc # "resting"
  BY DEF ReviewEnds
<1>4. SaveFinding => pc # "resting"
  BY DEF SaveFinding
<1>5. CheckEnds => pc # "resting"
  BY DEF CheckEnds
<1>6. CheckFails => pc # "resting"
  BY DEF CheckFails
<1>7. CountryLookupFails => pc # "resting"
  BY DEF CountryLookupFails
<1>8. FlagMissingClauses => pc # "resting"
  BY DEF FlagMissingClauses
<1>9. FinishUpload => pc # "resting"
  BY DEF FinishUpload
<1> QED
  BY <1>1, <1>2, <1>3, <1>4, <1>5, <1>6, <1>7, <1>8, <1>9 DEF Next

\* Whatever is uploaded, whatever the library holds and wherever the review, a
\* lookup, a check or an insert fails, the analysis keeps its invariant; what
\* rests keeps its question.
THEOREM RulesInvariant == RulesSpec => [](RiskInv \/ Rests)
<1>1. Init => RiskInv
  BY SevenChecks
     DEF Init, RiskInv, Stages, Saved, Found, Finished, Scoped, Looked, AfterChecks
<1>2. Resting => Rests
  BY DEF Resting, Rests
<1>3. Rests /\ [Next]_vars => Rests'
  BY StepsDoNotRest DEF Rests, vars
<1>4. RiskInv /\ [Next]_vars => RiskInv'
  <2> SUFFICES ASSUME RiskInv, [Next]_vars
               PROVE  RiskInv'
    OBVIOUS
  <2>1. CASE ResolveScope
    BY <2>1, ScopeStep
  <2>2. CASE ReviewClause
    BY <2>2, ReviewStep
  <2>3. CASE ReviewEnds
    BY <2>3, ReviewEndsStep
  <2>4. CASE SaveFinding
    BY <2>4, SaveFindingStep
  <2>5. CASE CheckEnds
    BY <2>5, CheckEndsStep
  <2>6. CASE CheckFails
    BY <2>6, CheckFailsStep
  <2>7. CASE CountryLookupFails
    BY <2>7, CountryStep
  <2>8. CASE FlagMissingClauses
    BY <2>8, MissingStep
  <2>9. CASE FinishUpload
    BY <2>9, FinishStep
  <2>10. CASE UNCHANGED vars
    <3> USE <2>10 DEF vars, RiskInv
    <3>1. Stages' /\ Finished'
      BY DEF Stages, Finished, AfterChecks
    <3>2. CASE pc = "start"
      <4>1. flags' = {} /\ check' = 1
        BY <3>2 DEF Stages
      <4>2. Saved' /\ Found'
        BY <4>1, SevenChecks DEF Saved, Found, Checks
      <4>3. Scoped'
        BY <3>2 DEF Scoped
      <4> QED
        BY <3>1, <4>2, <4>3, LooksKept
    <3>3. CASE pc # "start"
      <4>1. Saved' /\ Found' /\ Scoped'
        BY <3>3, ChecksAdvance
      <4> QED
        BY <3>1, <4>1, LooksKept
    <3> QED
      BY <3>1, <3>2, <3>3, LooksKept
  <2> QED
    BY <2>1, <2>2, <2>3, <2>4, <2>5, <2>6, <2>7, <2>8, <2>9, <2>10 DEF Next
<1> QED
  BY <1>1, <1>2, <1>3, <1>4, PTL DEF RulesSpec

\* The standards in force whatever the type of a document have been applied
\* when the checks went through.
LEMMA AppliedWhenFinished ==
  ASSUME RiskInv, context \in ScopesOf(None), check = Len(Checks) + 1
  PROVE  StandardsApplied(None)
<1> SUFFICES ASSUME NEW row \in Tables.library,
                    IsActiveAndApproved(row, Today),
                    \A scope \in ScopesOf(None) : ScopeCompatible(row, scope)
             PROVE  /\ row.is_mandatory /\ row.clause_type \notin PresentTypes
                         => Reported("compliance_gap", row.clause_type)
                    /\ row.is_prohibited /\ row.clause_type \in PresentTypes
                         => Reported("prohibited_language", row.clause_type)
  BY DEF StandardsApplied
<1>1. /\ ComplianceGaps \subseteq flags
      /\ ProhibitedLanguage \subseteq flags
  BY SevenChecks DEF RiskInv, Saved, Findings
<1>2. /\ row.is_mandatory => row \in FindAllMandatoryAndProhibited.mandatory
      /\ row.is_prohibited => row \in FindAllMandatoryAndProhibited.prohibited
  BY DEF FindAllMandatoryAndProhibited, CheckMandatoryAndProhibited,
         FindStandardsCandidates
<1>3. ASSUME row.is_mandatory, row.clause_type \notin PresentTypes
      PROVE  Reported("compliance_gap", row.clause_type)
  <2> DEFINE flag == Flag("compliance_gap", None, row.clause_type, "reviewer")
  <2>1. flag \in ComplianceGaps
    BY <1>2, <1>3 DEF ComplianceGaps, TypesOf
  <2> QED
    BY <1>1, <2>1 DEF Reported, Flag
<1>4. ASSUME row.is_prohibited, row.clause_type \in PresentTypes
      PROVE  Reported("prohibited_language", row.clause_type)
  <2> DEFINE clause == FirstOf(OfType(Clauses, row.clause_type))
             flag == Flag("prohibited_language",
                          IF clause.stored THEN clause.id ELSE None,
                          row.clause_type, "senior_counsel")
  <2>1. flag \in ProhibitedLanguage
    BY <1>2, <1>4 DEF ProhibitedLanguage, TypesOf
  <2>2. /\ flag.category = "prohibited_language"
        /\ flag.clause_type = row.clause_type
    BY DEF Flag
  <2> QED
    BY <1>1, <2>1, <2>2 DEF Reported
<1> QED
  BY <1>3, <1>4

\* A flag of the last two checks has its standard.
LEMMA FlagsHaveStandards ==
  ASSUME RiskInv, context \in ScopesOf(None), NEW flag \in flags,
         flag.category \in {"compliance_gap", "prohibited_language"}
  PROVE  \E row \in Library(flag.clause_type), scope \in ScopesOf(None) :
           IsActiveAndApproved(row, Today) /\ ScopeCompatible(row, scope)
<1> DEFINE rows == {row \in FindStandardsCandidates(Tables.library, context) :
                      IsActiveAndApproved(row, Today)}
<1>1. flag \in ComplianceGaps \union ProhibitedLanguage
  BY SevenChecks DEF RiskInv, Found, Findings
<1>2. flag.clause_type \in TypesOf(rows)
  <2>1. /\ FindAllMandatoryAndProhibited.mandatory \subseteq rows
        /\ FindAllMandatoryAndProhibited.prohibited \subseteq rows
    BY DEF FindAllMandatoryAndProhibited, CheckMandatoryAndProhibited
  <2>2. CASE flag \in ComplianceGaps
    BY <2>1, <2>2 DEF ComplianceGaps, TypesOf, Flag
  <2>3. CASE flag \in ProhibitedLanguage
    BY <2>1, <2>3 DEF ProhibitedLanguage, TypesOf, Flag
  <2> QED
    BY <1>1, <2>2, <2>3
<1>3. PICK row \in rows : row.clause_type = flag.clause_type
  BY <1>2 DEF TypesOf
<1>4. row \in Library(flag.clause_type) /\ ScopeCompatible(row, context)
  BY <1>3 DEF Library, FindStandardsCandidates
<1> QED
  BY <1>3, <1>4

\* An error in the checks loses the findings of its own check and of those
\* after it, never of an earlier one; without one, every standard in force
\* whatever the type is applied, and no flag lacks its standard
\* (ChecksReported).
THEOREM ChecksAreReported == RulesSpec => []ChecksReported
<1>1. RiskInv => ChecksReported
  <2> SUFFICES ASSUME RiskInv
               PROVE  ChecksReported
    OBVIOUS
  <2>1. ASSUME NEW i \in DOMAIN Checks, NEW j \in DOMAIN Checks, i < j,
               NEW flag \in flags, flag.category = Checks[j]
        PROVE  \/ Findings(Checks[i]) \subseteq flags
               \/ Checks[i] = "unusual_governing_law" /\ "country" \in errors
    BY <2>1, SevenChecks DEF RiskInv, Stages, Saved, Found
  <2>2. ASSUME pc \in AfterChecks, job.stored,
               errors \intersect {"scope", "checks"} = {}
        PROVE  context \in ScopesOf(None) /\ check = Len(Checks) + 1
    BY <2>2 DEF RiskInv, Scoped, Finished, AfterChecks
  <2> QED
    BY <2>1, <2>2, AppliedWhenFinished, FlagsHaveStandards
       DEF ChecksReported, AfterChecks
<1>2. Rests => ChecksReported
  BY DEF Rests, ChecksReported
<1> QED
  BY <1>1, <1>2, RulesInvariant, PTL

\* One approved text per clause type, when no two standards tie.
LEMMA OneText ==
  ASSUME ~Tie, NEW clause, clause.clause_type # None,
         NEW t \in ComparedWith(clause)
  PROVE  /\ \A u \in ComparedWith(clause) : u = t
         /\ \A evidence \in StandardsEvidence(clause),
               row \in Library(clause.clause_type) :
              /\ row.knowledge_reference_id \in evidence
              /\ row.source_kind = "approved_clause"
              => row.reference_text = t
<1> DEFINE rows == Library(clause.clause_type)
<1>1. rows \in SUBSET Tables.library
  BY DEF Library
<1>2. IsLibrary(rows)
  BY <1>1, TablesOK, FS_Subset DEF IsLibrary
<1>3. Untied(rows)
  BY <1>1 DEF Untied, Tie
<1>4. \A row \in rows : row.clause_type = clause.clause_type
  BY DEF Library
<1>5. ComparedWith(clause) = ApprovedClauseLanguage(rows, context, Today)
  BY DEF ComparedWith
<1>6. StandardsEvidence(clause) =
        {{row.knowledge_reference_id : row \in result.selected} :
           result \in Resolutions(rows, context, Today)}
  BY DEF StandardsEvidence
<1>7. ASSUME NEW result \in Resolutions(rows, context, Today)
      PROVE  result.selected \subseteq rows
  <2>1. result.selected \subseteq Top(InForce(rows, context, Today))
    BY <1>2, <1>7, ResolutionPicks
  <2> QED
    BY <2>1 DEF Top, InForce, FindStandardsCandidates
<1> HIDE DEF rows
<1>8. /\ \A u \in ApprovedClauseLanguage(rows, context, Today) : u = t
      /\ \A result \in Resolutions(rows, context, Today) :
           \A row \in result.selected :
             row.source_kind = "approved_clause" => row.reference_text = t
  <2>1. t \in ApprovedClauseLanguage(rows, context, Today)
    BY <1>5
  <2> QED
    BY <1>2, <1>3, <1>4, <2>1, OneLanguage
<1>9. ASSUME NEW evidence \in StandardsEvidence(clause), NEW row \in rows,
             row.knowledge_reference_id \in evidence,
             row.source_kind = "approved_clause"
      PROVE  row.reference_text = t
  <2>1. PICK result \in Resolutions(rows, context, Today) :
          evidence = {other.knowledge_reference_id : other \in result.selected}
    BY <1>6
  <2>2. PICK other \in result.selected :
          other.knowledge_reference_id = row.knowledge_reference_id
    BY <1>9, <2>1
  <2>3. other = row
    BY <1>1, <1>7, <2>2, TablesOK
  <2> QED
    BY <1>8, <1>9, <2>3
<1> QED
  BY <1>5, <1>8, <1>9 DEF rows

\* What a reviewer is shown of a clause agrees: unless two standards tie or a
\* lookup failed, the redline of the playbook is the text the deviation is
\* measured against and that of the approved clause in the evidence
\* (RedlineIsBacked).
THEOREM RedlinesBacked == RulesSpec => []RedlineIsBacked
<1>1. RiskInv => RedlineIsBacked
  <2> SUFFICES ASSUME RiskInv, ~Tie, "lookup" \notin errors,
                      NEW flag \in flags, flag.category = "llm",
                      flag.compared # None
               PROVE  /\ \A entry \in playbook :
                           entry.risk_flag = flag /\ entry.position # None
                             => entry.position = flag.compared
                      /\ \A row \in Library(flag.clause_type) :
                           /\ row.knowledge_reference_id \in flag.evidence
                           /\ row.source_kind = "approved_clause"
                           => row.reference_text = flag.compared
    BY DEF RedlineIsBacked
  <2>1. /\ flag.compared \in ComparedWith(flag)
        /\ flag.evidence \in StandardsEvidence(flag) \union {{}}
        /\ \A entry \in playbook :
             entry.position \in ComparedWith(entry.risk_flag)
    BY DEF RiskInv, Looked
  <2>2. flag.clause_type # None
    BY <2>1 DEF ComparedWith
  <2> QED
    BY <2>1, <2>2, OneText
<1>2. Rests => RedlineIsBacked
  BY DEF Rests, RedlineIsBacked
<1> QED
  BY <1>1, <1>2, RulesInvariant, PTL

\* Section 11 of the standards, for whatever libraries are asked about: the
\* walk of resolve_standards down its hierarchy ends at the most specific rows
\* in force and loses none of the texts below.
THEOREM MostSpecificResolved == RulesSpec => []ResolvesMostSpecific
<1>1. RiskInv => ResolvesMostSpecific
  BY DEF RiskInv, Stages, AfterChecks, ResolvesMostSpecific, Asks
<1>2. Rests => ResolvesMostSpecific
  <2> SUFFICES ASSUME Rests, pc = "resting", job[1] = "standards",
                      NEW c \in Contexts
               PROVE  SoundResolution(Question, c, Today)
    BY DEF ResolvesMostSpecific, Asks
  <2>1. Question \in Libraries
    BY DEF Rests, Questions, Question
  <2>2. IsLibrary(Question)
    BY <2>1, RulesOK
  <2>3. Today \in Int
    BY DEF Today
  <2> QED
    BY <2>2, <2>3, ResolutionSound
<1> QED
  BY <1>1, <1>2, RulesInvariant, PTL

\* combine_classification, for whatever texts, answers and page shares: the
\* level of a document is never below its labels, its signals or the answer.
THEOREM LevelIsNeverTooLow == RulesSpec => []LevelNeverTooLow
<1>1. RiskInv => LevelNeverTooLow
  BY DEF RiskInv, Stages, AfterChecks, LevelNeverTooLow, Asks
<1>2. Rests => LevelNeverTooLow
  <2> SUFFICES ASSUME Rests, pc = "resting", job[1] = "confidentiality",
                      NEW answer \in Answers, NEW ocr_ratio \in OcrRatios
               PROVE  SoundClassification(Question, answer, ocr_ratio)
    BY DEF LevelNeverTooLow, Asks
  <2>1. Question \in Texts
    BY DEF Rests, Questions, Question
  <2>2. Question \in Text /\ answer \in Answer /\ ocr_ratio \in Int
    BY <2>1, RulesOK DEF Text, Answer
  <2> QED
    BY <2>2, LevelSound
<1> QED
  BY <1>1, <1>2, RulesInvariant, PTL
=============================================================================
