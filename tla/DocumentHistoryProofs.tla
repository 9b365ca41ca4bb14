----------------------- MODULE DocumentHistoryProofs -----------------------
(***************************************************************************)
(* Proofs about DocumentHistory, for any workers, texts, levels and number *)
(* of versions and changes.                                                *)
(*                                                                         *)
(* The property about version numbers is not inductive: the number of a    *)
(* row was read in an earlier step than the one that inserts it.  The      *)
(* inductive invariant therefore speaks of the requests in flight too: the *)
(* numbers they have read, the versions they restore, and the document row *)
(* they have read and are about to change.                                 *)
(***************************************************************************)
EXTENDS DocumentHistory, TLAPS, FiniteSetTheorems

-----------------------------------------------------------------------------
(***************************************************************************)
(* The inductive invariant.                                                *)
(***************************************************************************)

\* Every worker has a place for what its transaction read.
RequestsTyped == req \in [Workers -> SummaryDraft \union LevelChange \union {None}]

\* A version's number is at most its place, one of them is the highest, and a
\* number that was read for the next row has its predecessor in the table.
NumbersSound ==
    /\ \A i \in DOMAIN versions :
         /\ versions[i].number <= i
         /\ versions[i].number > 1 =>
              \E j \in 1 .. i - 1 : versions[j].number = versions[i].number - 1
    /\ versions # <<>> =>
         \E i \in DOMAIN versions :
           \A j \in DOMAIN versions : versions[j].number <= versions[i].number
    /\ \A w \in Workers : pc[w] = "last_read" =>
         /\ req[w].number \in 1 .. Len(versions) + 1
         /\ req[w].number > 1 =>
              \E j \in DOMAIN versions : versions[j].number = req[w].number - 1

\* There is room for every version that is being added.
RoomSound == Len(versions) + Cardinality(Adding) <= MaxVersions

\* the workers about to insert a row with number n
Inserting(n) == {w \in Workers : pc[w] = "last_read" /\ req[w].number = n}

\* The rows with one number, and those that are about to get it, are at most
\* as many as the workers.
TwinsBounded ==
    \A n \in Nat :
      Cardinality(Rows(n)) + Cardinality(Inserting(n)) <= Cardinality(Workers)

\* A restore holds the text of the version it names.
RestoresSound ==
    \A w \in Workers :
      pc[w] \in {"adding", "last_read"} /\ req[w].restored_from # NoVersion =>
        /\ req[w].human
        /\ \E j \in DOMAIN versions :
             /\ versions[j].number = req[w].restored_from
             /\ versions[j].text = req[w].text

\* A change of the level sets one of the levels and says who sets it; an
\* automatic one was not read over a human's.
ChangesSound ==
    \A w \in Changing :
      /\ req[w].write.level \in Levels /\ req[w].write.source \in Sources
      /\ req[w].write.source = "manual_override" => ~req[w].write.needs_confirmation
      /\ req[w].write.source = "automatic" => req[w].read.source # "manual_override"

\* Without overlapping transactions a change has read the row as it still is.
RowSound ==
    ~overlapped =>
      /\ \A v, w \in Changing : v = w
      /\ \A w \in Changing : req[w].read = doc

DocInv ==
    /\ TypeOK /\ RequestsTyped /\ NumbersSound /\ RoomSound /\ TwinsBounded
    /\ RestoresSound /\ ChangesSound /\ RowSound
    /\ LatestRowShown /\ OverrideStands

-----------------------------------------------------------------------------
(***************************************************************************)
(* Types.                                                                  *)
(***************************************************************************)

\* The sets of requests and of rows that the invariant counts are finite.
LEMMA FiniteCounts ==
  ASSUME TypeOK
  PROVE  /\ IsFiniteSet(Adding) /\ IsFiniteSet(Changing)
         /\ Cardinality(Adding) \in Nat /\ Cardinality(Workers) \in Nat
         /\ \A n : /\ IsFiniteSet(Inserting(n)) /\ IsFiniteSet(Rows(n))
                   /\ Cardinality(Inserting(n)) \in Nat /\ Cardinality(Rows(n)) \in Nat
<1>1. IsFiniteSet(Workers)
  BY ConstantsOK
<1>2. Adding \in SUBSET Workers /\ Changing \in SUBSET Workers
      /\ \A n : Inserting(n) \in SUBSET Workers
  BY DEF Adding, Changing, Inserting
<1>3. IsFiniteSet(Adding) /\ IsFiniteSet(Changing) /\ \A n : IsFiniteSet(Inserting(n))
  BY <1>1, <1>2, FS_Subset
<1>4. IsFiniteSet(DOMAIN versions)
  <2>1. DOMAIN versions = 1 .. Len(versions) /\ Len(versions) \in Nat
    BY DEF TypeOK
  <2>. QED  BY <2>1, FS_Interval
<1>5. \A n : Rows(n) \in SUBSET DOMAIN versions
  BY DEF Rows
<1>6. \A n : IsFiniteSet(Rows(n))
  BY <1>4, <1>5, FS_Subset
<1>. QED  BY <1>1, <1>3, <1>6, FS_CardinalityType

\* The next number follows the highest one, or is the first.
LEMMA NextNumberFollows ==
  ASSUME TypeOK, NumbersSound
  PROVE  /\ NextNumber \in 1 .. Len(versions) + 1
         /\ NextNumber > 1 => \E j \in DOMAIN versions : versions[j].number = NextNumber - 1
         /\ \A j \in DOMAIN versions : versions[j].number < NextNumber
<1>1. /\ Len(versions) \in Nat /\ DOMAIN versions = 1 .. Len(versions)
      /\ \A j \in DOMAIN versions : versions[j].number \in Nat \ {0}
      /\ (versions = <<>> => Len(versions) = 0)
  <2>1. versions \in Seq(SummaryVersion)
    BY DEF TypeOK
  <2>2. Len(versions) \in Nat /\ DOMAIN versions = 1 .. Len(versions)
        /\ \A j \in DOMAIN versions : versions[j] \in SummaryVersion
    BY <2>1, SMT
  <2>3. \A v \in SummaryVersion : v.number \in Nat \ {0}
    BY ConstantsOK, SMT DEF SummaryVersion, Numbers
  <2>4. versions = <<>> => Len(versions) = 0
    BY SMT
  <2>. QED  BY <2>2, <2>3, <2>4, Zenon
<1>2. CASE versions = <<>>
  BY <1>1, <1>2, SMT DEF NextNumber
<1>3. CASE versions # <<>>
  <2>. DEFINE Next_(n) == /\ Rows(n - 1) # {}
                          /\ \A i \in DOMAIN versions : versions[i].number < n
  <2>1. PICK i \in DOMAIN versions :
          \A j \in DOMAIN versions : versions[j].number <= versions[i].number
    BY <1>3 DEF NumbersSound
  <2>2. versions[i].number <= i /\ i \in 1 .. Len(versions) /\ versions[i].number \in Nat \ {0}
    BY <1>1 DEF NumbersSound
  <2>3. versions[i].number + 1 \in 2 .. Len(versions) + 1
    BY <1>1, <2>2, SMT
  <2>4. Rows((versions[i].number + 1) - 1) # {}
    <3>1. (versions[i].number + 1) - 1 = versions[i].number
      BY <2>2, SMT
    <3>2. i \in Rows(versions[i].number)
      BY DEF Rows
    <3>. QED  BY <3>1, <3>2
  <2>5. \A j \in DOMAIN versions : versions[j].number < versions[i].number + 1
    BY <1>1, <2>1, <2>2, SMT
  <2>6. Next_(versions[i].number + 1)
    BY <2>4, <2>5
  <2>7. NextNumber = CHOOSE n \in 2 .. Len(versions) + 1 : Next_(n)
    BY <1>3 DEF NextNumber
  <2>. HIDE DEF Next_
  <2>8. NextNumber \in 2 .. Len(versions) + 1 /\ Next_(NextNumber)
    BY <2>3, <2>6, <2>7, Zenon
  <2>. USE DEF Next_
  <2>9. \E j \in DOMAIN versions : versions[j].number = NextNumber - 1
    BY <2>8 DEF Rows
  <2>. QED  BY <1>1, <2>8, <2>9, SMT
<1>. QED  BY <1>2, <1>3

\* A changed row is a row.
LEMMA UpdatedTyped ==
  ASSUME doc \in DocumentRow, NEW read \in DocumentRow, NEW write \in DocumentRow
  PROVE  /\ Updated(read, write) \in DocumentRow
         /\ read = doc => Updated(read, write) = write
<1>. DEFINE new == Updated(read, write)
<1>1. DOMAIN doc = {"level", "source", "needs_confirmation"}
  BY DEF DocumentRow
<1>2. new = [c \in {"level", "source", "needs_confirmation"} |->
               IF write[c] # read[c] THEN write[c] ELSE doc[c]]
  BY <1>1 DEF Updated
<1>3. new = [level |-> new["level"], source |-> new["source"],
             needs_confirmation |-> new["needs_confirmation"]]
  BY <1>2
<1>4. /\ new["level"] = IF write["level"] # read["level"] THEN write["level"] ELSE doc["level"]
      /\ new["source"] = IF write["source"] # read["source"] THEN write["source"] ELSE doc["source"]
      /\ new["needs_confirmation"] =
           IF write["needs_confirmation"] # read["needs_confirmation"]
           THEN write["needs_confirmation"] ELSE doc["needs_confirmation"]
  BY <1>2
<1>. HIDE DEF new
<1>5. new \in DocumentRow
  BY <1>3, <1>4 DEF DocumentRow
<1>6. ASSUME read = doc PROVE new = write
  <2>1. new["level"] = write["level"] /\ new["source"] = write["source"]
        /\ new["needs_confirmation"] = write["needs_confirmation"]
    BY <1>4, <1>6
  <2>2. write = [level |-> write["level"], source |-> write["source"],
                 needs_confirmation |-> write["needs_confirmation"]]
    BY DEF DocumentRow
  <2>. QED  BY <1>3, <2>1, <2>2
<1>. QED  BY <1>5, <1>6 DEF new

\* The values the code assigns to a request have the type of the stage it is at.
LEMMA RequestValues ==
  ASSUME TypeOK, RequestsTyped, NEW w \in Workers
  PROVE  /\ pc[w] \in {"adding", "last_read"} =>
              req[w] \in SummaryDraft /\ w \in Adding
         /\ pc[w] = "document_read" => req[w] \in LevelChange
         /\ pc[w] \in {"idle", "classifying"} => req[w] = None
<1>1. req[w] \in Requests(pc[w])
  BY DEF TypeOK
<1>. QED  BY <1>1, SMT DEF Requests, Adding

\* Where the workers are, and what is in flight, stays typed.
LEMMA RequestStep ==
  ASSUME TypeOK, RequestsTyped, NumbersSound, RoomSound, NEW w \in Workers,
         NEW stage \in {"idle", "adding", "last_read", "classifying", "document_read"},
         NEW value \in Requests(stage),
         pc' = [pc EXCEPT ![w] = stage], req' = [req EXCEPT ![w] = value]
  PROVE  /\ pc' \in [Workers -> {"idle", "adding", "last_read", "classifying",
                                 "document_read"}]
         /\ \A v \in Workers : req'[v] \in Requests(pc'[v])
         /\ RequestsTyped'
<1>1. /\ pc \in [Workers -> {"idle", "adding", "last_read", "classifying",
                             "document_read"}]
      /\ \A v \in Workers : req[v] \in Requests(pc[v])
  BY DEF TypeOK
<1>2. req \in [Workers -> SummaryDraft \union LevelChange \union {None}]
  BY DEF RequestsTyped
<1>3. value \in SummaryDraft \union LevelChange \union {None}
  BY SMT DEF Requests
<1>4. req' \in [Workers -> SummaryDraft \union LevelChange \union {None}]
  BY <1>2, <1>3
<1>5. \A v \in Workers : req'[v] \in Requests(pc'[v])
  BY <1>1, <1>2
<1>. QED  BY <1>1, <1>4, <1>5 DEF RequestsTyped

\* A draft is a draft whatever number it has got.
LEMMA DraftTyped ==
  /\ \A text \in Texts, human \in BOOLEAN, from \in Numbers \union {NoVersion} :
       Draft(text, human, from) \in SummaryDraft
  /\ \A d \in SummaryDraft, n \in Numbers \union {NoVersion} :
       /\ [d EXCEPT !.number = n] \in SummaryDraft
       /\ [d EXCEPT !.number = n].number = n
       /\ [d EXCEPT !.number = n].text = d.text
       /\ [d EXCEPT !.number = n].human = d.human
       /\ [d EXCEPT !.number = n].restored_from = d.restored_from
BY SMT DEF Draft, SummaryDraft, NoVersion

\* An added version leaves the room as it was; a request that is given up
\* returns its room.
LEMMA RoomKept ==
  ASSUME TypeOK, RoomSound, NEW w \in Workers, NEW stage,
         pc' = [pc EXCEPT ![w] = stage],
         \/ Len(versions') = Len(versions) /\ stage \notin {"adding", "last_read"}
         \/ Len(versions') = Len(versions) /\ w \in Adding
         \/ Len(versions') = Len(versions) /\ RoomForVersion
         \/ Len(versions') = Len(versions) + 1 /\ w \in Adding
              /\ stage \notin {"adding", "last_read"}
  PROVE  RoomSound'
<1>1. /\ IsFiniteSet(Adding) /\ Cardinality(Adding) \in Nat
      /\ Len(versions) \in Nat /\ MaxVersions \in Nat
  BY FiniteCounts, ConstantsOK DEF TypeOK
<1>2. pc \in [Workers -> {"idle", "adding", "last_read", "classifying", "document_read"}]
  BY DEF TypeOK
<1>3. /\ stage \in {"adding", "last_read"} => Adding' = Adding \union {w}
      /\ stage \notin {"adding", "last_read"} => Adding' = Adding \ {w}
  BY <1>2 DEF Adding
<1>4. /\ Cardinality(Adding \union {w}) =
           IF w \in Adding THEN Cardinality(Adding) ELSE Cardinality(Adding) + 1
      /\ Cardinality(Adding \ {w}) =
           IF w \in Adding THEN Cardinality(Adding) - 1 ELSE Cardinality(Adding)
  BY <1>1, FS_AddElement, FS_RemoveElement
<1>5. /\ stage \in {"adding", "last_read"} => Cardinality(Adding') =
           IF w \in Adding THEN Cardinality(Adding) ELSE Cardinality(Adding) + 1
      /\ stage \notin {"adding", "last_read"} => Cardinality(Adding') =
           IF w \in Adding THEN Cardinality(Adding) - 1 ELSE Cardinality(Adding)
  BY <1>3, <1>4, Zenon
<1>. HIDE <1>3, <1>4
<1>. QED  BY <1>1, <1>5, SMT DEF RoomSound, RoomForVersion

\* A reader of the last version gets a number there is room for.
LEMMA NumberFits ==
  ASSUME TypeOK, NumbersSound, RoomSound, NEW w \in Adding
  PROVE  /\ Len(versions) + 1 <= MaxVersions
         /\ NextNumber \in Numbers
         /\ pc[w] = "last_read" => req[w].number \in Numbers
<1>1. Cardinality(Adding) \in Nat /\ IsFiniteSet(Adding) /\ Cardinality(Adding) # 0
  BY FiniteCounts, FS_EmptySet
<1>2. Len(versions) \in Nat /\ MaxVersions \in Nat
  BY ConstantsOK DEF TypeOK
<1>3. Len(versions) + 1 <= MaxVersions
  BY <1>1, <1>2, SMT DEF RoomSound
<1>4. NextNumber \in 1 .. Len(versions) + 1
  BY NextNumberFollows
<1>5. pc[w] = "last_read" => req[w].number \in 1 .. Len(versions) + 1
  BY DEF NumbersSound, Adding
<1>. QED  BY <1>2, <1>3, <1>4, <1>5, SMT DEF Numbers

\* a step of a worker
Steps(w) ==
    \/ StartJob(w) \/ EditSummary(w) \/ RestoreSummaryVersion(w)
    \/ ReadLastVersion(w) \/ InsertVersion(w) \/ SummaryFails(w)
    \/ ApproveSummaryVersion(w) \/ ReadToClassify(w) \/ SkipClassification(w)
    \/ ReadToOverride(w) \/ WriteLevel(w) \/ RequestFails(w)

\* the stages of a request
Stages == {"idle", "adding", "last_read", "classifying", "document_read"}

\* w moves to a stage with a value, nobody else moves
Moves(w, stage, value) ==
    pc' = [pc EXCEPT ![w] = stage] /\ req' = [req EXCEPT ![w] = value]

\* A request for a new version begins with a draft; one that restores holds
\* the text of the version it names.
LEMMA AddMoves ==
  ASSUME TypeOK, NEW w \in Workers,
         StartJob(w) \/ EditSummary(w) \/ RestoreSummaryVersion(w)
  PROVE  \E d \in SummaryDraft :
           /\ Moves(w, "adding", d)
           /\ d.restored_from # NoVersion =>
                /\ d.human
                /\ \E j \in DOMAIN versions : /\ versions[j].number = d.restored_from
                                              /\ versions[j].text = d.text
           /\ pc[w] = "idle" /\ RoomForVersion /\ UNCHANGED <<versions, levelVars>>
           /\ ingestion' \in Workers \union {None}
<1>1. ingestion \in Workers \union {None}
  BY DEF TypeOK
<1>2. CASE StartJob(w)
  <2>1. PICK text \in Texts : Add(w, Draft(text, FALSE, NoVersion))
    BY <1>2 DEF StartJob
  <2>2. Draft(text, FALSE, NoVersion) \in SummaryDraft
    BY DraftTyped
  <2>. QED  BY <1>2, <2>1, <2>2 DEF StartJob, Add, Moves, Draft
<1>3. CASE EditSummary(w)
  <2>1. PICK text \in Texts : Add(w, Draft(text, TRUE, NoVersion))
    BY <1>3 DEF EditSummary
  <2>2. Draft(text, TRUE, NoVersion) \in SummaryDraft
    BY DraftTyped
  <2>. QED  BY <1>1, <1>3, <2>1, <2>2 DEF EditSummary, Add, Moves, Draft
<1>4. CASE RestoreSummaryVersion(w)
  <2>1. PICK n \in Numbers, i \in DOMAIN versions :
          OnlyRow(n, i) /\ Add(w, Draft(SourceText(i), TRUE, n))
    BY <1>4 DEF RestoreSummaryVersion
  <2>2. SourceText(i) \in Texts
    <3>1. versions[i] \in SummaryVersion
      BY DEF TypeOK
    <3>. QED  BY <3>1 DEF SummaryVersion, SourceText
  <2>3. Draft(SourceText(i), TRUE, n) \in SummaryDraft
    BY <2>2, DraftTyped
  <2>4. versions[i].number = n
    BY <2>1 DEF OnlyRow, Rows
  <2>5. /\ Draft(SourceText(i), TRUE, n).restored_from = n
        /\ Draft(SourceText(i), TRUE, n).human
        /\ Draft(SourceText(i), TRUE, n).text = versions[i].text
    BY DEF Draft, SourceText
  <2>. DEFINE d == Draft(SourceText(i), TRUE, n)
  <2>6. Moves(w, "adding", d) /\ pc[w] = "idle" /\ RoomForVersion
        /\ UNCHANGED <<versions, levelVars, ingestion>>
    BY <1>4, <2>1 DEF RestoreSummaryVersion, Add, Moves
  <2>7. /\ d.human
        /\ \E j \in DOMAIN versions : /\ versions[j].number = d.restored_from
                                      /\ versions[j].text = d.text
    BY <2>4, <2>5
  <2>8. d \in SummaryDraft
    BY <2>3
  <2>. HIDE DEF d
  <2>. QED  BY <1>1, <2>6, <2>7, <2>8
<1>. QED  BY <1>2, <1>3, <1>4

\* The reader of the last version takes the next number.
LEMMA ReadLastMoves ==
  ASSUME TypeOK, RequestsTyped, NumbersSound, RoomSound, NEW w \in Workers, ReadLastVersion(w)
  PROVE  \E d \in SummaryDraft :
           /\ Moves(w, "last_read", d) /\ d.number = NextNumber
           /\ d.text = req[w].text /\ d.human = req[w].human
           /\ d.restored_from = req[w].restored_from
           /\ pc[w] = "adding" /\ UNCHANGED <<versions, levelVars, ingestion>>
<1>1. req[w] \in SummaryDraft /\ w \in Adding
  BY RequestValues DEF ReadLastVersion
<1>2. NextNumber \in Numbers
  BY <1>1, NumberFits
<1>. DEFINE d == [req[w] EXCEPT !.number = NextNumber]
<1>3. d \in SummaryDraft /\ d.number = NextNumber /\ d.text = req[w].text
      /\ d.human = req[w].human /\ d.restored_from = req[w].restored_from
  BY <1>1, <1>2, DraftTyped
<1>4. Moves(w, "last_read", d)
  BY DEF ReadLastVersion, Moves
<1>. HIDE DEF d
<1>. QED  BY <1>3, <1>4 DEF ReadLastVersion

\* The row a request inserts has what the request holds.
LEMMA InsertMoves ==
  ASSUME TypeOK, RequestsTyped, NumbersSound, RoomSound, NEW w \in Workers, InsertVersion(w)
  PROVE  \E stage \in {"idle", "classifying"}, row \in SummaryVersion :
           /\ Moves(w, stage, None) /\ versions' = Append(versions, row)
           /\ row.number = req[w].number /\ row.text = req[w].text
           /\ row.human = req[w].human /\ row.restored_from = req[w].restored_from
           /\ ~row.approved
           /\ pc[w] = "last_read" /\ w \in Adding /\ UNCHANGED <<levelVars, ingestion>>
<1>. DEFINE row == NewRow(req[w])
<1>1. pc[w] = "last_read" /\ req[w] \in SummaryDraft /\ w \in Adding
  BY RequestValues DEF InsertVersion
<1>2. req[w].number \in Numbers
  BY <1>1, NumberFits
<1>3. row \in SummaryVersion
  BY <1>1, <1>2 DEF SummaryVersion, SummaryDraft, NewRow, Row
<1>4. AfterSummary(w) \in {"idle", "classifying"}
  BY DEF AfterSummary
<1>5. Moves(w, AfterSummary(w), None) /\ versions' = Append(versions, row)
  BY DEF InsertVersion, Moves
<1>6. /\ row.number = req[w].number /\ row.text = req[w].text
      /\ row.human = req[w].human /\ row.restored_from = req[w].restored_from
      /\ ~row.approved
  BY DEF NewRow, Row
<1>. HIDE DEF row
<1>. QED  BY <1>1, <1>3, <1>4, <1>5, <1>6 DEF InsertVersion

\* Requests that break off or have nothing to do return to rest.
LEMMA RestMoves ==
  ASSUME TypeOK, RequestsTyped, NEW w \in Workers,
         SummaryFails(w) \/ SkipClassification(w) \/ RequestFails(w)
  PROVE  \E stage \in {"idle", "classifying"} :
           Moves(w, stage, None) /\ UNCHANGED <<versions, levelVars, ingestion>>
<1>1. CASE SummaryFails(w)
  BY <1>1 DEF SummaryFails, Moves
<1>2. CASE SkipClassification(w)
  <2>1. req[w] = None
    BY <1>2, RequestValues DEF SkipClassification
  <2>2. req' = [req EXCEPT ![w] = None]
    BY <1>2, <2>1 DEF SkipClassification, RequestsTyped
  <2>. QED  BY <1>2, <2>2 DEF SkipClassification, Moves
<1>3. CASE RequestFails(w)
  BY <1>3 DEF RequestFails, Moves
<1>. QED  BY <1>1, <1>2, <1>3

\* A change of the level reads the row as it is; an automatic one is not begun
\* over a human's level.
LEMMA ChangeMoves ==
  ASSUME TypeOK, NEW w \in Workers, ReadToClassify(w) \/ ReadToOverride(w)
  PROVE  \E c \in LevelChange :
           /\ Moves(w, "document_read", c) /\ c.read = doc
           /\ c.write.level \in Levels /\ c.write.source \in Sources
           /\ c.write.source = "manual_override" => ~c.write.needs_confirmation
           /\ c.write.source = "automatic" => c.read.source # "manual_override"
           /\ overlapped' = (overlapped \/ Changing # {})
           /\ w \notin Changing /\ w \notin Adding
           /\ UNCHANGED <<versions, doc, history, ingestion>>
<1>1. PICK level \in Levels, source \in Sources, needs \in BOOLEAN :
        /\ ReadDocument(w, [level |-> level, source |-> source, needs_confirmation |-> needs])
        /\ source = "manual_override" => ~needs
        /\ source = "automatic" => doc.source # "manual_override"
        /\ pc[w] \in {"idle", "classifying"}
  <2>1. CASE ReadToClassify(w)
    BY <2>1 DEF ReadToClassify, HasManualOverride, Sources
  <2>2. CASE ReadToOverride(w)
    BY <2>2 DEF ReadToOverride, Sources
  <2>. QED  BY <2>1, <2>2
<1>. DEFINE write == [level |-> level, source |-> source, needs_confirmation |-> needs]
            c == [read |-> doc, write |-> write]
<1>2. write \in DocumentRow /\ c \in LevelChange
  BY DEF TypeOK, DocumentRow, LevelChange
<1>3. c.read = doc /\ c.write.level = level /\ c.write.source = source
      /\ c.write.needs_confirmation = needs
  OBVIOUS
<1>4. Moves(w, "document_read", c)
  BY <1>1 DEF ReadDocument, Moves
<1>5. w \notin Changing /\ w \notin Adding
  BY <1>1 DEF Changing, Adding
<1>. HIDE DEF c
<1>. QED  BY <1>1, <1>2, <1>3, <1>4, <1>5 DEF ReadDocument

\* The transaction that changes the level writes the row and its history.
LEMMA WriteMoves ==
  ASSUME TypeOK, RequestsTyped, ChangesSound, NEW w \in Workers, WriteLevel(w)
  PROVE  \E change \in ConfidentialityOverride :
           /\ Moves(w, "idle", None) /\ w \in Changing /\ req[w] \in LevelChange
           /\ doc' = Updated(req[w].read, req[w].write) /\ doc' \in DocumentRow
           /\ req[w].read = doc => doc' = req[w].write
           /\ history' = Append(history, change)
           /\ change.previous_level = req[w].read.level
           /\ change.new_level = req[w].write.level
           /\ change.source = req[w].write.source
           /\ UNCHANGED <<versions, ingestion, overlapped>>
<1>1. w \in Changing /\ req[w] \in LevelChange
  BY RequestValues DEF WriteLevel, Changing
<1>2. req[w].read \in DocumentRow /\ req[w].write \in DocumentRow /\ doc \in DocumentRow
  BY <1>1 DEF LevelChange, TypeOK
<1>3. doc' = Updated(req[w].read, req[w].write) /\ doc' \in DocumentRow
      /\ (req[w].read = doc => doc' = req[w].write)
  BY <1>2, UpdatedTyped DEF WriteLevel
<1>. DEFINE change == [previous_level |-> req[w].read.level,
                       new_level |-> req[w].write.level, source |-> req[w].write.source]
<1>4. change \in ConfidentialityOverride
  BY <1>1, <1>2 DEF ChangesSound, ConfidentialityOverride, DocumentRow
<1>5. /\ change.previous_level = req[w].read.level
      /\ change.new_level = req[w].write.level /\ change.source = req[w].write.source
  OBVIOUS
<1>6. history' = Append(history, change) /\ Moves(w, "idle", None)
      /\ UNCHANGED <<versions, ingestion, overlapped>>
  BY DEF WriteLevel, Moves
<1>. HIDE DEF change
<1>. QED  BY <1>1, <1>3, <1>4, <1>5, <1>6

\* An approval changes nothing else of the rows.
LEMMA ApproveRows ==
  ASSUME TypeOK, NEW w \in Workers, ApproveSummaryVersion(w)
  PROVE  /\ versions' \in Seq(SummaryVersion)
         /\ Len(versions') = Len(versions) /\ DOMAIN versions' = DOMAIN versions
         /\ \A i \in DOMAIN versions :
              /\ versions'[i].number = versions[i].number
              /\ versions'[i].text = versions[i].text
              /\ versions'[i].human = versions[i].human
              /\ versions'[i].restored_from = versions[i].restored_from
         /\ UNCHANGED <<levelVars, ingestion, pc, req>>
<1>1. PICK k \in DOMAIN versions : versions' = [versions EXCEPT ![k].approved = TRUE]
  BY DEF ApproveSummaryVersion
<1>2. versions \in Seq(SummaryVersion)
  BY DEF TypeOK
<1>3. versions[k] \in SummaryVersion
  BY <1>2
<1>. DEFINE row == [versions[k] EXCEPT !.approved = TRUE]
<1>4. /\ row \in SummaryVersion /\ row.number = versions[k].number
      /\ row.text = versions[k].text /\ row.human = versions[k].human
      /\ row.restored_from = versions[k].restored_from
  BY <1>3 DEF SummaryVersion
<1>5. versions' = [versions EXCEPT ![k] = row]
  BY <1>1
<1>. HIDE DEF row
<1>6. /\ versions' \in Seq(SummaryVersion) /\ Len(versions') = Len(versions)
      /\ DOMAIN versions' = DOMAIN versions
      /\ \A i \in DOMAIN versions : versions'[i] = IF i = k THEN row ELSE versions[i]
  BY <1>2, <1>4, <1>5
<1>. QED  BY <1>4, <1>6 DEF ApproveSummaryVersion

-----------------------------------------------------------------------------
(***************************************************************************)
(* The invariant is inductive.                                             *)
(***************************************************************************)

\* The empty tables are typed and sound.
LEMMA InitInv == Init => DocInv
<1>. SUFFICES ASSUME Init PROVE DocInv
  OBVIOUS
<1>1. versions = <<>> /\ DOMAIN versions = {} /\ Len(versions) = 0
      /\ history = <<>> /\ DOMAIN history = {}
      /\ \A w \in Workers : pc[w] = "idle" /\ req[w] = None
  BY DEF Init
<1>2. Adding = {} /\ Changing = {} /\ \A n : Rows(n) = {} /\ Inserting(n) = {}
  BY <1>1 DEF Adding, Changing, Rows, Inserting
<1>3. Cardinality({}) = 0 /\ Cardinality(Workers) \in Nat
  BY FS_EmptySet, FS_CardinalityType, ConstantsOK
<1>4. TypeOK
  <2>1. doc \in DocumentRow
    BY DEF Init, DocumentRow
  <2>2. \A w \in Workers : req[w] \in Requests(pc[w])
    BY <1>1 DEF Requests
  <2>3. versions \in Seq(SummaryVersion) /\ history \in Seq(ConfidentialityOverride)
    BY <1>1
  <2>. QED  BY <2>1, <2>2, <2>3 DEF Init, TypeOK
<1>5. RequestsTyped
  BY DEF Init, RequestsTyped
<1>6. NumbersSound /\ RestoresSound
  BY <1>1 DEF NumbersSound, RestoresSound
<1>7. RoomSound /\ TwinsBounded
  <2>1. Cardinality(Adding) = 0
    BY <1>2, <1>3, Zenon
  <2>2. RoomSound
    BY <1>1, <2>1, ConstantsOK, SMT DEF RoomSound
  <2>3. \A n : Cardinality(Rows(n)) = 0 /\ Cardinality(Inserting(n)) = 0
    BY <1>2, <1>3, Zenon
  <2>4. TwinsBounded
    BY <1>3, <2>3, SMT DEF TwinsBounded
  <2>. QED  BY <2>2, <2>4
<1>8. ChangesSound /\ RowSound
  BY <1>2 DEF ChangesSound, RowSound
<1>9. LatestRowShown /\ OverrideStands
  BY <1>1 DEF LatestRowShown, OverrideStands
<1>. QED  BY <1>4, <1>5, <1>6, <1>7, <1>8, <1>9 DEF DocInv

\* What the steps preserve is proved from a sound state.
SoundRequests == TypeOK /\ RequestsTyped /\ NumbersSound /\ RoomSound /\ ChangesSound

\* The types and the room are kept.
LEMMA TypeStep ==
  ASSUME SoundRequests, NEW w \in Workers, Steps(w)
  PROVE  TypeOK' /\ RequestsTyped' /\ RoomSound'
<1>. USE DEF SoundRequests
<1>0. /\ versions \in Seq(SummaryVersion) /\ doc \in DocumentRow
      /\ history \in Seq(ConfidentialityOverride)
      /\ ingestion \in Workers \union {None} /\ overlapped \in BOOLEAN
  BY DEF TypeOK
<1>1. CASE StartJob(w) \/ EditSummary(w) \/ RestoreSummaryVersion(w)
  <2>1. PICK d \in SummaryDraft :
          /\ Moves(w, "adding", d) /\ RoomForVersion
          /\ UNCHANGED <<versions, levelVars>> /\ ingestion' \in Workers \union {None}
    BY <1>1, AddMoves
  <2>2. d \in Requests("adding")
    BY DEF Requests
  <2>3. /\ pc' \in [Workers -> Stages] /\ \A v \in Workers : req'[v] \in Requests(pc'[v])
        /\ RequestsTyped'
    BY <2>1, <2>2, RequestStep DEF Moves, Stages
  <2>4. RoomSound'
    BY <2>1, RoomKept DEF Moves
  <2>. QED  BY <1>0, <2>1, <2>3, <2>4 DEF TypeOK, Stages, levelVars
<1>2. CASE ReadLastVersion(w)
  <2>1. PICK d \in SummaryDraft :
          /\ Moves(w, "last_read", d) /\ pc[w] = "adding"
          /\ UNCHANGED <<versions, levelVars, ingestion>>
    BY <1>2, ReadLastMoves
  <2>2. d \in Requests("last_read")
    BY DEF Requests
  <2>3. /\ pc' \in [Workers -> Stages] /\ \A v \in Workers : req'[v] \in Requests(pc'[v])
        /\ RequestsTyped'
    BY <2>1, <2>2, RequestStep DEF Moves, Stages
  <2>4. w \in Adding
    BY <2>1 DEF Adding
  <2>5. RoomSound'
    BY <2>1, <2>4, RoomKept DEF Moves
  <2>. QED  BY <1>0, <2>1, <2>3, <2>5 DEF TypeOK, Stages, levelVars
<1>3. CASE InsertVersion(w)
  <2>1. PICK stage \in {"idle", "classifying"}, row \in SummaryVersion :
          /\ Moves(w, stage, None) /\ versions' = Append(versions, row)
          /\ w \in Adding /\ UNCHANGED <<levelVars, ingestion>>
    BY <1>3, InsertMoves
  <2>2. None \in Requests(stage)
    BY DEF Requests
  <2>3. /\ pc' \in [Workers -> Stages] /\ \A v \in Workers : req'[v] \in Requests(pc'[v])
        /\ RequestsTyped'
    BY <2>1, <2>2, RequestStep DEF Moves, Stages
  <2>4. versions' \in Seq(SummaryVersion) /\ Len(versions') = Len(versions) + 1
    BY <1>0, <2>1
  <2>5. RoomSound'
    BY <2>1, <2>4, RoomKept DEF Moves
  <2>. QED  BY <1>0, <2>1, <2>3, <2>4, <2>5 DEF TypeOK, Stages, levelVars
<1>4. CASE SummaryFails(w) \/ SkipClassification(w) \/ RequestFails(w)
  <2>1. PICK stage \in {"idle", "classifying"} :
          Moves(w, stage, None) /\ UNCHANGED <<versions, levelVars, ingestion>>
    BY <1>4, RestMoves
  <2>2. None \in Requests(stage)
    BY DEF Requests
  <2>3. /\ pc' \in [Workers -> Stages] /\ \A v \in Workers : req'[v] \in Requests(pc'[v])
        /\ RequestsTyped'
    BY <2>1, <2>2, RequestStep DEF Moves, Stages
  <2>4. RoomSound'
    BY <2>1, RoomKept DEF Moves
  <2>. QED  BY <1>0, <2>1, <2>3, <2>4 DEF TypeOK, Stages, levelVars
<1>5. CASE ReadToClassify(w) \/ ReadToOverride(w)
  <2>1. PICK c \in LevelChange :
          /\ Moves(w, "document_read", c) /\ overlapped' = (overlapped \/ Changing # {})
          /\ UNCHANGED <<versions, doc, history, ingestion>>
    BY <1>5, ChangeMoves
  <2>2. c \in Requests("document_read")
    BY DEF Requests
  <2>3. /\ pc' \in [Workers -> Stages] /\ \A v \in Workers : req'[v] \in Requests(pc'[v])
        /\ RequestsTyped'
    BY <2>1, <2>2, RequestStep DEF Moves, Stages
  <2>4. RoomSound'
    BY <2>1, RoomKept DEF Moves
  <2>. QED  BY <1>0, <2>1, <2>3, <2>4 DEF TypeOK, Stages
<1>6. CASE WriteLevel(w)
  <2>1. PICK change \in ConfidentialityOverride :
          /\ Moves(w, "idle", None) /\ doc' \in DocumentRow
          /\ history' = Append(history, change)
          /\ UNCHANGED <<versions, ingestion, overlapped>>
    BY <1>6, WriteMoves
  <2>2. None \in Requests("idle")
    BY DEF Requests
  <2>3. /\ pc' \in [Workers -> Stages] /\ \A v \in Workers : req'[v] \in Requests(pc'[v])
        /\ RequestsTyped'
    BY <2>1, <2>2, RequestStep DEF Moves, Stages
  <2>4. RoomSound'
    BY <2>1, RoomKept DEF Moves
  <2>5. history' \in Seq(ConfidentialityOverride)
    BY <1>0, <2>1
  <2>. QED  BY <1>0, <2>1, <2>3, <2>4, <2>5 DEF TypeOK, Stages
<1>7. CASE ApproveSummaryVersion(w)
  <2>1. /\ versions' \in Seq(SummaryVersion) /\ Len(versions') = Len(versions)
        /\ UNCHANGED <<levelVars, ingestion, pc, req>>
    BY <1>7, ApproveRows
  <2>2. RoomSound'
    BY <2>1 DEF RoomSound, Adding
  <2>. QED  BY <1>0, <2>1, <2>2 DEF TypeOK, RequestsTyped, levelVars
<1>. QED  BY <1>1, <1>2, <1>3, <1>4, <1>5, <1>6, <1>7, Zenon DEF Steps

\* The numbers are kept: a row that is inserted has a predecessor and at most
\* its place as its number, although it was read before.
LEMMA NumbersStep ==
  ASSUME SoundRequests, NEW w \in Workers, Steps(w)
  PROVE  NumbersSound'
<1>. USE DEF SoundRequests
<1>0. /\ Len(versions) \in Nat /\ DOMAIN versions = 1 .. Len(versions)
      /\ \A i \in DOMAIN versions : versions[i] \in SummaryVersion /\ versions[i].number \in Nat \ {0}
      /\ pc \in [Workers -> Stages]
      /\ req \in [Workers -> SummaryDraft \union LevelChange \union {None}]
  <2>1. versions \in Seq(SummaryVersion)
    BY DEF TypeOK
  <2>2. \A v \in SummaryVersion : v.number \in Nat \ {0}
    BY ConstantsOK, SMT DEF SummaryVersion, Numbers
  <2>3. Len(versions) \in Nat /\ DOMAIN versions = 1 .. Len(versions)
        /\ \A i \in DOMAIN versions : versions[i] \in SummaryVersion
    BY <2>1, SMT
  <2>. QED  BY <2>2, <2>3, Zenon DEF TypeOK, RequestsTyped, Stages
<1>1. ASSUME NEW stage \in Stages \ {"last_read"}, NEW value, Moves(w, stage, value),
             UNCHANGED versions
      PROVE  NumbersSound'
  <2>1. \A v \in Workers : pc'[v] = "last_read" => pc[v] = "last_read" /\ req'[v] = req[v]
    BY <1>0, <1>1 DEF Moves
  <2>. QED  BY <1>1, <2>1 DEF NumbersSound
<1>2. CASE StartJob(w) \/ EditSummary(w) \/ RestoreSummaryVersion(w)
  <2>1. \E d : Moves(w, "adding", d) /\ UNCHANGED versions
    BY <1>2, AddMoves
  <2>. QED  BY <1>1, <2>1 DEF Stages
<1>3. CASE SummaryFails(w) \/ SkipClassification(w) \/ RequestFails(w)
  <2>1. PICK stage \in {"idle", "classifying"} : Moves(w, stage, None) /\ UNCHANGED versions
    BY <1>3, RestMoves
  <2>. QED  BY <1>1, <2>1 DEF Stages
<1>4. CASE ReadToClassify(w) \/ ReadToOverride(w)
  <2>1. \E c : Moves(w, "document_read", c) /\ UNCHANGED versions
    BY <1>4, ChangeMoves
  <2>. QED  BY <1>1, <2>1 DEF Stages
<1>5. CASE WriteLevel(w)
  <2>1. Moves(w, "idle", None) /\ UNCHANGED versions
    BY <1>5, WriteMoves
  <2>. QED  BY <1>1, <2>1 DEF Stages
<1>6. CASE ReadLastVersion(w)
  <2>1. PICK d \in SummaryDraft :
          Moves(w, "last_read", d) /\ d.number = NextNumber /\ UNCHANGED versions
    BY <1>6, ReadLastMoves
  <2>2. /\ NextNumber \in 1 .. Len(versions) + 1
        /\ NextNumber > 1 => \E j \in DOMAIN versions : versions[j].number = NextNumber - 1
    BY NextNumberFollows
  <2>3. \A v \in Workers : req'[v] = IF v = w THEN d ELSE req[v]
    BY <1>0, <2>1 DEF Moves
  <2>4. \A v \in Workers : pc'[v] = "last_read" /\ v # w => pc[v] = "last_read"
    BY <1>0, <2>1 DEF Moves
  <2>5. ASSUME NEW v \in Workers, pc'[v] = "last_read"
        PROVE  /\ req'[v].number \in 1 .. Len(versions) + 1
               /\ req'[v].number > 1 =>
                    \E j \in DOMAIN versions : versions[j].number = req'[v].number - 1
    <3>1. CASE v = w
      BY <2>1, <2>2, <2>3, <3>1
    <3>2. CASE v # w
      BY <2>3, <2>4, <2>5, <3>2 DEF NumbersSound
    <3>. QED  BY <3>1, <3>2
  <2>. QED  BY <2>1, <2>5 DEF NumbersSound
<1>7. CASE InsertVersion(w)
  <2>1. PICK stage \in {"idle", "classifying"}, row \in SummaryVersion :
          /\ Moves(w, stage, None) /\ versions' = Append(versions, row)
          /\ row.number = req[w].number /\ pc[w] = "last_read"
    BY <1>7, InsertMoves
  <2>. DEFINE top == Len(versions) + 1
  <2>2. /\ DOMAIN versions' = 1 .. top /\ Len(versions') = top
        /\ \A i \in DOMAIN versions : versions'[i] = versions[i]
        /\ versions'[top] = row
    BY <1>0, <2>1
  <2>3. /\ row.number \in 1 .. top
        /\ row.number > 1 => \E j \in 1 .. Len(versions) : versions[j].number = row.number - 1
    BY <1>0, <2>1 DEF NumbersSound
  <2>4. ASSUME NEW i \in 1 .. top
        PROVE  /\ versions'[i].number <= i
               /\ versions'[i].number > 1 =>
                    \E j \in 1 .. i - 1 : versions'[j].number = versions'[i].number - 1
    <3>1. CASE i = top
      <4>1. 1 .. i - 1 = DOMAIN versions
        BY <1>0, <3>1
      <4>2. versions'[i] = row /\ row.number <= i
        BY <1>0, <2>2, <2>3, <3>1
      <4>3. ASSUME versions'[i].number > 1
            PROVE  \E j \in 1 .. i - 1 : versions'[j].number = versions'[i].number - 1
        <5>1. PICK j \in DOMAIN versions : versions[j].number = row.number - 1
          BY <1>0, <2>3, <4>2, <4>3
        <5>2. versions'[j] = versions[j]
          BY <2>2
        <5>. QED  BY <4>1, <4>2, <5>1, <5>2, Zenon
      <4>. QED  BY <4>2, <4>3
    <3>2. CASE i # top
      <4>1. i \in DOMAIN versions /\ versions'[i] = versions[i]
        BY <1>0, <2>2, <3>2
      <4>2. \A j \in 1 .. i - 1 : j \in DOMAIN versions /\ versions'[j] = versions[j]
        BY <1>0, <2>2, <4>1
      <4>. QED  BY <4>1, <4>2, Zenon DEF NumbersSound
    <3>. QED  BY <3>1, <3>2
  <2>5. \E i \in 1 .. top : \A j \in 1 .. top : versions'[j].number <= versions'[i].number
    <3>1. CASE versions = <<>>
      <4>1. top = 1
        BY <3>1
      <4>2. row.number \in Nat
        BY <2>3
      <4>. QED  BY <2>2, <4>1, <4>2
    <3>2. CASE versions # <<>>
      <4>1. PICK i \in DOMAIN versions :
              \A j \in DOMAIN versions : versions[j].number <= versions[i].number
        BY <3>2 DEF NumbersSound
      <4>. DEFINE k == IF versions[i].number < row.number THEN top ELSE i
      <4>2. versions[i].number \in Nat /\ row.number \in Nat
        BY <1>0, <2>3
      <4>3. k \in 1 .. top /\ versions'[k].number \in Nat
            /\ versions[i].number <= versions'[k].number /\ row.number <= versions'[k].number
        BY <1>0, <2>2, <4>2
      <4>4. ASSUME NEW j \in 1 .. top PROVE versions'[j].number <= versions'[k].number
        <5>1. CASE j = top
          BY <2>2, <4>3, <5>1
        <5>2. CASE j # top
          <6>1. j \in DOMAIN versions
            BY <1>0, <5>2
          <6>2. versions'[j] = versions[j] /\ versions[j].number <= versions[i].number
                /\ versions[j].number \in Nat
            BY <1>0, <2>2, <4>1, <6>1
          <6>. HIDE DEF k
          <6>. QED  BY <4>2, <4>3, <6>2, SMT
        <5>. QED  BY <5>1, <5>2
      <4>. HIDE DEF k
      <4>. QED  BY <4>3, <4>4, Zenon
    <3>. QED  BY <3>1, <3>2
  <2>6. ASSUME NEW v \in Workers, pc'[v] = "last_read"
        PROVE  /\ req'[v].number \in 1 .. top + 1
               /\ req'[v].number > 1 =>
                    \E j \in 1 .. top : versions'[j].number = req'[v].number - 1
    <3>1. pc[v] = "last_read" /\ req'[v] = req[v]
      BY <1>0, <2>1, <2>6 DEF Moves
    <3>2. /\ req[v].number \in 1 .. Len(versions) + 1
          /\ req[v].number > 1 =>
               \E j \in DOMAIN versions : versions[j].number = req[v].number - 1
      BY <3>1 DEF NumbersSound
    <3>3. \A j \in DOMAIN versions : j \in 1 .. top /\ versions'[j] = versions[j]
      BY <1>0, <2>2
    <3>4. req[v].number \in 1 .. top + 1
      BY <1>0, <3>2
    <3>. QED  BY <3>1, <3>2, <3>3, <3>4, Zenon
  <2>. HIDE DEF top
  <2>. QED  BY <2>2, <2>4, <2>5, <2>6, Zenon DEF NumbersSound
<1>8. CASE ApproveSummaryVersion(w)
  <2>1. /\ DOMAIN versions' = DOMAIN versions /\ Len(versions') = Len(versions)
        /\ \A i \in DOMAIN versions : versions'[i].number = versions[i].number
        /\ UNCHANGED <<pc, req>>
    BY <1>8, ApproveRows
  <2>2. versions' # <<>> => versions # <<>>
    <3>1. versions' \in Seq(SummaryVersion) /\ versions \in Seq(SummaryVersion)
      BY <1>8, ApproveRows DEF TypeOK
    <3>. QED  BY <2>1, <3>1
  <2>3. \A i \in DOMAIN versions : 1 .. i - 1 \subseteq DOMAIN versions
    BY <1>0
  <2>4. (\A i \in DOMAIN versions :
          /\ versions[i].number <= i
          /\ versions[i].number > 1 =>
               \E j \in 1 .. i - 1 : versions[j].number = versions[i].number - 1)'
    BY <2>1, <2>3 DEF NumbersSound
  <2>5. (versions # <<>> =>
           \E i \in DOMAIN versions :
             \A j \in DOMAIN versions : versions[j].number <= versions[i].number)'
    BY <2>1, <2>2 DEF NumbersSound
  <2>6. (\A v \in Workers : pc[v] = "last_read" =>
           /\ req[v].number \in 1 .. Len(versions) + 1
           /\ req[v].number > 1 =>
                \E j \in DOMAIN versions : versions[j].number = req[v].number - 1)'
    BY <2>1 DEF NumbersSound
  <2>. QED  BY <2>4, <2>5, <2>6 DEF NumbersSound
<1>. QED
  BY <1>2, <1>3, <1>4, <1>5, <1>6, <1>7, <1>8, Zenon DEF Steps

\* The first row with a number stops everybody else from reading it, so at most
\* the workers that have read it before add twins.
LEMMA TwinsStep ==
  ASSUME SoundRequests, TwinsBounded, NEW w \in Workers, Steps(w)
  PROVE  TwinsBounded'
<1>. USE DEF SoundRequests
<1>0. /\ Len(versions) \in Nat /\ DOMAIN versions = 1 .. Len(versions)
      /\ pc \in [Workers -> Stages]
      /\ req \in [Workers -> SummaryDraft \union LevelChange \union {None}]
  BY DEF TypeOK, RequestsTyped, Stages
<1>f. /\ Cardinality(Workers) \in Nat
      /\ \A n : /\ IsFiniteSet(Inserting(n)) /\ IsFiniteSet(Rows(n))
                /\ Cardinality(Inserting(n)) \in Nat /\ Cardinality(Rows(n)) \in Nat
  BY FiniteCounts
<1>b. \A n \in Nat :
        Cardinality(Rows(n)) + Cardinality(Inserting(n)) <= Cardinality(Workers)
  BY DEF TwinsBounded
<1>a. ASSUME NEW n \in Nat, Rows(n)' = Rows(n), Inserting(n)' \subseteq Inserting(n)
      PROVE  (Cardinality(Rows(n)) + Cardinality(Inserting(n)) <= Cardinality(Workers))'
  <2>1. Inserting(n)' \in SUBSET Inserting(n)
    BY <1>a
  <2>2. /\ Cardinality(Inserting(n)') <= Cardinality(Inserting(n))
        /\ IsFiniteSet(Inserting(n)')
    BY <1>f, <2>1, FS_Subset, Zenon
  <2>3. Cardinality(Inserting(n)') \in Nat
    BY <2>2, FS_CardinalityType
  <2>4. Cardinality(Rows(n)') = Cardinality(Rows(n))
    BY <1>a
  <2>5. Cardinality(Rows(n)) + Cardinality(Inserting(n)) <= Cardinality(Workers)
    BY <1>b
  <2>. QED  BY <1>f, <2>2, <2>3, <2>4, <2>5, SMT
<1>1. ASSUME NEW stage \in Stages \ {"last_read"}, NEW value, Moves(w, stage, value),
             UNCHANGED versions
      PROVE  TwinsBounded'
  <2>1. \A n : Rows(n)' = Rows(n)
    BY <1>1 DEF Rows
  <2>2. \A n : Inserting(n)' \subseteq Inserting(n)
    BY <1>0, <1>1 DEF Moves, Inserting
  <2>. QED  BY <1>a, <2>1, <2>2 DEF TwinsBounded
<1>2. CASE StartJob(w) \/ EditSummary(w) \/ RestoreSummaryVersion(w)
  <2>1. \E d : Moves(w, "adding", d) /\ UNCHANGED versions
    BY <1>2, AddMoves
  <2>. QED  BY <1>1, <2>1 DEF Stages
<1>3. CASE SummaryFails(w) \/ SkipClassification(w) \/ RequestFails(w)
  <2>1. PICK stage \in {"idle", "classifying"} : Moves(w, stage, None) /\ UNCHANGED versions
    BY <1>3, RestMoves
  <2>. QED  BY <1>1, <2>1 DEF Stages
<1>4. CASE ReadToClassify(w) \/ ReadToOverride(w)
  <2>1. \E c : Moves(w, "document_read", c) /\ UNCHANGED versions
    BY <1>4, ChangeMoves
  <2>. QED  BY <1>1, <2>1 DEF Stages
<1>5. CASE WriteLevel(w)
  <2>1. Moves(w, "idle", None) /\ UNCHANGED versions
    BY <1>5, WriteMoves
  <2>. QED  BY <1>1, <2>1 DEF Stages
<1>6. CASE ReadLastVersion(w)
  <2>1. PICK d \in SummaryDraft :
          /\ Moves(w, "last_read", d) /\ d.number = NextNumber
          /\ pc[w] = "adding" /\ UNCHANGED versions
    BY <1>6, ReadLastMoves
  <2>2. \A n : Rows(n)' = Rows(n)
    BY <2>1 DEF Rows
  <2>3. ASSUME NEW n \in Nat, n # NextNumber
        PROVE  (Cardinality(Rows(n)) + Cardinality(Inserting(n)) <= Cardinality(Workers))'
    <3>1. Inserting(n)' \subseteq Inserting(n)
      BY <1>0, <2>1, <2>3 DEF Moves, Inserting
    <3>. QED  BY <1>a, <2>2, <3>1
  <2>4. ASSUME NEW n \in Nat, n = NextNumber
        PROVE  (Cardinality(Rows(n)) + Cardinality(Inserting(n)) <= Cardinality(Workers))'
    <3>1. \A j \in DOMAIN versions : versions[j].number < NextNumber
      BY NextNumberFollows
    <3>2. Rows(n) = {}
      BY <2>4, <3>1 DEF Rows
    <3>3. Cardinality(Rows(n)') = 0
      BY <2>2, <3>2, FS_EmptySet, Zenon
    <3>4. Inserting(n)' \in SUBSET Workers
      BY DEF Inserting
    <3>5. Cardinality(Inserting(n)') <= Cardinality(Workers) /\ IsFiniteSet(Inserting(n)')
      BY <3>4, ConstantsOK, FS_Subset, Zenon
    <3>6. Cardinality(Inserting(n)') \in Nat
      BY <3>5, FS_CardinalityType
    <3>. QED  BY <1>f, <3>3, <3>5, <3>6, SMT
  <2>. QED  BY <2>3, <2>4 DEF TwinsBounded
<1>7. CASE InsertVersion(w)
  <2>1. PICK stage \in {"idle", "classifying"}, row \in SummaryVersion :
          /\ Moves(w, stage, None) /\ versions' = Append(versions, row)
          /\ row.number = req[w].number /\ pc[w] = "last_read"
    BY <1>7, InsertMoves
  <2>. DEFINE top == Len(versions) + 1
  <2>2. /\ DOMAIN versions' = DOMAIN versions \union {top} /\ top \notin DOMAIN versions
        /\ \A i \in DOMAIN versions : versions'[i] = versions[i]
        /\ versions'[top] = row
    BY <1>0, <2>1
  <2>. HIDE DEF top
  <2>3. \A n : Rows(n)' = IF n = row.number THEN Rows(n) \union {top} ELSE Rows(n)
    BY <2>2 DEF Rows
  <2>4. ASSUME NEW n \in Nat, n # row.number
        PROVE  (Cardinality(Rows(n)) + Cardinality(Inserting(n)) <= Cardinality(Workers))'
    <3>1. Inserting(n)' \subseteq Inserting(n)
      BY <1>0, <2>1 DEF Moves, Inserting
    <3>. QED  BY <1>a, <2>3, <2>4, <3>1
  <2>5. ASSUME NEW n \in Nat, n = row.number
        PROVE  (Cardinality(Rows(n)) + Cardinality(Inserting(n)) <= Cardinality(Workers))'
    <3>1. Inserting(n)' = Inserting(n) \ {w} /\ w \in Inserting(n)
      BY <1>0, <2>1, <2>5 DEF Moves, Inserting
    <3>2. Cardinality(Inserting(n)') = Cardinality(Inserting(n)) - 1
      BY <1>f, <3>1, FS_RemoveElement, ZenonT(60)
    <3>3. top \notin Rows(n)
      BY <2>2 DEF Rows
    <3>4. Cardinality(Rows(n)') = Cardinality(Rows(n)) + 1
      BY <1>f, <2>3, <2>5, <3>3, FS_AddElement, Zenon
    <3>5. Cardinality(Rows(n)) + Cardinality(Inserting(n)) <= Cardinality(Workers)
      BY <1>b
    <3>. QED  BY <1>f, <3>2, <3>4, <3>5, SMT
  <2>. QED  BY <2>4, <2>5 DEF TwinsBounded
<1>8. CASE ApproveSummaryVersion(w)
  <2>1. /\ DOMAIN versions' = DOMAIN versions
        /\ \A i \in DOMAIN versions : versions'[i].number = versions[i].number
        /\ UNCHANGED <<pc, req>>
    BY <1>8, ApproveRows
  <2>2. \A n : Rows(n)' = Rows(n) /\ Inserting(n)' = Inserting(n)
    BY <2>1 DEF Rows, Inserting
  <2>. QED  BY <1>a, <2>2 DEF TwinsBounded
<1>. QED
  BY <1>2, <1>3, <1>4, <1>5, <1>6, <1>7, <1>8, Zenon DEF Steps

\* Rows keep their number and their text, so a restore in flight keeps its
\* source.
LEMMA RestoresStep ==
  ASSUME SoundRequests, RestoresSound, NEW w \in Workers, Steps(w)
  PROVE  RestoresSound'
<1>. USE DEF SoundRequests
<1>0. /\ Len(versions) \in Nat /\ DOMAIN versions = 1 .. Len(versions)
      /\ pc \in [Workers -> Stages]
      /\ req \in [Workers -> SummaryDraft \union LevelChange \union {None}]
  BY DEF TypeOK, RequestsTyped, Stages
<1>. DEFINE Source(d) ==
       d.restored_from # NoVersion =>
         /\ d.human
         /\ \E j \in DOMAIN versions : /\ versions[j].number = d.restored_from
                                       /\ versions[j].text = d.text
<1>s. \A v \in Workers : pc[v] \in {"adding", "last_read"} => Source(req[v])
  BY DEF RestoresSound
<1>a. ASSUME NEW stage \in Stages, NEW value, Moves(w, stage, value), UNCHANGED versions,
             stage \in {"adding", "last_read"} => Source(value)
      PROVE  RestoresSound'
  <2>1. ASSUME NEW v \in Workers, pc'[v] \in {"adding", "last_read"}
        PROVE  Source(req'[v])
    <3>1. CASE v = w
      BY <1>0, <1>a, <2>1, <3>1 DEF Moves
    <3>2. CASE v # w
      <4>1. pc'[v] = pc[v] /\ req'[v] = req[v]
        BY <1>0, <1>a, <3>2 DEF Moves
      <4>. QED  BY <1>s, <2>1, <4>1, Zenon
    <3>. QED  BY <3>1, <3>2
  <2>. QED  BY <1>a, <2>1 DEF RestoresSound
<1>2. CASE StartJob(w) \/ EditSummary(w) \/ RestoreSummaryVersion(w)
  <2>1. PICK d \in SummaryDraft : Moves(w, "adding", d) /\ Source(d) /\ UNCHANGED versions
    BY <1>2, AddMoves
  <2>. HIDE DEF Source
  <2>. QED  BY <1>a, <2>1 DEF Stages
<1>3. CASE SummaryFails(w) \/ SkipClassification(w) \/ RequestFails(w)
  <2>1. PICK stage \in {"idle", "classifying"} : Moves(w, stage, None) /\ UNCHANGED versions
    BY <1>3, RestMoves
  <2>. QED  BY <1>a, <2>1 DEF Stages
<1>4. CASE ReadToClassify(w) \/ ReadToOverride(w)
  <2>1. \E c : Moves(w, "document_read", c) /\ UNCHANGED versions
    BY <1>4, ChangeMoves
  <2>. QED  BY <1>a, <2>1 DEF Stages
<1>5. CASE WriteLevel(w)
  <2>1. Moves(w, "idle", None) /\ UNCHANGED versions
    BY <1>5, WriteMoves
  <2>. QED  BY <1>a, <2>1 DEF Stages
<1>6. CASE ReadLastVersion(w)
  <2>1. PICK d \in SummaryDraft :
          /\ Moves(w, "last_read", d) /\ d.text = req[w].text /\ d.human = req[w].human
          /\ d.restored_from = req[w].restored_from
          /\ pc[w] = "adding" /\ UNCHANGED versions
    BY <1>6, ReadLastMoves
  <2>2. Source(d)
    BY <1>s, <2>1
  <2>. HIDE DEF Source
  <2>. QED  BY <1>a, <2>1, <2>2 DEF Stages
<1>7. CASE InsertVersion(w)
  <2>1. PICK stage \in {"idle", "classifying"}, row \in SummaryVersion :
          /\ Moves(w, stage, None) /\ versions' = Append(versions, row)
          /\ row.text = req[w].text /\ row.human = req[w].human
          /\ row.restored_from = req[w].restored_from /\ pc[w] = "last_read"
    BY <1>7, InsertMoves
  <2>. DEFINE top == Len(versions) + 1
  <2>2. /\ DOMAIN versions' = DOMAIN versions \union {top}
        /\ \A i \in DOMAIN versions : versions'[i] = versions[i]
        /\ versions'[top] = row /\ 1 .. top - 1 = DOMAIN versions
        /\ \A i \in DOMAIN versions : 1 .. i - 1 \subseteq DOMAIN versions
    BY <1>0, <2>1
  <2>. HIDE DEF top
  <2>3. RestoresSound'
    <3>1. ASSUME NEW v \in Workers, pc'[v] \in {"adding", "last_read"},
                 req'[v].restored_from # NoVersion
          PROVE  /\ req'[v].human
                 /\ \E j \in DOMAIN versions' :
                      /\ versions'[j].number = req'[v].restored_from
                      /\ versions'[j].text = req'[v].text
      <4>1. pc'[v] = pc[v] /\ req'[v] = req[v]
        BY <1>0, <2>1, <3>1 DEF Moves
      <4>2. Source(req[v])
        BY <1>s, <3>1, <4>1
      <4>. QED  BY <2>2, <3>1, <4>1, <4>2
    <3>. QED  BY <3>1 DEF RestoresSound
  <2>. QED  BY <2>3
<1>8. CASE ApproveSummaryVersion(w)
  <2>1. /\ DOMAIN versions' = DOMAIN versions
        /\ \A i \in DOMAIN versions :
             /\ versions'[i].number = versions[i].number
             /\ versions'[i].text = versions[i].text
             /\ versions'[i].human = versions[i].human
             /\ versions'[i].restored_from = versions[i].restored_from
        /\ UNCHANGED <<pc, req>>
    BY <1>8, ApproveRows
  <2>. QED  BY <2>1 DEF RestoresSound
<1>. QED
  BY <1>2, <1>3, <1>4, <1>5, <1>6, <1>7, <1>8, Zenon DEF Steps

\* A change in flight stays what it is; when it is the only one it has read the
\* row as it is, so its row in the history continues the one before.
LEMMA LevelsStep ==
  ASSUME SoundRequests, RowSound, LatestRowShown, OverrideStands, NEW w \in Workers, Steps(w)
  PROVE  ChangesSound' /\ RowSound' /\ LatestRowShown' /\ OverrideStands'
<1>. USE DEF SoundRequests
<1>0. /\ pc \in [Workers -> Stages]
      /\ req \in [Workers -> SummaryDraft \union LevelChange \union {None}]
      /\ Len(history) \in Nat /\ DOMAIN history = 1 .. Len(history)
      /\ overlapped \in BOOLEAN
  BY DEF TypeOK, RequestsTyped, Stages
<1>1. ASSUME NEW stage \in Stages \ {"document_read"}, NEW value, Moves(w, stage, value),
             UNCHANGED levelVars
      PROVE  ChangesSound' /\ RowSound' /\ LatestRowShown' /\ OverrideStands'
  <2>1. /\ Changing' \subseteq Changing
        /\ \A v \in Changing' : req'[v] = req[v]
    BY <1>0, <1>1 DEF Moves, Changing
  <2>2. ChangesSound'
    BY <2>1 DEF ChangesSound
  <2>3. RowSound'
    BY <1>1, <2>1 DEF RowSound, levelVars
  <2>4. LatestRowShown' /\ OverrideStands'
    BY <1>1 DEF LatestRowShown, OverrideStands, levelVars
  <2>. QED  BY <2>2, <2>3, <2>4
<1>2. CASE StartJob(w) \/ EditSummary(w) \/ RestoreSummaryVersion(w)
  <2>1. \E d : Moves(w, "adding", d) /\ UNCHANGED levelVars
    BY <1>2, AddMoves
  <2>. QED  BY <1>1, <2>1 DEF Stages
<1>3. CASE SummaryFails(w) \/ SkipClassification(w) \/ RequestFails(w)
  <2>1. PICK stage \in {"idle", "classifying"} : Moves(w, stage, None) /\ UNCHANGED levelVars
    BY <1>3, RestMoves
  <2>. QED  BY <1>1, <2>1 DEF Stages
<1>4. CASE ReadLastVersion(w)
  <2>1. \E d : Moves(w, "last_read", d) /\ UNCHANGED levelVars
    BY <1>4, ReadLastMoves
  <2>. QED  BY <1>1, <2>1 DEF Stages
<1>5. CASE InsertVersion(w)
  <2>1. PICK stage \in {"idle", "classifying"} : Moves(w, stage, None) /\ UNCHANGED levelVars
    BY <1>5, InsertMoves
  <2>. QED  BY <1>1, <2>1 DEF Stages
<1>6. CASE ApproveSummaryVersion(w)
  <2>1. UNCHANGED <<levelVars, pc, req>>
    BY <1>6, ApproveRows
  <2>2. Changing' = Changing
    BY <2>1 DEF Changing
  <2>3. ChangesSound' /\ RowSound'
    BY <2>1, <2>2 DEF ChangesSound, RowSound, levelVars
  <2>4. LatestRowShown' /\ OverrideStands'
    BY <2>1 DEF LatestRowShown, OverrideStands, levelVars
  <2>. QED  BY <2>3, <2>4
<1>7. CASE ReadToClassify(w) \/ ReadToOverride(w)
  <2>1. PICK c \in LevelChange :
          /\ Moves(w, "document_read", c) /\ c.read = doc
          /\ c.write.level \in Levels /\ c.write.source \in Sources
          /\ c.write.source = "manual_override" => ~c.write.needs_confirmation
          /\ c.write.source = "automatic" => c.read.source # "manual_override"
          /\ overlapped' = (overlapped \/ Changing # {})
          /\ w \notin Changing /\ UNCHANGED <<doc, history>>
    BY <1>7, ChangeMoves
  <2>2. /\ Changing' = Changing \union {w} /\ req'[w] = c
        /\ \A v \in Changing : req'[v] = req[v]
    BY <1>0, <2>1 DEF Moves, Changing
  <2>3. ChangesSound'
    BY <2>1, <2>2 DEF ChangesSound
  <2>4. RowSound'
    <3>1. ASSUME ~overlapped'
          PROVE  Changing = {} /\ Changing' = {w} /\ req'[w].read = doc'
      BY <2>1, <2>2, <3>1
    <3>. QED  BY <3>1 DEF RowSound
  <2>5. LatestRowShown' /\ OverrideStands'
    BY <2>1 DEF LatestRowShown, OverrideStands
  <2>. QED  BY <2>3, <2>4, <2>5
<1>8. CASE WriteLevel(w)
  <2>1. PICK change \in ConfidentialityOverride :
          /\ Moves(w, "idle", None) /\ w \in Changing
          /\ req[w].read = doc => doc' = req[w].write
          /\ history' = Append(history, change)
          /\ change.previous_level = req[w].read.level
          /\ change.new_level = req[w].write.level
          /\ change.source = req[w].write.source
          /\ UNCHANGED <<versions, ingestion, overlapped>>
    BY <1>8, WriteMoves
  <2>2. /\ Changing' = Changing \ {w}
        /\ \A v \in Changing' : req'[v] = req[v]
    BY <1>0, <2>1 DEF Moves, Changing
  <2>3. ChangesSound'
    BY <2>2 DEF ChangesSound
  <2>4. RowSound'
    <3>1. ASSUME ~overlapped PROVE Changing' = {}
      BY <2>1, <2>2, <3>1 DEF RowSound
    <3>. QED  BY <2>1, <3>1 DEF RowSound
  <2>. DEFINE top == Len(history) + 1
  <2>5. /\ DOMAIN history' = 1 .. top /\ Len(history') = top /\ history'[top] = change
        /\ \A i \in 1 .. Len(history) : history'[i] = history[i]
    BY <1>0, <2>1
  <2>6. ASSUME ~overlapped
        PROVE  /\ doc' = req[w].write /\ req[w].read = doc
               /\ change.source \in Sources
               /\ change.source = "manual_override" => ~doc'.needs_confirmation
               /\ change.source = "automatic" => doc.source # "manual_override"
    <3>1. req[w].read = doc
      BY <2>1, <2>6 DEF RowSound
    <3>. QED  BY <2>1, <3>1 DEF ChangesSound
  <2>7. LatestRowShown'
    <3>1. ASSUME ~overlapped, NEW i \in 2 .. top
          PROVE  history'[i].previous_level = history'[i - 1].new_level
      <4>1. CASE i = top
        <5>1. history # <<>> /\ Len(history) = i - 1 /\ i - 1 \in 1 .. Len(history)
          BY <1>0, <3>1, <4>1
        <5>2. doc.level = history[Len(history)].new_level
          BY <3>1, <5>1 DEF LatestRowShown
        <5>. QED  BY <2>1, <2>5, <2>6, <3>1, <4>1, <5>1, <5>2
      <4>2. CASE i # top
        <5>1. i \in 2 .. Len(history) /\ i - 1 \in 1 .. Len(history) /\ history # <<>>
          BY <1>0, <3>1, <4>2
        <5>2. history[i].previous_level = history[i - 1].new_level
          BY <3>1, <5>1 DEF LatestRowShown
        <5>3. history'[i] = history[i] /\ history'[i - 1] = history[i - 1]
          BY <2>5, <5>1
        <5>. QED  BY <5>2, <5>3
      <4>. QED  BY <4>1, <4>2
    <3>2. ASSUME ~overlapped
          PROVE  /\ doc'.level = change.new_level /\ doc'.source = change.source
                 /\ doc'.source = "manual_override" => ~doc'.needs_confirmation
      BY <2>1, <2>6, <3>2
    <3>. HIDE DEF top
    <3>. QED  BY <2>1, <2>5, <3>1, <3>2 DEF LatestRowShown
  <2>8. OverrideStands'
    <3>1. ASSUME ~overlapped, NEW i \in 1 .. top, NEW j \in 1 .. top, i < j,
                 history'[i].source = "manual_override"
          PROVE  history'[j].source = "manual_override"
      <4>1. i \in 1 .. Len(history) /\ history[i].source = "manual_override"
        BY <1>0, <2>5, <3>1
      <4>2. CASE j # top
        <5>1. j \in 1 .. Len(history)
          BY <1>0, <4>2
        <5>. QED  BY <1>0, <2>5, <3>1, <4>1, <5>1 DEF OverrideStands
      <4>3. CASE j = top
        <5>1. history # <<>> /\ Len(history) \in 1 .. Len(history)
          BY <1>0, <4>1
        <5>2. doc.source = history[Len(history)].source
          BY <3>1, <5>1 DEF LatestRowShown
        <5>3. history[Len(history)].source = "manual_override"
          BY <1>0, <3>1, <4>1, <5>1 DEF OverrideStands
        <5>4. change.source = "manual_override"
          BY <2>6, <3>1, <5>2, <5>3 DEF Sources
        <5>. QED  BY <2>5, <4>3, <5>4
      <4>. QED  BY <4>2, <4>3
    <3>. HIDE DEF top
    <3>. QED  BY <2>1, <2>5, <3>1 DEF OverrideStands
  <2>. QED  BY <2>3, <2>4, <2>7, <2>8
<1>. QED
  BY <1>2, <1>3, <1>4, <1>5, <1>6, <1>7, <1>8, Zenon DEF Steps

\* The invariant is inductive.
LEMMA StepInv == DocInv /\ [Next]_vars => DocInv'
<1>. SUFFICES ASSUME DocInv, [Next]_vars PROVE DocInv'
  OBVIOUS
<1>1. ASSUME NEW w \in Workers, Steps(w) PROVE DocInv'
  <2>1. SoundRequests
    BY DEF DocInv, SoundRequests
  <2>. QED  BY <1>1, <2>1, TypeStep, NumbersStep, TwinsStep, RestoresStep, LevelsStep DEF DocInv
<1>2. CASE UNCHANGED vars
  <2>1. UNCHANGED <<Adding, Changing>> /\ \A n : Rows(n)' = Rows(n) /\ Inserting(n)' = Inserting(n)
    BY <1>2 DEF vars, Adding, Changing, Rows, Inserting
  <2>2. TypeOK' /\ RequestsTyped' /\ NumbersSound' /\ RestoresSound'
    BY <1>2 DEF DocInv, TypeOK, RequestsTyped, NumbersSound, RestoresSound, vars
  <2>3. RoomSound' /\ TwinsBounded' /\ ChangesSound' /\ RowSound'
    BY <1>2, <2>1 DEF DocInv, RoomSound, TwinsBounded, ChangesSound, RowSound, vars
  <2>4. LatestRowShown' /\ OverrideStands'
    BY <1>2 DEF DocInv, LatestRowShown, OverrideStands, vars
  <2>. QED  BY <2>2, <2>3, <2>4 DEF DocInv
<1>. QED  BY <1>1, <1>2, Zenon DEF Next, Steps

-----------------------------------------------------------------------------
(***************************************************************************)
(* The theorems.                                                           *)
(***************************************************************************)

\* In every reachable state the tables, and the requests that have read them
\* and not yet written, are sound.
THEOREM DocInvariant == Spec => []DocInv
<1>. QED  BY InitInv, StepInv, PTL DEF Spec

\* Rows and requests keep their types; in particular the number a worker has
\* read is one a version can have when the row is inserted.
THEOREM TypeCorrect == Spec => []TypeOK
<1>1. DocInv => TypeOK
  BY DEF DocInv
<1>. QED  BY <1>1, DocInvariant, PTL

\* The numbers of add_summary_version have no gap, and however many requests
\* overlap, a number has at most as many rows as there are workers.
THEOREM NumbersHaveNoGap == Spec => []VersionNumbersSound
<1>1. DocInv => VersionNumbersSound
  <2>. SUFFICES ASSUME DocInv PROVE VersionNumbersSound
    OBVIOUS
  <2>1. ASSUME NEW n \in Numbers PROVE Cardinality(Rows(n)) <= Cardinality(Workers)
    <3>1. n \in Nat
      BY ConstantsOK DEF Numbers
    <3>2. /\ Cardinality(Workers) \in Nat /\ Cardinality(Rows(n)) \in Nat
          /\ Cardinality(Inserting(n)) \in Nat
      BY FiniteCounts DEF DocInv
    <3>3. Cardinality(Rows(n)) + Cardinality(Inserting(n)) <= Cardinality(Workers)
      BY <3>1 DEF DocInv, TwinsBounded
    <3>. QED  BY <3>2, <3>3, SMT
  <2>. QED  BY <2>1 DEF DocInv, NumbersSound, VersionNumbersSound
<1>. QED  BY <1>1, DocInvariant, PTL

\* A row that is added is an unapproved one with the text it restores, and no
\* row is changed but by its approval, although a restore reads the text in a
\* transaction of its own before the row is added.
THEOREM RestoresMatch == Spec => RestoreAddsADraft
<1>. DEFINE Kept == \A i \in DOMAIN versions :
              versions'[i] \in {versions[i], [versions[i] EXCEPT !.approved = TRUE]}
            Drafts == \A i \in DOMAIN versions' \ DOMAIN versions :
              /\ ~versions'[i].approved
              /\ versions'[i].restored_from # NoVersion =>
                   /\ versions'[i].human
                   /\ \E j \in DOMAIN versions :
                        /\ versions[j].number = versions'[i].restored_from
                        /\ versions[j].text = versions'[i].text
            Grows == DOMAIN versions \subseteq DOMAIN versions' /\ Kept /\ Drafts
<1>1. UNCHANGED versions => Grows
  OBVIOUS
<1>2. ASSUME DocInv, NEW w \in Workers, ApproveSummaryVersion(w) PROVE Grows
  <2>1. PICK k \in DOMAIN versions : versions' = [versions EXCEPT ![k].approved = TRUE]
    BY <1>2 DEF ApproveSummaryVersion
  <2>2. DOMAIN versions' = DOMAIN versions
    BY <2>1
  <2>3. Kept
    BY <2>1
  <2>. QED  BY <2>2, <2>3
<1>3. ASSUME DocInv, NEW w \in Workers, InsertVersion(w) PROVE Grows
  <2>1. PICK row \in SummaryVersion :
          /\ versions' = Append(versions, row)
          /\ row.text = req[w].text /\ row.human = req[w].human
          /\ row.restored_from = req[w].restored_from
          /\ ~row.approved /\ pc[w] = "last_read"
    BY <1>3, InsertMoves DEF DocInv
  <2>. DEFINE top == Len(versions) + 1
  <2>2. Len(versions) \in Nat /\ DOMAIN versions = 1 .. Len(versions)
    BY <1>3 DEF DocInv, TypeOK
  <2>3. /\ DOMAIN versions' = DOMAIN versions \union {top}
        /\ \A i \in DOMAIN versions : versions'[i] = versions[i]
        /\ versions'[top] = row
    BY <2>1, <2>2
  <2>. HIDE DEF top
  <2>4. row.restored_from # NoVersion =>
          /\ row.human
          /\ \E j \in DOMAIN versions : /\ versions[j].number = row.restored_from
                                        /\ versions[j].text = row.text
    BY <1>3, <2>1 DEF DocInv, RestoresSound
  <2>5. Kept
    BY <2>3
  <2>6. Drafts
    BY <2>1, <2>3, <2>4
  <2>. QED  BY <2>3, <2>5, <2>6
<1>4. DocInv /\ [Next]_vars => Grows
  <2>. SUFFICES ASSUME DocInv, [Next]_vars PROVE Grows
    OBVIOUS
  <2>. HIDE DEF Grows
  <2>1. \/ UNCHANGED versions
        \/ \E w \in Workers : ApproveSummaryVersion(w) \/ InsertVersion(w)
    BY DEF Next, vars, StartJob, EditSummary, RestoreSummaryVersion, ReadLastVersion,
       SummaryFails, ReadToClassify, SkipClassification, ReadToOverride, ReadDocument,
       WriteLevel, RequestFails
  <2>. QED  BY <1>1, <1>2, <1>3, <2>1
<1>5. DocInv /\ [Next]_vars => [Grows]_vars
  BY <1>4
<1>. QED  BY <1>5, DocInvariant, PTL DEF Spec, RestoreAddsADraft

\* Without overlapping transactions on its row the document shows the last row
\* of its confidentiality history, and that history is a chain.
THEOREM LatestShown == Spec => []LatestRowShown
<1>1. DocInv => LatestRowShown
  BY DEF DocInv
<1>. QED  BY <1>1, DocInvariant, PTL

\* Without overlapping transactions on its row no classification replaces a
\* level that a human has set.
THEOREM OverridesStand == Spec => []OverrideStands
<1>1. DocInv => OverrideStands
  BY DEF DocInv
<1>. QED  BY <1>1, DocInvariant, PTL
=============================================================================
