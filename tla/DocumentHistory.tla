-------------------------- MODULE DocumentHistory --------------------------
(***************************************************************************)
(* The two histories of one document: the versions of its summary and the  *)
(* changes of its confidentiality level (repository.py 304-475).  Workers  *)
(* serve edits, restores, approvals and overrides, and one of them runs    *)
(* the ingestion (start_job_node), which adds the first summary and        *)
(* classifies the document.                                                *)
(*                                                                         *)
(* A transaction reads in one step and writes in a later one, READ         *)
(* COMMITTED: others may commit in between, and an UPDATE carries only the *)
(* columns whose value differs from the one read.                          *)
(*                                                                         *)
(* A definition that is used nowhere is a variant with a plausible         *)
(* mistake; it stands before the definition it varies and documents what   *)
(* the properties guard against.                                           *)
(***************************************************************************)
EXTENDS Integers, Sequences, FiniteSets

CONSTANTS
    Workers,      \* requests served at the same time
    Texts,        \* summary texts
    Levels,       \* confidentiality levels
    MaxVersions,  \* summary versions (bound)
    MaxChanges,   \* changes of the level (bound)
    None

ASSUME ConstantsOK ==
    /\ IsFiniteSet(Workers)
    /\ MaxVersions \in Nat
    /\ MaxChanges \in Nat
    /\ None \notin Texts \union Levels

VARIABLES
    versions,    \* rows of summary_version in the order of their insertion
    doc,         \* the confidentiality columns of the document's row
    history,     \* rows of confidentiality_override in the order of insertion
    ingestion,   \* the worker that runs the ingestion, None before
    pc,          \* how far each worker is in its request
    req,         \* what its transaction has read and is about to write
    overlapped   \* two transactions on the document's row have overlapped

levelVars == <<doc, history, overlapped>>
vars == <<versions, doc, history, ingestion, pc, req, overlapped>>

Numbers == 1 .. MaxVersions
NoVersion == 0

SummaryVersion ==
    [number : Numbers, text : Texts, human : BOOLEAN, approved : BOOLEAN,
     restored_from : Numbers \union {NoVersion}]

Sources == {"automatic", "manual_override"}
DocumentRow ==
    [level : Levels \union {None}, source : Sources \union {None},
     needs_confirmation : BOOLEAN]
ConfidentialityOverride ==
    [previous_level : Levels \union {None}, new_level : Levels,
     source : Sources]

SummaryDraft ==
    [text : Texts, human : BOOLEAN,
     restored_from : Numbers \union {NoVersion},
     number : Numbers \union {NoVersion}]
LevelChange == [read : DocumentRow, write : DocumentRow]

-----------------------------------------------------------------------------
(***************************************************************************)
(* Summary versions.                                                       *)
(***************************************************************************)
Rows(n) == {i \in DOMAIN versions : versions[i].number = n}

\* scalar_one_or_none: no row is a 404, twins raise MultipleResultsFound
OnlyRow(n, i) == Rows(n) = {i}

CountedNumber == Len(versions) + 1
NextNumber ==
    IF versions = <<>> THEN 1
    ELSE CHOOSE n \in 2 .. Len(versions) + 1 :
           /\ Rows(n - 1) # {}
           /\ \A i \in DOMAIN versions : versions[i].number < n

Draft(text, human, from) ==
    [text |-> text, human |-> human, restored_from |-> from,
     number |-> NoVersion]

Adding == {w \in Workers : pc[w] \in {"adding", "last_read"}}
RoomForVersion == Len(versions) + Cardinality(Adding) < MaxVersions

Add(w, draft) ==
    /\ pc[w] = "idle"
    /\ RoomForVersion
    /\ req' = [req EXCEPT ![w] = draft]
    /\ pc' = [pc EXCEPT ![w] = "adding"]

EditSummary(w) ==
    /\ \E text \in Texts : Add(w, Draft(text, TRUE, NoVersion))
    /\ UNCHANGED <<versions, levelVars, ingestion>>

LatestText(i) == versions[Len(versions)].text
SourceText(i) == versions[i].text

\* the first of the two transactions of a restore
RestoreSummaryVersion(w) ==
    /\ \E n \in Numbers : \E i \in DOMAIN versions :
         /\ OnlyRow(n, i)
         /\ Add(w, Draft(SourceText(i), TRUE, n))
    /\ UNCHANGED <<versions, levelVars, ingestion>>

ReadLastVersion(w) ==
    /\ pc[w] = "adding"
    /\ req' = [req EXCEPT ![w].number = NextNumber]
    /\ pc' = [pc EXCEPT ![w] = "last_read"]
    /\ UNCHANGED <<versions, levelVars, ingestion>>

AfterSummary(w) == IF ingestion = w /\ ~req[w].human THEN "classifying" ELSE "idle"

Row(draft, approved) ==
    [number |-> draft.number, text |-> draft.text, human |-> draft.human,
     approved |-> approved, restored_from |-> draft.restored_from]

ApprovedLikeItsSource(draft) ==
    Row(draft, \E i \in Rows(draft.restored_from) : versions[i].approved)
NewRow(draft) == Row(draft, FALSE)

InsertVersion(w) ==
    /\ pc[w] = "last_read"
    /\ versions' = Append(versions, NewRow(req[w]))
    /\ pc' = [pc EXCEPT ![w] = AfterSummary(w)]
    /\ req' = [req EXCEPT ![w] = None]
    /\ UNCHANGED <<levelVars, ingestion>>

\* one transaction; of two approvals the later one names the approver
ApproveSummaryVersion(w) ==
    /\ pc[w] = "idle"
    /\ \E n \in Numbers : \E i \in DOMAIN versions :
         /\ OnlyRow(n, i)
         /\ versions' = [versions EXCEPT ![i].approved = TRUE]
    /\ UNCHANGED <<levelVars, ingestion, pc, req>>

-----------------------------------------------------------------------------
(***************************************************************************)
(* Confidentiality.                                                        *)
(***************************************************************************)
Changing == {w \in Workers : pc[w] = "document_read"}
RoomForChange == Len(history) + Cardinality(Changing) < MaxChanges

ReadDocument(w, wanted) ==
    /\ RoomForChange
    /\ req' = [req EXCEPT ![w] = [read |-> doc, write |-> wanted]]
    /\ pc' = [pc EXCEPT ![w] = "document_read"]
    /\ overlapped' = (overlapped \/ Changing # {})
    /\ UNCHANGED <<versions, doc, history, ingestion>>

ChecksNothing == FALSE
HasManualOverride == doc.source = "manual_override"

ReadToClassify(w) ==
    /\ pc[w] = "classifying"
    /\ ~HasManualOverride
    /\ \E level \in Levels, needs_confirmation \in BOOLEAN :
         ReadDocument(w, [level |-> level, source |-> "automatic",
                          needs_confirmation |-> needs_confirmation])

SkipClassification(w) ==
    /\ pc[w] = "classifying"
    /\ HasManualOverride
    /\ pc' = [pc EXCEPT ![w] = "idle"]
    /\ UNCHANGED <<versions, levelVars, ingestion, req>>

\* by a senior counsel or an administrator, to one of the levels
ReadToOverride(w) ==
    /\ pc[w] = "idle"
    /\ \E level \in Levels :
         ReadDocument(w, [level |-> level, source |-> "manual_override",
                          needs_confirmation |-> FALSE])

KeepsTheSource(read, write) == [write EXCEPT !.source = doc.source]
Updated(read, write) ==
    [column \in DOMAIN doc |->
       IF write[column] # read[column] THEN write[column] ELSE doc[column]]

\* an override's audit row is part of the same transaction
WriteLevel(w) ==
    /\ pc[w] = "document_read"
    /\ doc' = Updated(req[w].read, req[w].write)
    /\ history' = Append(history,
         [previous_level |-> req[w].read.level,
          new_level |-> req[w].write.level, source |-> req[w].write.source])
    /\ pc' = [pc EXCEPT ![w] = "idle"]
    /\ req' = [req EXCEPT ![w] = None]
    /\ UNCHANGED <<versions, ingestion, overlapped>>

-----------------------------------------------------------------------------
(***************************************************************************)
(* The ingestion of the document, and requests that break off.             *)
(***************************************************************************)
StartJob(w) ==
    /\ ingestion = None
    /\ ingestion' = w
    /\ \E text \in Texts : Add(w, Draft(text, FALSE, NoVersion))
    /\ UNCHANGED <<versions, levelVars>>

\* an error of the summary is logged and the classification follows
SummaryFails(w) ==
    /\ pc[w] \in {"adding", "last_read"}
    /\ AfterSummary(w) = "classifying"
    /\ pc' = [pc EXCEPT ![w] = "classifying"]
    /\ req' = [req EXCEPT ![w] = None]
    /\ UNCHANGED <<versions, levelVars, ingestion>>

\* the open transaction is rolled back
RequestFails(w) ==
    /\ pc[w] # "idle"
    /\ pc' = [pc EXCEPT ![w] = "idle"]
    /\ req' = [req EXCEPT ![w] = None]
    /\ UNCHANGED <<versions, levelVars, ingestion>>

Init ==
    /\ versions = <<>>
    /\ doc \in [level : Levels \union {None}, source : {None},
                needs_confirmation : {FALSE}]
    /\ history = <<>>
    /\ ingestion = None
    /\ pc = [w \in Workers |-> "idle"]
    /\ req = [w \in Workers |-> None]
    /\ overlapped = FALSE

Next == \E w \in Workers :
    \/ StartJob(w)
    \/ EditSummary(w)
    \/ RestoreSummaryVersion(w)
    \/ ReadLastVersion(w)
    \/ InsertVersion(w)
    \/ SummaryFails(w)
    \/ ApproveSummaryVersion(w)
    \/ ReadToClassify(w)
    \/ SkipClassification(w)
    \/ ReadToOverride(w)
    \/ WriteLevel(w)
    \/ RequestFails(w)

Spec == Init /\ [][Next]_vars

-----------------------------------------------------------------------------
(***************************************************************************)
(* Properties.                                                             *)
(***************************************************************************)
Requests(stage) ==
    CASE stage \in {"adding", "last_read"} -> SummaryDraft
      [] stage = "document_read" -> LevelChange
      [] OTHER -> {None}

\* The rows and the requests in flight have their types.
TypeOK ==
    /\ versions \in Seq(SummaryVersion)
    /\ doc \in DocumentRow
    /\ history \in Seq(ConfidentialityOverride)
    /\ ingestion \in Workers \union {None}
    /\ pc \in [Workers -> {"idle", "adding", "last_read", "classifying",
                           "document_read"}]
    /\ \A w \in Workers : req[w] \in Requests(pc[w])
    /\ overlapped \in BOOLEAN

\* However edits, restores and the ingestion overlap, the version numbers are
\* 1, 2, ... without a gap, each added after its predecessor; and a number has
\* at most one row per worker, so that one worker never makes the twins on
\* which approve and restore fail.
VersionNumbersSound ==
    /\ \A i \in DOMAIN versions : versions[i].number > 1 =>
         \E j \in 1 .. i - 1 : versions[j].number = versions[i].number - 1
    /\ \A n \in Numbers : Cardinality(Rows(n)) <= Cardinality(Workers)

\* The history of summaries only grows: a row, whatever was added after it, is
\* never changed except by its approval, which is not withdrawn.  A new row is a
\* draft, and one that says it restores version n carries the text of a row
\* with that number, whatever was added or approved between the two
\* transactions of the restore: the text is restored, its approval is not.
RestoreAddsADraft ==
    [][/\ DOMAIN versions \subseteq DOMAIN versions'
       /\ \A i \in DOMAIN versions :
            versions'[i] \in {versions[i], [versions[i] EXCEPT !.approved = TRUE]}
       /\ \A i \in DOMAIN versions' \ DOMAIN versions :
            /\ ~versions'[i].approved
            /\ versions'[i].restored_from # NoVersion =>
                 /\ versions'[i].human
                 /\ \E j \in DOMAIN versions :
                      /\ versions[j].number = versions'[i].restored_from
                      /\ versions[j].text = versions'[i].text]_vars

\* As long as no two transactions on the document's row have overlapped, the
\* row shows the latest change, each change starts from the level the one
\* before has set, and a level set by a human needs no confirmation.
LatestRowShown ==
    ~overlapped /\ history # <<>> =>
      /\ doc.level = history[Len(history)].new_level
      /\ doc.source = history[Len(history)].source
      /\ doc.source = "manual_override" => ~doc.needs_confirmation
      /\ \A i \in 2 .. Len(history) :
           history[i].previous_level = history[i - 1].new_level

\* As long as no two transactions on the row have overlapped, no automatic
\* classification follows a manual override.
OverrideStands ==
    ~overlapped =>
      \A i, j \in DOMAIN history :
        i < j /\ history[i].source = "manual_override"
          => history[j].source = "manual_override"
=============================================================================
