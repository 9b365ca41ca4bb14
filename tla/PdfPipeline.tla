---------------------------- MODULE PdfPipeline ----------------------------
(***************************************************************************)
(* From the pages of a document to the chunks that are indexed             *)
(* (ingestion/pdf_pipeline.py and its caller in main.py), one step a round *)
(* of each loop.  A page is known by the length of its text, in which      *)
(* blanks are not told from letters and which cleaning leaves as it is;    *)
(* the blank that joins two pages is told from letters.  A document:       *)
(*   pages   sequence of [chars, heading], as extracted                    *)
(*   ocr     [chars, heading] of each page as the scanner reads it         *)
(*   tables  number of tables of each page                                 *)
(*   docx    one page, never scanned                                       *)
(*                                                                         *)
(* A definition that is used nowhere is a variant with a plausible         *)
(* mistake; it stands before the definition it varies and documents what   *)
(* the properties guard against.                                           *)
(***************************************************************************)
EXTENDS Integers, Sequences

CONSTANTS
    Documents,
    MinChars,   \* MIN_CHARS_FOR_TEXT_PAGE
    ChunkSize,
    Overlap

Page == [chars : Nat, heading : BOOLEAN]

\* An overlap of ChunkSize would never move the window.
ASSUME PipelineOK ==
    /\ ChunkSize \in Nat /\ Overlap \in Nat /\ Overlap < ChunkSize
    /\ \A document \in Documents :
         /\ document.pages \in Seq(Page)
         /\ document.ocr \in Seq(Page)
         /\ document.tables \in Seq(Nat)
         /\ Len(document.ocr) = Len(document.pages)
         /\ Len(document.tables) = Len(document.pages)

VARIABLES
    document,
    pages,            \* as merged with what was scanned
    page_sections,    \* of each page the page whose heading is its section
    offset_to_page,   \* where each page starts
    running_offset,
    start,            \* of the next window
    chunks,
    table,            \* <<page, number>> of the next table
    collection,       \* the chunks stored, by chunk_id
    pc

pipelineVars ==
    <<document, pages, page_sections, offset_to_page, running_offset, start,
      chunks, table, collection, pc>>

NoPage == 0

-----------------------------------------------------------------------------
PipelineInit ==
    /\ document \in Documents
    /\ pages = <<>>
    /\ page_sections = <<>>
    /\ offset_to_page = <<>>
    /\ running_offset = 0
    /\ start = 0
    /\ chunks = <<>>
    /\ table = <<1, 0>>
    /\ collection = {}
    /\ pc = "extracted"

LowText(page) == ~document.docx /\ document.pages[page].chars < MinChars

\* what was scanned replaces what was extracted, even if it is less
MergedPage(page) ==
    IF LowText(page)
    THEN [chars |-> document.ocr[page].chars,
          heading |-> document.ocr[page].heading, source |-> "ocr"]
    ELSE [chars |-> document.pages[page].chars,
          heading |-> document.pages[page].heading,
          source |-> IF document.docx THEN "docx" ELSE "pdfplumber"]

MergeOcrResults ==
    /\ pc = "extracted"
    /\ pages' = [page \in DOMAIN document.pages |-> MergedPage(page)]
    /\ pc' = "sections"
    /\ UNCHANGED <<document, page_sections, offset_to_page, running_offset,
                   start, chunks, table, collection>>

CursorSection ==
    IF page_sections = <<>> THEN NoPage ELSE page_sections[Len(page_sections)]

ComputePageSections ==
    LET page == Len(page_sections) + 1 IN
    /\ pc = "sections"
    /\ IF page <= Len(pages)
       THEN /\ page_sections' =
                 Append(page_sections,
                        IF pages[page].heading THEN page ELSE CursorSection)
            /\ UNCHANGED pc
       ELSE /\ pc' = "offsets"
            /\ UNCHANGED page_sections
    /\ UNCHANGED <<document, pages, offset_to_page, running_offset, start,
                   chunks, table, collection>>

\* a page is followed by a blank
PlacePage ==
    LET page == Len(offset_to_page) + 1 IN
    /\ pc = "offsets"
    /\ IF page <= Len(pages)
       THEN /\ offset_to_page' = Append(offset_to_page, running_offset)
            /\ running_offset' = running_offset + pages[page].chars + 1
            /\ UNCHANGED pc
       ELSE /\ pc' = "windows"
            /\ UNCHANGED <<offset_to_page, running_offset>>
    /\ UNCHANGED <<document, pages, page_sections, start, chunks, table,
                   collection>>

-----------------------------------------------------------------------------
(***************************************************************************)
(* Chunks of text.                                                         *)
(***************************************************************************)
LettersOf(page) ==
    offset_to_page[page] .. offset_to_page[page] + pages[page].chars - 1
Letters == UNION {LettersOf(page) : page \in DOMAIN offset_to_page}

\* the page active at an offset; the blank after a page belongs to it
Lookup(offset) ==
    CHOOSE page \in DOMAIN offset_to_page :
      /\ offset_to_page[page] <= offset
      /\ page < Len(offset_to_page) => offset < offset_to_page[page + 1]

WindowEnd ==
    IF start + ChunkSize < running_offset THEN start + ChunkSize
    ELSE running_offset

ChunkOf(text, id, page_start, page_end, section) ==
    [chunk_id |-> id, text |-> text, page_start |-> page_start,
     page_end |-> page_end, section |-> section]
TextOf(first, final) == (first .. final) \intersect Letters

TextChunkWithUuid(first, final) ==
    ChunkOf(TextOf(first, final), <<"text", Len(chunks), collection>>,
            Lookup(first), Lookup(final), page_sections[Lookup(first)])
TextChunkOfItsFirstPage(first, final) ==
    ChunkOf(TextOf(first, final), <<"text", Len(chunks), TextOf(first, final)>>,
            Lookup(first), Lookup(first), page_sections[Lookup(first)])
TextChunkWithTheLastSection(first, final) ==
    ChunkOf(TextOf(first, final), <<"text", Len(chunks), TextOf(first, final)>>,
            Lookup(first), Lookup(final), page_sections[Lookup(final)])
TextChunk(first, final) ==
    ChunkOf(TextOf(first, final), <<"text", Len(chunks), TextOf(first, final)>>,
            Lookup(first), Lookup(final), page_sections[Lookup(first)])

NextStartWithoutOverlap == WindowEnd
NextStart == WindowEnd - Overlap

\* a window of blanks makes no chunk and takes no index
TakeWindow ==
    /\ pc = "windows"
    /\ start < running_offset
    /\ chunks' = IF TextOf(start, WindowEnd - 1) = {} THEN chunks
                 ELSE Append(chunks, TextChunk(start, WindowEnd - 1))
    /\ IF WindowEnd = running_offset
       THEN pc' = "tables" /\ UNCHANGED start
       ELSE start' = NextStart /\ UNCHANGED pc
    /\ UNCHANGED <<document, pages, page_sections, offset_to_page,
                   running_offset, table, collection>>

NoWindow ==
    /\ pc = "windows"
    /\ start >= running_offset
    /\ pc' = "tables"
    /\ UNCHANGED <<document, pages, page_sections, offset_to_page,
                   running_offset, start, chunks, table, collection>>

-----------------------------------------------------------------------------
(***************************************************************************)
(* Tables, each its own chunk.                                             *)
(***************************************************************************)
TableChunkOfThePage ==
    ChunkOf({}, <<"table", table[1]>>, table[1], table[1], page_sections[table[1]])
TableChunk ==
    ChunkOf({}, <<"table", table[1], table[2]>>, table[1], table[1],
            page_sections[table[1]])

NextPageSameNumber == <<table[1] + 1, table[2]>>
NextPage == <<table[1] + 1, 0>>

TakeTable ==
    /\ pc = "tables"
    /\ table[1] <= Len(document.tables)
    /\ IF table[2] < document.tables[table[1]]
       THEN /\ chunks' = Append(chunks, TableChunk)
            /\ table' = <<table[1], table[2] + 1>>
       ELSE /\ table' = NextPage
            /\ UNCHANGED chunks
    /\ UNCHANGED <<document, pages, page_sections, offset_to_page,
                   running_offset, start, collection, pc>>

-----------------------------------------------------------------------------
\* upserted by id into what an earlier run over the same file has left
EmbedAndStore ==
    /\ pc = "tables"
    /\ table[1] > Len(document.tables)
    /\ chunks # <<>>
    /\ LET new == {chunks[i] : i \in DOMAIN chunks}
       IN  collection' =
             {old \in collection : \A chunk \in new : chunk.chunk_id # old.chunk_id}
               \union new
    /\ pc' = "stored"
    /\ UNCHANGED <<document, pages, page_sections, offset_to_page,
                   running_offset, start, chunks, table>>

\* chromadb raises on an empty batch
NothingToStore ==
    /\ pc = "tables"
    /\ table[1] > Len(document.tables)
    /\ chunks = <<>>
    /\ pc' = "refused"
    /\ UNCHANGED <<document, pages, page_sections, offset_to_page,
                   running_offset, start, chunks, table, collection>>

RunAgain ==
    /\ pc \in {"stored", "refused"}
    /\ pages' = <<>>
    /\ page_sections' = <<>>
    /\ offset_to_page' = <<>>
    /\ running_offset' = 0
    /\ start' = 0
    /\ chunks' = <<>>
    /\ table' = <<1, 0>>
    /\ pc' = "extracted"
    /\ UNCHANGED <<document, collection>>

Proceed == MergeOcrResults \/ ComputePageSections \/ PlacePage \/ TakeWindow
             \/ NoWindow \/ TakeTable \/ EmbedAndStore \/ NothingToStore
PipelineNext == Proceed \/ RunAgain

PipelineSpec == PipelineInit /\ [][PipelineNext]_pipelineVars

-----------------------------------------------------------------------------
Stages == {"extracted", "sections", "offsets", "windows", "tables",
           "stored", "refused"}
MergedPageType == [chars : Nat, heading : BOOLEAN,
                   source : {"ocr", "docx", "pdfplumber"}]

PipelineTypeOK ==
    /\ document \in Documents
    /\ pages \in Seq(MergedPageType)
    /\ pages # <<>> => Len(pages) = Len(document.pages)
    /\ page_sections \in Seq(Nat) /\ Len(page_sections) <= Len(pages)
    /\ offset_to_page \in Seq(Nat) /\ Len(offset_to_page) <= Len(pages)
    /\ running_offset \in Nat
    /\ start \in Nat
    /\ table \in (Nat \ {0}) \X Nat
    /\ \A i \in DOMAIN chunks :
         /\ chunks[i].page_start \in DOMAIN pages
         /\ chunks[i].page_end \in DOMAIN pages
    /\ pc \in Stages

\* No letter of the pages as read and no table is lost on the way to the
\* store, wherever the windows fall, and nothing is made up; a document is
\* refused only when it has neither.
Done == pc \in {"stored", "refused"}
NothingIsLost ==
    Done =>
      /\ UNION {chunks[i].text : i \in DOMAIN chunks} = Letters
      /\ \A page \in DOMAIN document.tables :
           \A number \in 0 .. document.tables[page] - 1 :
             \E i \in DOMAIN chunks :
               chunks[i].chunk_id = <<"table", page, number>>

\* A passage no longer than the overlap stands whole in some chunk, wherever
\* the windows fall.
PassagesStandWhole ==
    Done =>
      \A a \in Letters : \A b \in a .. a + Overlap - 1 :
        a .. b \subseteq Letters =>
          \E i \in DOMAIN chunks : a .. b \subseteq chunks[i].text

\* Nothing is lost between two chunks, neither a letter or a table nor the
\* context of a short passage.
DocumentIsCovered == NothingIsLost /\ PassagesStandWhole

\* The pages a chunk cites include the page of each of its letters.
ChunksCiteTheirPages ==
    \A i \in DOMAIN chunks, page \in DOMAIN offset_to_page :
      chunks[i].text \intersect LettersOf(page) # {} =>
        page \in chunks[i].page_start .. chunks[i].page_end

\* The section of a chunk is the latest heading up to its first page, for
\* text and for tables.
SectionsAreLatestHeadings ==
    \A i \in DOMAIN chunks :
      LET chunk == chunks[i]
      IN  /\ chunk.section # NoPage =>
               /\ chunk.section \in 1 .. chunk.page_start
               /\ pages[chunk.section].heading
          /\ \A page \in 1 .. chunk.page_start :
               pages[page].heading => page <= chunk.section

\* No two chunks of a document share an id: the store, which keeps one row an
\* id, keeps them all.
ChunkIdsDistinct ==
    \A i, j \in DOMAIN chunks :
      chunks[i].chunk_id = chunks[j].chunk_id => i = j

\* Citations lead to where the text of a chunk stands, and a chunk is known by
\* its id.
ChunksSound ==
    /\ ChunksCiteTheirPages
    /\ SectionsAreLatestHeadings
    /\ ChunkIdsDistinct

\* A second run over the same file adds and changes nothing.
RerunAddsNothing == [][collection # {} => collection' = collection]_pipelineVars
=============================================================================
