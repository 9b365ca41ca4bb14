------------------------- MODULE PdfPipelineProofs -------------------------
(***************************************************************************)
(* What the sliding window and the table loop guarantee for every document *)
(* and every size of window and overlap.                                   *)
(***************************************************************************)
EXTENDS PdfPipeline, SequenceTheorems, TLAPS

ChunkType ==
    [chunk_id : {"text", "table"} \X Nat \X (Nat \union SUBSET Nat),
     text : SUBSET Nat, page_start : Nat, page_end : Nat, section : Nat]

Types ==
    /\ document \in Documents
    /\ pages \in Seq(MergedPageType)
    /\ page_sections \in Seq(Nat)
    /\ offset_to_page \in Seq(Nat)
    /\ running_offset \in Nat
    /\ start \in Nat
    /\ chunks \in Seq(ChunkType)
    /\ table \in (Nat \ {0}) \X Nat
    /\ pc \in Stages

\* Which loop has run how far.
Progress ==
    /\ IF pc = "extracted" THEN pages = <<>> ELSE Len(pages) = Len(document.pages)
    /\ Len(page_sections) <= Len(pages)
    /\ pc \notin {"extracted", "sections"} => Len(page_sections) = Len(pages)
    /\ pc \in {"extracted", "sections"} =>
         offset_to_page = <<>> /\ running_offset = 0
    /\ Len(offset_to_page) <= Len(pages)
    /\ pc \notin {"extracted", "sections", "offsets"} =>
         Len(offset_to_page) = Len(pages)
    /\ pc \in {"extracted", "sections", "offsets"} => start = 0 /\ chunks = <<>>
    /\ pc \in {"extracted", "sections", "offsets", "windows"} => table = <<1, 0>>
    /\ Done => table[1] > Len(document.tables)

\* Pages stand one after the other, each with its blank, and fill the text.
Placed(offsets, placed, length) ==
    /\ \A p \in DOMAIN offsets : offsets[p] + placed[p].chars + 1 <= length
    /\ \A p, q \in DOMAIN offsets :
         p < q => offsets[p] + placed[p].chars + 1 <= offsets[q]
    /\ \A x \in 0 .. length - 1 : \E p \in DOMAIN offsets :
         offsets[p] <= x /\ x <= offsets[p] + placed[p].chars

LatestHeading(section, page, placed) ==
    /\ section # NoPage => section \in 1 .. page /\ placed[section].heading
    /\ \A q \in 1 .. page : placed[q].heading => q <= section
SectionsFollow(sections, placed) ==
    \A p \in DOMAIN sections : LatestHeading(sections[p], p, placed)

\* A chunk cites pages of the document and has the section of the first.
PagesOfChunks(cs, sections, last) ==
    \A i \in DOMAIN cs :
      /\ cs[i].page_start \in 1 .. last
      /\ cs[i].page_end \in 1 .. last
      /\ cs[i].section = sections[cs[i].page_start]

\* The text below an offset is in the chunks, with every passage that ends
\* there.
Covered ==
    IF pc = "windows" THEN IF start = 0 THEN 0 ELSE start + Overlap
    ELSE running_offset
Cover(cs, letters, covered) ==
    /\ \A i \in DOMAIN cs : cs[i].text \subseteq letters
    /\ \A x \in letters : x < covered => \E i \in DOMAIN cs : x \in cs[i].text
    /\ \A a \in letters : \A b \in a .. a + Overlap - 1 :
         b < covered /\ a .. b \subseteq letters =>
           \E i \in DOMAIN cs : a .. b \subseteq cs[i].text
TextIsCovered ==
    pc \notin {"extracted", "sections", "offsets"} => Cover(chunks, Letters, Covered)

\* A table the loop has passed has its chunk, and a chunk of a table is of one
\* the loop has passed.
Passed(page, number, cursor) ==
    page < cursor[1] \/ (page = cursor[1] /\ number < cursor[2])
TablesChunked(cs, tables, cursor) ==
    \A page \in DOMAIN tables : \A number \in 0 .. tables[page] - 1 :
      Passed(page, number, cursor) =>
        \E i \in DOMAIN cs : cs[i].chunk_id = <<"table", page, number>>
IdsFollow(cs, cursor) ==
    \A i \in DOMAIN cs :
      /\ cs[i].chunk_id[1] = "text" => cs[i].chunk_id[2] = i - 1
      /\ cs[i].chunk_id[1] = "table" =>
           /\ cs[i].chunk_id[3] \in Nat
           /\ Passed(cs[i].chunk_id[2], cs[i].chunk_id[3], cursor)
Distinct(cs) == \A i, j \in DOMAIN cs : cs[i].chunk_id = cs[j].chunk_id => i = j

PipelineInv ==
    /\ Types
    /\ Progress
    /\ Placed(offset_to_page, pages, running_offset)
    /\ SectionsFollow(page_sections, pages)
    /\ PagesOfChunks(chunks, page_sections, Len(pages))
    /\ ChunksCiteTheirPages
    /\ TextIsCovered
    /\ TablesChunked(chunks, document.tables, table)
    /\ IdsFollow(chunks, table)
    /\ ChunkIdsDistinct

-----------------------------------------------------------------------------
(***************************************************************************)
(* Lemmas about sequences and about the text.                              *)
(***************************************************************************)
\* A sequence and the same with one element more.
LEMMA Appended ==
  ASSUME NEW S, NEW s \in Seq(S), NEW e \in S, NEW t, t = Append(s, e)
  PROVE  /\ t \in Seq(S)
         /\ Len(s) \in Nat
         /\ Len(t) = Len(s) + 1
         /\ DOMAIN s = 1 .. Len(s)
         /\ DOMAIN t = 1 .. Len(s) + 1
         /\ \A i \in 1 .. Len(s) : t[i] = s[i]
         /\ t[Len(s) + 1] = e
<1>1. /\ t \in Seq(S)
      /\ Len(t) = Len(s) + 1
      /\ \A i \in 1 .. Len(s) : t[i] = s[i]
      /\ t[Len(s) + 1] = e
  BY AppendProperties
<1>2. Len(s) \in Nat /\ DOMAIN s = 1 .. Len(s)
  BY LenProperties
<1>3. DOMAIN t = 1 .. Len(t)
  BY <1>1, LenProperties
<1> QED
  BY <1>1, <1>2, <1>3

LEMMA Indexes ==
  ASSUME NEW S, NEW s \in Seq(S)
  PROVE  /\ Len(s) \in Nat
         /\ DOMAIN s = 1 .. Len(s)
         /\ \A i \in DOMAIN s : s[i] \in S
<1>1. Len(s) \in Nat /\ DOMAIN s = 1 .. Len(s)
  BY LenProperties
<1> QED
  BY <1>1, ElementOfSeq

LEMMA EmptyIndexes == Len(<<>>) = 0 /\ DOMAIN <<>> = {} /\ \A S : <<>> \in Seq(S)
BY EmptySeq

\* The page PlacePage puts behind the others.
LEMMA OnePageMore ==
  ASSUME NEW placed \in Seq(MergedPageType), NEW offsets \in Seq(Nat),
         NEW length \in Nat, Len(offsets) + 1 <= Len(placed),
         Placed(offsets, placed, length),
         NEW more, more = Append(offsets, length),
         NEW longer, longer = length + placed[Len(offsets) + 1].chars + 1
  PROVE  longer \in Nat /\ Placed(more, placed, longer)
<1>1. /\ more \in Seq(Nat)
      /\ Len(offsets) \in Nat
      /\ DOMAIN offsets = 1 .. Len(offsets)
      /\ DOMAIN more = 1 .. Len(offsets) + 1
      /\ \A p \in 1 .. Len(offsets) : more[p] = offsets[p]
      /\ more[Len(offsets) + 1] = length
  BY Appended
<1>2. Len(placed) \in Nat /\ DOMAIN placed = 1 .. Len(placed)
      /\ \A p \in DOMAIN placed : placed[p] \in MergedPageType
  BY Indexes
<1>3. \A p \in 1 .. Len(offsets) + 1 : placed[p].chars \in Nat
  <2> TAKE p \in 1 .. Len(offsets) + 1
  <2>1. p \in DOMAIN placed
    BY <1>1, <1>2
  <2> QED
    BY <1>2, <2>1 DEF MergedPageType
<1> DEFINE last == Len(offsets) + 1
<1>4. last \in 1 .. Len(offsets) + 1 /\ last \in Nat
  BY <1>1
<1>5. longer \in Nat /\ longer = length + placed[last].chars + 1
  BY <1>3, <1>4, SMTT(30)
<1>6. \A p \in 1 .. Len(offsets) : offsets[p] \in Nat
  BY <1>1, ElementOfSeq
<1>7. /\ \A p \in 1 .. Len(offsets) : offsets[p] + placed[p].chars + 1 <= length
      /\ \A p, q \in 1 .. Len(offsets) :
           p < q => offsets[p] + placed[p].chars + 1 <= offsets[q]
      /\ \A x \in 0 .. length - 1 : \E p \in 1 .. Len(offsets) :
           offsets[p] <= x /\ x <= offsets[p] + placed[p].chars
  BY <1>1 DEF Placed
<1>8. \A p \in DOMAIN more : p = last \/ p \in 1 .. Len(offsets)
  BY <1>1
<1> HIDE DEF last
<1>9. placed[last].chars \in Nat
  BY <1>3, <1>4
<1>10. more[last] = length
  BY <1>1 DEF last
<1>11. \A p \in DOMAIN more : more[p] + placed[p].chars + 1 <= longer
  <2> TAKE p \in DOMAIN more
  <2>1. CASE p = last
    BY <1>5, <1>9, <1>10, <2>1, SMTT(30)
  <2>2. CASE p \in 1 .. Len(offsets)
    <3>1. more[p] = offsets[p] /\ offsets[p] + placed[p].chars + 1 <= length
      BY <1>1, <1>7, <2>2
    <3>2. offsets[p] \in Nat /\ placed[p].chars \in Nat
      BY <1>1, <1>3, <1>6, <2>2
    <3>3. length <= longer
      BY <1>5, <1>9, SMTT(30)
    <3>4. more[p] + placed[p].chars + 1 <= length
      BY <3>1
    <3>5. \A u, v, w \in Int : u <= v /\ v <= w => u <= w
      OBVIOUS
    <3> QED
      BY <1>5, <3>1, <3>2, <3>3, <3>4, <3>5, SMTT(30)
  <2> QED
    BY <1>8, <2>1, <2>2
<1>12. \A p, q \in DOMAIN more : p < q => more[p] + placed[p].chars + 1 <= more[q]
  <2> SUFFICES ASSUME NEW p \in DOMAIN more, NEW q \in DOMAIN more, p < q
               PROVE  more[p] + placed[p].chars + 1 <= more[q]
    OBVIOUS
  <2>1. p \in 1 .. Len(offsets)
    BY <1>1
  <2>2. more[p] = offsets[p]
    BY <1>1, <2>1
  <2>3. CASE q = last
    BY <1>7, <1>10, <2>1, <2>2, <2>3
  <2>4. CASE q \in 1 .. Len(offsets)
    <3>1. more[q] = offsets[q]
      BY <1>1, <2>4
    <3> QED
      BY <1>7, <2>1, <2>2, <2>4, <3>1
  <2> QED
    BY <1>8, <2>3, <2>4
<1>13. \A x \in 0 .. longer - 1 : \E p \in DOMAIN more :
         more[p] <= x /\ x <= more[p] + placed[p].chars
  <2> TAKE x \in 0 .. longer - 1
  <2>1. CASE x < length
    <3>1. x \in 0 .. length - 1
      BY <1>5, <2>1
    <3>2. PICK p \in 1 .. Len(offsets) :
            offsets[p] <= x /\ x <= offsets[p] + placed[p].chars
      BY <1>7, <3>1
    <3>3. p \in DOMAIN more /\ more[p] = offsets[p]
      BY <1>1, <3>2
    <3> QED
      BY <3>2, <3>3
  <2>2. CASE x >= length
    <3>1. length <= x /\ x <= length + placed[last].chars
      BY <1>5, <1>9, <2>2, SMTT(30)
    <3>2. last \in DOMAIN more
      BY <1>1, <1>4
    <3> QED
      BY <1>10, <3>1, <3>2
  <2> QED
    BY <1>5, <2>1, <2>2, SMTT(30)
<1> QED
  BY <1>5, <1>11, <1>12, <1>13 DEF Placed

\* The section ComputePageSections gives to the next page.
LEMMA OneSectionMore ==
  ASSUME NEW placed \in Seq(MergedPageType), NEW sections \in Seq(Nat),
         Len(sections) + 1 <= Len(placed), SectionsFollow(sections, placed),
         NEW section,
         section = IF placed[Len(sections) + 1].heading THEN Len(sections) + 1
                   ELSE IF sections = <<>> THEN NoPage ELSE sections[Len(sections)]
  PROVE  section \in Nat /\ SectionsFollow(Append(sections, section), placed)
<1> DEFINE page == Len(sections) + 1
<1>1. Len(sections) \in Nat /\ DOMAIN sections = 1 .. Len(sections)
      /\ \A p \in DOMAIN sections : sections[p] \in Nat
  BY Indexes
<1>2. sections # <<>> => Len(sections) \in DOMAIN sections
  BY <1>1, EmptySeq
<1>3. section \in Nat
  <2>1. CASE placed[page].heading
    BY <1>1, <2>1
  <2>2. CASE ~placed[page].heading /\ sections = <<>>
    BY <2>2 DEF NoPage
  <2>3. CASE ~placed[page].heading /\ sections # <<>>
    BY <1>1, <1>2, <2>3
  <2> QED
    BY <2>1, <2>2, <2>3
<1>4. /\ DOMAIN Append(sections, section) = 1 .. Len(sections) + 1
      /\ \A p \in 1 .. Len(sections) : Append(sections, section)[p] = sections[p]
      /\ Append(sections, section)[Len(sections) + 1] = section
  BY <1>3, Appended
<1>5. LatestHeading(section, page, placed)
  <2>1. CASE placed[page].heading
    <3>1. section = page /\ page \in 1 .. page /\ \A q \in 1 .. page : q <= page
      BY <1>1, <2>1
    <3> QED
      BY <2>1, <3>1 DEF LatestHeading
  <2>2. CASE ~placed[page].heading /\ sections = <<>>
    <3>1. section = NoPage /\ \A q \in 1 .. page : q = page
      BY <1>1, <2>2, EmptySeq
    <3> QED
      BY <2>2, <3>1 DEF LatestHeading
  <2>3. CASE ~placed[page].heading /\ sections # <<>>
    <3>1. section = sections[Len(sections)]
          /\ LatestHeading(sections[Len(sections)], Len(sections), placed)
      BY <1>2, <2>3 DEF SectionsFollow
    <3>2. /\ section # NoPage =>
               section \in 1 .. Len(sections) /\ placed[section].heading
          /\ \A q \in 1 .. Len(sections) : placed[q].heading => q <= section
      BY <3>1 DEF LatestHeading
    <3>3. /\ \A q \in 1 .. page : q \in 1 .. Len(sections) \/ q = page
          /\ \A q \in 1 .. Len(sections) : q \in 1 .. page
      BY <1>1
    <3>4. section # NoPage => section \in 1 .. page /\ placed[section].heading
      BY <3>2, <3>3
    <3>5. \A q \in 1 .. page : placed[q].heading => q <= section
      BY <2>3, <3>2, <3>3
    <3> QED
      BY <3>4, <3>5 DEF LatestHeading
  <2> QED
    BY <2>1, <2>2, <2>3
<1>6. \A p \in 1 .. page : p \in 1 .. Len(sections) \/ p = page
  BY <1>1
<1>7. \A p \in 1 .. Len(sections) : LatestHeading(sections[p], p, placed)
  BY <1>1 DEF SectionsFollow
<1> HIDE DEF page
<1>8. ASSUME NEW p \in DOMAIN Append(sections, section)
      PROVE  LatestHeading(Append(sections, section)[p], p, placed)
  <2>1. CASE p = page
    BY <1>4, <1>5, <2>1 DEF page
  <2>2. CASE p \in 1 .. Len(sections)
    BY <1>4, <1>7, <2>2
  <2> QED
    BY <1>4, <1>6, <2>1, <2>2 DEF page
<1> QED
  BY <1>3, <1>8 DEF SectionsFollow

-----------------------------------------------------------------------------
(***************************************************************************)
(* Lemmas about the text and the windows.                                  *)
(***************************************************************************)
Text ==
    /\ offset_to_page \in Seq(Nat)
    /\ running_offset \in Nat
    /\ \A p \in DOMAIN offset_to_page :
         p \in Nat /\ offset_to_page[p] \in Nat /\ pages[p].chars \in Nat
    /\ \A p, q \in DOMAIN offset_to_page : p < q => p + 1 \in DOMAIN offset_to_page
    /\ \A p \in DOMAIN offset_to_page :
         p < Len(offset_to_page) => p + 1 \in DOMAIN offset_to_page
    /\ Placed(offset_to_page, pages, running_offset)

LEMMA TextIsTyped ==
  ASSUME pages \in Seq(MergedPageType), offset_to_page \in Seq(Nat),
         running_offset \in Nat, Len(offset_to_page) <= Len(pages),
         Placed(offset_to_page, pages, running_offset)
  PROVE  Text
<1>1. /\ Len(offset_to_page) \in Nat
      /\ DOMAIN offset_to_page = 1 .. Len(offset_to_page)
      /\ \A p \in DOMAIN offset_to_page : offset_to_page[p] \in Nat
  BY Indexes
<1>2. /\ Len(pages) \in Nat
      /\ DOMAIN pages = 1 .. Len(pages)
      /\ \A p \in DOMAIN pages : pages[p] \in MergedPageType
  BY Indexes
<1>3. \A p \in DOMAIN offset_to_page : p \in Nat /\ p \in DOMAIN pages
  BY <1>1, <1>2
<1>4. \A p \in DOMAIN offset_to_page : pages[p].chars \in Nat
  BY <1>2, <1>3 DEF MergedPageType
<1>5. /\ \A p, q \in DOMAIN offset_to_page : p < q => p + 1 \in DOMAIN offset_to_page
      /\ \A p \in DOMAIN offset_to_page :
           p < Len(offset_to_page) => p + 1 \in DOMAIN offset_to_page
  BY <1>1
<1> QED
  BY <1>1, <1>3, <1>4, <1>5 DEF Text

\* The page found for an offset is the one that holds it.
LEMMA LookupFinds ==
  ASSUME Text, NEW x \in Nat, x < running_offset
  PROVE  /\ Lookup(x) \in DOMAIN offset_to_page
         /\ offset_to_page[Lookup(x)] <= x
         /\ x <= offset_to_page[Lookup(x)] + pages[Lookup(x)].chars
<1> DEFINE D == DOMAIN offset_to_page
<1> DEFINE Active(p) ==
      /\ offset_to_page[p] <= x
      /\ p < Len(offset_to_page) => x < offset_to_page[p + 1]
<1>1. /\ \A p \in D : p \in Nat /\ offset_to_page[p] \in Nat /\ pages[p].chars \in Nat
      /\ \A p, q \in D : p < q => p + 1 \in D
      /\ \A p \in D : p < Len(offset_to_page) => p + 1 \in D
      /\ running_offset \in Nat
  BY DEF Text
<1>2. /\ \A p, q \in D : p < q => offset_to_page[p] + pages[p].chars + 1 <= offset_to_page[q]
      /\ \A y \in 0 .. running_offset - 1 : \E p \in D :
           offset_to_page[p] <= y /\ y <= offset_to_page[p] + pages[p].chars
  BY DEF Text, Placed
<1>3. x \in 0 .. running_offset - 1
  BY <1>1
<1>4. PICK page \in D :
        offset_to_page[page] <= x /\ x <= offset_to_page[page] + pages[page].chars
  BY <1>2, <1>3
<1>5. Active(page)
  <2> SUFFICES ASSUME page < Len(offset_to_page) PROVE x < offset_to_page[page + 1]
    BY <1>4
  <2>1. page + 1 \in D /\ page < page + 1
    BY <1>1, <1>4
  <2>2. offset_to_page[page] + pages[page].chars + 1 <= offset_to_page[page + 1]
    BY <1>2, <1>4, <2>1
  <2>3. /\ offset_to_page[page] \in Nat /\ pages[page].chars \in Nat
        /\ offset_to_page[page + 1] \in Nat
    BY <1>1, <1>4, <2>1
  <2> QED
    BY <1>4, <2>2, <2>3
<1>6. ASSUME NEW p \in D, Active(p) PROVE p = page
  <2>1. p \in Nat /\ page \in Nat
    BY <1>1, <1>4
  <2>2. CASE p < page
    <3>1. p + 1 \in D /\ p < Len(offset_to_page)
      <4>1. p + 1 \in D
        BY <1>1, <1>4, <2>2
      <4>2. Len(offset_to_page) \in Nat /\ D = 1 .. Len(offset_to_page)
        BY Indexes DEF Text
      <4> QED
        BY <2>1, <4>1, <4>2
    <3>2. x < offset_to_page[p + 1]
      BY <1>6, <3>1
    <3>3. CASE p + 1 = page
      <4>1. offset_to_page[p + 1] = offset_to_page[page]
        BY <3>3
      <4>2. offset_to_page[page] \in Nat
        BY <1>1, <1>4
      <4> QED
        BY <1>4, <3>2, <4>1, <4>2
    <3>4. CASE p + 1 # page
      <4>1. p + 1 < page
        BY <2>1, <2>2, <3>4
      <4>2. offset_to_page[p + 1] + pages[p + 1].chars + 1 <= offset_to_page[page]
        BY <1>2, <1>4, <3>1, <4>1
      <4>3. /\ offset_to_page[p + 1] \in Nat /\ pages[p + 1].chars \in Nat
            /\ offset_to_page[page] \in Nat
        BY <1>1, <1>4, <3>1
      <4> QED
        BY <1>4, <3>2, <4>2, <4>3
    <3> QED
      BY <3>3, <3>4
  <2>3. CASE page < p
    <3>1. offset_to_page[page] + pages[page].chars + 1 <= offset_to_page[p]
      BY <1>2, <1>4, <2>3
    <3>2. /\ offset_to_page[page] \in Nat /\ pages[page].chars \in Nat
          /\ offset_to_page[p] \in Nat
      BY <1>1, <1>4
    <3>3. offset_to_page[p] <= x
      BY <1>6
    <3> QED
      BY <1>4, <3>1, <3>2, <3>3
  <2> QED
    BY <2>1, <2>2, <2>3
<1>7. Lookup(x) = CHOOSE p \in D : Active(p)
  BY DEF Lookup
<1> HIDE DEF Active
<1>8. Lookup(x) = page
  BY <1>4, <1>5, <1>6, <1>7
<1> QED
  BY <1>4, <1>8

\* The pages a window cites are in order and hold its letters.
LEMMA WindowCites ==
  ASSUME Text, NEW first \in Nat, NEW final \in Nat, first <= final,
         final < running_offset, NEW page \in DOMAIN offset_to_page,
         TextOf(first, final) \intersect LettersOf(page) # {}
  PROVE  page \in Lookup(first) .. Lookup(final)
<1>1. /\ \A p \in DOMAIN offset_to_page :
           p \in Nat /\ offset_to_page[p] \in Nat /\ pages[p].chars \in Nat
      /\ \A p, q \in DOMAIN offset_to_page :
           p < q => offset_to_page[p] + pages[p].chars + 1 <= offset_to_page[q]
      /\ running_offset \in Nat
  BY DEF Text, Placed
<1>2. PICK x \in first .. final : x \in LettersOf(page)
  BY DEF TextOf
<1>3. /\ offset_to_page[page] \in Nat /\ pages[page].chars \in Nat /\ page \in Nat
      /\ offset_to_page[page] <= x /\ x < offset_to_page[page] + pages[page].chars
      /\ first <= x /\ x <= final /\ x \in Int
  BY <1>1, <1>2 DEF LettersOf
<1>4. first < running_offset
  BY <1>1
<1>5. /\ Lookup(first) \in DOMAIN offset_to_page
      /\ offset_to_page[Lookup(first)] <= first
  BY <1>4, LookupFinds
<1>6. /\ Lookup(final) \in DOMAIN offset_to_page
      /\ final <= offset_to_page[Lookup(final)] + pages[Lookup(final)].chars
  BY LookupFinds
<1>7. /\ Lookup(first) \in Nat /\ offset_to_page[Lookup(first)] \in Nat
      /\ Lookup(final) \in Nat /\ offset_to_page[Lookup(final)] \in Nat
      /\ pages[Lookup(final)].chars \in Nat
  BY <1>1, <1>5, <1>6
<1>8. ~(page < Lookup(first))
  <2> SUFFICES ASSUME page < Lookup(first) PROVE FALSE
    OBVIOUS
  <2>1. offset_to_page[page] + pages[page].chars + 1 <= offset_to_page[Lookup(first)]
    BY <1>1, <1>5
  <2> QED
    BY <1>3, <1>5, <1>7, <2>1
<1>9. ~(Lookup(final) < page)
  <2> SUFFICES ASSUME Lookup(final) < page PROVE FALSE
    OBVIOUS
  <2>1. offset_to_page[Lookup(final)] + pages[Lookup(final)].chars + 1
          <= offset_to_page[page]
    BY <1>1, <1>6
  <2> QED
    BY <1>3, <1>6, <1>7, <2>1
<1> QED
  BY <1>3, <1>7, <1>8, <1>9

\* Every letter stands before the end of the text.
LEMMA LettersEnd ==
  ASSUME Text
  PROVE  \A x \in Letters : x \in Nat /\ x < running_offset
<1> TAKE x \in Letters
<1>1. PICK p \in DOMAIN offset_to_page : x \in LettersOf(p)
  BY DEF Letters
<1>2. /\ offset_to_page[p] \in Nat /\ pages[p].chars \in Nat /\ running_offset \in Nat
      /\ offset_to_page[p] + pages[p].chars + 1 <= running_offset
  BY <1>1 DEF Text, Placed
<1> QED
  BY <1>1, <1>2 DEF LettersOf

-----------------------------------------------------------------------------
\* What is covered stays covered when a chunk follows.
LEMMA CoverGrows ==
  ASSUME NEW cs \in Seq(ChunkType), NEW chunk \in ChunkType, NEW letters,
         NEW covered, chunk.text \subseteq letters, Cover(cs, letters, covered)
  PROVE  Cover(Append(cs, chunk), letters, covered)
<1>1. /\ DOMAIN cs = 1 .. Len(cs)
      /\ Len(cs) \in Nat
      /\ DOMAIN Append(cs, chunk) = 1 .. Len(cs) + 1
      /\ \A i \in 1 .. Len(cs) : Append(cs, chunk)[i] = cs[i]
      /\ Append(cs, chunk)[Len(cs) + 1] = chunk
  BY Appended
<1>2. \A i \in DOMAIN cs : i \in DOMAIN Append(cs, chunk) /\ Append(cs, chunk)[i] = cs[i]
  BY <1>1
<1>3. \A i \in DOMAIN Append(cs, chunk) : i \in DOMAIN cs \/ i = Len(cs) + 1
  BY <1>1
<1>4. \A i \in DOMAIN Append(cs, chunk) : Append(cs, chunk)[i].text \subseteq letters
  BY <1>1, <1>2, <1>3 DEF Cover
<1>5. \A x \in letters :
        x < covered => \E i \in DOMAIN Append(cs, chunk) : x \in Append(cs, chunk)[i].text
  BY <1>2 DEF Cover
<1>6. ASSUME NEW a \in letters, NEW b \in a .. a + Overlap - 1,
             b < covered, a .. b \subseteq letters
      PROVE  \E i \in DOMAIN Append(cs, chunk) : a .. b \subseteq Append(cs, chunk)[i].text
  <2>1. PICK i \in DOMAIN cs : a .. b \subseteq cs[i].text
    BY <1>6 DEF Cover
  <2> QED
    BY <1>2, <2>1
<1> QED
  BY <1>4, <1>5, <1>6 DEF Cover

\* A window covers the text up to its end: a passage that is not in an earlier
\* chunk starts in the window.
LEMMA WindowCovers ==
  ASSUME NEW cs \in Seq(ChunkType), NEW letters \in SUBSET Nat,
         NEW first \in Nat, NEW end \in Nat, first < end,
         NEW covered \in Nat, Cover(cs, letters, covered), Overlap \in Nat,
         (first = 0 /\ covered = 0) \/ covered = first + Overlap,
         NEW more \in Seq(ChunkType),
         \/ (first .. end - 1) \intersect letters = {} /\ more = cs
         \/ \E chunk \in ChunkType :
              chunk.text = (first .. end - 1) \intersect letters /\ more = Append(cs, chunk)
  PROVE  Cover(more, letters, end)
<1>1. Cover(more, letters, covered)
  <2>1. ASSUME NEW chunk \in ChunkType,
               chunk.text = (first .. end - 1) \intersect letters,
               more = Append(cs, chunk)
        PROVE  Cover(more, letters, covered)
    <3>1. chunk.text \subseteq letters
      BY <2>1
    <3> QED
      BY <2>1, <3>1, CoverGrows
  <2> QED
    BY <2>1
<1>2. ASSUME NEW part \in SUBSET letters, part \subseteq first .. end - 1, part # {}
      PROVE  \E i \in DOMAIN more : part \subseteq more[i].text
  <2>1. (first .. end - 1) \intersect letters # {}
    BY <1>2
  <2>2. PICK chunk \in ChunkType :
          chunk.text = (first .. end - 1) \intersect letters /\ more = Append(cs, chunk)
    BY <2>1
  <2>3. /\ Len(cs) + 1 \in DOMAIN more
        /\ more[Len(cs) + 1] = chunk
    BY <2>2, Appended
  <2> QED
    BY <1>2, <2>2, <2>3
<1>3. ASSUME NEW x \in letters, x < end
      PROVE  \E i \in DOMAIN more : x \in more[i].text
  <2>1. CASE x < covered
    BY <1>1, <2>1 DEF Cover
  <2>2. CASE ~(x < covered)
    <3>1. x \in first .. end - 1
      BY <1>3, <2>2
    <3>2. \E i \in DOMAIN more : {x} \subseteq more[i].text
      BY <1>2, <3>1
    <3> QED
      BY <3>2
  <2> QED
    BY <2>1, <2>2
<1>4. ASSUME NEW a \in letters, NEW b \in a .. a + Overlap - 1,
             b < end, a .. b \subseteq letters
      PROVE  \E i \in DOMAIN more : a .. b \subseteq more[i].text
  <2>1. CASE b < covered
    BY <1>1, <1>4, <2>1 DEF Cover
  <2>2. CASE ~(b < covered)
    <3>1. a .. b \subseteq first .. end - 1
      <4>1. first <= a
        BY <2>2
      <4> QED
        BY <1>4, <4>1
    <3>2. a \in a .. b
      OBVIOUS
    <3> QED
      BY <1>2, <1>4, <3>1, <3>2
  <2> QED
    BY <2>1, <2>2
<1>5. \A i \in DOMAIN more : more[i].text \subseteq letters
  BY <1>1 DEF Cover
<1> QED
  BY <1>3, <1>4, <1>5 DEF Cover

-----------------------------------------------------------------------------
(***************************************************************************)
(* Lemmas about the tables and the ids.                                    *)
(***************************************************************************)
\* The parts of the id of a chunk.
LEMMA IdParts ==
  ASSUME NEW cs \in Seq(ChunkType), NEW i \in DOMAIN cs
  PROVE  cs[i] \in ChunkType /\ cs[i].chunk_id[2] \in Nat
<1>1. cs[i] \in ChunkType
  BY Indexes
<1> QED
  BY <1>1 DEF ChunkType

\* An id that no chunk has keeps the ids distinct.
LEMMA NewIdDistinct ==
  ASSUME NEW cs \in Seq(ChunkType), NEW chunk \in ChunkType, Distinct(cs),
         \A i \in DOMAIN cs : cs[i].chunk_id # chunk.chunk_id
  PROVE  Distinct(Append(cs, chunk))
<1>1. /\ DOMAIN cs = 1 .. Len(cs)
      /\ Len(cs) \in Nat
      /\ DOMAIN Append(cs, chunk) = 1 .. Len(cs) + 1
      /\ \A i \in 1 .. Len(cs) : Append(cs, chunk)[i] = cs[i]
      /\ Append(cs, chunk)[Len(cs) + 1] = chunk
  BY Appended
<1>2. \A i \in DOMAIN Append(cs, chunk) : i \in DOMAIN cs \/ i = Len(cs) + 1
  BY <1>1
<1>3. SUFFICES ASSUME NEW i \in DOMAIN Append(cs, chunk),
                      NEW j \in DOMAIN Append(cs, chunk),
                      Append(cs, chunk)[i].chunk_id = Append(cs, chunk)[j].chunk_id
               PROVE  i = j
  BY DEF Distinct
<1>4. CASE i \in DOMAIN cs /\ j \in DOMAIN cs
  <2>1. cs[i].chunk_id = cs[j].chunk_id
    BY <1>1, <1>3, <1>4
  <2> QED
    BY <1>4, <2>1 DEF Distinct
<1>5. CASE i \in DOMAIN cs /\ j = Len(cs) + 1
  <2>1. cs[i].chunk_id = chunk.chunk_id
    BY <1>1, <1>3, <1>5
  <2> QED
    BY <1>5, <2>1
<1>6. CASE j \in DOMAIN cs /\ i = Len(cs) + 1
  <2>1. cs[j].chunk_id = chunk.chunk_id
    BY <1>1, <1>3, <1>6
  <2> QED
    BY <1>6, <2>1
<1> QED
  BY <1>2, <1>3, <1>4, <1>5, <1>6

\* A chunk of text, before any chunk of a table.
LEMMA TextIdFollows ==
  ASSUME NEW cs \in Seq(ChunkType), NEW chunk \in ChunkType, NEW text,
         chunk.chunk_id = <<"text", Len(cs), text>>,
         NEW cursor, IdsFollow(cs, cursor), Distinct(cs)
  PROVE  IdsFollow(Append(cs, chunk), cursor) /\ Distinct(Append(cs, chunk))
<1>1. /\ DOMAIN cs = 1 .. Len(cs)
      /\ Len(cs) \in Nat
      /\ DOMAIN Append(cs, chunk) = 1 .. Len(cs) + 1
      /\ \A i \in 1 .. Len(cs) : Append(cs, chunk)[i] = cs[i]
      /\ Append(cs, chunk)[Len(cs) + 1] = chunk
  BY Appended
<1>2. chunk.chunk_id[1] = "text" /\ chunk.chunk_id[2] = Len(cs)
  OBVIOUS
<1>3. \A i \in DOMAIN cs : cs[i].chunk_id # chunk.chunk_id
  <2> SUFFICES ASSUME NEW i \in DOMAIN cs, cs[i].chunk_id = chunk.chunk_id
               PROVE  FALSE
    OBVIOUS
  <2>1. cs[i].chunk_id[1] = "text" /\ cs[i].chunk_id[2] = Len(cs)
    BY <1>2
  <2>2. Len(cs) = i - 1
    BY <2>1 DEF IdsFollow
  <2> QED
    BY <1>1, <2>2
<1>4. \A i \in DOMAIN Append(cs, chunk) :
        (i \in DOMAIN cs /\ Append(cs, chunk)[i] = cs[i])
        \/ (i = Len(cs) + 1 /\ Append(cs, chunk)[i] = chunk)
  BY <1>1
<1>5. Len(cs) = Len(cs) + 1 - 1
  BY <1>1
<1>6. "text" # "table"
  OBVIOUS
<1>7. ASSUME NEW i \in DOMAIN Append(cs, chunk)
      PROVE  /\ Append(cs, chunk)[i].chunk_id[1] = "text" =>
                  Append(cs, chunk)[i].chunk_id[2] = i - 1
             /\ Append(cs, chunk)[i].chunk_id[1] = "table" =>
                  /\ Append(cs, chunk)[i].chunk_id[3] \in Nat
                  /\ Passed(Append(cs, chunk)[i].chunk_id[2],
                            Append(cs, chunk)[i].chunk_id[3], cursor)
  <2>1. CASE i \in DOMAIN cs /\ Append(cs, chunk)[i] = cs[i]
    BY <2>1 DEF IdsFollow
  <2>2. CASE i = Len(cs) + 1 /\ Append(cs, chunk)[i] = chunk
    BY <1>2, <1>5, <1>6, <2>2
  <2> QED
    BY <1>4, <2>1, <2>2
<1>8. IdsFollow(Append(cs, chunk), cursor)
  BY <1>7 DEF IdsFollow
<1> QED
  BY <1>3, <1>8, NewIdDistinct

\* A chunk of a table: the loop passes it.
LEMMA TableIdFollows ==
  ASSUME NEW cs \in Seq(ChunkType), NEW chunk \in ChunkType, NEW tables \in Seq(Nat),
         NEW page \in Nat, NEW number \in Nat,
         chunk.chunk_id = <<"table", page, number>>,
         TablesChunked(cs, tables, <<page, number>>),
         IdsFollow(cs, <<page, number>>), Distinct(cs)
  PROVE  /\ TablesChunked(Append(cs, chunk), tables, <<page, number + 1>>)
         /\ IdsFollow(Append(cs, chunk), <<page, number + 1>>)
         /\ Distinct(Append(cs, chunk))
<1>1. /\ DOMAIN cs = 1 .. Len(cs)
      /\ Len(cs) \in Nat
      /\ DOMAIN Append(cs, chunk) = 1 .. Len(cs) + 1
      /\ \A i \in 1 .. Len(cs) : Append(cs, chunk)[i] = cs[i]
      /\ Append(cs, chunk)[Len(cs) + 1] = chunk
  BY Appended
<1>2. /\ chunk.chunk_id[1] = "table" /\ chunk.chunk_id[2] = page
      /\ chunk.chunk_id[3] = number
  OBVIOUS
<1>3. \A i \in DOMAIN cs : cs[i].chunk_id # chunk.chunk_id
  <2> SUFFICES ASSUME NEW i \in DOMAIN cs, cs[i].chunk_id = chunk.chunk_id
               PROVE  FALSE
    OBVIOUS
  <2>1. Passed(page, number, <<page, number>>)
    BY <1>2 DEF IdsFollow
  <2> QED
    BY <2>1 DEF Passed
<1>4. \A i \in DOMAIN Append(cs, chunk) :
        (i \in DOMAIN cs /\ Append(cs, chunk)[i] = cs[i])
        \/ (i = Len(cs) + 1 /\ Append(cs, chunk)[i] = chunk)
  BY <1>1
<1>5. \A p, n \in Nat : Passed(p, n, <<page, number>>) =>
        Passed(p, n, <<page, number + 1>>)
  BY DEF Passed
<1>6. Passed(page, number, <<page, number + 1>>)
  BY DEF Passed
<1>7. "text" # "table"
  OBVIOUS
<1>8. ASSUME NEW i \in DOMAIN Append(cs, chunk)
      PROVE  /\ Append(cs, chunk)[i].chunk_id[1] = "text" =>
                  Append(cs, chunk)[i].chunk_id[2] = i - 1
             /\ Append(cs, chunk)[i].chunk_id[1] = "table" =>
                  /\ Append(cs, chunk)[i].chunk_id[3] \in Nat
                  /\ Passed(Append(cs, chunk)[i].chunk_id[2],
                            Append(cs, chunk)[i].chunk_id[3], <<page, number + 1>>)
  <2>1. CASE i \in DOMAIN cs /\ Append(cs, chunk)[i] = cs[i]
    <3>1. cs[i].chunk_id[2] \in Nat
      BY <2>1, IdParts
    <3> QED
      BY <1>5, <2>1, <3>1 DEF IdsFollow
  <2>2. CASE i = Len(cs) + 1 /\ Append(cs, chunk)[i] = chunk
    BY <1>2, <1>6, <1>7, <2>2
  <2> QED
    BY <1>4, <2>1, <2>2
<1>9. IdsFollow(Append(cs, chunk), <<page, number + 1>>)
  BY <1>8 DEF IdsFollow
<1>10. ASSUME NEW p \in DOMAIN tables, NEW n \in 0 .. tables[p] - 1,
              Passed(p, n, <<page, number + 1>>)
       PROVE  \E i \in DOMAIN Append(cs, chunk) :
                Append(cs, chunk)[i].chunk_id = <<"table", p, n>>
  <2>1. CASE p = page /\ n = number
    <3>1. Len(cs) + 1 \in DOMAIN Append(cs, chunk)
      BY <1>1
    <3> QED
      BY <1>1, <2>1, <3>1
  <2>2. CASE ~(p = page /\ n = number)
    <3>1. Passed(p, n, <<page, number>>)
      BY <1>10, <2>2 DEF Passed
    <3>2. PICK i \in DOMAIN cs : cs[i].chunk_id = <<"table", p, n>>
      BY <3>1 DEF TablesChunked
    <3>3. i \in DOMAIN Append(cs, chunk) /\ Append(cs, chunk)[i] = cs[i]
      BY <1>1
    <3> QED
      BY <3>2, <3>3
  <2> QED
    BY <2>1, <2>2
<1>11. TablesChunked(Append(cs, chunk), tables, <<page, number + 1>>)
  BY <1>10 DEF TablesChunked
<1> QED
  BY <1>3, <1>9, <1>11, NewIdDistinct

\* A page whose tables all have their chunk: the loop passes it.
LEMMA PageLeft ==
  ASSUME NEW cs \in Seq(ChunkType), NEW tables \in Seq(Nat), NEW page \in Nat,
         NEW number \in Nat, page \in DOMAIN tables, number >= tables[page],
         TablesChunked(cs, tables, <<page, number>>), IdsFollow(cs, <<page, number>>)
  PROVE  /\ TablesChunked(cs, tables, <<page + 1, 0>>)
         /\ IdsFollow(cs, <<page + 1, 0>>)
<1>1. \A p \in DOMAIN tables : p \in Nat /\ tables[p] \in Nat
  BY Indexes
<1>2. \A p, n \in Nat : Passed(p, n, <<page, number>>) => Passed(p, n, <<page + 1, 0>>)
  BY DEF Passed
<1>3. ASSUME NEW i \in DOMAIN cs
      PROVE  /\ cs[i].chunk_id[1] = "text" => cs[i].chunk_id[2] = i - 1
             /\ cs[i].chunk_id[1] = "table" =>
                  /\ cs[i].chunk_id[3] \in Nat
                  /\ Passed(cs[i].chunk_id[2], cs[i].chunk_id[3], <<page + 1, 0>>)
  <2>1. cs[i].chunk_id[2] \in Nat
    BY IdParts
  <2> QED
    BY <1>2, <2>1 DEF IdsFollow
<1>4. ASSUME NEW p \in DOMAIN tables, NEW n \in 0 .. tables[p] - 1,
             Passed(p, n, <<page + 1, 0>>)
      PROVE  \E i \in DOMAIN cs : cs[i].chunk_id = <<"table", p, n>>
  <2>1. p \in Nat /\ tables[p] \in Nat /\ n \in Nat /\ n < tables[p]
    BY <1>1
  <2>2. p < page + 1
    BY <1>4, <2>1 DEF Passed
  <2>3. p < page \/ (p = page /\ n < number)
    <3>1. tables[page] \in Nat
      BY <1>1
    <3>2. p = page => n < number
      BY <2>1, <3>1
    <3> QED
      BY <2>1, <2>2, <3>2
  <2>4. Passed(p, n, <<page, number>>)
    BY <2>3 DEF Passed
  <2> QED
    BY <2>4 DEF TablesChunked
<1> QED
  BY <1>3, <1>4 DEF IdsFollow, TablesChunked

\* The chunk that is appended cites pages of the document.
LEMMA PageOfNewChunk ==
  ASSUME NEW cs \in Seq(ChunkType), NEW chunk \in ChunkType, NEW sections, NEW last,
         PagesOfChunks(cs, sections, last),
         chunk.page_start \in 1 .. last, chunk.page_end \in 1 .. last,
         chunk.section = sections[chunk.page_start]
  PROVE  PagesOfChunks(Append(cs, chunk), sections, last)
<1>1. \A i \in DOMAIN Append(cs, chunk) :
        (i \in DOMAIN cs /\ Append(cs, chunk)[i] = cs[i]) \/ Append(cs, chunk)[i] = chunk
  BY Appended
<1> QED
  BY <1>1 DEF PagesOfChunks

-----------------------------------------------------------------------------
(***************************************************************************)
(* The steps.                                                              *)
(***************************************************************************)
LEMMA EmptyParts ==
  ASSUME NEW placed, NEW sections, NEW last, NEW cursor
  PROVE  /\ Placed(<<>>, placed, 0)
         /\ SectionsFollow(<<>>, placed)
         /\ PagesOfChunks(<<>>, sections, last)
         /\ IdsFollow(<<>>, cursor)
         /\ Distinct(<<>>)
<1>1. DOMAIN <<>> = {} /\ 0 .. 0 - 1 = {}
  BY EmptyIndexes
<1> QED
  BY <1>1 DEF Placed, SectionsFollow, PagesOfChunks, IdsFollow, Distinct

LEMMA NoTablePassed ==
  ASSUME NEW cs, NEW tables \in Seq(Nat)
  PROVE  TablesChunked(cs, tables, <<1, 0>>)
<1>1. DOMAIN tables = 1 .. Len(tables) /\ Len(tables) \in Nat
      /\ \A p \in DOMAIN tables : tables[p] \in Nat
  BY Indexes
<1>2. ASSUME NEW p \in DOMAIN tables, NEW n \in 0 .. tables[p] - 1
      PROVE  ~Passed(p, n, <<1, 0>>)
  BY <1>1 DEF Passed
<1> QED
  BY <1>2 DEF TablesChunked

LEMMA DocumentTyped ==
  ASSUME document \in Documents
  PROVE  /\ document.pages \in Seq(Page)
         /\ document.ocr \in Seq(Page)
         /\ document.tables \in Seq(Nat)
         /\ Len(document.pages) \in Nat
         /\ Len(document.ocr) = Len(document.pages)
         /\ Len(document.tables) = Len(document.pages)
         /\ DOMAIN document.pages = 1 .. Len(document.pages)
         /\ DOMAIN document.ocr = 1 .. Len(document.pages)
         /\ DOMAIN document.tables = 1 .. Len(document.pages)
<1>1. /\ document.pages \in Seq(Page)
      /\ document.ocr \in Seq(Page)
      /\ document.tables \in Seq(Nat)
      /\ Len(document.ocr) = Len(document.pages)
      /\ Len(document.tables) = Len(document.pages)
  BY PipelineOK
<1> QED
  BY <1>1, LenProperties

LEMMA InitEstablishes == PipelineInit => PipelineInv
<1> SUFFICES ASSUME PipelineInit PROVE PipelineInv
  OBVIOUS
<1>1. /\ document \in Documents /\ pages = <<>> /\ page_sections = <<>>
      /\ offset_to_page = <<>> /\ running_offset = 0 /\ start = 0 /\ chunks = <<>>
      /\ table = <<1, 0>> /\ pc = "extracted"
  BY DEF PipelineInit
<1>2. Types
  BY <1>1, EmptyIndexes DEF Types, Stages
<1>3. Progress
  BY <1>1, EmptyIndexes DEF Progress, Done
<1>4. /\ Placed(offset_to_page, pages, running_offset)
      /\ SectionsFollow(page_sections, pages)
      /\ PagesOfChunks(chunks, page_sections, Len(pages))
      /\ IdsFollow(chunks, table)
      /\ Distinct(chunks)
  BY <1>1, EmptyParts
<1>5. ChunksCiteTheirPages
  BY <1>1, EmptyIndexes DEF ChunksCiteTheirPages
<1>6. TextIsCovered
  BY <1>1 DEF TextIsCovered
<1>7. TablesChunked(chunks, document.tables, table)
  BY <1>1, NoTablePassed, DocumentTyped
<1> QED
  BY <1>2, <1>3, <1>4, <1>5, <1>6, <1>7 DEF PipelineInv, Distinct, ChunkIdsDistinct

\* A function on the first n numbers is a sequence of length n.
LEMMA FunctionIsSequence ==
  ASSUME NEW S, NEW n \in Nat, NEW f \in [1 .. n -> S]
  PROVE  f \in Seq(S) /\ Len(f) = n
<1>1. f \in Seq(S)
  BY SeqDef
<1>2. Len(f) \in Nat /\ 1 .. Len(f) = 1 .. n
  BY <1>1, LenProperties
<1> QED
  BY <1>1, <1>2

LEMMA MergedPageTyped ==
  ASSUME document \in Documents, NEW page \in 1 .. Len(document.pages)
  PROVE  MergedPage(page) \in MergedPageType
<1>1. document.pages[page] \in Page /\ document.ocr[page] \in Page
  BY DocumentTyped, ElementOfSeq
<1>2. /\ document.pages[page].chars \in Nat /\ document.pages[page].heading \in BOOLEAN
      /\ document.ocr[page].chars \in Nat /\ document.ocr[page].heading \in BOOLEAN
  BY <1>1 DEF Page
<1>3. CASE LowText(page)
  BY <1>2, <1>3 DEF MergedPage, MergedPageType
<1>4. CASE ~LowText(page)
  BY <1>2, <1>4 DEF MergedPage, MergedPageType
<1> QED
  BY <1>3, <1>4

LEMMA MergePreserves == PipelineInv /\ MergeOcrResults => PipelineInv'
<1> SUFFICES ASSUME PipelineInv, MergeOcrResults PROVE PipelineInv'
  OBVIOUS
<1>1. /\ document' = document /\ page_sections' = page_sections
      /\ offset_to_page' = offset_to_page /\ running_offset' = running_offset
      /\ start' = start /\ chunks' = chunks /\ table' = table
      /\ pc = "extracted" /\ pc' = "sections"
      /\ pages' = [page \in DOMAIN document.pages |-> MergedPage(page)]
  BY DEF MergeOcrResults
<1>2. Types /\ Progress
  BY DEF PipelineInv
<1>3. /\ page_sections = <<>> /\ offset_to_page = <<>> /\ running_offset = 0
      /\ start = 0 /\ chunks = <<>> /\ table = <<1, 0>>
  <2>1. pages = <<>> /\ Len(page_sections) <= 0
    BY <1>1, <1>2, EmptyIndexes DEF Progress
  <2>2. Len(page_sections) = 0
    BY <1>2, <2>1, LenProperties DEF Types
  <2>3. page_sections = <<>>
    BY <1>2, <2>2, EmptySeq DEF Types
  <2> QED
    BY <1>1, <1>2, <2>3 DEF Progress
<1>4. document \in Documents
  BY <1>2 DEF Types
<1>5. pages' \in Seq(MergedPageType) /\ Len(pages') = Len(document.pages)
  <2>1. pages' \in [1 .. Len(document.pages) -> MergedPageType]
    BY <1>1, <1>4, DocumentTyped, MergedPageTyped
  <2> QED
    BY <1>4, <2>1, DocumentTyped, FunctionIsSequence
<1>6. Types'
  BY <1>1, <1>2, <1>5 DEF Types, Stages
<1>7. Progress'
  <2>1. Len(document.pages) \in Nat
    BY <1>4, DocumentTyped
  <2> QED
    BY <1>1, <1>3, <1>5, <2>1, EmptyIndexes DEF Progress, Done
<1>8. /\ Placed(offset_to_page, pages, running_offset)'
      /\ SectionsFollow(page_sections, pages)'
      /\ PagesOfChunks(chunks, page_sections, Len(pages))'
      /\ IdsFollow(chunks, table)'
      /\ Distinct(chunks)'
  BY <1>1, <1>3, EmptyParts
<1>9. ChunksCiteTheirPages'
  BY <1>1, <1>3, EmptyIndexes DEF ChunksCiteTheirPages
<1>10. TextIsCovered'
  BY <1>1 DEF TextIsCovered
<1>11. TablesChunked(chunks, document.tables, table)'
  BY <1>1, <1>3, <1>4, NoTablePassed, DocumentTyped
<1> QED
  BY <1>6, <1>7, <1>8, <1>9, <1>10, <1>11 DEF PipelineInv, Distinct, ChunkIdsDistinct

LEMMA SectionsPreserve == PipelineInv /\ ComputePageSections => PipelineInv'
<1> SUFFICES ASSUME PipelineInv, ComputePageSections PROVE PipelineInv'
  OBVIOUS
<1> DEFINE section == IF pages[Len(page_sections) + 1].heading
                      THEN Len(page_sections) + 1 ELSE CursorSection
<1>1. /\ document' = document /\ pages' = pages
      /\ offset_to_page' = offset_to_page /\ running_offset' = running_offset
      /\ start' = start /\ chunks' = chunks /\ table' = table
      /\ pc = "sections"
  BY DEF ComputePageSections
<1>2. \/ /\ Len(page_sections) + 1 <= Len(pages)
         /\ page_sections' = Append(page_sections, section) /\ pc' = "sections"
      \/ /\ ~(Len(page_sections) + 1 <= Len(pages))
         /\ page_sections' = page_sections /\ pc' = "offsets"
  BY <1>1 DEF ComputePageSections
<1>3. Types /\ Progress /\ SectionsFollow(page_sections, pages)
  BY DEF PipelineInv
<1>4. /\ offset_to_page = <<>> /\ running_offset = 0
      /\ start = 0 /\ chunks = <<>> /\ table = <<1, 0>>
      /\ Len(pages) = Len(document.pages) /\ Len(page_sections) <= Len(pages)
  BY <1>1, <1>3 DEF Progress
<1>5. /\ pages \in Seq(MergedPageType) /\ page_sections \in Seq(Nat)
      /\ Len(pages) \in Nat /\ Len(page_sections) \in Nat
      /\ document \in Documents
  BY <1>3, LenProperties DEF Types
<1>6. /\ page_sections' \in Seq(Nat)
      /\ SectionsFollow(page_sections', pages)
      /\ Len(page_sections') <= Len(pages)
      /\ pc' = "offsets" => Len(page_sections') = Len(pages)
  <2>1. CASE Len(page_sections) + 1 <= Len(pages)
    <3>1. section = IF pages[Len(page_sections) + 1].heading
                    THEN Len(page_sections) + 1
                    ELSE IF page_sections = <<>> THEN NoPage
                         ELSE page_sections[Len(page_sections)]
      BY DEF CursorSection
    <3> HIDE DEF section
    <3>2. section \in Nat /\ SectionsFollow(Append(page_sections, section), pages)
      BY <1>3, <1>5, <2>1, <3>1, OneSectionMore
    <3>3. page_sections' = Append(page_sections, section) /\ pc' = "sections"
      BY <1>2, <2>1
    <3>4. page_sections' \in Seq(Nat) /\ Len(page_sections') = Len(page_sections) + 1
      BY <1>5, <3>2, <3>3, AppendProperties
    <3> QED
      BY <2>1, <3>2, <3>3, <3>4
  <2>2. CASE ~(Len(page_sections) + 1 <= Len(pages))
    BY <1>2, <1>3, <1>4, <1>5, <2>2
  <2> QED
    BY <2>1, <2>2
<1>7. pc' \in {"sections", "offsets"}
  BY <1>2
<1>8. Types'
  BY <1>1, <1>3, <1>6, <1>7 DEF Types, Stages
<1>9. Progress'
  BY <1>1, <1>4, <1>5, <1>6, <1>7, EmptyIndexes DEF Progress, Done
<1>10. /\ Placed(offset_to_page, pages, running_offset)'
       /\ PagesOfChunks(chunks, page_sections, Len(pages))'
       /\ IdsFollow(chunks, table)'
       /\ Distinct(chunks)'
  BY <1>1, <1>4, EmptyParts
<1>11. SectionsFollow(page_sections, pages)'
  BY <1>1, <1>6
<1>12. ChunksCiteTheirPages'
  BY <1>1, <1>4, EmptyIndexes DEF ChunksCiteTheirPages
<1>13. TextIsCovered'
  BY <1>7 DEF TextIsCovered
<1>14. TablesChunked(chunks, document.tables, table)'
  BY <1>1, <1>4, <1>5, NoTablePassed, DocumentTyped
<1> QED
  BY <1>8, <1>9, <1>10, <1>11, <1>12, <1>13, <1>14
  DEF PipelineInv, Distinct, ChunkIdsDistinct

LEMMA PlacePreserves == PipelineInv /\ PlacePage => PipelineInv'
<1> SUFFICES ASSUME PipelineInv, PlacePage PROVE PipelineInv'
  OBVIOUS
<1>1. /\ document' = document /\ pages' = pages /\ page_sections' = page_sections
      /\ start' = start /\ chunks' = chunks /\ table' = table
      /\ pc = "offsets"
  BY DEF PlacePage
<1>2. \/ /\ Len(offset_to_page) + 1 <= Len(pages)
         /\ offset_to_page' = Append(offset_to_page, running_offset)
         /\ running_offset' =
              running_offset + pages[Len(offset_to_page) + 1].chars + 1
         /\ pc' = "offsets"
      \/ /\ ~(Len(offset_to_page) + 1 <= Len(pages))
         /\ offset_to_page' = offset_to_page /\ running_offset' = running_offset
         /\ pc' = "windows"
  BY <1>1 DEF PlacePage
<1>3. /\ Types /\ Progress /\ SectionsFollow(page_sections, pages)
      /\ Placed(offset_to_page, pages, running_offset)
  BY DEF PipelineInv
<1>4. /\ start = 0 /\ chunks = <<>> /\ table = <<1, 0>>
      /\ Len(pages) = Len(document.pages) /\ Len(page_sections) = Len(pages)
      /\ Len(offset_to_page) <= Len(pages)
  BY <1>1, <1>3 DEF Progress
<1>5. /\ pages \in Seq(MergedPageType) /\ offset_to_page \in Seq(Nat)
      /\ running_offset \in Nat
      /\ Len(pages) \in Nat /\ Len(offset_to_page) \in Nat
      /\ document \in Documents
  BY <1>3, LenProperties DEF Types
<1>6. /\ offset_to_page' \in Seq(Nat)
      /\ running_offset' \in Nat
      /\ Placed(offset_to_page', pages, running_offset')
      /\ Len(offset_to_page') <= Len(pages)
      /\ pc' = "windows" => Len(offset_to_page') = Len(pages)
  <2>1. CASE Len(offset_to_page) + 1 <= Len(pages)
    <3>1. /\ offset_to_page' = Append(offset_to_page, running_offset)
          /\ running_offset' =
               running_offset + pages[Len(offset_to_page) + 1].chars + 1
          /\ pc' = "offsets"
      BY <1>2, <2>1
    <3>2. /\ offset_to_page' \in Seq(Nat)
          /\ Len(offset_to_page') = Len(offset_to_page) + 1
      BY <1>5, <3>1, AppendProperties
    <3>3. running_offset' \in Nat /\ Placed(offset_to_page', pages, running_offset')
      BY <1>3, <1>5, <2>1, <3>1, OnePageMore
    <3> QED
      BY <2>1, <3>1, <3>2, <3>3
  <2>2. CASE ~(Len(offset_to_page) + 1 <= Len(pages))
    BY <1>2, <1>3, <1>4, <1>5, <2>2
  <2> QED
    BY <2>1, <2>2
<1>7. pc' \in {"offsets", "windows"}
  BY <1>2
<1>8. Types'
  BY <1>1, <1>3, <1>6, <1>7 DEF Types, Stages
<1>9. Progress'
  BY <1>1, <1>4, <1>5, <1>6, <1>7 DEF Progress, Done
<1>10. /\ PagesOfChunks(chunks, page_sections, Len(pages))'
       /\ IdsFollow(chunks, table)'
       /\ Distinct(chunks)'
  BY <1>1, <1>4, EmptyParts
<1>11. /\ SectionsFollow(page_sections, pages)'
       /\ Placed(offset_to_page, pages, running_offset)'
  BY <1>1, <1>3, <1>6
<1>12. ChunksCiteTheirPages'
  BY <1>1, <1>4, EmptyIndexes DEF ChunksCiteTheirPages
<1>13. TextIsCovered'
  <2> SUFFICES ASSUME pc' = "windows" PROVE Cover(chunks, Letters, Covered)'
    BY <1>7 DEF TextIsCovered
  <2>1. Covered' = 0 /\ chunks' = <<>>
    BY <1>1, <1>4 DEF Covered
  <2>2. Text
    BY <1>3, <1>4, <1>5, TextIsTyped
  <2>3. \A x \in Letters' : x \in Nat
    <3>1. offset_to_page' = offset_to_page
      BY <1>2
    <3>2. Letters' = Letters
      BY <1>1, <3>1 DEF Letters, LettersOf
    <3> QED
      BY <2>2, <3>2, LettersEnd
  <2>4. \A a \in Letters' : \A b \in a .. a + Overlap - 1 : ~(b < 0)
    BY <2>3, PipelineOK
  <2> QED
    BY <2>1, <2>3, <2>4, EmptyIndexes DEF Cover
<1>14. TablesChunked(chunks, document.tables, table)'
  BY <1>1, <1>4, <1>5, NoTablePassed, DocumentTyped
<1> QED
  BY <1>8, <1>9, <1>10, <1>11, <1>12, <1>13, <1>14
  DEF PipelineInv, Distinct, ChunkIdsDistinct

\* The chunk of the window at hand.
LEMMA TextChunkTyped ==
  ASSUME Types, Text, Len(page_sections) = Len(offset_to_page),
         NEW first \in Nat, NEW final \in Nat, first <= final, final < running_offset
  PROVE  /\ TextChunk(first, final) \in ChunkType
         /\ TextChunk(first, final).page_start \in 1 .. Len(offset_to_page)
         /\ TextChunk(first, final).page_end \in 1 .. Len(offset_to_page)
         /\ TextChunk(first, final).text = TextOf(first, final)
         /\ TextChunk(first, final).section =
              page_sections[TextChunk(first, final).page_start]
         /\ TextChunk(first, final).chunk_id =
              <<"text", Len(chunks), TextOf(first, final)>>
         /\ TextChunk(first, final).page_start = Lookup(first)
         /\ TextChunk(first, final).page_end = Lookup(final)
<1>1. first < running_offset
  BY DEF Types
<1>2. DOMAIN offset_to_page = 1 .. Len(offset_to_page) /\ Len(offset_to_page) \in Nat
  BY LenProperties DEF Types
<1>3. /\ Lookup(first) \in 1 .. Len(offset_to_page)
      /\ Lookup(final) \in 1 .. Len(offset_to_page)
  BY <1>1, <1>2, LookupFinds
<1>4. page_sections[Lookup(first)] \in Nat
  BY <1>3, ElementOfSeq DEF Types
<1>5. Lookup(first) \in Nat /\ Lookup(final) \in Nat
  BY <1>2, <1>3
<1>6. TextOf(first, final) \in SUBSET Nat
  BY DEF TextOf
<1>7. Len(chunks) \in Nat
  BY LenProperties DEF Types
<1>8. <<"text", Len(chunks), TextOf(first, final)>>
        \in {"text", "table"} \X Nat \X (Nat \union SUBSET Nat)
  BY <1>6, <1>7
<1>9. TextChunk(first, final) =
        [chunk_id |-> <<"text", Len(chunks), TextOf(first, final)>>,
         text |-> TextOf(first, final), page_start |-> Lookup(first),
         page_end |-> Lookup(final), section |-> page_sections[Lookup(first)]]
  BY DEF TextChunk, ChunkOf
<1>10. TextChunk(first, final) \in ChunkType
  BY <1>4, <1>5, <1>6, <1>8, <1>9 DEF ChunkType
<1> QED
  BY <1>3, <1>9, <1>10

\* A chunk that cites its pages joins chunks that do.
CitesAll(cs) ==
    \A i \in DOMAIN cs, page \in DOMAIN offset_to_page :
      cs[i].text \intersect LettersOf(page) # {} =>
        page \in cs[i].page_start .. cs[i].page_end

LEMMA CitesGrow ==
  ASSUME NEW cs \in Seq(ChunkType), NEW chunk \in ChunkType, CitesAll(cs),
         \A page \in DOMAIN offset_to_page :
           chunk.text \intersect LettersOf(page) # {} =>
             page \in chunk.page_start .. chunk.page_end
  PROVE  CitesAll(Append(cs, chunk))
<1>1. \A i \in DOMAIN Append(cs, chunk) :
        (i \in DOMAIN cs /\ Append(cs, chunk)[i] = cs[i]) \/ Append(cs, chunk)[i] = chunk
  BY Appended
<1> QED
  BY <1>1 DEF CitesAll

LEMMA WindowPreserves == PipelineInv /\ TakeWindow => PipelineInv'
<1> SUFFICES ASSUME PipelineInv, TakeWindow PROVE PipelineInv'
  OBVIOUS
<1> DEFINE chunk == TextChunk(start, WindowEnd - 1)
<1>1. /\ document' = document /\ pages' = pages /\ page_sections' = page_sections
      /\ offset_to_page' = offset_to_page /\ running_offset' = running_offset
      /\ table' = table /\ pc = "windows" /\ start < running_offset
      /\ chunks' = IF TextOf(start, WindowEnd - 1) = {} THEN chunks
                   ELSE Append(chunks, chunk)
  BY DEF TakeWindow
<1>2. \/ WindowEnd = running_offset /\ pc' = "tables" /\ start' = start
      \/ WindowEnd # running_offset /\ pc' = "windows" /\ start' = NextStart
  BY <1>1 DEF TakeWindow
<1>3. /\ Types /\ Progress /\ SectionsFollow(page_sections, pages)
      /\ Placed(offset_to_page, pages, running_offset)
      /\ PagesOfChunks(chunks, page_sections, Len(pages))
      /\ CitesAll(chunks) /\ TextIsCovered /\ IdsFollow(chunks, table)
      /\ Distinct(chunks)
  BY DEF PipelineInv, ChunksCiteTheirPages, ChunkIdsDistinct, Distinct, CitesAll
<1>4. /\ Len(pages) = Len(document.pages) /\ Len(page_sections) = Len(pages)
      /\ Len(offset_to_page) = Len(pages) /\ table = <<1, 0>>
  BY <1>1, <1>3 DEF Progress
<1>5. /\ pages \in Seq(MergedPageType) /\ page_sections \in Seq(Nat)
      /\ offset_to_page \in Seq(Nat)
      /\ running_offset \in Nat /\ start \in Nat /\ chunks \in Seq(ChunkType)
      /\ document \in Documents
  BY <1>3 DEF Types
<1>6. ChunkSize \in Nat /\ Overlap \in Nat /\ Overlap < ChunkSize
  BY PipelineOK
<1>7. /\ WindowEnd \in Nat /\ start < WindowEnd /\ WindowEnd <= running_offset
      /\ WindowEnd # running_offset => WindowEnd = start + ChunkSize
      /\ WindowEnd - 1 \in Nat /\ start <= WindowEnd - 1
      /\ WindowEnd - 1 < running_offset
  BY <1>1, <1>5, <1>6 DEF WindowEnd
<1>8. Len(offset_to_page) <= Len(pages) /\ Len(pages) \in Nat
  BY <1>4, <1>5, LenProperties
<1>9. Text
  BY <1>3, <1>5, <1>8, TextIsTyped
<1>10. /\ chunk \in ChunkType
       /\ chunk.page_start \in 1 .. Len(pages) /\ chunk.page_end \in 1 .. Len(pages)
       /\ chunk.text = TextOf(start, WindowEnd - 1)
       /\ chunk.section = page_sections[chunk.page_start]
       /\ chunk.chunk_id = <<"text", Len(chunks), TextOf(start, WindowEnd - 1)>>
       /\ chunk.page_start = Lookup(start) /\ chunk.page_end = Lookup(WindowEnd - 1)
  BY <1>3, <1>4, <1>5, <1>7, <1>9, TextChunkTyped
<1>11. \A page \in DOMAIN offset_to_page :
         chunk.text \intersect LettersOf(page) # {} =>
           page \in chunk.page_start .. chunk.page_end
  BY <1>5, <1>7, <1>9, <1>10, WindowCites
<1> HIDE DEF chunk
<1>12. chunks' = chunks \/ chunks' = Append(chunks, chunk)
  BY <1>1
<1>13. /\ chunks' \in Seq(ChunkType)
       /\ PagesOfChunks(chunks', page_sections, Len(pages))
       /\ CitesAll(chunks')
       /\ IdsFollow(chunks', table)
       /\ Distinct(chunks')
  <2>1. CASE chunks' = chunks
    BY <1>3, <1>5, <2>1
  <2>2. CASE chunks' = Append(chunks, chunk)
    <3>1. Append(chunks, chunk) \in Seq(ChunkType)
      BY <1>5, <1>10, AppendProperties
    <3>2. PagesOfChunks(Append(chunks, chunk), page_sections, Len(pages))
      BY <1>3, <1>5, <1>10, PageOfNewChunk
    <3>3. CitesAll(Append(chunks, chunk))
      BY <1>3, <1>5, <1>10, <1>11, CitesGrow
    <3>4. IdsFollow(Append(chunks, chunk), table) /\ Distinct(Append(chunks, chunk))
      BY <1>3, <1>5, <1>10, TextIdFollows
    <3> QED
      BY <2>2, <3>1, <3>2, <3>3, <3>4
  <2> QED
    BY <1>12, <2>1, <2>2
<1>14. start' \in Nat /\ pc' \in {"windows", "tables"}
  BY <1>2, <1>5, <1>6, <1>7 DEF NextStart
<1>15. Types'
  BY <1>1, <1>3, <1>13, <1>14 DEF Types, Stages
<1>16. Progress'
  BY <1>1, <1>4, <1>8, <1>14 DEF Progress, Done
<1>17. ChunksCiteTheirPages'
  BY <1>1, <1>13 DEF ChunksCiteTheirPages, CitesAll, LettersOf
<1>18. Cover(chunks', Letters, WindowEnd)
  <2>1. Letters \in SUBSET Nat
    BY <1>9, LettersEnd
  <2>2. Cover(chunks, Letters, Covered)
    BY <1>1, <1>3 DEF TextIsCovered
  <2>3. Covered \in Nat
        /\ ((start = 0 /\ Covered = 0) \/ Covered = start + Overlap)
    BY <1>1, <1>5, <1>6 DEF Covered
  <2>4. \/ (start .. WindowEnd - 1) \intersect Letters = {} /\ chunks' = chunks
        \/ \E c \in ChunkType :
             c.text = (start .. WindowEnd - 1) \intersect Letters
             /\ chunks' = Append(chunks, c)
    BY <1>1, <1>10 DEF TextOf, chunk
  <2> QED
    BY <1>5, <1>6, <1>7, <1>13, <2>1, <2>2, <2>3, <2>4, WindowCovers
<1>19. TextIsCovered'
  <2>1. Letters' = Letters
    BY <1>1 DEF Letters, LettersOf
  <2>2. Covered' = WindowEnd
    <3>1. CASE WindowEnd = running_offset /\ pc' = "tables"
      BY <1>1, <3>1 DEF Covered
    <3>2. CASE WindowEnd # running_offset /\ pc' = "windows" /\ start' = NextStart
      <4>1. start' # 0 /\ start' + Overlap = WindowEnd
        BY <1>5, <1>6, <1>7, <3>2 DEF NextStart
      <4> QED
        BY <3>2, <4>1 DEF Covered
    <3> QED
      BY <1>2, <3>1, <3>2
  <2> QED
    BY <1>18, <2>1, <2>2 DEF TextIsCovered
<1>20. TablesChunked(chunks, document.tables, table)'
  BY <1>1, <1>4, <1>5, NoTablePassed, DocumentTyped
<1>21. /\ Placed(offset_to_page, pages, running_offset)'
       /\ SectionsFollow(page_sections, pages)'
       /\ PagesOfChunks(chunks, page_sections, Len(pages))'
       /\ IdsFollow(chunks, table)'
       /\ Distinct(chunks)'
  BY <1>1, <1>3, <1>13
<1> QED
  BY <1>15, <1>16, <1>17, <1>19, <1>20, <1>21
  DEF PipelineInv, Distinct, ChunkIdsDistinct

LEMMA NoWindowPreserves == PipelineInv /\ NoWindow => PipelineInv'
<1> SUFFICES ASSUME PipelineInv, NoWindow PROVE PipelineInv'
  OBVIOUS
<1>1. /\ document' = document /\ pages' = pages /\ page_sections' = page_sections
      /\ offset_to_page' = offset_to_page /\ running_offset' = running_offset
      /\ start' = start /\ chunks' = chunks /\ table' = table
      /\ pc = "windows" /\ pc' = "tables" /\ start >= running_offset
  BY DEF NoWindow
<1>2. /\ Types /\ Progress /\ Placed(offset_to_page, pages, running_offset)
      /\ TextIsCovered /\ ChunksCiteTheirPages
  BY DEF PipelineInv
<1>3. Types'
  BY <1>1, <1>2 DEF Types, Stages
<1>4. Progress'
  BY <1>1, <1>2 DEF Progress, Done
<1>5. running_offset \in Nat /\ start \in Nat /\ Overlap \in Nat
  BY <1>2, PipelineOK DEF Types
<1>6. Covered \in Nat /\ Covered >= running_offset
  BY <1>1, <1>5 DEF Covered
<1>7. Text
  <2>1. Len(offset_to_page) <= Len(pages)
    BY <1>2 DEF Progress
  <2> QED
    BY <1>2, <2>1, TextIsTyped DEF Types
<1>8. \A x \in Letters : x \in Nat /\ x < running_offset
  BY <1>7, LettersEnd
<1>9. Cover(chunks, Letters, Covered)
  BY <1>1, <1>2 DEF TextIsCovered
<1>10. Cover(chunks, Letters, running_offset)
  <2>1. \A x \in Letters : x < Covered
    BY <1>5, <1>6, <1>8
  <2>2. ASSUME NEW a \in Letters, NEW b \in a .. a + Overlap - 1, b < running_offset,
               a .. b \subseteq Letters
        PROVE  \E i \in DOMAIN chunks : a .. b \subseteq chunks[i].text
    <3>1. b < Covered
      BY <1>5, <1>6, <1>8, <2>2
    <3> QED
      BY <1>9, <2>2, <3>1 DEF Cover
  <2> QED
    BY <1>9, <2>1, <2>2 DEF Cover
<1>11. TextIsCovered'
  <2>1. Letters' = Letters /\ Covered' = running_offset
    BY <1>1 DEF Letters, LettersOf, Covered
  <2> QED
    BY <1>1, <1>10, <2>1 DEF TextIsCovered
<1>12. ChunksCiteTheirPages'
  BY <1>1, <1>2 DEF ChunksCiteTheirPages, LettersOf
<1>13. /\ Placed(offset_to_page, pages, running_offset)'
       /\ SectionsFollow(page_sections, pages)'
       /\ PagesOfChunks(chunks, page_sections, Len(pages))'
       /\ TablesChunked(chunks, document.tables, table)'
       /\ IdsFollow(chunks, table)'
       /\ ChunkIdsDistinct'
  BY <1>1 DEF PipelineInv, ChunkIdsDistinct
<1> QED
  BY <1>3, <1>4, <1>11, <1>12, <1>13 DEF PipelineInv

LEMMA TablePreserves == PipelineInv /\ TakeTable => PipelineInv'
<1> SUFFICES ASSUME PipelineInv, TakeTable PROVE PipelineInv'
  OBVIOUS
<1>1. /\ document' = document /\ pages' = pages /\ page_sections' = page_sections
      /\ offset_to_page' = offset_to_page /\ running_offset' = running_offset
      /\ start' = start /\ pc = "tables" /\ pc' = "tables"
      /\ table[1] <= Len(document.tables)
  BY DEF TakeTable
<1>2. \/ /\ chunks' = Append(chunks, TableChunk)
         /\ table' = <<table[1], table[2] + 1>>
      \/ /\ ~(table[2] < document.tables[table[1]])
         /\ table' = <<table[1] + 1, 0>> /\ chunks' = chunks
  BY DEF TakeTable, NextPage
<1>3. /\ Types /\ Progress
      /\ PagesOfChunks(chunks, page_sections, Len(pages))
      /\ CitesAll(chunks) /\ TextIsCovered
      /\ TablesChunked(chunks, document.tables, table) /\ IdsFollow(chunks, table)
      /\ Distinct(chunks)
  BY DEF PipelineInv, ChunksCiteTheirPages, ChunkIdsDistinct, Distinct, CitesAll
<1>4. /\ Len(pages) = Len(document.pages) /\ Len(page_sections) = Len(pages)
  BY <1>1, <1>3 DEF Progress
<1>5. /\ page_sections \in Seq(Nat) /\ chunks \in Seq(ChunkType)
      /\ document \in Documents
      /\ table[1] \in Nat \ {0} /\ table[2] \in Nat /\ table = <<table[1], table[2]>>
  BY <1>3 DEF Types
<1>6. /\ document.tables \in Seq(Nat) /\ Len(pages) \in Nat
      /\ DOMAIN document.tables = 1 .. Len(pages)
      /\ Len(document.tables) = Len(pages)
  BY <1>4, <1>5, DocumentTyped
<1>7. table[1] \in 1 .. Len(pages)
  BY <1>1, <1>5, <1>6
<1>8. document.tables[table[1]] \in Nat /\ page_sections[table[1]] \in Nat
  BY <1>4, <1>5, <1>6, <1>7, ElementOfSeq
<1>9. TableChunk = [chunk_id |-> <<"table", table[1], table[2]>>, text |-> {},
                    page_start |-> table[1], page_end |-> table[1],
                    section |-> page_sections[table[1]]]
  BY DEF TableChunk, ChunkOf
<1>10. TableChunk \in ChunkType
  <2>1. <<"table", table[1], table[2]>>
          \in {"text", "table"} \X Nat \X (Nat \union SUBSET Nat)
    BY <1>5
  <2>2. {} \in SUBSET Nat /\ table[1] \in Nat
    BY <1>5
  <2> QED
    BY <1>8, <1>9, <2>1, <2>2 DEF ChunkType
<1>11. /\ TableChunk.page_start = table[1] /\ TableChunk.page_end = table[1]
       /\ TableChunk.section = page_sections[TableChunk.page_start]
       /\ TableChunk.text = {}
       /\ TableChunk.chunk_id = <<"table", table[1], table[2]>>
  BY <1>9
<1>12. /\ TablesChunked(chunks, document.tables, <<table[1], table[2]>>)
       /\ IdsFollow(chunks, <<table[1], table[2]>>)
  BY <1>3, <1>5
<1>13. pc = "tables" => Cover(chunks, Letters, Covered)
  BY <1>3 DEF TextIsCovered
<1>14. /\ chunks' \in Seq(ChunkType)
       /\ table' \in (Nat \ {0}) \X Nat
       /\ PagesOfChunks(chunks', page_sections, Len(pages))
       /\ CitesAll(chunks')
       /\ Cover(chunks', Letters, Covered)
       /\ TablesChunked(chunks', document.tables, table')
       /\ IdsFollow(chunks', table')
       /\ Distinct(chunks')
  <2>1. CASE chunks' = Append(chunks, TableChunk) /\ table' = <<table[1], table[2] + 1>>
    <3>1. chunks' \in Seq(ChunkType)
      BY <1>5, <1>10, <2>1, AppendProperties
    <3>2. PagesOfChunks(chunks', page_sections, Len(pages))
      BY <1>3, <1>5, <1>7, <1>10, <1>11, <2>1, PageOfNewChunk
    <3>3. CitesAll(chunks')
      BY <1>3, <1>5, <1>10, <1>11, <2>1, CitesGrow
    <3>4. Cover(chunks', Letters, Covered)
      BY <1>1, <1>5, <1>10, <1>11, <1>13, <2>1, CoverGrows
    <3>5. /\ TablesChunked(chunks', document.tables, table')
          /\ IdsFollow(chunks', table') /\ Distinct(chunks')
      BY <1>3, <1>5, <1>6, <1>10, <1>11, <1>12, <2>1, TableIdFollows
    <3>6. table' \in (Nat \ {0}) \X Nat
      BY <1>5, <2>1
    <3> QED
      BY <3>1, <3>2, <3>3, <3>4, <3>5, <3>6
  <2>2. CASE /\ ~(table[2] < document.tables[table[1]])
             /\ table' = <<table[1] + 1, 0>> /\ chunks' = chunks
    <3>1. table[2] >= document.tables[table[1]]
      BY <1>5, <1>8, <2>2
    <3>2. TablesChunked(chunks', document.tables, table') /\ IdsFollow(chunks', table')
      BY <1>5, <1>6, <1>7, <1>12, <2>2, <3>1, PageLeft
    <3>3. table' \in (Nat \ {0}) \X Nat
      BY <1>5, <2>2
    <3> QED
      BY <1>1, <1>3, <1>5, <1>13, <2>2, <3>2, <3>3
  <2> QED
    BY <1>2, <2>1, <2>2
<1>15. Types'
  BY <1>1, <1>3, <1>14 DEF Types, Stages
<1>16. Progress'
  BY <1>1, <1>3 DEF Progress, Done
<1>17. ChunksCiteTheirPages'
  BY <1>1, <1>14 DEF ChunksCiteTheirPages, CitesAll, LettersOf
<1>18. TextIsCovered'
  <2>1. Letters' = Letters /\ Covered' = Covered
    BY <1>1 DEF Letters, LettersOf, Covered
  <2> QED
    BY <1>14, <2>1 DEF TextIsCovered
<1>19. /\ Placed(offset_to_page, pages, running_offset)'
       /\ SectionsFollow(page_sections, pages)'
       /\ PagesOfChunks(chunks, page_sections, Len(pages))'
       /\ TablesChunked(chunks, document.tables, table)'
       /\ IdsFollow(chunks, table)'
       /\ Distinct(chunks)'
  BY <1>1, <1>14 DEF PipelineInv
<1> QED
  BY <1>15, <1>16, <1>17, <1>18, <1>19 DEF PipelineInv, Distinct, ChunkIdsDistinct

LEMMA EndPreserves == PipelineInv /\ (EmbedAndStore \/ NothingToStore) => PipelineInv'
<1> SUFFICES ASSUME PipelineInv, EmbedAndStore \/ NothingToStore PROVE PipelineInv'
  OBVIOUS
<1>1. /\ document' = document /\ pages' = pages /\ page_sections' = page_sections
      /\ offset_to_page' = offset_to_page /\ running_offset' = running_offset
      /\ start' = start /\ chunks' = chunks /\ table' = table
      /\ pc = "tables" /\ pc' \in {"stored", "refused"}
      /\ table[1] > Len(document.tables)
  BY DEF EmbedAndStore, NothingToStore
<1>2. /\ Types /\ Progress /\ TextIsCovered /\ ChunksCiteTheirPages
  BY DEF PipelineInv
<1>3. Types'
  BY <1>1, <1>2 DEF Types, Stages
<1>4. Progress'
  BY <1>1, <1>2 DEF Progress, Done
<1>5. TextIsCovered'
  <2>1. Letters' = Letters /\ Covered' = Covered
    BY <1>1 DEF Letters, LettersOf, Covered
  <2> QED
    BY <1>1, <1>2, <2>1 DEF TextIsCovered
<1>6. ChunksCiteTheirPages'
  BY <1>1, <1>2 DEF ChunksCiteTheirPages, LettersOf
<1>7. /\ Placed(offset_to_page, pages, running_offset)'
      /\ SectionsFollow(page_sections, pages)'
      /\ PagesOfChunks(chunks, page_sections, Len(pages))'
      /\ TablesChunked(chunks, document.tables, table)'
      /\ IdsFollow(chunks, table)'
      /\ ChunkIdsDistinct'
  BY <1>1 DEF PipelineInv, ChunkIdsDistinct
<1> QED
  BY <1>3, <1>4, <1>5, <1>6, <1>7 DEF PipelineInv

LEMMA AgainPreserves == PipelineInv /\ RunAgain => PipelineInv'
<1> SUFFICES ASSUME PipelineInv, RunAgain PROVE PipelineInv'
  OBVIOUS
<1>1. /\ document' = document /\ pages' = <<>> /\ page_sections' = <<>>
      /\ offset_to_page' = <<>> /\ running_offset' = 0 /\ start' = 0 /\ chunks' = <<>>
      /\ table' = <<1, 0>> /\ pc' = "extracted"
  BY DEF RunAgain
<1>2. document \in Documents
  BY DEF PipelineInv, Types
<1>3. Types'
  BY <1>1, <1>2, EmptyIndexes DEF Types, Stages
<1>4. Progress'
  BY <1>1, EmptyIndexes DEF Progress, Done
<1>5. /\ Placed(offset_to_page, pages, running_offset)'
      /\ SectionsFollow(page_sections, pages)'
      /\ PagesOfChunks(chunks, page_sections, Len(pages))'
      /\ IdsFollow(chunks, table)'
      /\ Distinct(chunks)'
  BY <1>1, EmptyParts
<1>6. ChunksCiteTheirPages'
  BY <1>1, EmptyIndexes DEF ChunksCiteTheirPages
<1>7. TextIsCovered'
  BY <1>1 DEF TextIsCovered
<1>8. TablesChunked(chunks, document.tables, table)'
  BY <1>1, <1>2, NoTablePassed, DocumentTyped
<1> QED
  BY <1>3, <1>4, <1>5, <1>6, <1>7, <1>8 DEF PipelineInv, Distinct, ChunkIdsDistinct

LEMMA StutterPreserves == PipelineInv /\ UNCHANGED pipelineVars => PipelineInv'
<1> SUFFICES ASSUME PipelineInv, UNCHANGED pipelineVars PROVE PipelineInv'
  OBVIOUS
<1>1. /\ document' = document /\ pages' = pages /\ page_sections' = page_sections
      /\ offset_to_page' = offset_to_page /\ running_offset' = running_offset
      /\ start' = start /\ chunks' = chunks /\ table' = table /\ pc' = pc
  BY DEF pipelineVars
<1>2. Types' /\ Progress'
  BY <1>1 DEF PipelineInv, Types, Progress, Done
<1>3. TextIsCovered'
  <2>1. Letters' = Letters /\ Covered' = Covered
    BY <1>1 DEF Letters, LettersOf, Covered
  <2> QED
    BY <1>1, <2>1 DEF PipelineInv, TextIsCovered
<1>4. ChunksCiteTheirPages'
  BY <1>1 DEF PipelineInv, ChunksCiteTheirPages, LettersOf
<1>5. /\ Placed(offset_to_page, pages, running_offset)'
      /\ SectionsFollow(page_sections, pages)'
      /\ PagesOfChunks(chunks, page_sections, Len(pages))'
      /\ TablesChunked(chunks, document.tables, table)'
      /\ IdsFollow(chunks, table)'
      /\ ChunkIdsDistinct'
  BY <1>1 DEF PipelineInv, ChunkIdsDistinct
<1> QED
  BY <1>2, <1>3, <1>4, <1>5 DEF PipelineInv

-----------------------------------------------------------------------------
(***************************************************************************)
(* The theorems.                                                           *)
(***************************************************************************)
\* The inductive invariant: the pages stand one after the other and fill the
\* text, the sections are those of the latest headings, the chunks so far hold
\* the text up to the end of the last window with every passage that ends
\* there, and the tables the loop has passed, each under an id of its own.
THEOREM PipelineInvariant == PipelineSpec => []PipelineInv
<1>1. PipelineInit => PipelineInv
  BY InitEstablishes
<1>2. PipelineInv /\ [PipelineNext]_pipelineVars => PipelineInv'
  BY MergePreserves, SectionsPreserve, PlacePreserves, WindowPreserves,
     NoWindowPreserves, TablePreserves, EndPreserves, AgainPreserves,
     StutterPreserves
  DEF PipelineNext, Proceed
<1> QED
  BY <1>1, <1>2, PTL DEF PipelineSpec

\* Every chunk cites pages of the document, and no offset, window or cursor of
\* the loops leaves its range (chunk_pages and build_table_records).
THEOREM PipelineTypes == PipelineSpec => []PipelineTypeOK
<1>1. PipelineInv => PipelineTypeOK
  <2> SUFFICES ASSUME PipelineInv PROVE PipelineTypeOK
    OBVIOUS
  <2>1. Types /\ Progress /\ PagesOfChunks(chunks, page_sections, Len(pages))
    BY DEF PipelineInv
  <2>2. DOMAIN pages = 1 .. Len(pages)
    BY <2>1, LenProperties DEF Types
  <2>3. \A i \in DOMAIN chunks :
          chunks[i].page_start \in DOMAIN pages /\ chunks[i].page_end \in DOMAIN pages
    BY <2>1, <2>2 DEF PagesOfChunks
  <2>4. pages # <<>> => Len(pages) = Len(document.pages)
    BY <2>1 DEF Progress
  <2>5. Len(page_sections) <= Len(pages) /\ Len(offset_to_page) <= Len(pages)
    BY <2>1 DEF Progress
  <2> QED
    BY <2>1, <2>3, <2>4, <2>5 DEF Types, PipelineTypeOK
<1> QED
  BY <1>1, PipelineInvariant, PTL

\* Whatever the pages, the tables and the sizes of window and overlap, the
\* chunks hold all letters and all tables when they go to the store, and
\* nothing else (chunk_pages and build_table_chunks).
THEOREM NoLetterNoTableLost == PipelineSpec => []NothingIsLost
<1>1. PipelineInv => NothingIsLost
  <2> SUFFICES ASSUME PipelineInv, Done
               PROVE  /\ UNION {chunks[i].text : i \in DOMAIN chunks} = Letters
                      /\ \A page \in DOMAIN document.tables :
                           \A number \in 0 .. document.tables[page] - 1 :
                             \E i \in DOMAIN chunks :
                               chunks[i].chunk_id = <<"table", page, number>>
    BY DEF NothingIsLost
  <2>1. /\ Types /\ Progress /\ TextIsCovered
        /\ Placed(offset_to_page, pages, running_offset)
        /\ TablesChunked(chunks, document.tables, table)
    BY DEF PipelineInv
  <2>2. Cover(chunks, Letters, running_offset)
    BY <2>1 DEF TextIsCovered, Covered, Done
  <2>3. Text
    <3>1. Len(offset_to_page) <= Len(pages)
      BY <2>1 DEF Progress
    <3> QED
      BY <2>1, <3>1, TextIsTyped DEF Types
  <2>4. \A x \in Letters : x < running_offset
    BY <2>3, LettersEnd
  <2>5. \A x \in Letters : \E i \in DOMAIN chunks : x \in chunks[i].text
    BY <2>2, <2>4 DEF Cover
  <2>6. \A i \in DOMAIN chunks : chunks[i].text \subseteq Letters
    BY <2>2 DEF Cover
  <2>7. UNION {chunks[i].text : i \in DOMAIN chunks} = Letters
    BY <2>5, <2>6
  <2>8. table[1] > Len(document.tables) /\ table[1] \in Nat
        /\ DOMAIN document.tables = 1 .. Len(document.tables)
        /\ Len(document.tables) \in Nat
    BY <2>1, DocumentTyped DEF Progress, Types
  <2>9. \A page \in DOMAIN document.tables : page < table[1]
    BY <2>8
  <2> QED
    BY <2>1, <2>7, <2>9 DEF TablesChunked, Passed
<1> QED
  BY <1>1, PipelineInvariant, PTL

\* The overlap does its work for every document: a passage that is no longer
\* is not cut by any window (chunk_pages).
THEOREM PassagesNotCut == PipelineSpec => []PassagesStandWhole
<1>1. PipelineInv => PassagesStandWhole
  <2> SUFFICES ASSUME PipelineInv, Done, NEW a \in Letters,
                      NEW b \in a .. a + Overlap - 1, a .. b \subseteq Letters
               PROVE  \E i \in DOMAIN chunks : a .. b \subseteq chunks[i].text
    BY DEF PassagesStandWhole
  <2>1. Types /\ Progress /\ TextIsCovered
        /\ Placed(offset_to_page, pages, running_offset)
    BY DEF PipelineInv
  <2>2. Cover(chunks, Letters, running_offset)
    BY <2>1 DEF TextIsCovered, Covered, Done
  <2>3. Text
    <3>1. Len(offset_to_page) <= Len(pages)
      BY <2>1 DEF Progress
    <3> QED
      BY <2>1, <3>1, TextIsTyped DEF Types
  <2>4. a \in Nat /\ Overlap \in Nat
    BY <2>3, LettersEnd, PipelineOK
  <2>5. b \in Letters
    BY <2>4
  <2>6. b < running_offset
    BY <2>3, <2>5, LettersEnd
  <2> QED
    BY <2>2, <2>6 DEF Cover
<1> QED
  BY <1>1, PipelineInvariant, PTL

\* A chunk that runs over pages cites them all (chunk_pages, lookup).
THEOREM CitationsComplete == PipelineSpec => []ChunksCiteTheirPages
<1>1. PipelineInv => ChunksCiteTheirPages
  BY DEF PipelineInv
<1> QED
  BY <1>1, PipelineInvariant, PTL

\* Text and tables have the section of the latest heading up to their page
\* (compute_page_sections).
THEOREM SectionsLatest == PipelineSpec => []SectionsAreLatestHeadings
<1>1. PipelineInv => SectionsAreLatestHeadings
  <2> SUFFICES ASSUME PipelineInv, NEW i \in DOMAIN chunks
               PROVE  LatestHeading(chunks[i].section, chunks[i].page_start, pages)
    BY DEF SectionsAreLatestHeadings, LatestHeading
  <2>1. /\ Types /\ Progress /\ SectionsFollow(page_sections, pages)
        /\ PagesOfChunks(chunks, page_sections, Len(pages))
    BY DEF PipelineInv
  <2>2. chunks # <<>>
    BY EmptyIndexes
  <2>3. pc \notin {"extracted", "sections"}
    BY <2>1, <2>2 DEF Progress
  <2>4. DOMAIN page_sections = 1 .. Len(pages)
    BY <2>1, <2>3, LenProperties DEF Progress, Types
  <2> QED
    BY <2>1, <2>4 DEF PagesOfChunks, SectionsFollow
<1> QED
  BY <1>1, PipelineInvariant, PTL

\* The store, which keeps one chunk an id, keeps every chunk of a document
\* (_deterministic_chunk_id and the ids of build_table_records).
THEOREM IdsDistinct == PipelineSpec => []ChunkIdsDistinct
<1>1. PipelineInv => ChunkIdsDistinct
  BY DEF PipelineInv
<1> QED
  BY <1>1, PipelineInvariant, PTL

\* What stands in the pages stands in the chunks of a document that is done,
\* a short passage in one piece (chunk_pages, build_table_chunks).
THEOREM DocumentCovered == PipelineSpec => []DocumentIsCovered
BY NoLetterNoTableLost, PassagesNotCut, PTL DEF DocumentIsCovered

\* Pages, section and id of every chunk are true, whatever the windows cut.
THEOREM ChunksAreSound == PipelineSpec => []ChunksSound
BY CitationsComplete, SectionsLatest, IdsDistinct, PTL DEF ChunksSound

-----------------------------------------------------------------------------
(***************************************************************************)
(* A second run over a file.  A step of a run is determined by how far the *)
(* run has come (AfterStep), so that a run goes through the states of the  *)
(* first one, ends in the state in which that one ended and stores the     *)
(* same chunks.                                                            *)
(***************************************************************************)
State(read, sections, offsets, length, first, made, cursor, stage) ==
    [read |-> read, sections |-> sections, offsets |-> offsets,
     length |-> length, first |-> first, made |-> made, cursor |-> cursor,
     stage |-> stage]

Fresh == State(<<>>, <<>>, <<>>, 0, 0, <<>>, <<1, 0>>, "extracted")
Now == State(pages, page_sections, offset_to_page, running_offset, start,
             chunks, table, pc)

EndIn(first, length) ==
    IF first + ChunkSize < length THEN first + ChunkSize ELSE length
LettersIn(offsets, read) ==
    UNION {offsets[p] .. offsets[p] + read[p].chars - 1 : p \in DOMAIN offsets}
PageAt(offsets, offset) ==
    CHOOSE p \in DOMAIN offsets :
      /\ offsets[p] <= offset
      /\ p < Len(offsets) => offset < offsets[p + 1]
WithText(read, sections, offsets, made, first, end) ==
    LET text == (first .. end - 1) \intersect LettersIn(offsets, read) IN
    IF text = {} THEN made
    ELSE Append(made, ChunkOf(text, <<"text", Len(made), text>>,
                              PageAt(offsets, first), PageAt(offsets, end - 1),
                              sections[PageAt(offsets, first)]))

MergedIn(doc) ==
    [p \in DOMAIN doc.pages |->
       IF ~doc.docx /\ doc.pages[p].chars < MinChars
       THEN [chars |-> doc.ocr[p].chars, heading |-> doc.ocr[p].heading,
             source |-> "ocr"]
       ELSE [chars |-> doc.pages[p].chars, heading |-> doc.pages[p].heading,
             source |-> IF doc.docx THEN "docx" ELSE "pdfplumber"]]

StepOf(doc, read, sections, offsets, length, first, made, cursor, stage) ==
    CASE stage = "extracted" ->
           State(MergedIn(doc), sections, offsets, length, first, made, cursor,
                 "sections")
      [] stage = "sections" ->
           IF Len(sections) + 1 <= Len(read)
           THEN State(read,
                      Append(sections,
                             IF read[Len(sections) + 1].heading
                             THEN Len(sections) + 1
                             ELSE IF sections = <<>> THEN NoPage
                                  ELSE sections[Len(sections)]),
                      offsets, length, first, made, cursor, stage)
           ELSE State(read, sections, offsets, length, first, made, cursor,
                      "offsets")
      [] stage = "offsets" ->
           IF Len(offsets) + 1 <= Len(read)
           THEN State(read, sections, Append(offsets, length),
                      length + read[Len(offsets) + 1].chars + 1, first, made,
                      cursor, stage)
           ELSE State(read, sections, offsets, length, first, made, cursor,
                      "windows")
      [] stage = "windows" ->
           IF first < length
           THEN State(read, sections, offsets, length,
                      IF EndIn(first, length) = length THEN first
                      ELSE EndIn(first, length) - Overlap,
                      WithText(read, sections, offsets, made, first,
                               EndIn(first, length)),
                      cursor,
                      IF EndIn(first, length) = length THEN "tables" ELSE stage)
           ELSE State(read, sections, offsets, length, first, made, cursor,
                      "tables")
      [] stage = "tables" ->
           IF cursor[2] < doc.tables[cursor[1]]
           THEN State(read, sections, offsets, length, first,
                      Append(made, ChunkOf({}, <<"table", cursor[1], cursor[2]>>,
                                           cursor[1], cursor[1],
                                           sections[cursor[1]])),
                      <<cursor[1], cursor[2] + 1>>, stage)
           ELSE State(read, sections, offsets, length, first, made,
                      <<cursor[1] + 1, 0>>, stage)

AfterStep(doc, s) ==
    StepOf(doc, s.read, s.sections, s.offsets, s.length, s.first, s.made,
           s.cursor, s.stage)
Ended(doc, s) == s.stage = "tables" /\ s.cursor[1] > Len(doc.tables)
Stored(s) == {s.made[i] : i \in DOMAIN s.made}

\* T holds the states of a run that has come to state last.
RunTo(doc, T, last) ==
    /\ Fresh \in T
    /\ last \in T
    /\ \A s \in T : s # last => ~Ended(doc, s) /\ AfterStep(doc, s) \in T

RerunInv ==
    \/ /\ collection = {}
       /\ ~Done => \E T : RunTo(document, T, Now)
    \/ \E T, last :
         /\ RunTo(document, T, last)
         /\ Ended(document, last)
         /\ collection = Stored(last)
         /\ ~Done => Now \in T

March ==
    /\ ~Ended(document, Now)
    /\ Now' = AfterStep(document, Now)
    /\ ~Done
    /\ UNCHANGED <<document, collection>>

LEMMA StepOfNow ==
  AfterStep(document, Now)
    = StepOf(document, pages, page_sections, offset_to_page, running_offset,
             start, chunks, table, pc)
BY DEF AfterStep, Now, State

LEMMA NotInTables == pc # "tables" => ~Ended(document, Now)
BY DEF Ended, Now, State

LEMMA MergeMarches == MergeOcrResults => March
<1> SUFFICES ASSUME MergeOcrResults PROVE March
  OBVIOUS
<1>1. pages' = MergedIn(document)
  BY DEF MergeOcrResults, MergedIn, MergedPage, LowText
<1>2. AfterStep(document, Now)
        = State(MergedIn(document), page_sections, offset_to_page,
                running_offset, start, chunks, table, "sections")
  BY StepOfNow DEF MergeOcrResults, StepOf
<1> QED
  BY <1>1, <1>2, NotInTables DEF March, MergeOcrResults, Now, Done

LEMMA SectionsMarch == ComputePageSections => March
<1> SUFFICES ASSUME ComputePageSections PROVE March
  OBVIOUS
<1> DEFINE page == Len(page_sections) + 1
           section == IF pages[page].heading THEN page ELSE CursorSection
<1>1. /\ pc = "sections"
      /\ UNCHANGED <<document, pages, offset_to_page, running_offset, start,
                     chunks, table, collection>>
      /\ IF page <= Len(pages)
         THEN page_sections' = Append(page_sections, section) /\ pc' = pc
         ELSE pc' = "offsets" /\ page_sections' = page_sections
  BY DEF ComputePageSections
<1>2. AfterStep(document, Now)
        = IF page <= Len(pages)
          THEN State(pages, Append(page_sections, section), offset_to_page,
                     running_offset, start, chunks, table, pc)
          ELSE State(pages, page_sections, offset_to_page, running_offset,
                     start, chunks, table, "offsets")
  BY <1>1, StepOfNow DEF StepOf, CursorSection
<1> HIDE DEF page, section
<1>3. Now' = AfterStep(document, Now)
  BY <1>1, <1>2 DEF Now
<1> QED
  BY <1>1, <1>3, NotInTables DEF March, Done

LEMMA PlaceMarches == PlacePage => March
<1> SUFFICES ASSUME PlacePage PROVE March
  OBVIOUS
<1> DEFINE page == Len(offset_to_page) + 1
           longer == running_offset + pages[page].chars + 1
<1>1. /\ pc = "offsets"
      /\ UNCHANGED <<document, pages, page_sections, start, chunks, table,
                     collection>>
      /\ IF page <= Len(pages)
         THEN /\ offset_to_page' = Append(offset_to_page, running_offset)
              /\ running_offset' = longer
              /\ pc' = pc
         ELSE /\ pc' = "windows"
              /\ UNCHANGED <<offset_to_page, running_offset>>
  BY DEF PlacePage
<1>2. AfterStep(document, Now)
        = IF page <= Len(pages)
          THEN State(pages, page_sections, Append(offset_to_page, running_offset),
                     longer, start, chunks, table, pc)
          ELSE State(pages, page_sections, offset_to_page, running_offset,
                     start, chunks, table, "windows")
  BY <1>1, StepOfNow DEF StepOf
<1> HIDE DEF page, longer
<1>3. Now' = AfterStep(document, Now)
  BY <1>1, <1>2 DEF Now
<1> QED
  BY <1>1, <1>3, NotInTables DEF March, Done

LEMMA WindowMarches == TakeWindow => March
<1> SUFFICES ASSUME TakeWindow PROVE March
  OBVIOUS
<1> DEFINE more == WithText(pages, page_sections, offset_to_page, chunks, start,
                            WindowEnd)
<1>1. /\ pc = "windows" /\ start < running_offset
      /\ UNCHANGED <<document, pages, page_sections, offset_to_page,
                     running_offset, table, collection>>
      /\ IF WindowEnd = running_offset
         THEN pc' = "tables" /\ start' = start
         ELSE start' = WindowEnd - Overlap /\ pc' = pc
  BY DEF TakeWindow, NextStart
<1>2. chunks' = more
  <2>1. Letters = LettersIn(offset_to_page, pages)
    BY DEF Letters, LettersOf, LettersIn
  <2>2. \A x : Lookup(x) = PageAt(offset_to_page, x)
    BY DEF Lookup, PageAt
  <2>3. chunks' = IF TextOf(start, WindowEnd - 1) = {} THEN chunks
                  ELSE Append(chunks, TextChunk(start, WindowEnd - 1))
    BY DEF TakeWindow
  <2> QED
    BY <2>1, <2>2, <2>3 DEF TextOf, TextChunk, WithText
<1>3. WindowEnd = EndIn(start, running_offset)
  BY DEF WindowEnd, EndIn
<1>4. AfterStep(document, Now)
        = State(pages, page_sections, offset_to_page, running_offset,
                IF WindowEnd = running_offset THEN start ELSE WindowEnd - Overlap,
                more, table,
                IF WindowEnd = running_offset THEN "tables" ELSE pc)
  BY <1>1, <1>3, StepOfNow DEF StepOf
<1> HIDE DEF more
<1>5. Now' = AfterStep(document, Now)
  BY <1>1, <1>2, <1>4 DEF Now
<1> QED
  BY <1>1, <1>5, NotInTables DEF March, Done

LEMMA NoWindowMarches == Types /\ NoWindow => March
<1> SUFFICES ASSUME Types, NoWindow PROVE March
  OBVIOUS
<1>1. /\ pc = "windows" /\ ~(start < running_offset) /\ pc' = "tables"
      /\ UNCHANGED <<document, pages, page_sections, offset_to_page,
                     running_offset, start, chunks, table, collection>>
  BY DEF NoWindow, Types
<1>2. AfterStep(document, Now)
        = State(pages, page_sections, offset_to_page, running_offset, start,
                chunks, table, "tables")
  BY <1>1, StepOfNow DEF StepOf
<1>3. Now' = AfterStep(document, Now)
  BY <1>1, <1>2 DEF Now
<1> QED
  BY <1>1, <1>3, NotInTables DEF March, Done

LEMMA TableMarches == Types /\ TakeTable => March
<1> SUFFICES ASSUME Types, TakeTable PROVE March
  OBVIOUS
<1> DEFINE more == Append(chunks, TableChunk)
<1>1. /\ pc = "tables" /\ table[1] <= Len(document.tables)
      /\ UNCHANGED <<document, pages, page_sections, offset_to_page,
                     running_offset, start, collection, pc>>
      /\ IF table[2] < document.tables[table[1]]
         THEN chunks' = more /\ table' = <<table[1], table[2] + 1>>
         ELSE table' = <<table[1] + 1, 0>> /\ chunks' = chunks
  BY DEF TakeTable, NextPage
<1>2. AfterStep(document, Now)
        = IF table[2] < document.tables[table[1]]
          THEN State(pages, page_sections, offset_to_page, running_offset,
                     start, more, <<table[1], table[2] + 1>>, pc)
          ELSE State(pages, page_sections, offset_to_page, running_offset,
                     start, chunks, <<table[1] + 1, 0>>, pc)
  BY <1>1, StepOfNow DEF StepOf, TableChunk
<1> HIDE DEF more
<1>3. Now' = AfterStep(document, Now)
  BY <1>1, <1>2 DEF Now
<1>4. ~Ended(document, Now)
  <2>1. table[1] \in Nat
    BY DEF Types
  <2>2. Len(document.tables) \in Nat
    BY PipelineOK, LenProperties DEF Types
  <2> QED
    BY <1>1, <2>1, <2>2 DEF Ended, Now, State
<1> QED
  BY <1>1, <1>3, <1>4 DEF March, Done

\* A step of the first run adds a state to it; one of a later run stays in it.
LEMMA MarchPreserves == RerunInv /\ March => RerunInv'
<1> SUFFICES ASSUME RerunInv, March PROVE RerunInv'
  OBVIOUS
<1>1. /\ ~Ended(document, Now) /\ Now' = AfterStep(document, Now) /\ ~Done
      /\ document' = document /\ collection' = collection
  BY DEF March
<1>2. CASE collection = {} /\ \E T : RunTo(document, T, Now)
  <2>1. PICK T : RunTo(document, T, Now)
    BY <1>2
  <2>2. RunTo(document, T \union {Now'}, Now')
    BY <1>1, <2>1 DEF RunTo
  <2>3. (\E S : RunTo(document, S, Now))'
    BY <1>1, <2>2
  <2> QED
    BY <1>1, <1>2, <2>3 DEF RerunInv
<1>3. CASE \E T, last : /\ RunTo(document, T, last)
                        /\ Ended(document, last)
                        /\ collection = Stored(last)
                        /\ Now \in T
  <2>1. PICK T, last : /\ RunTo(document, T, last)
                       /\ Ended(document, last)
                       /\ collection = Stored(last)
                       /\ Now \in T
    BY <1>3
  <2>2. Now' \in T
    BY <1>1, <2>1 DEF RunTo
  <2> QED
    BY <1>1, <2>1, <2>2 DEF RerunInv
<1> QED
  BY <1>1, <1>2, <1>3 DEF RerunInv

\* A run that ends where the first one ended stores what is stored.
LEMMA StoreRepeats ==
  ASSUME RerunInv, EmbedAndStore
  PROVE  RerunInv' /\ (collection # {} => collection' = collection)
<1> DEFINE new == {chunks[i] : i \in DOMAIN chunks}
<1>1. /\ ~Done /\ Done' /\ document' = document
      /\ collection' = {old \in collection :
                          \A chunk \in new : chunk.chunk_id # old.chunk_id}
                         \union new
  BY DEF EmbedAndStore, Done
<1>2. Stored(Now) = new
  BY DEF Stored, Now, State
<1>3. Ended(document, Now)
  BY DEF EmbedAndStore, Ended, Now, State
<1> HIDE DEF new
<1>4. CASE collection = {} /\ \E T : RunTo(document, T, Now)
  <2>1. PICK T : RunTo(document, T, Now)
    BY <1>4
  <2>2. collection' = Stored(Now)
    BY <1>1, <1>2, <1>4
  <2>3. \E S, last : /\ RunTo(document, S, last)
                     /\ Ended(document, last)
                     /\ collection' = Stored(last)
    BY <1>3, <2>1, <2>2
  <2> QED
    BY <1>1, <1>4, <2>3 DEF RerunInv
<1>5. CASE \E T, last : /\ RunTo(document, T, last)
                        /\ Ended(document, last)
                        /\ collection = Stored(last)
                        /\ Now \in T
  <2>1. PICK T, last : /\ RunTo(document, T, last)
                       /\ Ended(document, last)
                       /\ collection = Stored(last)
                       /\ Now \in T
    BY <1>5
  <2>2. Now = last
    BY <1>3, <2>1 DEF RunTo
  <2>3. collection = new
    BY <1>2, <2>1, <2>2
  <2>4. collection' = collection
    BY <1>1, <2>3
  <2> QED
    BY <1>1, <2>1, <2>4 DEF RerunInv
<1> QED
  BY <1>1, <1>4, <1>5 DEF RerunInv

LEMMA RestPreserves ==
  ASSUME RerunInv, NothingToStore \/ RunAgain \/ UNCHANGED pipelineVars
  PROVE  RerunInv' /\ collection' = collection
<1>1. document' = document /\ collection' = collection
  BY DEF NothingToStore, RunAgain, pipelineVars
<1>2. CASE NothingToStore
  <2>1. Done' /\ ~Done
    BY <1>2 DEF NothingToStore, Done
  <2> QED
    BY <1>1, <2>1 DEF RerunInv
<1>3. CASE RunAgain
  <2>1. Now' = Fresh
    BY <1>3 DEF RunAgain, Now, Fresh
  <2>2. RunTo(document, {Fresh}, Fresh)
    BY DEF RunTo
  <2>3. (\E T : RunTo(document, T, Now))'
    BY <1>1, <2>1, <2>2
  <2>4. CASE \E T, last : /\ RunTo(document, T, last)
                          /\ Ended(document, last)
                          /\ collection = Stored(last)
    <3>1. PICK T, last : /\ RunTo(document, T, last)
                         /\ Ended(document, last)
                         /\ collection = Stored(last)
      BY <2>4
    <3>2. Now' \in T
      BY <2>1, <3>1 DEF RunTo
    <3> QED
      BY <1>1, <3>1, <3>2 DEF RerunInv
  <2> QED
    BY <1>1, <2>3, <2>4 DEF RerunInv
<1>4. CASE UNCHANGED pipelineVars
  <2>1. Now' = Now /\ Done' = Done
    BY <1>4 DEF pipelineVars, Now, Done
  <2> QED
    BY <1>1, <2>1 DEF RerunInv
<1> QED
  BY <1>1, <1>2, <1>3, <1>4

\* A second run over a file leaves the collection as the first one made it
\* (_deterministic_chunk_id and the upsert of embed_and_store).
THEOREM RerunsRepeat == PipelineSpec => RerunAddsNothing
<1>1. PipelineInit => RerunInv
  <2> SUFFICES ASSUME PipelineInit PROVE RerunInv
    OBVIOUS
  <2>1. Now = Fresh /\ collection = {}
    BY DEF PipelineInit, Now, Fresh
  <2>2. RunTo(document, {Fresh}, Fresh)
    BY DEF RunTo
  <2> QED
    BY <2>1, <2>2 DEF RerunInv
<1>2. ASSUME PipelineInv, RerunInv, [PipelineNext]_pipelineVars
      PROVE  RerunInv' /\ (collection # {} => collection' = collection)
  <2>1. Types
    BY <1>2 DEF PipelineInv
  <2>2. CASE March
    <3>1. collection' = collection
      BY <2>2 DEF March
    <3> QED
      BY <1>2, <2>2, <3>1, MarchPreserves
  <2>3. CASE EmbedAndStore
    BY <1>2, <2>3, StoreRepeats
  <2>4. CASE NothingToStore \/ RunAgain \/ UNCHANGED pipelineVars
    BY <1>2, <2>4, RestPreserves
  <2> QED
    BY <1>2, <2>1, <2>2, <2>3, <2>4, MergeMarches, SectionsMarch, PlaceMarches,
       WindowMarches, NoWindowMarches, TableMarches
    DEF PipelineNext, Proceed
<1>3. PipelineInv /\ RerunInv /\ [PipelineNext]_pipelineVars => RerunInv'
  BY <1>2
<1>4. PipelineInv /\ RerunInv /\ [PipelineNext]_pipelineVars
        => [collection # {} => collection' = collection]_pipelineVars
  BY <1>2
<1> QED
  BY <1>1, <1>3, <1>4, PipelineInvariant, PTL DEF PipelineSpec, RerunAddsNothing
=============================================================================
