------------------------------- MODULE Chunking --------------------------------
(***************************************************************************)
(* From the text of a file to the chunks that are searched: parse_document *)
(* divides it into units (pages, slides, sheets, sections), build_chunks   *)
(* every unit into overlapping windows of whole sentences.                 *)
(*                                                                         *)
(* The text is a line of tokens 1, 2, 3, ...; a place in it is the number  *)
(* of tokens before it, a piece of it two places.  What the libraries read *)
(* of a file is a sequence of blocks (paragraphs and tables, or pages,     *)
(* slides, rows), each with the place where it ends.  The cells of a row   *)
(* past the last column that is read are no part of its text here.         *)
(***************************************************************************)
EXTENDS Integers, Sequences

CONSTANTS
    Files,         \* what there is to parse
    MaxRows,       \* MAX_CSV_ROWS
    MaxSheetRows,  \* MAX_SPREADSHEET_ROWS
    DefaultTarget, MinTokens, MaxTokens, OverlapTokens, SummaryTokens,
                   \* ChunkingConfig
    SheetTarget, PageTarget, HeadingTarget, ShortTarget,
    LongText, LongBonus, ShortText,
                   \* the numbers of _adaptive_target_tokens
    NoUnit

Formats == {"pdf", "pptx", "xlsx", "csv", "txt", "image", "md", "docx"}
Paged == {"pdf", "pptx", "xlsx"}
Sectioned == {"md", "docx"}
Rowed == {"xlsx", "csv"}
(* heading: a heading, or the first row of a sheet; bare: a heading that   *)
(* reads "Document"                                                        *)
Block == [heading : BOOLEAN, bare : BOOLEAN, to : Nat]
File == [format : Formats, blocks : Seq(Block), stops : SUBSET Nat]
Unit == [first : Nat \ {0}, last : Nat, heading : BOOLEAN,
         kind : {"page", "slide", "sheet", "section", "text"}]
Piece == [from : Nat, to : Nat]
Chunk == [unit : Unit, role : {"summary", "content"}, from : Nat, to : Nat]

(* Blocks follow each other, and only pages, slides, sheets and rows are   *)
(* without text; stops are where sentences end.                            *)
WellFormed(f) ==
    /\ f \in File
    /\ f.format = "xlsx" /\ f.blocks # <<>> => f.blocks[1].heading
    /\ \A i \in DOMAIN f.blocks :
        /\ f.format \notin Paged \cup {"csv"} => f.blocks[i].to > 0
        /\ \A j \in DOMAIN f.blocks : i < j =>
            /\ f.blocks[i].to <= f.blocks[j].to
            /\ f.format \notin Paged \cup {"csv"} => f.blocks[i].to < f.blocks[j].to

ASSUME FileAssumption == \A f \in Files : WellFormed(f)
ASSUME ConfigAssumption ==
    /\ {DefaultTarget, MinTokens, MaxTokens, SummaryTokens,
        MaxRows, MaxSheetRows} \subseteq Nat \ {0}
    /\ {SheetTarget, PageTarget, HeadingTarget, ShortTarget,
        LongText, LongBonus, ShortText, OverlapTokens} \subseteq Nat
    /\ DefaultTarget <= MaxTokens /\ OverlapTokens < DefaultTarget
    /\ NoUnit \notin Unit

VARIABLES
    file,    \* what is read of the file
    phase,   \* "parsing", "chunking" or "failed"
    units,   \* the units that are still to be chunked
    unit,    \* the one that is being chunked, NoUnit between two
    windows, \* its windows so far
    start,   \* where its next window starts
    chunks   \* the chunks of the document, in the order of chunk_index
vars == <<file, phase, units, unit, windows, start, chunks>>

Init ==
    /\ file \in Files
    /\ phase = "parsing"
    /\ units = {} /\ unit = NoUnit /\ windows = <<>> /\ start = 0
    /\ chunks = <<>>

----------------------------------------------------------------------------
(* parse_document *)

Least(a, b) == IF a <= b THEN a ELSE b
Greatest(a, b) == IF a <= b THEN b ELSE a

Blocks == DOMAIN file.blocks
Size == Len(file.blocks)
IsHeading(i) == file.blocks[i].heading

(* where block i ends *)
Place(i) == IF i = 0 THEN 0 ELSE file.blocks[i].to
(* a title is part of its section unless it is the one a section has that  *)
(* stands under no heading                                                 *)
LeftOut(i) == file.format = "docx" /\ IsHeading(i) /\ file.blocks[i].bare
From(u) ==
    Place(IF u.first \in Blocks /\ LeftOut(u.first) THEN u.first ELSE u.first - 1)
To(u) == Place(u.last)

Whole(kind, last) ==
    {[first |-> 1, last |-> last, kind |-> kind, heading |-> FALSE]}
(* fault: pages are numbered from zero *)
PagesFromZero(kind) ==
    {[first |-> i - 1, last |-> i - 1, kind |-> kind, heading |-> FALSE] : i \in Blocks}

Pages(kind) ==
    {[first |-> i, last |-> i, kind |-> kind, heading |-> FALSE] : i \in Blocks}

(* fault: a heading does not end the section before *)
OpenSections(S) ==
    {u \in [first : S, last : {Size}, kind : {"section"}, heading : BOOLEAN] :
        u.heading = (file.format = "docx" \/ IsHeading(u.first))}

(* from each of S to the next heading; what a Word document has before its *)
(* first heading is under the heading "Document"                           *)
Sections(S) ==
    {u \in [first : S, last : Blocks, kind : {"section"}, heading : BOOLEAN] :
        /\ u.first <= u.last
        /\ \A i \in u.first + 1 .. u.last : ~IsHeading(i)
        /\ u.last # Size => IsHeading(u.last + 1)
        /\ u.heading = (file.format = "docx" \/ IsHeading(u.first))}

(* _parse_markdown_sections: at every heading, and at what is before them *)
MarkdownUnits ==
    IF Size = 0 THEN Whole("section", 0)
    ELSE Sections({i \in Blocks : i = 1 \/ IsHeading(i)})

(* DOCXParser: a heading only opens a section when text follows, or when   *)
(* the document has nothing but headings                                   *)
DocxStarts ==
    {i \in Blocks : IF IsHeading(i) THEN i # Size /\ ~IsHeading(i + 1) ELSE i = 1}
DocxUnits ==
    IF Size = 0
    THEN {[first |-> 1, last |-> 0, kind |-> "section", heading |-> TRUE]}
    ELSE Sections(IF DocxStarts = {} THEN {Size} ELSE DocxStarts)

(* a sheet has the rows up to the next one, but no more than MaxSheetRows *)
XlsxUnits ==
    {u \in [first : {i \in Blocks : IsHeading(i)}, last : Blocks,
            kind : {"sheet"}, heading : {FALSE}] :
        /\ u.first <= u.last /\ u.last < u.first + MaxSheetRows
        /\ \A i \in u.first + 1 .. u.last : ~IsHeading(i)
        /\ \/ u.last = Size \/ IsHeading(u.last + 1)
           \/ u.last + 1 = u.first + MaxSheetRows}

(* one unit for each page and slide, one for all rows, one for text *)
PdfUnits  == Pages("page")
PptxUnits == Pages("slide")
CsvUnits  == Whole("sheet", Least(Size, MaxRows))
TextUnits == Whole("text", Size)

ParsedUnits ==
    CASE file.format = "pdf"  -> PdfUnits
      [] file.format = "pptx" -> PptxUnits
      [] file.format = "xlsx" -> XlsxUnits
      [] file.format = "csv"  -> CsvUnits
      [] file.format = "md"   -> MarkdownUnits
      [] file.format = "docx" -> DocxUnits
      [] OTHER                -> TextUnits

Parse ==
    /\ phase = "parsing"
    /\ file.format = "image" => Size # 0
    /\ phase' = "chunking" /\ units' = ParsedUnits
    /\ UNCHANGED <<file, unit, windows, start, chunks>>

(* DocumentParsingError: a file the library cannot read, an image in which *)
(* it finds no text                                                        *)
Reject ==
    /\ phase = "parsing"
    /\ phase' = "failed"
    /\ UNCHANGED <<file, units, unit, windows, start, chunks>>

----------------------------------------------------------------------------
(* build_chunks *)

(* the units in the order of their index *)
TakeUnit(u) ==
    /\ unit = NoUnit /\ u \in units /\ \A v \in units : u.first <= v.first
    /\ unit' = u /\ units' = units \ {u} /\ start' = From(u) /\ windows' = <<>>
    /\ UNCHANGED <<file, phase, chunks>>

(* _sentence_spans: an empty line ends a sentence, a line does not *)
SentenceEnds(u) ==
    {p \in file.stops \cup {Place(i) : i \in {j \in Blocks : file.format \notin Rowed}} :
        From(u) < p /\ p <= To(u)} \cup {To(u)}

(* _prepare_spans: where a span starts or ends; a sentence longer than     *)
(* MaxTokens is cut every MaxTokens                                        *)
Borders(u) ==
    SentenceEnds(u) \cup
    {p \in From(u) .. To(u) :
        \E e \in SentenceEnds(u) \cup {From(u)}, k \in 0 .. p :
            /\ p = e + k * MaxTokens
            /\ \A q \in SentenceEnds(u) : e < q => p < q}

(* _adaptive_target_tokens *)
Target(u) ==
    LET base == CASE u.kind = "sheet" -> SheetTarget
                  [] u.kind = "page"  -> PageTarget
                  [] OTHER -> IF u.heading THEN HeadingTarget ELSE DefaultTarget
        size == To(u) - From(u)
        adapted == IF size > LongText THEN base + LongBonus
                   ELSE IF size < ShortText THEN Least(base, ShortTarget) ELSE base
    IN  Greatest(MinTokens, Least(adapted, MaxTokens))

(* fault: a window below MinTokens takes the next span whatever its size *)
EnoughIfNotShort(u, a, p) ==
    \/ p = To(u) \/ p - a >= Target(u)
    \/ /\ p - a >= MinTokens
       /\ \A q \in Borders(u) : q > p => q - a > Target(u)

(* a window from a that has reached p takes no further span *)
Enough(u, a, p) ==
    \/ p = To(u) \/ p - a >= Target(u)
    \/ \A q \in Borders(u) : q > p => q - a > MaxTokens
    \/ /\ p - a >= MinTokens
       /\ \A q \in Borders(u) : q > p => q - a > Target(u)

WindowEnd(u, a, e) ==
    /\ a < e /\ Enough(u, a, e)
    /\ \A p \in Borders(u) : a < p /\ p < e => ~Enough(u, a, p)

(* fault: the last span of a window is not given to any other *)
StartAfterSpan(u, a, e, s) ==
    e < s /\ \A p \in Borders(u) : e < p => s <= p

(* spans are given again until they make up OverlapTokens, but never the   *)
(* first of the window                                                     *)
NextStart(u, a, e, s) ==
    /\ a < s /\ s <= e
    /\ e - s >= OverlapTokens \/ \A p \in Borders(u) : a < p => s <= p
    /\ \A p \in Borders(u) : s < p /\ p <= e => e - p < OverlapTokens

(* _build_windows *)
AddWindow ==
    /\ unit # NoUnit /\ start < To(unit)
    /\ \E e \in Borders(unit) :
        /\ WindowEnd(unit, start, e)
        /\ windows' = Append(windows, [from |-> start, to |-> e])
        /\ IF e = To(unit) THEN start' = e
           ELSE \E s \in Borders(unit) : NextStart(unit, start, e, s) /\ start' = s
    /\ UNCHANGED <<file, phase, units, unit, chunks>>

Summary(u) ==
    IF Len(windows) <= 1 THEN <<>>
    ELSE <<[unit |-> u, role |-> "summary", from |-> From(u),
            to |-> Least(From(u) + SummaryTokens, To(u))]>>
Contents(u) ==
    [k \in 1 .. Len(windows) |->
        [unit |-> u, role |-> "content", from |-> windows[k].from, to |-> windows[k].to]]

(* the summary of a unit of several windows, and a chunk for each *)
EmitUnit ==
    /\ unit # NoUnit /\ start = To(unit)
    /\ chunks' = chunks \o Summary(unit) \o Contents(unit)
    /\ unit' = NoUnit /\ windows' = <<>>
    /\ UNCHANGED <<file, phase, units, start>>

Next == Parse \/ Reject \/ (\E u \in units : TakeUnit(u)) \/ AddWindow \/ EmitUnit
Spec == Init /\ [][Next]_vars

----------------------------------------------------------------------------
(* Properties *)

TypeOK ==
    /\ WellFormed(file)
    /\ phase \in {"parsing", "chunking", "failed"}
    /\ units \subseteq Unit /\ unit \in Unit \cup {NoUnit}
    /\ windows \in Seq(Piece) /\ start \in Nat
    /\ chunks \in Seq(Chunk)
    /\ unit # NoUnit => start <= To(unit)

ContentChunks == {k \in DOMAIN chunks : chunks[k].role = "content"}
Holds(k, t) == chunks[k].from < t /\ t <= chunks[k].to

(* the rows past the limit of a file or a sheet, and in a Word document a  *)
(* heading that reads "Document" or one without text of its own next to    *)
(* some other text or heading                                              *)
Dropped(i) ==
    \/ file.format = "csv" /\ i > MaxRows
    \/ /\ file.format = "xlsx"
       /\ \A j \in Blocks : j <= i /\ i < j + MaxSheetRows => ~IsHeading(j)
    \/ LeftOut(i)
    \/ /\ file.format = "docx" /\ IsHeading(i)
       /\ IF i = Size THEN DocxStarts # {} ELSE IsHeading(i + 1)

(* When a document has been chunked every token of it is in a chunk that   *)
(* is searched, but for what the parsers drop: neither the bounds of pages *)
(* and sections, nor a sentence that is cut, nor the step from one window  *)
(* to the next loses a piece of text.                                      *)
TextIsSearchable ==
    phase = "chunking" /\ units = {} /\ unit = NoUnit =>
        \A i \in Blocks : ~Dropped(i) =>
            \A t \in Place(i - 1) + 1 .. Place(i) : \E k \in ContentChunks : Holds(k, t)

(* A chunk is never longer than what a chunk may have, and one that is not *)
(* the end of its unit is shorter than what it should have only when the   *)
(* sentence after it does not fit.                                         *)
ChunksFit ==
    \A k \in ContentChunks :
        LET c == chunks[k] IN
        /\ c.from < c.to /\ c.to - c.from <= MaxTokens
        /\ c.to - c.from < MinTokens /\ c.to # To(c.unit) =>
               \A p \in Borders(c.unit) : c.to < p => p - c.from > MaxTokens

(* i begins another page, slide, sheet or section than what is before it *)
Opens(i) ==
    \/ file.format \in {"pdf", "pptx"}
    \/ file.format \in Sectioned \cup {"xlsx"} /\ IsHeading(i)

(* A chunk is cited by the page, the sheet or the heading it stands under: *)
(* between there and every block of which it has a token no other begins.  *)
CitedWhereItStands ==
    \A k \in DOMAIN chunks, i \in Blocks :
        (\E t \in Place(i - 1) + 1 .. Place(i) : Holds(k, t))
        => /\ chunks[k].unit.first <= i
           /\ \A j \in chunks[k].unit.first + 1 .. i : ~Opens(j)
=============================================================================
