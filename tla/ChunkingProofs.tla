---------------------------- MODULE ChunkingProofs -----------------------------
(***************************************************************************)
(* What Chunking promises for files of any size and every configuration.   *)
(***************************************************************************)
EXTENDS Chunking, WellFoundedInduction, TLAPS

(* Some of a set of places up to n is the greatest. *)
LEMMA GreatestPlace ==
    ASSUME NEW n \in Nat, NEW S \in SUBSET (0 .. n), S # {}
    PROVE  \E x \in S : \A y \in S : y <= x
<1> DEFINE T == {n - x : x \in S}
<1>0. \A x \in S : n - x \in Nat
    OBVIOUS
<1>1. T \subseteq Nat /\ T # {}
    BY <1>0
<1>2. PICK d \in T : \A c \in T : ~(<<c, d>> \in OpToRel(<, Nat))
    BY <1>1, NatLessThanWellFounded, WFMin
<1>3. \A c \in T : ~(c < d)
    BY <1>1, <1>2 DEF OpToRel
<1>4. PICK x \in S : d = n - x
    BY <1>2
<1>5. ASSUME NEW y \in S PROVE y <= x
    <2>1. n - y \in T
        OBVIOUS
    <2>2. ~(n - y < n - x)
        BY <1>3, <1>4, <2>1
    <2>3. y \in 0 .. n /\ x \in 0 .. n
        OBVIOUS
    <2> QED BY <2>2, <2>3
<1> QED BY <1>4, <1>5

----------------------------------------------------------------------------
(* Places, units and borders *)

LEMMA PlaceFacts ==
    ASSUME WellFormed(file)
    PROVE  /\ Size \in Nat /\ Blocks = 1 .. Size
           /\ \A i \in 0 .. Size : Place(i) \in Nat
           /\ \A i, j \in 0 .. Size : i <= j => Place(i) <= Place(j)
<1>1. file.blocks \in Seq(Block)
    BY DEF WellFormed, File
<1>2. Size \in Nat /\ Blocks = 1 .. Size
    BY <1>1 DEF Size, Blocks
<1>3. \A i \in 1 .. Size : file.blocks[i].to \in Nat
    <2>1. \A i \in 1 .. Size : file.blocks[i] \in Block
        BY <1>1 DEF Size
    <2> QED BY <2>1 DEF Block
<1>4. \A i \in 0 .. Size : Place(i) \in Nat
    BY <1>3 DEF Place
<1>5. ASSUME NEW i \in 0 .. Size, NEW j \in 0 .. Size, i <= j
      PROVE  Place(i) <= Place(j)
    <2>1. CASE i = j
        BY <2>1, <1>4
    <2>2. CASE i = 0
        BY <2>2, <1>4 DEF Place
    <2>3. CASE 0 < i /\ i < j
        BY <1>2, <2>3 DEF WellFormed, Place, Blocks
    <2> QED BY <1>2, <1>5, <2>1, <2>2, <2>3
<1> QED BY <1>2, <1>4, <1>5

(* What a unit of the parsers is: a stretch of blocks, empty only when     *)
(* there are none.                                                         *)
Valid(u) ==
    /\ u \in Unit /\ u.first - 1 <= u.last /\ u.last <= Size
    /\ u.first \in Blocks => u.first <= u.last

LEMMA SectionsValid ==
    ASSUME WellFormed(file), NEW S \in SUBSET Blocks, NEW u \in Sections(S)
    PROVE  Valid(u)
BY PlaceFacts DEF Sections, Valid, Unit

LEMMA ParsedValid ==
    ASSUME WellFormed(file), NEW u \in ParsedUnits
    PROVE  Valid(u)
<1> USE PlaceFacts
<1>1. ASSUME NEW last \in 0 .. Size, NEW kind \in {"sheet", "section", "text"},
             Size # 0 => last # 0, u \in Whole(kind, last)
      PROVE  Valid(u)
    <2>1. u = [first |-> 1, last |-> last, kind |-> kind, heading |-> FALSE]
        BY <1>1 DEF Whole
    <2>2. u \in Unit
        BY <1>1, <2>1 DEF Unit
    <2>3. u.first = 1 /\ u.last = last
        BY <2>1
    <2> QED BY <1>1, <2>2, <2>3 DEF Valid
<1>2. ASSUME NEW kind \in {"page", "slide"}, u \in Pages(kind)
      PROVE  Valid(u)
    <2>1. PICK i \in 1 .. Size :
            u = [first |-> i, last |-> i, kind |-> kind, heading |-> FALSE]
        BY <1>2 DEF Pages
    <2>2. u \in Unit
        BY <1>2, <2>1 DEF Unit
    <2>3. u.first = i /\ u.last = i
        BY <2>1
    <2> QED BY <2>2, <2>3 DEF Valid
<1>3. CASE u \in MarkdownUnits
    <2>1. CASE Size = 0
        BY <1>1, <1>3, <2>1 DEF MarkdownUnits
    <2>2. CASE Size # 0
        BY <1>3, <2>2, SectionsValid DEF MarkdownUnits
    <2> QED BY <2>1, <2>2
<1>4. CASE u \in DocxUnits
    <2>1. CASE Size = 0
        <3>1. u = [first |-> 1, last |-> 0, kind |-> "section", heading |-> TRUE]
            BY <1>4, <2>1 DEF DocxUnits
        <3>2. u \in Unit
            BY <3>1 DEF Unit
        <3>3. u.first = 1 /\ u.last = 0
            BY <3>1
        <3> QED BY <2>1, <3>2, <3>3 DEF Valid
    <2>2. CASE Size # 0
        <3>1. (IF DocxStarts = {} THEN {Size} ELSE DocxStarts) \in SUBSET Blocks
            BY <2>2 DEF DocxStarts
        <3> QED BY <1>4, <2>2, <3>1, SectionsValid DEF DocxUnits
    <2> QED BY <2>1, <2>2
<1>5. Least(Size, MaxRows) \in 0 .. Size /\ (Size # 0 => Least(Size, MaxRows) # 0)
    BY ConfigAssumption DEF Least
<1>6. CASE u \in XlsxUnits
    <2>1. PICK first \in Blocks, last \in Blocks :
            /\ u = [first |-> first, last |-> last, kind |-> "sheet", heading |-> FALSE]
            /\ first <= last
        BY <1>6 DEF XlsxUnits
    <2>2. u \in Unit
        BY <2>1 DEF Unit
    <2> QED BY <2>1, <2>2 DEF Valid
<1> QED BY <1>1, <1>2, <1>3, <1>4, <1>5, <1>6
       DEF ParsedUnits, PdfUnits, PptxUnits, CsvUnits, TextUnits,
           WellFormed, File, Formats

LEMMA UnitPlaces ==
    ASSUME WellFormed(file), NEW u, Valid(u)
    PROVE  From(u) \in Nat /\ To(u) \in Nat /\ From(u) <= To(u)
<1> DEFINE a == IF u.first \in Blocks /\ LeftOut(u.first) THEN u.first
                ELSE u.first - 1
<1>1. a \in 0 .. Size /\ u.last \in 0 .. Size /\ a <= u.last
    BY PlaceFacts DEF Valid, Unit
<1>2. From(u) = Place(a)
    BY DEF From
<1> HIDE DEF a
<1> QED BY <1>1, <1>2, PlaceFacts DEF To

(* A unit begins with its first block, or after a title that is left out. *)
LEMMA UnitBegins ==
    ASSUME WellFormed(file), NEW u, Valid(u)
    PROVE  /\ Place(u.first - 1) <= From(u)
           /\ \A i \in Blocks : u.first <= i /\ ~LeftOut(i) =>
                  From(u) <= Place(i - 1)
<1> USE PlaceFacts
<1>1. u.first \in Nat \ {0} /\ u.first - 1 \in 0 .. Size
    BY DEF Valid, Unit
<1>2. CASE u.first \in Blocks /\ LeftOut(u.first)
    <2>1. From(u) = Place(u.first) /\ u.first \in 0 .. Size
        BY <1>2 DEF From
    <2>2. Place(u.first - 1) <= Place(u.first)
        BY <1>1, <2>1
    <2>3. ASSUME NEW i \in Blocks, u.first <= i, ~LeftOut(i)
          PROVE  From(u) <= Place(i - 1)
        <3>1. u.first <= i - 1 /\ i - 1 \in 0 .. Size
            BY <1>1, <1>2, <2>3
        <3> QED BY <2>1, <3>1
    <2> QED BY <2>1, <2>2, <2>3
<1>3. CASE ~(u.first \in Blocks /\ LeftOut(u.first))
    <2>1. From(u) = Place(u.first - 1)
        BY <1>3 DEF From
    <2>2. \A i \in Blocks : u.first <= i => u.first - 1 <= i - 1 /\ i - 1 \in 0 .. Size
        BY <1>1
    <2> QED BY <1>1, <2>1, <2>2
<1> QED BY <1>2, <1>3

LEMMA BorderFacts ==
    ASSUME WellFormed(file), NEW u, Valid(u)
    PROVE  /\ Borders(u) \subseteq From(u) .. To(u)
           /\ From(u) \in Borders(u) /\ To(u) \in Borders(u)
           /\ SentenceEnds(u) \subseteq Borders(u)
<1> USE UnitPlaces
<1>1. SentenceEnds(u) \subseteq From(u) .. To(u) /\ To(u) \in SentenceEnds(u)
    <2>1. file.stops \subseteq Nat
        BY DEF WellFormed, File
    <2>2. {Place(i) : i \in {j \in Blocks : file.format \notin Rowed}} \subseteq Nat
        BY PlaceFacts
    <2> QED BY <2>1, <2>2 DEF SentenceEnds
<1>2. From(u) = From(u) + 0 * MaxTokens
    BY ConfigAssumption
<1>3. From(u) \in Borders(u)
    BY <1>1, <1>2 DEF Borders
<1> QED BY <1>1, <1>3 DEF Borders

(* No span is longer than MaxTokens. *)
LEMMA NextBorder ==
    ASSUME WellFormed(file), NEW u, Valid(u), NEW a \in Borders(u), a < To(u)
    PROVE  \E p \in Borders(u) : a < p /\ p <= a + MaxTokens
<1> USE UnitPlaces, BorderFacts
<1>0. a \in Nat /\ From(u) <= a /\ MaxTokens \in Nat \ {0}
    BY ConfigAssumption
<1>1. CASE \E q \in SentenceEnds(u) : a < q /\ q <= a + MaxTokens
    BY <1>1
<1>2. CASE \A q \in SentenceEnds(u) : a < q => a + MaxTokens < q
    <2>1. To(u) \in SentenceEnds(u)
        BY DEF SentenceEnds
    <2>2. a + MaxTokens \in From(u) .. To(u)
        BY <1>0, <1>2, <2>1
    <2>3. PICK e \in SentenceEnds(u) \cup {From(u)}, k \in Nat :
            k <= a /\ a = e + k * MaxTokens /\ \A q \in SentenceEnds(u) : e < q => a < q
        <3>1. CASE a \in SentenceEnds(u)
            <4>1. a = a + 0 * MaxTokens
                BY <1>0
            <4> QED BY <1>0, <3>1, <4>1
        <3>2. CASE a \notin SentenceEnds(u)
            BY <1>0, <3>2 DEF Borders
        <3> QED BY <3>1, <3>2
    <2>4. e \in Nat
        BY DEF SentenceEnds
    <2>5. a + MaxTokens = e + (k + 1) * MaxTokens
        BY <1>0, <2>3, <2>4
    <2>6. k + 1 \in 0 .. a + MaxTokens
        BY <1>0, <2>3
    <2>7. \A q \in SentenceEnds(u) : e < q => a + MaxTokens < q
        BY <1>2, <2>3
    <2>8. a + MaxTokens \in Borders(u)
        BY <2>2, <2>3, <2>5, <2>6, <2>7 DEF Borders
    <2> QED BY <1>0, <2>8
<1>3. \A q \in SentenceEnds(u) : q \in Nat
    OBVIOUS
<1> QED BY <1>0, <1>1, <1>2, <1>3

(* No window is longer than MaxTokens, and it is short only for want of    *)
(* room.                                                                   *)
LEMMA WindowFits ==
    ASSUME WellFormed(file), NEW u, Valid(u), NEW a \in Borders(u), a < To(u),
           NEW e \in Borders(u), WindowEnd(u, a, e)
    PROVE  /\ a < e /\ e - a <= MaxTokens
           /\ e - a < MinTokens /\ e # To(u) =>
                \A p \in Borders(u) : e < p => p - a > MaxTokens
<1> USE UnitPlaces, BorderFacts
<1>0. a \in Nat /\ e \in Nat /\ MaxTokens \in Nat \ {0} /\ MinTokens \in Nat
    BY ConfigAssumption
<1>1. e - a <= MaxTokens
    <2> SUFFICES ASSUME e > a + MaxTokens PROVE FALSE
        BY <1>0
    <2> DEFINE S == {p \in Borders(u) : a < p /\ p <= a + MaxTokens}
    <2>1. S # {} /\ S \in SUBSET (0 .. To(u))
        BY NextBorder
    <2>2. PICK x \in S : \A y \in S : y <= x
        BY <2>1, GreatestPlace
    <2>3. \A q \in Borders(u) : q > x => q - a > MaxTokens
        BY <1>0, <2>2
    <2>4. Enough(u, a, x)
        BY <2>3 DEF Enough
    <2>5. a < x /\ x < e
        BY <1>0
    <2> QED BY <2>4, <2>5 DEF WindowEnd
<1>2. Target(u) \in Int /\ Target(u) >= MinTokens
    <2>1. \A b \in Nat : Greatest(MinTokens, b) \in Nat /\ Greatest(MinTokens, b) >= MinTokens
        BY <1>0 DEF Greatest
    <2>2. \A b \in Nat, c \in Nat : Least(b, c) \in Nat
        BY DEF Least
    <2>3. /\ DefaultTarget \in Nat /\ SheetTarget \in Nat /\ PageTarget \in Nat
          /\ HeadingTarget \in Nat /\ ShortTarget \in Nat /\ LongBonus \in Nat
          /\ MaxTokens \in Nat
        BY ConfigAssumption
    <2> DEFINE base == CASE u.kind = "sheet" -> SheetTarget
                         [] u.kind = "page"  -> PageTarget
                         [] OTHER -> IF u.heading THEN HeadingTarget ELSE DefaultTarget
               adapted == IF To(u) - From(u) > LongText THEN base + LongBonus
                          ELSE IF To(u) - From(u) < ShortText
                               THEN Least(base, ShortTarget) ELSE base
    <2>4. base \in Nat
        BY <2>3
    <2> HIDE DEF base
    <2>5. adapted \in Nat
        <3>1. base + LongBonus \in Nat
            BY <2>3, <2>4
        <3>2. Least(base, ShortTarget) \in Nat
            BY <2>3, <2>4 DEF Least
        <3> QED BY <2>4, <3>1, <3>2
    <2> HIDE DEF adapted
    <2>6. Target(u) = Greatest(MinTokens, Least(adapted, MaxTokens))
        BY DEF Target, base, adapted
    <2> QED BY <2>1, <2>2, <2>3, <2>5, <2>6
<1>3. a < e /\ Enough(u, a, e)
    BY DEF WindowEnd
<1>4. ASSUME e - a < MinTokens, e # To(u), NEW p \in Borders(u), e < p
      PROVE  p - a > MaxTokens
    BY <1>0, <1>2, <1>3, <1>4 DEF Enough
<1> QED BY <1>1, <1>3, <1>4
----------------------------------------------------------------------------
(* The inductive invariant *)

(* A piece of a unit, of a size a chunk may have. *)
Within(u, c) == From(u) <= c.from /\ c.to <= To(u)
Fits(u, c) ==
    /\ c.from < c.to /\ c.to - c.from <= MaxTokens
    /\ c.to - c.from < MinTokens /\ c.to # To(u) =>
           \A p \in Borders(u) : c.to < p => p - c.from > MaxTokens
Chunked(u) ==
    \A t \in From(u) + 1 .. To(u) : \E k \in ContentChunks : Holds(k, t)

(* The units in hand are what the parsers made.  The windows of the one    *)
(* being chunked hold its text up to where the next one starts.            *)
UnitsInv ==
    /\ phase # "chunking" => units = {} /\ unit = NoUnit /\ chunks = <<>>
    /\ units \subseteq ParsedUnits
    /\ unit # NoUnit =>
        /\ unit \in ParsedUnits
        /\ start \in Borders(unit)
        /\ \A t \in From(unit) + 1 .. start :
            \E k \in DOMAIN windows : windows[k].from < t /\ t <= windows[k].to
        /\ \A k \in DOMAIN windows : Within(unit, windows[k]) /\ Fits(unit, windows[k])
ChunksInv ==
    /\ phase = "chunking" =>
        \A u \in ParsedUnits : u \in units \/ u = unit \/ Chunked(u)
    /\ \A k \in DOMAIN chunks :
        /\ chunks[k].unit \in ParsedUnits
        /\ Within(chunks[k].unit, chunks[k])
        /\ k \in ContentChunks => Fits(chunks[k].unit, chunks[k])

(* The file is read once. *)
LEMMA FileStays ==
    ASSUME TypeOK, [Next]_vars
    PROVE  /\ file' = file /\ WellFormed(file)
           /\ ParsedUnits' = ParsedUnits
           /\ \A u : /\ From(u)' = From(u) /\ To(u)' = To(u) /\ Borders(u)' = Borders(u)
                     /\ \A c : (Within(u, c)' <=> Within(u, c)) /\ (Fits(u, c)' <=> Fits(u, c))
<1>1. file' = file
    BY DEF Next, Parse, Reject, TakeUnit, AddWindow, EmitUnit, vars
<1>2. WellFormed(file)
    BY DEF TypeOK
<1>3. ParsedUnits' = ParsedUnits
    BY <1>1
       DEF ParsedUnits, PdfUnits, PptxUnits, XlsxUnits, CsvUnits, TextUnits,
           Pages, Whole, MarkdownUnits, DocxUnits, DocxStarts,
           Sections, Blocks, Size, IsHeading
<1>4. ASSUME NEW u
      PROVE  From(u)' = From(u) /\ To(u)' = To(u) /\ Borders(u)' = Borders(u)
    BY <1>1 DEF From, To, Place, Borders, SentenceEnds, Blocks, LeftOut, IsHeading
<1>5. ASSUME NEW u, NEW c
      PROVE  (Within(u, c)' <=> Within(u, c)) /\ (Fits(u, c)' <=> Fits(u, c))
    BY <1>4 DEF Within, Fits
<1> QED BY <1>1, <1>2, <1>3, <1>4, <1>5

LEMMA TypesInductive ==
    ASSUME TypeOK, UnitsInv, [Next]_vars
    PROVE  TypeOK'
<1> USE FileStays
<1>1. CASE Parse \/ Reject
    BY <1>1, ParsedValid DEF Parse, Reject, TypeOK, Valid, UnitsInv
<1>2. ASSUME NEW u \in units, TakeUnit(u)
      PROVE  TypeOK'
    <2>1. u \in Unit /\ From(u) \in Nat /\ From(u) <= To(u)
        BY ParsedValid, UnitPlaces DEF UnitsInv, Valid
    <2> QED BY <1>2, <2>1 DEF TakeUnit, TypeOK
<1>3. CASE AddWindow
    <2>1. Borders(unit) \subseteq From(unit) .. To(unit) /\ From(unit) \in Nat /\ To(unit) \in Nat
        BY <1>3, ParsedValid, BorderFacts, UnitPlaces DEF AddWindow, UnitsInv
    <2>2. PICK e \in Borders(unit) :
            /\ windows' = Append(windows, [from |-> start, to |-> e])
            /\ start' = e \/ start' \in Borders(unit)
        BY <1>3 DEF AddWindow
    <2>3. [from |-> start, to |-> e] \in Piece
        BY <2>1 DEF TypeOK, Piece
    <2>4. start' \in Nat /\ start' <= To(unit)
        BY <2>1, <2>2
    <2> QED BY <1>3, <2>2, <2>3, <2>4 DEF AddWindow, TypeOK
<1>4. CASE EmitUnit
    <2>1. unit \in Unit /\ From(unit) \in Nat /\ To(unit) \in Nat
        BY <1>4, ParsedValid, UnitPlaces DEF EmitUnit, UnitsInv, Valid
    <2>2. Summary(unit) \in Seq(Chunk)
        <3>1. Least(From(unit) + SummaryTokens, To(unit)) \in Nat
            BY <2>1, ConfigAssumption DEF Least
        <3>2. [unit |-> unit, role |-> "summary", from |-> From(unit),
               to |-> Least(From(unit) + SummaryTokens, To(unit))] \in Chunk
            BY <2>1, <3>1 DEF Chunk
        <3> QED BY <3>2 DEF Summary
    <2>3. \A k \in 1 .. Len(windows) : windows[k] \in Piece
        BY DEF TypeOK
    <2>4. Contents(unit) \in Seq(Chunk)
        BY <2>1, <2>3 DEF Contents, Chunk, Piece, TypeOK
    <2> QED BY <1>4, <2>2, <2>4 DEF EmitUnit, TypeOK
<1>5. CASE UNCHANGED vars
    BY <1>5 DEF vars, TypeOK
<1> QED BY <1>1, <1>2, <1>3, <1>4, <1>5 DEF Next

(* A window that is added is a piece of the unit and reaches the place     *)
(* where the next one starts.                                              *)
LEMMA AddKeepsUnits ==
    ASSUME TypeOK, UnitsInv, AddWindow
    PROVE  UnitsInv'
<1> USE FileStays DEF Next
<1>1. /\ unit \in ParsedUnits /\ Valid(unit) /\ WellFormed(file) /\ start < To(unit)
      /\ unit' = unit /\ units' = units /\ phase' = phase /\ chunks' = chunks
    BY ParsedValid DEF AddWindow, UnitsInv, TypeOK
<1>2. /\ Borders(unit) \subseteq From(unit) .. To(unit) /\ start \in Borders(unit)
      /\ From(unit) \in Nat /\ To(unit) \in Nat
    BY <1>1, BorderFacts, UnitPlaces DEF UnitsInv, AddWindow
<1>3. PICK e \in Borders(unit) :
        /\ WindowEnd(unit, start, e)
        /\ windows' = Append(windows, [from |-> start, to |-> e])
        /\ start' = e \/ (start' \in Borders(unit) /\ start' <= e)
    BY DEF AddWindow, NextStart
<1> DEFINE w == [from |-> start, to |-> e]
<1>4. Within(unit, w) /\ Fits(unit, w)
    BY <1>1, <1>2, <1>3, WindowFits DEF Within, Fits
<1>5. /\ DOMAIN windows' = 1 .. Len(windows) + 1 /\ DOMAIN windows = 1 .. Len(windows)
      /\ windows'[Len(windows) + 1] = w /\ Len(windows) \in Nat
      /\ \A k \in DOMAIN windows : windows'[k] = windows[k]
    BY <1>3 DEF TypeOK
<1>6. ASSUME NEW t \in From(unit) + 1 .. start'
      PROVE  \E k \in DOMAIN windows' : windows'[k].from < t /\ t <= windows'[k].to
    <2>1. CASE t <= start
        <3>1. t \in From(unit) + 1 .. start
            BY <1>2, <2>1
        <3>2. PICK k \in DOMAIN windows : windows[k].from < t /\ t <= windows[k].to
            BY <1>1, <3>1 DEF UnitsInv, AddWindow
        <3> QED BY <1>5, <3>2
    <2>2. CASE ~(t <= start)
        <3>1. w.from < t /\ t <= w.to
            BY <1>2, <1>3, <2>2
        <3>2. Len(windows) + 1 \in DOMAIN windows'
            BY <1>5
        <3> QED BY <1>5, <3>1, <3>2
    <2> QED BY <2>1, <2>2
<1>7. \A k \in DOMAIN windows' : Within(unit, windows'[k]) /\ Fits(unit, windows'[k])
    <2> SUFFICES ASSUME NEW k \in DOMAIN windows'
                 PROVE  Within(unit, windows'[k]) /\ Fits(unit, windows'[k])
        OBVIOUS
    <2>1. CASE k = Len(windows) + 1
        BY <1>4, <1>5, <2>1
    <2>2. CASE k \in DOMAIN windows
        BY <1>1, <1>5, <2>2 DEF UnitsInv, AddWindow
    <2> QED BY <1>5, <2>1, <2>2
<1>8. start' \in Borders(unit)
    BY <1>3
<1> HIDE DEF w
<1> QED BY <1>1, <1>6, <1>7, <1>8 DEF UnitsInv
LEMMA UnitsInductive ==
    ASSUME TypeOK, UnitsInv, [Next]_vars
    PROVE  UnitsInv'
<1> USE FileStays
<1>1. CASE Parse \/ Reject
    BY <1>1 DEF Parse, Reject, UnitsInv
<1>2. ASSUME NEW u \in units, TakeUnit(u)
      PROVE  UnitsInv'
    <2>1. /\ unit' = u /\ units' \subseteq units /\ start' = From(u) /\ windows' = <<>>
          /\ phase' = phase /\ phase = "chunking"
        BY <1>2 DEF TakeUnit, UnitsInv
    <2>2. u \in ParsedUnits /\ From(u) \in Borders(u) /\ From(u) \in Nat
        BY ParsedValid, BorderFacts, UnitPlaces DEF UnitsInv
    <2>3. DOMAIN windows' = {} /\ From(u) + 1 .. start' = {}
        BY <2>1, <2>2
    <2> QED BY <2>1, <2>2, <2>3 DEF UnitsInv
<1>3. CASE AddWindow
    BY <1>3, AddKeepsUnits
<1>4. CASE EmitUnit
    BY <1>4 DEF EmitUnit, UnitsInv
<1>5. CASE UNCHANGED vars
    BY <1>5 DEF vars, UnitsInv
<1> QED BY <1>1, <1>2, <1>3, <1>4, <1>5 DEF Next

LEMMA TwoParts ==
    ASSUME NEW V, NEW a \in Seq(V), NEW b \in Seq(V)
    PROVE  /\ a \o b \in Seq(V) /\ Len(a \o b) = Len(a) + Len(b)
           /\ DOMAIN (a \o b) = 1 .. Len(a) + Len(b)
           /\ Len(a) \in Nat /\ Len(b) \in Nat
           /\ \A k \in 1 .. Len(a) : (a \o b)[k] = a[k]
           /\ \A k \in 1 .. Len(b) : (a \o b)[Len(a) + k] = b[k]
<1>1. a \o b \in Seq(V) /\ Len(a \o b) = Len(a) + Len(b)
    OBVIOUS
<1>2. DOMAIN (a \o b) = 1 .. Len(a) + Len(b)
    BY <1>1
<1>3. \A k \in 1 .. Len(a) : (a \o b)[k] = a[k]
    OBVIOUS
<1>4. \A k \in 1 .. Len(b) : (a \o b)[Len(a) + k] = b[k]
    OBVIOUS
<1> QED BY <1>1, <1>2, <1>3, <1>4

(* What a unit adds to the chunks: a summary at its beginning, then one    *)
(* chunk per window.                                                       *)
LEMMA EmittedChunks ==
    ASSUME TypeOK, UnitsInv, EmitUnit
    PROVE  /\ \A k \in DOMAIN chunks : k \in DOMAIN chunks' /\ chunks'[k] = chunks[k]
           /\ \A k \in DOMAIN windows : \E j \in DOMAIN chunks' :
                chunks'[j] = [unit |-> unit, role |-> "content",
                              from |-> windows[k].from, to |-> windows[k].to]
           /\ \A j \in DOMAIN chunks' \ DOMAIN chunks :
                \/ \E k \in DOMAIN windows :
                    chunks'[j] = [unit |-> unit, role |-> "content",
                                  from |-> windows[k].from, to |-> windows[k].to]
                \/ chunks'[j] = [unit |-> unit, role |-> "summary", from |-> From(unit),
                                 to |-> Least(From(unit) + SummaryTokens, To(unit))]
<1> DEFINE s == Summary(unit)
           c == Contents(unit)
           n == Len(chunks)
           sum == [unit |-> unit, role |-> "summary", from |-> From(unit),
                   to |-> Least(From(unit) + SummaryTokens, To(unit))]
           con(k) == [unit |-> unit, role |-> "content",
                      from |-> windows[k].from, to |-> windows[k].to]
<1>1. /\ n \in Nat /\ DOMAIN chunks = 1 .. n
      /\ Len(windows) \in Nat /\ DOMAIN windows = 1 .. Len(windows)
    BY DEF TypeOK
<1>2. \/ s = <<>> /\ Len(s) = 0
      \/ s = <<sum>> /\ Len(s) = 1 /\ s[1] = sum
    BY DEF Summary
<1>3. DOMAIN c = 1 .. Len(windows) /\ \A k \in 1 .. Len(windows) : c[k] = con(k)
    BY DEF Contents
<1> DEFINE V == Chunk \cup {sum} \cup {con(k) : k \in 1 .. Len(windows)}
<1>4. chunks \in Seq(V) /\ s \in Seq(V) /\ c \in Seq(V) /\ Len(c) = Len(windows)
    <2>1. chunks \in Seq(Chunk)
        BY DEF TypeOK
    <2>2. /\ Chunk \subseteq V /\ sum \in V
          /\ \A k \in 1 .. Len(windows) : con(k) \in V
        OBVIOUS
    <2>3. c \in [1 .. Len(windows) -> {con(k) : k \in 1 .. Len(windows)}]
        BY DEF Contents
    <2> HIDE DEF V, sum, con
    <2>4. s \in Seq(V)
        <3>1. <<>> \in Seq(V) /\ <<sum>> \in Seq(V)
            BY <2>2
        <3> HIDE DEF s
        <3> QED BY <1>2, <3>1
    <2>5. chunks \in Seq(V)
        BY <2>1, <2>2
    <2>6. c \in [1 .. Len(windows) -> V]
        BY <1>3, <2>2, <2>3
    <2> HIDE DEF c
    <2> QED BY <1>1, <2>4, <2>5, <2>6
<1>5. chunks' = (chunks \o s) \o c
    BY DEF EmitUnit
<1> HIDE DEF s, c, sum, con, V
<1>6. /\ DOMAIN chunks' = 1 .. Len(chunks) + Len(s) + Len(c)
      /\ \A k \in 1 .. Len(chunks) : chunks'[k] = chunks[k]
      /\ \A k \in 1 .. Len(s) : chunks'[Len(chunks) + k] = s[k]
      /\ \A k \in 1 .. Len(c) : chunks'[Len(chunks) + Len(s) + k] = c[k]
    <2> DEFINE e == chunks \o s
    <2>1. /\ e \in Seq(V) /\ Len(e) = Len(chunks) + Len(s)
          /\ Len(chunks) \in Nat /\ Len(s) \in Nat
          /\ \A k \in 1 .. Len(chunks) : e[k] = chunks[k]
          /\ \A k \in 1 .. Len(s) : e[Len(chunks) + k] = s[k]
        BY ONLY <1>4, TwoParts
    <2>2. chunks' = e \o c
        BY <1>5
    <2> HIDE DEF e
    <2>3. e \in Seq(V) /\ c \in Seq(V)
        BY <1>4, <2>1
    <2>4. /\ DOMAIN (e \o c) = 1 .. Len(e) + Len(c) /\ Len(c) \in Nat
          /\ \A k \in 1 .. Len(e) : (e \o c)[k] = e[k]
          /\ \A k \in 1 .. Len(c) : (e \o c)[Len(e) + k] = c[k]
        BY ONLY <2>3, TwoParts
    <2>5. \A k \in 1 .. Len(chunks) : k \in 1 .. Len(e)
        BY <2>1
    <2>6. \A k \in 1 .. Len(s) : Len(chunks) + k \in 1 .. Len(e)
        BY <2>1
    <2> QED BY ONLY <2>1, <2>2, <2>4, <2>5, <2>6
<1>7. /\ DOMAIN chunks' = 1 .. n + Len(s) + Len(windows)
      /\ \A k \in 1 .. n : chunks'[k] = chunks[k]
      /\ \A k \in 1 .. Len(s) : chunks'[n + k] = s[k]
      /\ \A k \in 1 .. Len(windows) : chunks'[n + Len(s) + k] = c[k]
    BY <1>4, <1>6
<1>8. Len(s) \in {0, 1}
    BY <1>2
<1>9. ASSUME NEW j \in DOMAIN chunks' \ DOMAIN chunks
      PROVE  (\E k \in DOMAIN windows : chunks'[j] = con(k)) \/ chunks'[j] = sum
    <2>1. CASE j <= n + Len(s)
        <3>1. Len(s) = 1 /\ j = n + 1
            BY <1>1, <1>7, <1>8, <2>1
        <3> QED BY <1>2, <1>7, <3>1
    <2>2. CASE ~(j <= n + Len(s))
        <3> DEFINE k == j - n - Len(s)
        <3>1. k \in 1 .. Len(windows) /\ j = n + Len(s) + k
            BY <1>1, <1>7, <1>8, <2>2
        <3>2. chunks'[j] = c[k]
            BY <1>7, <3>1
        <3> HIDE DEF k
        <3> QED BY <1>1, <1>3, <3>1, <3>2
    <2> QED BY <2>1, <2>2
<1>10. ASSUME NEW k \in DOMAIN windows
      PROVE  \E j \in DOMAIN chunks' : chunks'[j] = con(k)
    <2>1. n + Len(s) + k \in DOMAIN chunks'
        BY <1>1, <1>7, <1>8
    <2> QED BY <1>1, <1>3, <1>7, <2>1
<1>11. \A k \in DOMAIN chunks : k \in DOMAIN chunks' /\ chunks'[k] = chunks[k]
    BY <1>1, <1>7, <1>8
<1> QED BY <1>9, <1>10, <1>11 DEF con, sum

LEMMA EmitKeepsChunks ==
    ASSUME TypeOK, UnitsInv, ChunksInv, EmitUnit
    PROVE  ChunksInv'
<1> USE FileStays DEF Next
<1>1. /\ unit \in ParsedUnits /\ Valid(unit) /\ WellFormed(file) /\ start = To(unit)
      /\ phase' = phase /\ units' = units /\ unit # NoUnit
    BY ParsedValid DEF EmitUnit, UnitsInv, TypeOK
<1>2. From(unit) \in Nat /\ To(unit) \in Nat /\ From(unit) <= To(unit)
    BY <1>1, UnitPlaces
<1>3. \A k \in DOMAIN chunks : k \in DOMAIN chunks' /\ chunks'[k] = chunks[k]
    BY EmittedChunks
<1>4. ASSUME NEW u, Chunked(u)
      PROVE  Chunked(u)'
    BY <1>3, <1>4 DEF Chunked, ContentChunks, Holds
<1>5. ASSUME NEW u, u = unit
      PROVE  Chunked(u)'
    <2> SUFFICES ASSUME NEW t \in From(u) + 1 .. To(u)
                 PROVE  \E j \in DOMAIN chunks' : /\ chunks'[j].role = "content"
                                                 /\ chunks'[j].from < t /\ t <= chunks'[j].to
        BY DEF Chunked, ContentChunks, Holds
    <2>1. PICK k \in DOMAIN windows : windows[k].from < t /\ t <= windows[k].to
        BY <1>1, <1>5 DEF UnitsInv
    <2>2. PICK j \in DOMAIN chunks' :
            chunks'[j] = [unit |-> unit, role |-> "content",
                          from |-> windows[k].from, to |-> windows[k].to]
        BY EmittedChunks
    <2> QED BY <2>1, <2>2
<1>6. ASSUME NEW j \in DOMAIN chunks'
      PROVE  /\ chunks'[j].unit \in ParsedUnits
             /\ Within(chunks'[j].unit, chunks'[j])
             /\ chunks'[j].role = "content" => Fits(chunks'[j].unit, chunks'[j])
    <2>1. CASE j \in DOMAIN chunks
        BY <1>3, <2>1 DEF ChunksInv, ContentChunks
    <2>2. ASSUME NEW k \in DOMAIN windows,
                 chunks'[j] = [unit |-> unit, role |-> "content",
                               from |-> windows[k].from, to |-> windows[k].to]
          PROVE  <1>6!2
        <3>1. Within(unit, windows[k]) /\ Fits(unit, windows[k])
            BY <1>1 DEF UnitsInv
        <3> QED BY <1>1, <2>2, <3>1 DEF Within, Fits
    <2>3. CASE chunks'[j] = [unit |-> unit, role |-> "summary", from |-> From(unit),
                             to |-> Least(From(unit) + SummaryTokens, To(unit))]
        BY <1>1, <1>2, <2>3, ConfigAssumption DEF Within, Least
    <2> QED BY <2>1, <2>2, <2>3, EmittedChunks
<1>7. ASSUME NEW u \in ParsedUnits, phase = "chunking"
      PROVE  u \in units' \/ u = unit' \/ Chunked(u)'
    BY <1>1, <1>4, <1>5, <1>7 DEF ChunksInv
<1> QED BY <1>1, <1>6, <1>7 DEF ChunksInv, ContentChunks

LEMMA ChunksInductive ==
    ASSUME TypeOK, UnitsInv, ChunksInv, [Next]_vars
    PROVE  ChunksInv'
<1> USE FileStays
<1>1. CASE Parse \/ Reject
    BY <1>1 DEF Parse, Reject, UnitsInv, ChunksInv
<1>2. ASSUME chunks' = chunks,
             phase' = phase,
             \A u \in ParsedUnits : u \in units \/ u = unit => u \in units' \/ u = unit'
      PROVE  ChunksInv'
    <2>1. \A u : Chunked(u)' <=> Chunked(u)
        BY <1>2 DEF Chunked, ContentChunks, Holds
    <2> QED BY <1>2, <2>1 DEF ChunksInv, ContentChunks
<1>3. ASSUME NEW u \in units, TakeUnit(u)
      PROVE  ChunksInv'
    <2>1. NoUnit \notin ParsedUnits
        BY ParsedValid, ConfigAssumption DEF Valid
    <2> QED BY <1>2, <1>3, <2>1 DEF TakeUnit
<1>4. CASE AddWindow \/ UNCHANGED vars
    BY <1>2, <1>4 DEF AddWindow, vars
<1>5. CASE EmitUnit
    BY <1>5, EmitKeepsChunks
<1> QED BY <1>1, <1>3, <1>4, <1>5 DEF Next

THEOREM Invariants == Spec => [](TypeOK /\ UnitsInv /\ ChunksInv)
<1>1. Init => TypeOK /\ UnitsInv /\ ChunksInv
    BY FileAssumption, ConfigAssumption DEF Init, TypeOK, UnitsInv, ChunksInv
<1> QED BY <1>1, TypesInductive, UnitsInductive, ChunksInductive, PTL DEF Spec
----------------------------------------------------------------------------
(* The theorems *)

(* TypeOK: in particular no window starts behind the end of its unit. *)
THEOREM TypeCorrect == Spec => []TypeOK
BY Invariants, PTL

(* ChunksFit: whatever the sentences, no chunk is longer than MaxTokens    *)
(* and one below MinTokens has no room for the sentence after it.          *)
THEOREM EveryChunkFits == Spec => []ChunksFit
<1>1. ChunksInv => ChunksFit
    BY DEF ChunksInv, ChunksFit, Fits, ContentChunks
<1> QED BY <1>1, Invariants, PTL

(* A block with a token in a unit is one of the blocks of the unit. *)
LEMMA BlockOfUnit ==
    ASSUME WellFormed(file), NEW u, Valid(u), NEW i \in Blocks,
           NEW t \in Place(i - 1) + 1 .. Place(i), From(u) < t, t <= To(u)
    PROVE  u.first <= i /\ i <= u.last
<1> USE PlaceFacts
<1>0. /\ i \in 1 .. Size /\ i - 1 \in 0 .. Size /\ u.first - 1 \in 0 .. Size
      /\ u.last \in 0 .. Size /\ u.first \in Nat /\ u.last \in Nat
    BY DEF Valid, Unit
<1>1. /\ Place(i - 1) \in Nat /\ Place(i) \in Nat
      /\ Place(u.first - 1) \in Nat /\ Place(u.last) \in Nat
    BY <1>0
<1>2. CASE i < u.first
    <2>1. Place(i) <= Place(u.first - 1)
        BY <1>0, <1>2
    <2>2. Place(u.first - 1) <= From(u) /\ From(u) \in Nat
        BY UnitBegins, UnitPlaces
    <2> QED BY <1>1, <2>1, <2>2
<1>3. CASE u.last < i
    <2>1. Place(u.last) <= Place(i - 1)
        BY <1>0, <1>3
    <2> QED BY <1>1, <2>1 DEF To
<1> QED BY <1>0, <1>2, <1>3

(* CitedWhereItStands: a chunk is of one page or sheet, or under one       *)
(* heading.                                                                *)
THEOREM ChunksAreCitedRight == Spec => []CitedWhereItStands
<1>1. ASSUME TypeOK, ChunksInv
      PROVE  CitedWhereItStands
    <2> SUFFICES ASSUME NEW k \in DOMAIN chunks, NEW i \in Blocks,
                        NEW t \in Place(i - 1) + 1 .. Place(i), Holds(k, t)
                 PROVE  /\ chunks[k].unit.first <= i
                        /\ \A j \in chunks[k].unit.first + 1 .. i : ~Opens(j)
        BY DEF CitedWhereItStands
    <2> DEFINE u == chunks[k].unit
    <2>1. /\ WellFormed(file) /\ u \in ParsedUnits /\ Valid(u) /\ Within(u, chunks[k])
          /\ chunks[k] \in Chunk
        BY <1>1, ParsedValid DEF TypeOK, ChunksInv
    <2>2. From(u) < t /\ t <= To(u)
        <3>1. From(u) \in Nat /\ To(u) \in Nat /\ chunks[k].from \in Nat /\ chunks[k].to \in Nat
            BY <2>1, UnitPlaces DEF Chunk
        <3>2. t \in Int
            OBVIOUS
        <3> HIDE DEF u
        <3> QED BY <2>1, <3>1, <3>2 DEF Holds, Within
    <2>3. u.first <= i /\ i <= u.last
        BY <2>1, <2>2, BlockOfUnit
    <2> SUFFICES u.first <= i /\ \A j \in u.first + 1 .. i : ~Opens(j)
        OBVIOUS
    <2> HIDE DEF u
    <2>4. u.first \in Nat /\ u.last \in Nat /\ i \in 1 .. Size /\ Size # 0
        BY <2>1, PlaceFacts DEF Valid, Unit
    <2>5. ASSUME NEW j \in u.first + 1 .. i, Opens(j)
          PROVE  FALSE
        <3>1. j \in u.first + 1 .. u.last
            BY <2>3, <2>4
        <3>2. CASE file.format \in {"pdf", "pptx"}
            <4>1. u.first = u.last
                BY <2>1, <3>2 DEF ParsedUnits, PdfUnits, PptxUnits, Pages
            <4> QED BY <2>4, <3>1, <4>1
        <3>3. CASE file.format \in Sectioned /\ IsHeading(j)
            <4>1. \E S : u \in Sections(S)
                BY <2>1, <2>4, <3>3 DEF ParsedUnits, MarkdownUnits, DocxUnits, Sectioned
            <4> QED BY <3>1, <3>3, <4>1 DEF Sections
        <3>4. CASE file.format = "xlsx" /\ IsHeading(j)
            <4>1. u \in XlsxUnits
                BY <2>1, <3>4 DEF ParsedUnits
            <4> QED BY <3>1, <3>4, <4>1 DEF XlsxUnits
        <3> QED BY <2>5, <3>2, <3>3, <3>4 DEF Opens
    <2> QED BY <2>3, <2>5
<1> QED BY <1>1, Invariants, PTL

(* From a start over blocks that are no headings there is a section. *)
LEMMA SectionOf ==
    ASSUME WellFormed(file), NEW S \in SUBSET Blocks, NEW x \in S, NEW i \in Blocks,
           x <= i, \A j \in x + 1 .. i : ~IsHeading(j)
    PROVE  \E u \in Sections(S) : u.first <= i /\ i <= u.last
<1> USE PlaceFacts
<1>1. x \in 1 .. Size /\ i \in 1 .. Size /\ Size \in Nat
    OBVIOUS
<1> DEFINE T == {Size - j : j \in {j \in i .. Size : j # Size => IsHeading(j + 1)}}
<1>2. T \in SUBSET (0 .. Size) /\ 0 \in T
    BY <1>1
<1>3. PICK y \in T : \A z \in T : z <= y
    BY <1>2, GreatestPlace
<1>4. PICK last \in i .. Size : (last # Size => IsHeading(last + 1)) /\ y = Size - last
    BY <1>3
<1>5. ASSUME NEW j \in x + 1 .. last PROVE ~IsHeading(j)
    <2>1. CASE j <= i
        BY <1>1, <2>1
    <2>2. CASE i < j /\ IsHeading(j)
        <3>1. j - 1 \in i .. Size /\ (j - 1) + 1 = j
            BY <1>1, <1>4, <2>2
        <3>2. Size - (j - 1) \in T
            BY <2>2, <3>1
        <3>3. Size - (j - 1) <= Size - last /\ j <= last
            BY <1>3, <1>4, <3>2
        <3> HIDE DEF T
        <3> QED BY <1>1, <1>4, <3>1, <3>3
    <2> QED BY <1>1, <1>4, <2>1, <2>2
<1> DEFINE h == file.format = "docx" \/ IsHeading(x)
           u == [first |-> x, last |-> last, kind |-> "section", heading |-> h]
<1>6. h \in BOOLEAN
    <2>1. file.blocks[x] \in Block
        BY <1>1 DEF WellFormed, File, Size
    <2> QED BY <2>1 DEF IsHeading, Block
<1> HIDE DEF h
<1>7. u \in [first : S, last : Blocks, kind : {"section"}, heading : BOOLEAN]
    BY <1>1, <1>4, <1>6
<1>8. u.first = x /\ u.last = last /\ u.heading = h
    OBVIOUS
<1> HIDE DEF u
<1>9. u \in Sections(S)
    BY <1>1, <1>4, <1>5, <1>7, <1>8 DEF Sections, h
<1> QED BY <1>1, <1>4, <1>8, <1>9

(* From the first row of a sheet the rows within the limit are in a unit. *)
LEMMA SheetOf ==
    ASSUME WellFormed(file), NEW x \in Blocks, NEW i \in Blocks, IsHeading(x),
           x <= i, i < x + MaxSheetRows, \A j \in x + 1 .. i : ~IsHeading(j)
    PROVE  \E u \in XlsxUnits : u.first <= i /\ i <= u.last
<1> USE PlaceFacts
<1>1. /\ x \in 1 .. Size /\ i \in 1 .. Size /\ Size \in Nat
      /\ MaxSheetRows \in Nat \ {0}
    BY ConfigAssumption
<1> DEFINE Ends(n) == n = Size \/ IsHeading(n + 1) \/ n + 1 = x + MaxSheetRows
           T == {Size - n : n \in {n \in i .. Size : Ends(n)}}
<1>2. T \in SUBSET (0 .. Size) /\ 0 \in T
    BY <1>1
<1>3. PICK y \in T : \A z \in T : z <= y
    BY <1>2, GreatestPlace
<1>4. PICK last \in i .. Size : Ends(last) /\ y = Size - last
    BY <1>3
<1>5. ASSUME NEW n \in i .. Size, Ends(n) PROVE last <= n
    <2>1. Size - n \in T
        BY <1>5
    <2>2. Size - n <= Size - last /\ last \in Int /\ n \in Int
        BY <1>3, <1>4, <2>1
    <2> HIDE DEF T
    <2> QED BY <1>1, <2>2
<1> HIDE DEF T
<1>6. ASSUME NEW j \in x + 1 .. last, IsHeading(j) PROVE FALSE
    <2>1. i < j
        BY <1>1, <1>6
    <2>2. j - 1 \in i .. Size /\ (j - 1) + 1 = j
        BY <1>1, <1>4, <2>1
    <2>3. last <= j - 1
        BY <1>5, <1>6, <2>2
    <2> QED BY <1>1, <1>4, <2>3
<1>7. last < x + MaxSheetRows
    <2>1. CASE x + MaxSheetRows - 1 <= Size
        <3>1. /\ x + MaxSheetRows - 1 \in i .. Size
              /\ (x + MaxSheetRows - 1) + 1 = x + MaxSheetRows
            BY <1>1, <2>1
        <3>2. last <= x + MaxSheetRows - 1
            BY <1>5, <3>1
        <3> QED BY <1>1, <1>4, <3>2
    <2>2. CASE Size < x + MaxSheetRows - 1
        BY <1>1, <1>4, <2>2
    <2> QED BY <1>1, <2>1, <2>2
<1> DEFINE u == [first |-> x, last |-> last, kind |-> "sheet", heading |-> FALSE]
<1>8. /\ u \in [first : {n \in Blocks : IsHeading(n)}, last : Blocks,
                kind : {"sheet"}, heading : {FALSE}]
      /\ u.first = x /\ u.last = last
    BY <1>1, <1>4
<1> HIDE DEF u
<1>9. u \in XlsxUnits
    <2>1. x <= last /\ \A j \in x + 1 .. last : ~IsHeading(j)
        BY <1>1, <1>4, <1>6
    <2> QED BY <1>4, <1>7, <1>8, <2>1 DEF XlsxUnits
<1> QED BY <1>1, <1>4, <1>8, <1>9

(* Every block that is not dropped is in a unit. *)
LEMMA BlocksAreKept ==
    ASSUME WellFormed(file), NEW i \in Blocks, ~Dropped(i)
    PROVE  \E u \in ParsedUnits : u.first <= i /\ i <= u.last
<1> USE PlaceFacts
<1>0. i \in 1 .. Size /\ Size # 0 /\ Size \in Nat
    OBVIOUS
<1>1. CASE file.format \in {"pdf", "pptx"}
    <2>1. PICK kind : ParsedUnits = Pages(kind)
        BY <1>1 DEF ParsedUnits, PdfUnits, PptxUnits
    <2>2. [first |-> i, last |-> i, kind |-> kind, heading |-> FALSE] \in Pages(kind)
        BY DEF Pages
    <2> QED BY <1>0, <2>1, <2>2
<1>2. ASSUME NEW kind, NEW last, ParsedUnits = Whole(kind, last), i <= last
      PROVE  \E u \in ParsedUnits : u.first <= i /\ i <= u.last
    <2>1. [first |-> 1, last |-> last, kind |-> kind, heading |-> FALSE]
              \in Whole(kind, last)
        BY DEF Whole
    <2> QED BY <1>0, <1>2, <2>1
<1>3. CASE file.format \in {"csv", "txt", "image"}
    <2>1. CASE file.format = "csv"
        <3>1. i <= Least(Size, MaxRows)
            BY <1>0, <2>1, ConfigAssumption DEF Dropped, Least
        <3>2. ParsedUnits = Whole("sheet", Least(Size, MaxRows))
            BY <2>1 DEF ParsedUnits, CsvUnits
        <3> QED BY <1>2, <3>1, <3>2
    <2>2. CASE file.format \in {"txt", "image"}
        <3>1. ParsedUnits = Whole("text", Size) /\ i <= Size
            BY <1>0, <2>2 DEF ParsedUnits, TextUnits
        <3> QED BY <1>2, <3>1
    <2> QED BY <1>3, <2>1, <2>2
<1> DEFINE B == {j \in 1 .. i : j = 1 \/ IsHeading(j)}
<1>4. B \in SUBSET (0 .. Size) /\ 1 \in B
    BY <1>0
<1>5. PICK x \in B : \A y \in B : y <= x
    BY <1>0, <1>4, GreatestPlace
<1>6. /\ x \in Blocks /\ x <= i /\ (x = 1 \/ IsHeading(x))
      /\ \A j \in x + 1 .. i : ~IsHeading(j)
    <2>1. ASSUME NEW j \in x + 1 .. i, IsHeading(j) PROVE FALSE
        <3>1. j \in B
            BY <1>0, <1>5, <2>1
        <3> QED BY <1>0, <1>5, <2>1, <3>1
    <2> QED BY <1>0, <1>5, <2>1
<1>7. CASE file.format = "xlsx"
    <2>1. PICK j \in Blocks : j <= i /\ i < j + MaxSheetRows /\ IsHeading(j)
        BY <1>7 DEF Dropped
    <2>2. IsHeading(x)
        <3>1. IsHeading(1)
            BY <1>0, <1>7 DEF WellFormed, IsHeading, Size
        <3> QED BY <1>6, <3>1
    <2>3. j <= x
        <3>1. j \in B
            BY <1>0, <2>1
        <3> QED BY <1>5, <3>1
    <2>4. i < x + MaxSheetRows
        <3>1. MaxSheetRows \in Nat /\ j \in Nat /\ x \in Nat
            BY <1>0, <1>6, ConfigAssumption
        <3> HIDE DEF B
        <3> QED BY <1>0, <2>1, <2>3, <3>1
    <2>5. ParsedUnits = XlsxUnits
        BY <1>7 DEF ParsedUnits
    <2> QED BY <1>6, <2>2, <2>4, <2>5, SheetOf
<1>8. CASE file.format = "md"
    <2> DEFINE S == {j \in Blocks : j = 1 \/ IsHeading(j)}
    <2>1. S \in SUBSET Blocks /\ x \in S
        BY <1>6
    <2>2. ParsedUnits = Sections(S)
        BY <1>0, <1>8 DEF ParsedUnits, MarkdownUnits
    <2> HIDE DEF S
    <2> QED BY <1>6, <2>1, <2>2, SectionOf
<1>9. CASE file.format = "docx"
    <2> DEFINE S == IF DocxStarts = {} THEN {Size} ELSE DocxStarts
    <2>1. ParsedUnits = Sections(S)
        BY <1>0, <1>9 DEF ParsedUnits, DocxUnits
    <2>2. S \in SUBSET Blocks
        BY <1>0 DEF DocxStarts
    <2>3. CASE IsHeading(i)
        <3>1. i \in S
            BY <1>0, <1>9, <2>3 DEF Dropped, DocxStarts
        <3>2. i <= i /\ i + 1 .. i = {}
            BY <1>0
        <3> HIDE DEF S
        <3> QED BY <2>1, <2>2, <3>1, <3>2, SectionOf
    <2>4. CASE ~IsHeading(i)
        <3>1. x \in DocxStarts
            BY <1>0, <1>6, <2>4 DEF DocxStarts
        <3>2. x \in S
            BY <3>1
        <3> HIDE DEF S
        <3> QED BY <1>6, <2>1, <2>2, <3>2, SectionOf
    <2> QED BY <2>3, <2>4
<1> QED BY <1>1, <1>3, <1>7, <1>8, <1>9 DEF WellFormed, File, Formats

(* TextIsSearchable: for every file and every configuration, what is not   *)
(* dropped by the parsers is in a chunk.                                   *)
THEOREM AllTextIsSearchable == Spec => []TextIsSearchable
<1>1. ASSUME TypeOK, ChunksInv
      PROVE  TextIsSearchable
    <2> SUFFICES ASSUME phase = "chunking", units = {}, unit = NoUnit,
                        NEW i \in Blocks, ~Dropped(i),
                        NEW t \in Place(i - 1) + 1 .. Place(i)
                 PROVE  \E k \in ContentChunks : Holds(k, t)
        BY DEF TextIsSearchable
    <2>1. WellFormed(file)
        BY <1>1 DEF TypeOK
    <2>2. PICK u \in ParsedUnits : u.first <= i /\ i <= u.last
        BY <2>1, BlocksAreKept
    <2>3. Valid(u) /\ u # NoUnit
        BY <2>1, ParsedValid, ConfigAssumption DEF Valid
    <2>4. Chunked(u)
        BY <1>1, <2>3 DEF ChunksInv
    <2>5. /\ i \in 1 .. Size /\ i - 1 \in 0 .. Size /\ u.first - 1 \in 0 .. Size
          /\ u.last \in 0 .. Size /\ u.first \in Nat
        BY <2>1, <2>3, PlaceFacts DEF Valid, Unit
    <2>6. /\ From(u) <= Place(i - 1) /\ Place(i) <= To(u)
          /\ Place(i - 1) \in Nat /\ Place(i) \in Nat
          /\ From(u) \in Nat /\ To(u) \in Nat
        <3>1. ~LeftOut(i)
            BY DEF Dropped
        <3>2. From(u) <= Place(i - 1)
            BY <2>1, <2>2, <2>3, <3>1, UnitBegins
        <3> QED BY <2>1, <2>2, <2>3, <2>5, <3>2, PlaceFacts, UnitPlaces DEF To
    <2>7. t \in From(u) + 1 .. To(u)
        BY <2>6
    <2> QED BY <2>4, <2>7 DEF Chunked
<1> QED BY <1>1, Invariants, PTL
=============================================================================
