\* Every file of up to three blocks and six tokens.
SPECIFICATION Spec
CONSTANTS
    NoUnit = NoUnit
    MaxBlocks = 3
    MaxText = 6
    Files <- SmallFiles
    MaxRows = 2
    MaxSheetRows = 2
    DefaultTarget = 3
    MinTokens = 2
    MaxTokens = 4
    OverlapTokens = 2
    SummaryTokens = 2
    SheetTarget = 2
    PageTarget = 4
    HeadingTarget = 3
    ShortTarget = 2
    LongText = 4
    LongBonus = 1
    ShortText = 2
INVARIANTS
    TypeOK
    TextIsSearchable
    ChunksFit
    CitedWhereItStands
CHECK_DEADLOCK FALSE
