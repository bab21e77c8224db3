\* One session of two utterances on a conversation others write to.
SPECIFICATION Spec
CONSTANTS
    bn = bn
    hi = hi
    en = en
    d1 = d1
    d2 = d2
    Docs = {d1, d2}
    Images = {d1}
    MaxScope = 1
    NormalTurns = 1
    KnowledgeTurns = 1
    Languages = {bn, hi, en}
    Bangla = bn
    English = en
    Fallback = en
    Transcripts <- Sounds
    NoLanguage = NoLanguage
    NoSession = NoSession
    MaxUtterances = 2
    MaxTexts = 1
INVARIANTS
    TypeOK
    SpokenIsStored
    KnowsWhatWasSaid
    DocumentsReachOneAnswer
PROPERTIES
    LanguageIsKept
