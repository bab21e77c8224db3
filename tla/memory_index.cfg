\* Edits, extractions, deletions and their indexings of two memories.
SPECIFICATION Spec
CONSTANTS
    tea = tea
    Tea = Tea
    fact = fact
    goal = goal
    Requests = {r1, r2}
    Memories = {m1, m2}
    Kinds = {fact, goal}
    Contents = {tea, Tea}
    Fold <- Spellings
    Weights = {1}
    Candidates <- TeaOfEachKind
    Edits <- Rewordings
    MaxActions = 2
    NoMemory = NoMemory
    NoContent = NoContent
    Unset = Unset
SYMMETRY MemorySymmetry
INVARIANTS
    TypeOK
    ActiveIsRecallable
PROPERTIES
    StaleOnlyByLateStore
    ExtractionTakesEffect
