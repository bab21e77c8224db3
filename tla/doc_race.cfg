\* Three concurrent requests: uploads of the same file race each other,
\* processing, rebuilds and deletion, beside a file no parser accepts.
\* What they commit are steps of the abstract catalog.
SPECIFICATION Spec
CONSTANTS
    d1 = d1
    d2 = d2
    d3 = d3
    text = text
    blank = blank
    garbage = garbage
    Requests = {r1, r2, r3}
    Docs = {d1, d2, d3}
    Contents = {text, garbage}
    ContentOf <- TwinsAndGarbage
    Unparsable = {garbage}
    Blank = {}
    Models = {m1, m2}
    NoDoc = NoDoc
    CanCrash = FALSE
    DbFaults = FALSE
SYMMETRY RequestSymmetry
INVARIANTS
    RecordHasFile
    ProcessingHasWorker
    NoResidueAtRest
PROPERTIES
    KeepsCatalog
