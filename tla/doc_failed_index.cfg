\* A failed document that has an index.
SPECIFICATION Spec
CONSTANTS
    d1 = d1
    d2 = d2
    d3 = d3
    text = text
    blank = blank
    garbage = garbage
    Requests = {r1, r2}
    Docs = {d1}
    Contents = {text}
    ContentOf <- OneText
    Unparsable = {}
    Blank = {}
    Models = {m1}
    NoDoc = NoDoc
    CanCrash = FALSE
    DbFaults = FALSE
INVARIANTS
    FailedHasNoIndex
