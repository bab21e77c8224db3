\* Servers die and commits fail: what stays searchable, and that every
\* request ends. One document has text, one is a scan without any.
SPECIFICATION FairSpec
CONSTANTS
    d1 = d1
    d2 = d2
    d3 = d3
    text = text
    blank = blank
    garbage = garbage
    Requests = {r1, r2}
    Docs = {d1, d2}
    Contents = {text, blank}
    ContentOf <- TextAndScan
    Unparsable = {}
    Blank = {blank}
    Models = {m1, m2}
    NoDoc = NoDoc
    CanCrash = TRUE
    DbFaults = TRUE
INVARIANTS
    ReadyIsSearchable
PROPERTIES
    RequestsFinish
