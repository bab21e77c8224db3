\* Two requests on one conversation, one project, two documents of which one fits.
CONSTANTS
    p1 = p1
    Requests = {r1, r2}
    Convs = {c1}
    Projects = {p1}
    ProjectMode <- NormalProject
    Docs = {d1, d2}
    NoConv = none
    NoProject = noproject
    MaxScope = 1
    MaxTurns = 2
SPECIFICATION Spec
SYMMETRY Symmetry
INVARIANTS TypeOK NothingDangles AttachedIsInScope PlaceholderIsReplaced
