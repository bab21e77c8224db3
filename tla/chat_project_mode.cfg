\* Two requests on one conversation, one project, one or two documents.
CONSTANTS
    p1 = p1
    Requests = {r1, r2}
    Convs = {c1}
    Projects = {p1}
    ProjectMode <- NormalProject
    Docs = {d1}
    NoConv = none
    NoProject = noproject
    MaxScope = 1
    MaxTurns = 1
SPECIFICATION Spec
SYMMETRY Symmetry
INVARIANT ProjectModeMatches
