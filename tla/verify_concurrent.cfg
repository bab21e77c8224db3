\* the clock and the supply of challenges end: the model may stop at a
\* verified account whose requests have all been answered
CONSTANTS
    Requests = {r1, r2}
    Challenges = {c1, c2}
    NoChallenge = none
    TTL = 2
    Cooldown = 1
    MaxAttempts = 2
    MaxTime = 3
SPECIFICATION Spec
SYMMETRY Symmetry
CHECK_DEADLOCK FALSE
INVARIANTS TypeOK LimitConsumes UndeliveredIsDiscarded
PROPERTY SpentStaysSpent
