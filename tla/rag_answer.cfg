SPECIFICATION Spec
CONSTANTS
    Docs = {1, 2, 3}
    Mine = {1, 2}
    MaxRuns = 2
    Positions = {1, 2, 3}
    Roles = {"summary", "content"}
    RoleOf <- MCRoleOf
    ParentOf <- MCParentOf
    Models = {"m1", "m2"}
    Model = "m1"
    Queries = {"asked", "rewritten"}
    Similarity <- MCSimilarity
    LexicalScore <- MCLexicalScore
    Asks <- MCAsks
    Starts <- MCStarts
    RrfK = 60
    Depth = 2
    MaxChanges = 2
    Texts = {"s1", "s2", "s3", "shared", "b1", "b2", "a3", "b3"}
    TextOf <- MCTextOf
    Tokens <- MCTokens
    Header = 1
    MaxSources = 2
    MaxContext = 8
    MaxSource = 4
INVARIANTS
    TypeOK
    EvidenceWasReady
    FusionRespectsRankings
    EvidenceFits
    TextsAreKept
    AnswerIsGrounded
    RefusalIsEarned
