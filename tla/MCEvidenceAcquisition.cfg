SPECIFICATION Spec
CONSTANTS
    None = None
    Torn = Torn
    r1 = r1
    r2 = r2
    Researchers = {r1, r2}
    Queries <- Query
    Pages = {"page"}
    Repository <- GitHub
    Answers <- MCAnswers
    Errors = {"timeout"}
    MaxSources = 1
    TTL = 0
    MaxStale = 1
    Inodes = {1, 2, 3, 4, 5, 6, 7, 8}
    MaxTime = 2
    MaxKills = 1
    MaxBegun = 3
INVARIANTS
    TypeOK
    SourcesAreTold
    TornHasWriter
SYMMETRY Names
CHECK_DEADLOCK FALSE
