SPECIFICATION Spec
CONSTANTS
    None = None
    Torn = Torn
    r1 = r1
    Researchers = {r1}
    Queries <- Query
    Pages = {"page"}
    Repository <- GitHub
    Answers <- MCAnswersUnresolved
    Errors = {"timeout"}
    MaxSources = 1
    TTL = 0
    MaxStale = 1
    Inodes = {1, 2, 3, 4, 5, 6, 7, 8}
    MaxTime = 2
    MaxKills = 0
    MaxBegun = 2
INVARIANTS
    ResearchRecordsAState
CHECK_DEADLOCK FALSE
