SPECIFICATION ReviewSpec
CONSTANTS
    Nothing = Nothing
    Calibrated = {"cal"}
    Reported = {"open"}
    Reviewers = {"r1", "r2"}
    Verdicts = {"supported", "unsupported"}
    Sources <- MCSources
    Dirs = {d1, d2}
    JudgmentFiles = {f1, f2, f3}
    Packages = {p1}
    d1 = d1
    d2 = d2
    f1 = f1
    f2 = f2
    f3 = f3
    p1 = p1
INVARIANTS
    ReviewTypeOK
    SealedIsReviewed
PROPERTIES
    ReviewsAreKept
SYMMETRY Names
CHECK_DEADLOCK FALSE
