SPECIFICATION ServicesSpec
CONSTANTS
    Key = {k1, k2}
    Requester = {r1, r2}
    Capturer = {w1}
    MaxAttempts = 2
    MaxRestarts = 2
    NoKey = NoKey
    Run = {g1, g2}
    CompetitorSet = {s1}
    Operator = {o1, o2}
    MaxLost = 1
    Nothing = Nothing
CHECK_DEADLOCK FALSE
INVARIANTS
    AttemptsBounded
    QueueingNeverRefused
    LatestIsNewest
    EndShowsInWorkspace
    DraftsOfEndedRuns
PROPERTIES
    QueueSpec
    CapturesEnd
    ReviewSpec
    AcceptedIsKept
    RunsEnd
