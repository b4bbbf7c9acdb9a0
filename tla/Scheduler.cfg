SPECIFICATION FairSpec
CONSTANTS
    N = 3
    r1 = r1
    Resource = {r1}
    Key = {k1}
    NoResource = NoResource
    Free = Free
    Outsider = Outsider
    Restored = {"PENDING"}
    Reported = {"COMPLETED", "UNKNOWN", "FAILED"}
    MaxConcurrency = 2
    MaxRounds = 3
    MaxRecoveries = 1
CONSTRAINT SomeGraphs
INVARIANTS ExecutionIsGuarded NothingIsLeftBehind NothingIsReplayed FailureReachesDependents
PROPERTIES RunsAsDag CancelTakesEffect RunEnds
