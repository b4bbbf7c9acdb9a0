SPECIFICATION FairSpec
CHECK_DEADLOCK FALSE
CONSTANTS
    N = 4
    Resource = {r1}
    NoResource = NoResource
    r1 = r1
    Workflows <- Fork
    MaxStepRetries = 1
    MaxRecoveryAttempts = 2
INVARIANTS CompletionIsProven ConsentIsSpentOnce
PROPERTIES PrerequisitesHold EveryRunSettles
