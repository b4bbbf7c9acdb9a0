SPECIFICATION Spec

CONSTANTS
    Cases <- Requests
    MaxBatch = 2
    MaxSteps = 2
    MaxAttempts = 3
    MaxRetries = 1
    MaxReobserves = 1
    MaxReplans = 1
    MaxRecoveryAttempts = 4

INVARIANTS
    RepeatsAreBudgeted
    DenialIsNotSuccess
    CompletionHolds

PROPERTY RepeatsOfUnseen

CHECK_DEADLOCK FALSE
