SPECIFICATION Spec

CONSTANTS
    Cases <- Requests
    MaxBatch = 2
    MaxSteps = 2
    MaxAttempts = 3
    MaxRetries = 1
    MaxReobserves = 1
    MaxReplans = 1
    MaxRecoveryAttempts = 4

PROPERTY InconclusiveIsNotRepeated

CHECK_DEADLOCK FALSE
