SPECIFICATION FairSpec
CONSTANTS
    Task = {t1}
    Resource = {r1}
    RequestId = {q1}
    Anonymous = anon
    NoTask = NoTask
    NoRequest = NoRequest
    NoResource = NoResource
    Targets = {"CREATED", "PLANNING", "WAITING_FOR_APPROVAL", "WAITING_FOR_USER", "WAITING_FOR_HUMAN", "RUNNING", "VERIFYING", "COMPLETED", "FAILED", "CANCELLED", "BLOCKED", "RECOVERY_REQUIRED", "RECOVERING", "EXPIRED"}
    WaitingTimeout = 0
    TerminalRetention = 1
    MaxAge = 1
    MaxAsks = 1
INVARIANTS TypeOK GrantsAreSpent NoOrphanedExecution ApprovalSurvivesRestart AttachedIsLive
PROPERTIES EndIsFinal TablesKeepPromise CleanUpHappens
