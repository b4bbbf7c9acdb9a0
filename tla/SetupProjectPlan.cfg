SPECIFICATION Spec
CONSTANTS
    Packages = {"numpy"}
    MaxRequests = 1
    MaxActions = 7
    MaxRepairs = 1
CHECK_DEADLOCK FALSE
INVARIANTS
    FaultlessRunSucceeds
