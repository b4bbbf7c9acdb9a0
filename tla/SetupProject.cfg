SPECIFICATION Spec
CONSTANTS
    Packages = {"numpy"}
    MaxRequests = 2
    MaxActions = 6
    MaxRepairs = 1
CHECK_DEADLOCK FALSE
INVARIANTS
    SuccessIsComplete
PROPERTIES
    TheirFilesSurvive
