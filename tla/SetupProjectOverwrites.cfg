SPECIFICATION Spec
CONSTANTS
    Packages = {"numpy"}
    MaxRequests = 1
    MaxActions = 3
    MaxRepairs = 1
CHECK_DEADLOCK FALSE
PROPERTIES
    OnlyAskedOverwrites
