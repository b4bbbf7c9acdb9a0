SPECIFICATION Spec
CONSTANTS
    Workers = {w1, w2}
    Talker = talker
    Replies <- SomeReplies
    MaxInputs = 4
    MaxPlaces = 2
    MaxAsks = 2
CHECK_DEADLOCK FALSE
SYMMETRY Perms
INVARIANTS
    AnswersAreBound
    PutAtMostTwice
    OwnRecordIsHonest
