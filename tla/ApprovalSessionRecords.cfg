SPECIFICATION Spec
CHECK_DEADLOCK FALSE
SYMMETRY Alike
CONSTANTS
    Task = {t1, t2}
    NoTask = NoTask
    Ttl = 1
    MaxAnswers = 3
    MaxRestarts = 1
    MaxTime = 2
INVARIANT RunsUnderItsRecord
