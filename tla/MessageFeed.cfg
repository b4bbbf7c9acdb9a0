SPECIFICATION Spec

CONSTANTS
    w1 = w1
    w2 = w2
    Threads = {w1, w2}
    NumMessages = 2
    Window = 1
    RetryLimit = 3
    RetryMax = 2
    MaxLag = 1
    MaxFailures = 5

INVARIANTS
    ExactlyOnce
    FrontierIsIncorporated

CONSTRAINT OneMessageForTwo

SYMMETRY Alike
