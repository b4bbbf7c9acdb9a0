SPECIFICATION Spec
CONSTANTS
    Procs = {song, tour}
    Steps <- SmallSteps
    Sound = {tour}
    Threads = {t1, t2}
    Judges = {j1, j2}
SYMMETRY Symmetry
INVARIANT StartedIsTerminal
