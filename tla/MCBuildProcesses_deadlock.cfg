CONSTANTS
    p1 = p1
    p2 = p2
    h1 = h1
    h2 = h2
    nobody = nobody
    Procs = {p1, p2}
    NoProc = nobody
    SplitFiles = {h1, h2}
    SplitOutcomes = {TRUE}
SPECIFICATION Spec
PROPERTY Termination
CHECK_DEADLOCK FALSE
