CONSTANTS
    p1 = p1
    p2 = p2
    h1 = h1
    h2 = h2
    nobody = nobody
    Procs = {p1, p2}
    NoProc = nobody
    SplitFiles = {h1, h2}
    SplitOutcomes = {TRUE, FALSE}
SPECIFICATION Spec
INVARIANT TypeOK
INVARIANT SequentialBuildsComplete
INVARIANT SequentialBuildsNoPanic
INVARIANT LocksOnlyInSplitSection
\* two runs that lock the split files in opposite orders deadlock (the
\* build_deadlock run); every other state either runs on or has exited
CHECK_DEADLOCK FALSE
PROPERTY HangsOnlyInLockCycle
