SPECIFICATION FairSpec
CONSTANTS
    r = r
    c = c
    d = d
    e = e
    i = i
    j = j
    Tasks = {c, d, e, i, j}
    None = None
    Parent <- ForkParent
    Inner <- ForkInner
    Shared = {c, i}
    Made = {j}
    SchedulerThrows = TRUE
    HandlesOverwritten = TRUE
INVARIANTS CountsAreExact SettlesOnce
PROPERTIES EveryTaskEnds
\* When every task is freed nothing is left to do.
CHECK_DEADLOCK FALSE
