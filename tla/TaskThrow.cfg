SPECIFICATION Spec
CONSTANTS
    r = r
    c = c
    d = d
    e = e
    i = i
    j = j
    Tasks = {r, c, d}
    None = None
    Parent <- ChainParent
    Inner <- PlainInner
    Shared = {}
    Made = {}
    SchedulerThrows = TRUE
    HandlesOverwritten = FALSE
INVARIANTS PassedOnOnce
\* When every task is freed nothing is left to do.
CHECK_DEADLOCK FALSE
