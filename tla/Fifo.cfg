SPECIFICATION FairSpec
CONSTANTS
    InitSize = 2
    MaxPush = 7
    Runners = {r1, r2}
INVARIANTS FifoOrder
PROPERTIES EveryTaskSettles
\* A queue may be destroyed, and pushes are bounded.
CHECK_DEADLOCK FALSE
