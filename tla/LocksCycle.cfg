SPECIFICATION PoolFairSpec
CONSTANTS
    Conts = {w1, w2, x1, x2}
    Waiters = {w1, w2}
    None = None
PROPERTIES ContinuationsScheduled
\* The cycle of locks is a deadlock of the program.
CHECK_DEADLOCK FALSE
