SPECIFICATION PoolFairSpec
CONSTANTS
    Conts = {w1, w2, x1, x2}
    Waiters = {w1, w2}
    None = None
INVARIANTS ReturnedClean
PROPERTIES EndsOrLockCycle
\* Threads that have finished take no further step, and the cycle of locks is a
\* deadlock of the program.
CHECK_DEADLOCK FALSE
