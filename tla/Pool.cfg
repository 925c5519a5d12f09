SPECIFICATION FairSpec
CONSTANTS
    NumThreads = 3
    Tasks = {r, a, b, c}
    r = r
    a = a
    b = b
    c = c
    None = None
    Script <- ForkJoin
    MainScript <- ForkJoinMain
INVARIANTS TypeOK NoDanglingEvent NoLostWakeup DestructorDrains
PROPERTIES WaitMeansFinished PoolStops
\* A destroyed pool takes no further step.
CHECK_DEADLOCK FALSE
