SPECIFICATION FairSpec
CONSTANTS
    HardwareConcurrency = 3
    NoThread = 0
    Sizes = {0, 1, 3, 4}
    Grains = {0, 2}
    Pool = {1, 2}
    Outside = 3
    Throws = TRUE
INVARIANTS TypeOK ResultInOrder ChunkPerThread TasksInsideFrames ErrorsSurface
PROPERTIES AlgorithmEnds
\* When the call has returned nothing is left to do.
CHECK_DEADLOCK FALSE
