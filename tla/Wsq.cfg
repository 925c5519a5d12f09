SPECIFICATION FairSpec
CONSTANTS
    Thieves = {th1, th2}
    WordMod = 8
    InitSize = 1
    MaxPush = 3
    Starts <- Aged
INVARIANTS TypeOK Conservation StealSound
PROPERTIES PopMissesOnlyEmpty StealMissesOnlyContested ImplementsDeque EveryTaskLeaves StealReturns
\* A destroyed queue takes no further step.
CHECK_DEADLOCK FALSE
