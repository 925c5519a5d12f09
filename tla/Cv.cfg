SPECIFICATION FairSpec
CONSTANTS
    Conts = {c1, c2, c3, c4}
    None = None
INVARIANTS TypeOK OneOwner NoLatePush
PROPERTIES ImplementsContinuations EveryContinuationRuns
\* A destroyed task takes no further step.
CHECK_DEADLOCK FALSE
