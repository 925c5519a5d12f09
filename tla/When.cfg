SPECIFICATION FairSpec
CONSTANTS
    N = 4
    ThenThrows = TRUE
    Overwrites = TRUE
INVARIANTS RefsAreExact SetWhenAllDone OneWinner AbandonedIsCanceled
PROPERTIES EventSets
\* When every task has finished nothing is left to do.
CHECK_DEADLOCK FALSE
