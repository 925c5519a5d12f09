SPECIFICATION Spec
CONSTANTS
    N = 2
    ThenThrows = FALSE
    Overwrites = FALSE
INVARIANTS ResultComplete
\* When every task has finished nothing is left to do.
CHECK_DEADLOCK FALSE
