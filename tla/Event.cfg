SPECIFICATION FairSpec
CONSTANTS
    Pokers = {p1, p2}
    Finisher = Finisher
    Waiter = Waiter
    Nobody = Nobody
INVARIANTS SignalledEventExists NoMissedNotify
PROPERTIES FinishedEndsWait
\* When the waiter has returned nothing is left to do.
CHECK_DEADLOCK FALSE
