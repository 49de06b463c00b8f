\* Database and process fail at any point of a flush.
SPECIFICATION Spec
CONSTANTS
    Bound = 2
    NULL = NULL

INVARIANTS CountedOnce LostOnlyInOutage
PROPERTIES HistoryReturns SeedsClean
