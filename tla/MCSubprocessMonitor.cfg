SPECIFICATION FairSpec
CONSTANTS
    Managed = {p1, p2}
    Unmanaged = {u}
    CreateMayFail = TRUE
    NoProcess = NoProcess
INVARIANTS StatusNeverLost WalkStaysInList
PROPERTIES FinishedIsDeliveredUnlessSaved
CHECK_DEADLOCK FALSE
