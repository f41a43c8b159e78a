SPECIFICATION FairSpec
CONSTANTS
    Managed = {p1, p2}
    Unmanaged = {}
    CreateMayFail = FALSE
    NoProcess = NoProcess
PROPERTIES FinishedIsDelivered
CHECK_DEADLOCK FALSE
