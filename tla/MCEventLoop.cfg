SPECIFICATION Spec
CONSTANTS
    d = d
    b = b
    s = s
    i = i
    NoEvent = NoEvent
    Events <- FourEvents
    Kind <- OneOfEach
    NonblockModes = {TRUE, FALSE}
    PipeCapacity = 4
    BufferSize = 1
INVARIANTS TypeOK OwnedOnce NoLostWakeup DispatchedIsCompleted ResultDeliveredUnderLock
PROPERTIES FreedForGood
CHECK_DEADLOCK FALSE
