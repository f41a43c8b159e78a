SPECIFICATION FairSpec
CONSTANTS
    d = d
    b = b
    s = s
    i = i
    NoEvent = NoEvent
    Events <- ThreeKinds
    Kind <- NoSubprocess
    NonblockModes = {FALSE}
    PipeCapacity = 3
    BufferSize = 1
PROPERTIES CompletedIsDelivered
CHECK_DEADLOCK FALSE
