SPECIFICATION FairSpec
CONSTANTS
    m = m
    c1 = c1
    c2 = c2
    o1 = o1
    o2 = o2
    None = None
    Main <- m
    Coroutine <- ThreeCoroutines
    Op <- TwoOps
    Cycles = 3
    MaxLegs = 2
    Debug = TRUE
INVARIANTS OnePlace QueuesAgreeWithIo CallbackFindsCoroutine
PROPERTIES ImplementsCoroutines RunnableIsExecuted
CHECK_DEADLOCK FALSE
