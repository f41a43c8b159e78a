SPECIFICATION Spec
CONSTANTS
    m = m
    c1 = c1
    c2 = c2
    o1 = o1
    o2 = o2
    None = None
    Main <- m
    Coroutine <- TwoCoroutines
    Op <- OneOp
    Cycles = 2
    MaxLegs = 2
    Debug = FALSE
INVARIANTS SomeCoroutineRunnable
CHECK_DEADLOCK FALSE
