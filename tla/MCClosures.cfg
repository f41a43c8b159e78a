SPECIFICATION Spec
CONSTANTS
    main = main
    scheduled = scheduled
    Main = main
    Coroutines <- TwoCoroutines
    Closures = {1, 2}
    Upvalues = {11, 12}
    Data = {0}
    None = None
    MaxValues = 3
    MaxFrames = 3
    MaxParams = 1
    MaxCaptures = 1
INVARIANTS CapturedIsTracked ReadsItsVariable CountsAreHolders NothingDangles LeftBehindIsHeld
CONSTRAINT Small
CHECK_DEADLOCK FALSE
