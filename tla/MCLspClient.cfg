SPECIFICATION FairSpec
CONSTANTS
    w1 = w1
    w2 = w2
    w3 = w3
    d1 = d1
    d2 = d2
    None = None
    Waits <- ThreeWaits
    Documents <- TwoDocuments
    Wants <- WantsOfThree
    Notices = {p1, p2, p3}
INVARIANTS WaitIsRegistered
PROPERTIES NotifiedIsDelivered
CHECK_DEADLOCK FALSE
