SPECIFICATION Spec
CONSTANTS
    Calls = {c1, c2}
    Notifications = {n1}
    Tokens = 2
    MaxAnswers = 1
    MaxNotices = 0
    Remote = {"fail_calls", "disconnect"}
    ForcedModes = {FALSE}
    NoId = NoId
INVARIANTS NoEarlyResponse HandlersApart
SYMMETRY AnyOrder
CHECK_DEADLOCK FALSE
