SPECIFICATION FairSpec
CONSTANTS
    Calls = {c1}
    Notifications = {}
    Tokens = 1
    MaxAnswers = 2
    MaxNotices = 1
    Remote = {"answer_unasked", "send_invalid", "disconnect"}
    ForcedModes = {FALSE, TRUE}
    NoId = NoId
INVARIANTS OneReader SavedOrAwaited NeverCompletedTwice ListeningIsArmed
PROPERTIES CallFinishes
CHECK_DEADLOCK FALSE
