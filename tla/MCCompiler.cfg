SPECIFICATION Spec
CONSTANTS
    Sources <- MCSources
    NoLsp = TRUE
    Integers <- MCIntegers
    MaxCaptures = 255
INVARIANTS CutsAreStable ParsesBack NothingDropped BadStatementIsAlone AcceptedIsSound PrintsItsMeaning OffsetsAreHeights
PROPERTIES CallsLeaveTheirResult EveryScriptEnds
