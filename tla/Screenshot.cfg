SPECIFICATION FairScreenshotSpec
CONSTANTS
    Chunks = 4
INVARIANTS
    NoUseAfterFree
    EofMeansWhole
    HandlesFreed
PROPERTIES
    NobodyStaysBehind
CHECK_DEADLOCK FALSE
