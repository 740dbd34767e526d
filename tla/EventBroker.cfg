SPECIFICATION Spec
CONSTANTS
    Subs = {s1, s2}
    Generations = {thisRun, earlierRun}
    EmptyCursor = EmptyCursor
    Garbled = Garbled
    Nobody = Nobody
    HistoryLimit = 2
    Slack = 2
    MaxEvents = 4
SYMMETRY Symmetry
INVARIANTS
    TypeOK
    NoPanic
    ReplayNeverBlocks
    ResetExactlyWhenLossy
    NoOrphanStream
    ClosedBrokerHasNoStreams
PROPERTIES
    SlackHonoured
    ImplementsFeed
CHECK_DEADLOCK FALSE
