SPECIFICATION FairProcessSpec
CONSTANTS
    Subs = {s1}
    Requests = {q1}
    Generations = {thisRun}
    EmptyCursor = EmptyCursor
    Garbled = Garbled
    Nobody = Nobody
    HistoryLimit = 1
    Slack = 1
    MaxEvents = 2
INVARIANTS
    SuccessMeansServed
    NothingLeftOpen
    ServedWithConnection
PROPERTIES
    SignalStops
    StreamReleased
CHECK_DEADLOCK FALSE
