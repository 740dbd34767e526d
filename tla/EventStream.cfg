SPECIFICATION FairStreamSpec
CONSTANTS
    Subs = {s1, s2}
    Generations = {firstRun, secondRun}
    EmptyCursor = EmptyCursor
    Garbled = Garbled
    Nobody = Nobody
    Offline = Offline
    HistoryLimit = 1
    Slack = 1
    MaxEvents = 2
INVARIANTS
    NothingMissed
    NextIsNext
PROPERTIES
    OwedIsPaid
CHECK_DEADLOCK FALSE
