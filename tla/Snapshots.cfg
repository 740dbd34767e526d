SPECIFICATION SlowSnapshotsSpec
CONSTANTS
    Requests = {r1, r2}
    Locks = {k1}
    NoLock = NoLock
    Nothing = Nothing
    Keys = {d1}
    Domains = {d1}
    Names = {}
    DomainNamed <- MCDomainNamed
    Lifetimes = {"persistent"}
    Operations = {"list", "create", "revert", "delete", "stop"}
    Environment = {}
    SnapshotNames = {1, 2}
    Present = {1}
    Choices = {"system", "running", "one"}
    Times = {1}
    Datings <- MCAllDatings
    MaxMeddling = 0
INVARIANTS
    AnswerTrueWhenMade
    NoUnexplainedFailure
PROPERTIES
    NobodyElseActs
    GoneBeforeItsTurn
    LeaversNotHeldUp
    SnapshotAnswered
CHECK_DEADLOCK FALSE
