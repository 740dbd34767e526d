SPECIFICATION SnapshotsSpec
CONSTANTS
    Requests = {r1}
    Locks = {k1}
    NoLock = NoLock
    Nothing = Nothing
    Keys = {d1}
    Domains = {d1}
    Names = {}
    DomainNamed <- MCDomainNamed
    Lifetimes = {"persistent", "transient"}
    Operations = {"list", "create", "revert", "delete", "start", "shutdown", "reboot", "pause", "resume", "reset", "stop", "enable", "disable"}
    Environment = {"guest", "virsh", "faults", "unsupported"}
    SnapshotNames = {1, 2, 3, 4}
    Present = {1, 2, 3}
    Choices = {"system", "disk", "snapshot", "one", "children"}
    Times = {0, 1, 2, 3}
    Datings <- MCDatings
    MaxMeddling = 1
INVARIANTS
    AnswerMatchesCause
PROPERTIES
    ListExact
CHECK_DEADLOCK FALSE
