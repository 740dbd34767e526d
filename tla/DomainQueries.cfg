SPECIFICATION QueriesSpec
CONSTANTS
    Requests = {r1}
    Locks = {k1}
    NoLock = NoLock
    Nothing = Nothing
    NoTarget = NoTarget
    Keys = {d1, d2, n1}
    Domains = {d1, d2}
    Names = {n1}
    DomainNamed <- MCDomainNamed
    Operations = {"domain", "stats", "interfaces", "autostart", "xml", "viewer", "listAll", "listActive", "listInactive", "host", "hostStats", "ready"}
    Lifetimes = {"persistent", "transient"}
    Environment = {"virsh", "guest", "unsupported"}
    Devices <- MCDevices
    MaxUint = 7
    MaxStarts = 2
INVARIANTS
    EachFieldWasTrue
    UndisturbedIsExact
    RefusedForACause
    ListComplete
CHECK_DEADLOCK FALSE
