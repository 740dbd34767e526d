SPECIFICATION ActionsSpec
CONSTANTS
    Requests = {r1, r2}
    Locks = {k1, k2}
    NoLock = NoLock
    Nothing = Nothing
    Keys = {d1, n1}
    Domains = {d1}
    Names = {n1}
    DomainNamed <- MCDomainNamed
    Operations = {"start", "shutdown", "reboot", "pause", "resume", "reset", "stop", "enable", "disable"}
    Lifetimes = {"persistent"}
    Environment = {"faults", "unsupported"}
SYMMETRY ActionsSymmetry
PROPERTIES
    ImplementsAtomic
CHECK_DEADLOCK FALSE
