SPECIFICATION ActionsSpec
CONSTANTS
    Requests = {r1, r2}
    Locks = {k1, k2}
    NoLock = NoLock
    Nothing = Nothing
    Keys = {d1, n1}
    Domains = {d1}
    Names = {n1}
    DomainNamed <- MCDomainNamed
    Operations = {"stop"}
    Lifetimes = {"transient"}
    Environment = {}
SYMMETRY ActionsSymmetry
INVARIANTS
    MissingIs404
CHECK_DEADLOCK FALSE
