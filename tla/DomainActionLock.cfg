SPECIFICATION FairLockSpec
CONSTANTS
    Requests = {r1, r2, r3}
    Keys = {u1, u2}
    Locks = {k1, k2, k3}
    NoLock = NoLock
INVARIANTS
    MutualExclusion
    NoLeak
    UnlockNeverBlocks
PROPERTIES
    ImplementsMutex
    WaiterServed
