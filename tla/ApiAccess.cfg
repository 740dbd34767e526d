SPECIFICATION AccessSpec
CONSTANTS
    t1 = t1
    t2 = t2
    ta = ta
    tb = tb
    tc = tc
    td = td
    spaced = spaced
    o1 = "https://one"
    o2 = "https://two"
    Tokens = {t1, t2, ta, tb, tc, td}
    SpacedTokens = {spaced}
    Unset = Unset
    Origins = {"https://one", "https://two"}
    Environments <- AnyEnvironment
    Messages <- MCMessages
INVARIANTS
    OpenOnlyByOverride
    HierarchyExact
CHECK_DEADLOCK FALSE
