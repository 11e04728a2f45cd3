SPECIFICATION Spec
CONSTANTS
    c1 = c1
    c2 = c2
    c3 = c3
    p1 = p1
    None = None
    Callers <- TwoCallers
    Paths <- OnePath
    FreshMtimes = TRUE
    MaxCalls = 2
    MaxVersions = 2
INVARIANTS
    RetiresTheStale
