SPECIFICATION WorkspaceSpec
CONSTANTS
    c1 = c1
    c2 = c2
    p1 = p1
    None = None
    Nobody = Nobody
    Closer = Closer
    Callers <- TwoCallers
    Paths <- OnePath
    FreshMtimes = TRUE
    MaxCalls = 2
    MaxVersions = 1
INVARIANTS
    QuietIsClean
