SPECIFICATION WorkspaceFairSpec
CONSTANTS
    c1 = c1
    c2 = c2
    p1 = p1
    None = None
    Nobody = Nobody
    Closer = Closer
    Callers <- TwoCallers
    Paths <- OnePath
    FreshMtimes = FALSE
    MaxCalls = 2
    MaxVersions = 1
INVARIANTS
    OnlyEditsDisconnect
    OpenIsAccountedFor
PROPERTIES
    ReplacedIsDisconnected
    ImplementsRootRegistry
