SPECIFICATION FairSpec
CONSTANTS
    c1 = c1
    c2 = c2
    c3 = c3
    direct = direct
    remote = remote
    Closer = Closer
    Nobody = Nobody
    None = None
    Callers <- ThreeCallers
    Sources <- TwoSources
    Tunnelled <- OneTunnel
    MaxCalls = 3
INVARIANTS
    TypeOK
    OneClientPerSource
    NothingLeaks
    TunnelOutlivesClient
    LentStaysConnected
PROPERTIES
    CloseReleasesAll
    ImplementsPool
    CallsReturn
    CloseReturns
