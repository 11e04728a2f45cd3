SPECIFICATION CodeSpec
CONSTANTS
    c1 = c1
    c2 = c2
    c3 = c3
    direct = direct
    remote = remote
    Closer = Closer
    Nobody = Nobody
    None = None
    Callers <- TwoCallers
    Sources <- TwoSources
    Tunnelled <- OneTunnel
    MaxCalls = 2
PROPERTIES
    ConnectIsBounded
