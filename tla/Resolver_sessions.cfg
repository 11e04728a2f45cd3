SPECIFICATION FairSpec
CONSTANTS
    c1 = c1
    c2 = c2
    editor = editor
    proxy = proxy
    viewer = viewer
    tenant = tenant
    base = base
    None = None
    Base = base
    Callers <- TwoCallers
    Sessions <- AllSessions
    Capable <- TwoSessions
    HeaderRoots <- OneTenant
    Rooted <- AllRooted
    MaxCalls = 2
    MaxChanges = 0
INVARIANTS
    RootsBelongToTheCall
PROPERTIES
    EndedSessionsAreSwept
    EveryCallResolves
