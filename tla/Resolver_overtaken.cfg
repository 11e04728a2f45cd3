SPECIFICATION Spec
CONSTANTS
    c1 = c1
    c2 = c2
    editor = editor
    proxy = proxy
    viewer = viewer
    tenant = tenant
    base = base
    None = None
    Base = base
    Callers <- TwoCallers
    Sessions <- OneSession
    Capable <- OneSession
    HeaderRoots <- NoTenant
    Rooted <- LaterRooted
    MaxCalls = 1
    MaxChanges = 1
INVARIANTS
    NextCallRequeries
