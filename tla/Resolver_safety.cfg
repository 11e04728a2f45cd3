SPECIFICATION Spec
CONSTANTS
    c1 = c1
    c2 = c2
    editor = editor
    proxy = proxy
    viewer = viewer
    tenant = tenant
    base = base
    None = None
    Base = base
    Callers <- TwoCallers
    Sessions <- OneSession
    Capable <- OneSession
    HeaderRoots <- OneTenant
    Rooted <- LaterRooted
    MaxCalls = 3
    MaxChanges = 2
SYMMETRY CallerSymmetry
INVARIANTS
    TypeOK
    StaleOnlyIfOvertaken
PROPERTIES
    FilledOnce
    ImplementsRootsView
