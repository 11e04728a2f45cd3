SPECIFICATION Spec
CONSTANTS
    c1 = c1
    c2 = c2
    c3 = c3
    p1 = p1
    None = None
    Callers <- ThreeCallers
    Paths <- OnePath
    FreshMtimes = TRUE
    MaxCalls = 3
    MaxVersions = 2
SYMMETRY CallerSymmetry
INVARIANTS
    TypeOK
    NoneForgotten
PROPERTIES
    RetiredGainsNoUser
    ImplementsView
