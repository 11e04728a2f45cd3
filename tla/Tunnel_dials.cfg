SPECIFICATION FairSpec
CONSTANTS
    None = None
    Names = {"source"}
    Blocks <- MCBlocks
    Dials = {d1, d2}
    d1 = d1
    d2 = d2
    MaxTries = 2
INVARIANTS
    TypeOK
    UsableMethods
PROPERTIES
    CtxIsHonoured
    WorkersEnd
    ImplementsDialView
