SPECIFICATION Spec
CONSTANTS
    c1 = c1
    Callers <- OneCaller
    MaxDocs = 2
    MaxStored = 4
    MaxVersions = 2
    MaxStages = 2
    Requests <- AllRequests
INVARIANTS
    TypeOK
    WritesWereAllowed
    PagesAreExact
    ValidPipelinesRun
