SPECIFICATION FairSpec
CONSTANTS
    None = None
    Names = {"db"}
    NoPath = NoPath
    Missing = Missing
    Garbled = Garbled
    Base = Base
    Main = Main
    Nobody = Nobody
    bare = bare
    home = home
    work = work
    q1 = q1
    q2 = q2
    Requests = {q1, q2}
    Paths <- ThreePaths
    Configured <- TwoRoots
    Files <- MCFiles
    Inputs <- MCInputs
    MaxSignals = 2
INVARIANTS
    ServerTypeOK
    RootsOnlyOnlyIfMissing
    ExitReleasesBase
PROPERTIES
    TargetIsFirstNamed
    DrainIsNotCut
    StopsWhenAsked
