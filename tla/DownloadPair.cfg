CONSTANTS
    p1 = p1
    p2 = p2
    k1 = k1
    k2 = k2
    k3 = k3
    Spec_yml = Spec_yml
    source = source
    old_source = old_source
    Procs = {p1, p2}
    Pkgs = {k1}
    Rounds <- SingleRound
    Files <- MCFiles
    Archive <- MCArchive
    MaxPublish = 2
    MaxRuns = 2
    MaxThreads = 1
    MaxCrashes = 1
    QueryModes = {TRUE, FALSE}
    VerifyAll = TRUE
SPECIFICATION Spec
CHECK_DEADLOCK FALSE
INVARIANTS
    OneDownloader
    IInv
PROPERTIES
    OldSourcesKept
