CONSTANTS
    p1 = p1
    p2 = p2
    k1 = k1
    k2 = k2
    k3 = k3
    Spec_yml = Spec_yml
    source = source
    old_source = old_source
    Procs = {p1, p2}
    Pkgs = {k1, k2, k3}
    Rounds <- MixedRounds
    Files <- TwoFiles
    Archive <- MCArchive
    MaxPublish = 1
    MaxRuns = 1
    MaxThreads = 1
    MaxCrashes = 0
    QueryModes = {FALSE}
    VerifyAll = TRUE
SPECIFICATION FairSpec
CHECK_DEADLOCK FALSE
PROPERTY RunsEnd
