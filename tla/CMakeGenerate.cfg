CONSTANTS
    p1 = p1
    p2 = p2
    a = a
    b = b
    project = project
    debug = debug
    release = release
    e1 = e1
    e2 = e2
    old = old
    new = new
    Procs = {p1, p2}
    Pkgs = {a, b}
    Root = project
    Configs = {debug, release}
    Versions = {old, new}
    Setups <- MCSetups
    Direct <- MCDirect
    IncludeOnly <- MCIncludeOnly
    Edits <- MCEdits
    MaxRuns = 2
    MaxDeaths = 1
SPECIFICATION FairSpec
CHECK_DEADLOCK FALSE
INVARIANTS
    TypeOK
    LocksRight
    EditsRight
    Built
PROPERTIES
    ImportStays
    RunsEnd
