CONSTANTS
    z1 = z1
    z2 = z2
    png = png
    gui = gui
    app = app
    Pkgs = {z1, z2, png, gui, app}
    Worlds <- MCWorlds
    Dependents <- MCDependents
    Projects <- MCProjects
    Threads = 2
    Buckets = 5
    BuildAfter = {"done"}
    MaxRuns = 3
    MaxFaults = 1
SPECIFICATION FairSpec
CHECK_DEADLOCK FALSE
INVARIANTS
    TypeOK
    DependentsCleaned
    BuiltFromFiles
PROPERTIES
    SettledStays
    RunsEnd
