CONSTANTS
    None = None
    p1 = p1
    p2 = p2
    Procs = {p1, p2}
    SystemFile <- NoFile
    UserFile <- NoFile
    Prepared <- MCPrepared
    Commands <- MCCommands
    Systems <- MCSystems
    MaxRuns = 3
    MaxStops = 1
SYMMETRY Symmetry
SPECIFICATION Spec
CHECK_DEADLOCK FALSE
INVARIANTS
    TypeOK
    FailsOnlySwept
    TreesApart
    ChosenBuild
PROPERTIES
    ImplementsService
