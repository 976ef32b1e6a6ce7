CONSTANTS
    p1 = p1
    p2 = p2
    Procs = {p1, p2}
    StartupActions <- MCActions
    Tables <- MCTables
    DataTables <- MCDataTables
    MaxVersion = 2
    MaxRuns = 1
    MaxFaults = 1
SPECIFICATION Spec
CHECK_DEADLOCK FALSE
SYMMETRY Symmetry
INVARIANTS
    TypeOK
    ActionsRight
    PackagesRight
