CONSTANTS
    p = p
    q = q
    Procs = {p, q}
    Names <- MCNames
    Stem <- MCStem
    Setups <- MCSetups
    Worlds <- MCWorlds
    Cases <- MCCases
    Jobs = {1, 2}
    FewChecks = 2
    MaxRuns = 3
    MaxKills = 1
SPECIFICATION Spec
CHECK_DEADLOCK FALSE
INVARIANTS
    TypeOK
    FileRight
    Available
    CheckerAsksSame
