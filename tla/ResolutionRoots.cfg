SPECIFICATION Spec
CONSTANTS
    MaxNumber = 2
    Branches = {"master"}
    Paths <- MCPaths
    Dbs <- MCDbs
    Requests <- MCRequests
INVARIANT ChildrenPrepared
