CONSTANTS
    Tables <- MCTables
    Paths <- MCPaths
    Methods <- MCMethods
SPECIFICATION Spec
INVARIANTS
    EveryOrderServesAlike
    ServesAsDocumented
