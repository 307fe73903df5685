SPECIFICATION Spec
CONSTANTS
    Goroutines = {g1, g2}
    Kind <- MCKind
    Pairs <- MCPairs
    NumWalkers = 2
    FreelistMaxSize = 2
    MaxCalls = 2
INVARIANTS
    WalkersAtTheirNodes
    
    ComparisonsAreRight
CHECK_DEADLOCK FALSE
