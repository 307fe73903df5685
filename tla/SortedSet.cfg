CONSTANTS
    Elem <- FourElements
SPECIFICATION Spec
INVARIANTS
    SlicesSorted
PROPERTIES
    LoopsComputeSets
    LoopsTerminate
