CONSTANTS
    Elements <- AllElements
    MaxInserts = 3
    Mantissa = 2
SPECIFICATION Spec
INVARIANTS
    CompareIsTotalOrder
    FoundIffInserted
    MembersInOrder
