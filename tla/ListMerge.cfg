CONSTANTS
    PE = {"a", "b", "c", "d"}
    MaxLen = 4
SPECIFICATION MergeSpec
INVARIANTS
    EveryItemOnce
    OrderOfLHSKept
PROPERTIES
    MergeTerminates
CHECK_DEADLOCK FALSE
