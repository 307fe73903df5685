CONSTANTS
    Proc = {"p", "q"}
    Type <- Types
    Fields <- Refers
    MaxCalls = 2
SPECIFICATION Spec
INVARIANTS
    NoHalfBuiltEntries
    ReturnedIsCached
PROPERTIES
    NothingLost
    CallsReturn
CHECK_DEADLOCK FALSE
