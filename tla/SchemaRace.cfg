CONSTANTS
    Goroutines = {"p", "q"}
    MapType = {"M"}
    ScalarType = {"S"}
    Field = {"f", "g"}
    Unknown = "unknown"
    Plain = {"M"}
    Overridden = {"M"}
SPECIFICATION SchemaSpec
INVARIANTS
    LookupsFindWhatExists
