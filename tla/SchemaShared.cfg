CONSTANTS
    Goroutines = {"p", "q"}
    MapType = {"M", "N"}
    ScalarType = {"S"}
    Field = {"f", "g"}
    Unknown = "unknown"
    Plain = {"N", "S", "unknown"}
    Overridden = {"M", "S", "unknown"}
SPECIFICATION SchemaSpec
INVARIANTS
    LookupsFindWhatExists
PROPERTIES
    IndexesInUseAreFixed
    LookupsReturn
