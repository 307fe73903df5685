CONSTANTS
    FieldsOf <- TwoLevels
    Root = "Outer"
    Name <- Names
    Values = {1, 2}
SPECIFICATION Spec
INVARIANTS
    
    
    EqualsDecidesEquality
PROPERTIES
    OneKeyChanges
