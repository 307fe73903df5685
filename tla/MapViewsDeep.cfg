CONSTANTS
    FieldsOf <- ThreeLevels
    Root = "Outer"
    Name <- Names
    Values = {1, 2}
SPECIFICATION Spec
PROPERTIES
    OneKeyChanges
