CONSTANTS
    Elem <- Elements
    Inputs <- SomePaths
    Named <- SomeFields
SPECIFICATION Spec
INVARIANTS
    EqualIffSameMembers
    ObserversAgree
PROPERTIES
    ImplementsPathSets
