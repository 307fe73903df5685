CONSTANTS
    Path <- FieldPath
    Above <- FlatAbove
    Kind <- AllScalars
    Named <- FieldPath
    Scalar <- Digits
    Dup <- NoDups
    Manager = {"a", "b", "u"}
    Version <- ThreeVersions
    ToBase <- SwapInV2
    FromBase <- SwapInV2
    Ignored <- IgnoreF
    Schemas <- Granular
    Updates <- FieldUpdates
    Applies <- FieldApplies
    UpdateObjects <- FieldObjects
    ApplyConfigs <- FieldObjects
SPECIFICATION Spec
INVARIANTS
    NoEmptyManagedSets
    OwnedFieldsExist
    IgnoredNeverOwned
    NoMissingVersionInApply
PROPERTIES
    
    AppliedConfigHolds
    OwnedItemsAddedBack
