CONSTANTS
    Path <- ListPath
    Above <- ListAbove
    Kind <- ListKind
    Named <- ListNamed
    Scalar <- Digits
    Dup <- ListDups
    Manager = {"a", "b", "u"}
    Version <- OneVersion
    ToBase <- SameNames
    FromBase <- SameNames
    Ignored <- NothingIgnored
    Schemas <- ListSchemas
    Updates <- ListUpdates
    Applies <- ListApplies
    UpdateObjects <- ListObjects
    ApplyConfigs <- ListConfigs
SPECIFICATION Spec
INVARIANTS
    TypeOK
    OwnedFieldsExist
PROPERTIES
    ChangedFieldsChangeOwner
    UnforcedApplyTakesNothing
    AppliedConfigHolds
    RemovedRootsWereApplied
    OwnedItemsAddedBack
