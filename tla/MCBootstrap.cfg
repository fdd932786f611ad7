SPECIFICATION Spec
CONSTANTS
    First = 3
    End = 18
    Mints = {1}
    Tables = {1}
    PoolSizes = {1, 2}
    Kinds = {"endpoint"}
    MaxHandles = 3
INVARIANTS
    OwnershipInv
    HandlesIntact
PROPERTIES
    FailureRestores
    SuccessIsReturned
    ConstructionEnds
