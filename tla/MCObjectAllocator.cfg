SPECIFICATION Spec
CONSTANTS
    Untypeds <- MCUntypeds
    Plans <- MCPlans
    First = 3
    End = 9
INVARIANTS
    AllocatorInv
PROPERTIES
    NoMemoryIsTrue
    FailureReturnsMemory
