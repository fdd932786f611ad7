SPECIFICATION DecodeSpec
CHECK_DEADLOCK FALSE
CONSTANTS
    Word <- SmallWord
    Raised <- MCRaised
    Foreign <- MCForeign
INVARIANTS
    KernelFaultsDecoded
    OnlyFaultsAccepted
