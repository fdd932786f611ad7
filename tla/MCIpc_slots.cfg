SPECIFICATION Spec
CHECK_DEADLOCK FALSE
CONSTANTS
    c1 = c1
    c2 = c2
    e1 = e1
    e2 = e2
    f1 = f1
    None = None
    Client = {c1, c2}
    Endpoint = {e1}
    FaultEndpoint = {}
    Badge <- MCBadge
    Info <- MCInfo
    MessageCapacity = 1
    ExtraCapacity = 4
    ReplyCapacity = 1
    MaxSlots = 4
    CSpaceSize = 3
    MaxCalls = 1
    Overlap = FALSE
    Drops = TRUE
SYMMETRY Symmetry
INVARIANTS
    TypeOK
    FreeSlotsAreEmpty
    DestinationReady
