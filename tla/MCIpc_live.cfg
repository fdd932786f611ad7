SPECIFICATION ServerSpec
CHECK_DEADLOCK FALSE
CONSTANTS
    c1 = c1
    c2 = c2
    e1 = e1
    e2 = e2
    f1 = f1
    None = None
    Client = {c1, c2}
    Endpoint = {e1}
    FaultEndpoint = {}
    Badge <- MCBadge
    Info <- PlainInfo
    MessageCapacity = 1
    ExtraCapacity = 4
    ReplyCapacity = 1
    MaxSlots = 2
    CSpaceSize = 1
    MaxCalls = 2
    Overlap = FALSE
    Drops = FALSE
PROPERTIES
    CallsAnswered
