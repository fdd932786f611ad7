SPECIFICATION Spec
CONSTANTS
    v1 = v1
    v2 = v2
    Server = {v1, v2}
    Slot = {1, 2}
    SendCaps = {0, 3, 4}
    ReplyCaps = {0, 1}
    ExtraCapacity = 4
    BufferExtra = 3
    Width = 3
    Start = 3
    Capacity = {1, 2, 3}
    None = None
    Unasked = Unasked
INVARIANTS
    OutboundInv
    BitsAreHandles
PROPERTIES
    ImplementsSlots
    SendsEnd
