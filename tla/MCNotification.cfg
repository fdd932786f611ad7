SPECIFICATION Spec
CHECK_DEADLOCK FALSE
CONSTANTS
    t1 = t1
    t2 = t2
    NoCap = NoCap
    Task = {t1, t2}
    MaxWord = 7
    Bit = {0, 1, 2}
    Bits <- MCBits
    RawBadges = {0, 4}
    Unbadged = TRUE
INVARIANTS
    BadgesUnambiguous
    ObservationExact
PROPERTIES
    SignalsObserved
