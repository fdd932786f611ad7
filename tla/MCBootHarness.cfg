SPECIFICATION Spec
CONSTANTS
    Byte = {"t", "r", "n"}
    NL = "n"
    CR = "r"
    MARKERS <- MCMarkers
    RESULT <- MCResult
    OutputLimit = 7
    EventLimit = 2
    PipeSize = 3
    MaxWritten = 8
CHECK_DEADLOCK FALSE
INVARIANTS
    HarnessInv
PROPERTIES
    NoFalseAlarm
    Returns
