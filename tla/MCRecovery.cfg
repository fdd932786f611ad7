SPECIFICATION RecoverSpec
CONSTANTS
    t1 = t1
    t2 = t2
    p1 = p1
    f1 = f1
    None = None
    ScratchPage = ScratchPage
    Plain = Plain
    Syscall = Syscall
    Exception = Exception
    Task = {t1, t2}
    Page = {p1}
    Frame = {f1}
    Program <- MCProgram
    Slots = 2
INVARIANTS
    RecoveryInv
PROPERTIES
    SuspendedStays
    FreshRegistersKeepProgress
    FaultsRecovered
