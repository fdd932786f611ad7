SPECIFICATION Spec
CHECK_DEADLOCK FALSE
CONSTANTS
    ep = ep
    ntfn = ntfn
    bep = bep
    gone = gone
    Null = Null
    Width = 5
    UserTop = 24
    SpanBits <- MCSpanBits
    Config <- MCConfig
    WordSize = 4
    MaxSlots = 4
    Space <- MCSpace
    RootCap <- MCRootCap
    TaskConfig <- MCTaskConfig
INVARIANTS
    AcceptsWellFormed
    TablesComplete
    RefusesMalformed
    ConstructionInv
    FaultsReachRoute
