SPECIFICATION Spec
CONSTANTS
    Turn = {t1, t2}
    Input = {i1, i2}
    Request = {r1, r2}
    NoTurn = NoTurn
    MaxIterations = 1
    MaxCalls = 2
    MaxWaits = 2
    Detaches = TRUE
    SameTick = TRUE
SYMMETRY Symmetry
INVARIANTS
    ActiveTurnRuns
    InputsAreOwned
    MemoryComplete
PROPERTIES
    AbortSilences
    RecordLossIsReported
