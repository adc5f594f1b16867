SPECIFICATION Spec
CONSTANTS
    Turn = {t1}
    Input = {i1}
    Request = {r1}
    NoTurn = NoTurn
    MaxIterations = 1
    MaxCalls = 1
    MaxWaits = 2
    Detaches = TRUE
    SameTick = TRUE
INVARIANTS
    InterruptedNeverCompletes
