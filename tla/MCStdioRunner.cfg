CONSTANTS
    Turn = {t1, t2}
    Input = {i1, i2}
    Request = {r1}
    NoTurn = NoTurn
    MaxIterations = 1
    MaxCalls = 1
    MaxWaits = 1
    Detaches = FALSE
    SameTick = TRUE
    Start = Start
    NoTask = NoTask
SPECIFICATION StdioFairSpec
CHECK_DEADLOCK FALSE
INVARIANTS
    StdioInv
PROPERTIES
    RunnerMoves
