SPECIFICATION FairSpec
CONSTANTS
    Turn = {t1, t2}
    Input = {i1, i2}
    Request = {r1}
    NoTurn = NoTurn
    MaxIterations = 2
    MaxCalls = 1
    MaxWaits = 1
    Detaches = FALSE
    SameTick = TRUE
INVARIANTS
    StreamWellFormed
PROPERTIES
    AnsweredStreamEnds
    EveryTurnEnds
