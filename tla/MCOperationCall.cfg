CONSTANTS
    Stream = {}
    NoStream = NoStream
    Threads = FALSE
    MaxMessages = 8
    Command = {c1, c2}
    Args = {a1, a2}
    NoSpec = NoSpec
SPECIFICATION OpFairSpec
CHECK_DEADLOCK FALSE
INVARIANTS
    OpInv
    ShownIsRun
PROPERTIES
    TimedCallEnds
