SPECIFICATION FairSpec
CONSTANTS
    Stream = {s1, s2}
    NoStream = NoStream
    Threads = FALSE
    MaxMessages = 3
CHECK_DEADLOCK FALSE
INVARIANTS
    TerminalIsFinal
PROPERTIES
    CallEnds
    SinkIsChannel
