CONSTANTS
    Stream = {s1}
    NoStream = NoStream
    Threads = TRUE
    MaxMessages = 2
    Parts = 3
    Window = 2
SPECIFICATION HttpFairSpec
CHECK_DEADLOCK FALSE
INVARIANTS
    HttpInv
PROPERTIES
    HostIsChannel
    HostLearnsTheEnd
