CONSTANTS
    MaxLines = 3
    MaxNoise = 2
    Kept = 1
    MaxCalls = 3
SPECIFICATION FairSpec
CHECK_DEADLOCK FALSE
INVARIANTS
    ChildInv
PROPERTIES
    StreamIsChannel
    AwaitedEndIsTold
    GroupDies
