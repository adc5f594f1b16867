SPECIFICATION FairSpec
CONSTANTS
    MaxQuestions = 2
CHECK_DEADLOCK FALSE
INVARIANTS
    NoChildIsLeft
    AbortReachesChild
    ValueMeansFinished
PROPERTIES
    CallEnds
