CONSTANTS
    h1 = h1
    h2 = h2
    h3 = h3
    Handler = {h1, h2, h3}
    Session = {s, t}
    Implements <- MCImplements
    MaxObjects = 3
SPECIFICATION Spec
SYMMETRY MCSymmetry
CHECK_DEADLOCK FALSE
INVARIANTS
    ObjectIsShared
    ForgottenWhenEnded
PROPERTIES
    ControlsAreAnswered
