SPECIFICATION Spec
CONSTANTS
    Stream = {s1, s2}
    Waiter = {w1}
    Id = {c1, c2, c3}
    TurnId = {turn1, turn2}
    None = None
    MaxRegistrations = 2
    MaxMessages = 2
SYMMETRY Symmetry
CHECK_DEADLOCK FALSE
INVARIANTS
    HeldIsUnsettled
    UnsettledIsHeld
PROPERTIES
    StreamsAreSound
    InterruptEndsTheTurn
