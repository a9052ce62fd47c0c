CONSTANTS
    Pools = {p1, p2}
    Drivers = {d1, d2}
    None = None
    MaxBirths = 2
    MaxSurprises = 2
    BlindLooks = FALSE
    Shared = {p1, p2}
    MaxUpsets = 3
SPECIFICATION Spec
CHECK_DEADLOCK FALSE
INVARIANTS TypeOK OneHome AnswersHold
PROPERTY ReadinessFollows
