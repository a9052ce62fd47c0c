CONSTANTS
    Pools = {p1, p2}
    Drivers = {d1, d2}
    None = None
    MaxBirths = 2
    MaxSurprises = 2
    BlindLooks = TRUE
    Shared = {p1, p2}
    MaxUpsets = 0
SPECIFICATION Spec
CHECK_DEADLOCK FALSE
INVARIANT OneHome
