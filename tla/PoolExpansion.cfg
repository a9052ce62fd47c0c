CONSTANTS
    Procs = {p1, p2}
    Vols = {v1, v2}
    Sizes = {1, 3}
    Total = 5
    MaxGen = 1
    Policies = {"delete"}
    Calls = {"create", "expand"}
    OrderlyCaller = TRUE
    None = None
SPECIFICATION Spec
SYMMETRY Symmetric
CHECK_DEADLOCK FALSE
INVARIANTS PoolNotOvercommitted LeftoverIntentRedundant
