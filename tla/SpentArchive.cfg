CONSTANTS
    Procs = {p1, p2}
    Vols = {v1, v2}
    Sizes = {3}
    Total = 5
    MaxGen = 2
    Policies = {"archive"}
    Calls = {"create", "delete", "reclaim"}
    OrderlyCaller = TRUE
    None = None
SPECIFICATION Spec
SYMMETRY Symmetric
CHECK_DEADLOCK FALSE
INVARIANTS PoolNotOvercommitted
