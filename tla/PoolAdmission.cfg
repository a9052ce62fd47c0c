CONSTANTS
    Procs = {p1, p2}
    Vols = {v1, v2}
    Sizes = {3}
    Total = 4
    MaxGen = 1
    Policies = {"delete"}
    Calls = {"create", "delete"}
    OrderlyCaller = TRUE
    None = None
SPECIFICATION Spec
SYMMETRY Symmetric
CHECK_DEADLOCK FALSE
INVARIANTS PoolNotOvercommitted
