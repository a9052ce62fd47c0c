CONSTANTS
    Procs = {p1, p2}
    Vols = {v1}
    Sizes = {1, 2}
    Total = 5
    MaxGen = 1
    Policies = {"delete", "archive"}
    Calls = {"create", "delete", "expand"}
    OrderlyCaller = TRUE
    Retried = {"create", "delete"}
    None = None
SPECIFICATION RetrySpec
CHECK_DEADLOCK FALSE
INVARIANTS PayloadReserved
PROPERTIES DeleteConverges CreateConverges
