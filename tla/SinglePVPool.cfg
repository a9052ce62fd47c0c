CONSTANTS
    Procs = {p1, p2}
    Vols = {v1, v2}
    Policies = {"delete", "retain"}
    Legacy = TRUE
    None = None
SPECIFICATION RetrySpec
CHECK_DEADLOCK FALSE
INVARIANTS TypeOK OwnerUndisturbed
PROPERTIES PurgeAuthorised OwnershipKept PoolRetires
