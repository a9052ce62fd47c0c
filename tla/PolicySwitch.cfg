CONSTANTS
    Procs = {p1, p2}
    Vols = {v1}
    Sizes = {2}
    Total = 5
    MaxGen = 1
    Policies = {"archive", "delete"}
    Calls = {"create", "delete"}
    OrderlyCaller = TRUE
    None = None
SPECIFICATION Spec
SYMMETRY Symmetric
CHECK_DEADLOCK FALSE
INVARIANTS ArchiveResumable
