CONSTANTS
    Procs = {p1, p2}
    Vols = {v1}
    Sizes = {2}
    Total = 9
    MaxGen = 2
    Policies = {"archive"}
    Calls = {"create", "delete", "expand", "reclaim"}
    OrderlyCaller = TRUE
    None = None
SPECIFICATION Spec
SYMMETRY Symmetric
CHECK_DEADLOCK FALSE
INVARIANTS ArchiveResumable
PROPERTIES ArchiveLossAuthorised LifecycleKept
