CONSTANTS
    Procs = {p1, p2}
    Vols = {v1}
    Sizes = {1, 2}
    Total = 5
    MaxGen = 2
    Policies = {"delete", "retain"}
    Calls = {"create", "delete", "expand"}
    OrderlyCaller = TRUE
    None = None
SPECIFICATION Spec
SYMMETRY Symmetric
CHECK_DEADLOCK FALSE
INVARIANTS TypeOK AckedVolumeIntact OneWorkerPerVolume DiscoverableIsUsable
PROPERTIES PayloadLossAuthorised LossOnlyOfSeenGeneration
