CONSTANTS
    Volumes = {v}
    Incarnations = 2
    MaxTrouble = 2
SPECIFICATION Spec
CHECK_DEADLOCK FALSE
INVARIANTS TypeOK WatchReconciled RetainIsSafe ReadyMeansServing
PROPERTIES PoolOutlivesVolumes LiveUndisturbed FenceLifts OrphanDrains
