SPECIFICATION Spec
CONSTANTS
    PinCid = {a, b}
    Id = {i, j}
    MaxPending = 1
    SyncRepairFrequency = 1
    Ordered = TRUE
    Faults = {}
INVARIANTS
    RebuiltIndexes
