SPECIFICATION Spec
CONSTANTS
    PinCid = {a}
    Id = {i}
    MaxPending = 1
    SyncRepairFrequency = 50
    Ordered = TRUE
    Faults = {}
INVARIANTS
    PinnedDataDurable
