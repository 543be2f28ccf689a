SPECIFICATION MCSpec
CONSTANTS
    PinCid = {a, b}
    LooseCid = a
    Id = {i, j}
    MaxPending = 2
    SyncRepairFrequency = 50
    Ordered = TRUE
    Faults = {}
SYMMETRY MCSymmetry
INVARIANTS
    OrderedPromiseKept
    OrderedIndexesTrue
    SettledMeansDurable
