SPECIFICATION Spec
CONSTANTS
    NoProc = NoProc
    NoCid = NoCid
    Links <- MCLinks
    AddFiles <- MCNoFiles
    AddRoots <- MCNoRoots
    Proc = {p1, p2, g}
    Cid = {"e", "x", "d1", "y", "d2"}
    Remote = {"x", "d1", "y", "d2"}
    MfsInit = "e"
    Pinners = {p1, p2}
    Putters = {}
    Importers = {}
    PinCids = {"d1", "d2"}
    UnpinCids = {"d1", "d2"}
    PutCids = {}
    CarCids = {}
    CarRoots = {}
    Adders = {}
    LiveCacheSize = 2
    Collectors = {g}
    Removers = {}
    MfsWriters = {}
    RmCids = {}
    MfsRoots = {}
SYMMETRY MCSymmetry
INVARIANTS
    PinsComplete
    PinAddStores
