SPECIFICATION FairSpec
CONSTANTS
    NoProc = NoProc
    NoCid = NoCid
    Links <- MCLinks
    AddFiles <- MCNoFiles
    AddRoots <- MCNoRoots
    Proc = {p, u, g, b}
    Cid = {"e", "x", "d1"}
    Remote = {"x"}
    MfsInit = "e"
    Pinners = {p}
    Putters = {u}
    Importers = {}
    PinCids = {"x"}
    UnpinCids = {"x"}
    PutCids = {"x"}
    CarCids = {}
    CarRoots = {}
    Adders = {}
    LiveCacheSize = 2
    Collectors = {g}
    Removers = {b}
    MfsWriters = {}
    RmCids = {"x"}
    MfsRoots = {}
INVARIANTS
    PinsComplete
PROPERTIES
    LockServed
