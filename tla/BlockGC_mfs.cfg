SPECIFICATION Spec
CONSTANTS
    NoProc = NoProc
    NoCid = NoCid
    Links <- MCLinks
    AddFiles <- MCNoFiles
    AddRoots <- MCNoRoots
    Proc = {g, w}
    Cid = {"e", "x", "f", "m", "d1"}
    Remote = {}
    MfsInit = "e"
    Pinners = {}
    Putters = {}
    Importers = {}
    PinCids = {}
    UnpinCids = {}
    PutCids = {}
    CarCids = {}
    CarRoots = {}
    Adders = {}
    LiveCacheSize = 2
    Collectors = {g}
    Removers = {}
    MfsWriters = {w}
    RmCids = {}
    MfsRoots = {"e", "m"}
PROPERTIES
    MfsRespected
