SPECIFICATION MCSpec
CONSTANTS
    Proc = {"a", "i", "u", "p", "g", "b", "w"}
    NoProc = "none"
    NoCid = "none"
    Cid = {"e", "x", "y", "d1", "d2"}
    Links <- MCLinks
    Remote = {"x", "y"}
    MfsInit = "e"
    Pinners = {"p"}
    PinCids = {"y"}
    UnpinCids = {"y"}
    Putters = {"u"}
    PutCids = {"d2"}
    Importers = {"i"}
    CarCids = {"x", "y", "d2"}
    CarRoots = {"y", "d2"}
    Adders = {"a"}
    AddFiles <- MCFiles
    AddRoots <- MCRoots
    LiveCacheSize = 2
    Collectors = {"g"}
    Removers = {"b"}
    RmCids = {"x", "y"}
    MfsWriters = {"w"}
    MfsRoots = {"e", "d1"}
INVARIANTS
    WrittenStays
    AddedStaysStored
PROPERTIES
    DeleteSparesPinned
