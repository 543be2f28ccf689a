SPECIFICATION MCSpec
CONSTANTS
    Garbage = {"a", "b"}
    OutCap = 1
    Word = 4096
    Maxes = {10}
    Watermarks = {90}
    Usages = {0, 9, 10, 4090}
    Offsets = {1, 9}
    MaxRounds = 2
    VKeys = {"a", "b", "c"}
    VWorkers = {"v", "w"}
    Addrs = {"a"}
    Protos = {"x"}
    PPeers = {"p"}
    Conns = {"c", "d"}
    BPeers = {"p", "q"}
    BOthers = {"o"}
    MinPeerThreshold = 2
    MaxTicks = 2
    EventQueueSize = 3
    BusyDropAmount = 2
    MaxEvents = 8
    QBuffer = 1
    QEvents = 2
    QLinks <- MCQLinks
    QRoots <- MCQRoots
INVARIANTS
    
    
    StreamsAccounted
    RoundsDone
    NoSilentLoss
    
    
    AddAnswers
PROPERTIES
    RootFollowed
    
    
CHECK_DEADLOCK FALSE
