SPECIFICATION Spec
CONSTANTS
    Peer = {p}
    Handler = {h1, h2}
    NoPeer = NoPeer
    NoHandler = NoHandler
    InitialDelay = 2
    MaxBackoff = 3
    Jitter = 40
    Flaky = TRUE
    MaxConns = 2
    MaxNotes = 1
    MaxGo = 1
INVARIANTS
    Watched
