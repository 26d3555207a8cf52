SPECIFICATION FairSpec
CONSTANTS
    Conn = {c1, c2}
    MaxConns = 1
    Deadline = TRUE
    IdleTimeouts = {0, 1}
    Drain = 1
    MaxChunks = 1
INVARIANTS
    TypeOK
    SlotsMatchServed
    NothingLeftBehind
PROPERTIES
    ImplementsStream
    IdleCutMeansIdle
    EndedDirectionEndsConn
    SlotsComeBack
