CONSTANTS
    Peers = {p1, p2}
    Pieces = {a, b}
    NoPiece = NoPiece
    WantedSets <- AllWanted
    RemoteHas <- OneSeed
    EndgameMax = 1
    MaxPrio = 0
    MaxAssembling = 1
    MaxFaults = 2
    IdleClosing = TRUE
    BackendMayDie = FALSE
SPECIFICATION FairSpec
PROPERTY DownloadEnds
CHECK_DEADLOCK FALSE
