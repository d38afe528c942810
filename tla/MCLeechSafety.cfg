CONSTANTS
    Peers = {p1, p2}
    Pieces = {a, b}
    NoPiece = NoPiece
    WantedSets <- AnyWanted
    RemoteHas <- AllRemote
    EndgameMax = 0
    MaxPrio = 1
    MaxAssembling = 1
    MaxFaults = 1
    IdleClosing = TRUE
    BackendMayDie = TRUE
SPECIFICATION Spec
CONSTRAINT OneTrouble
SYMMETRY Symm
INVARIANTS HaveIsOnDisk NoOrphanClaim NothingLostToTheDrop MissingExactUntilReprioritised
CHECK_DEADLOCK FALSE
