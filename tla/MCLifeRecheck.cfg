CONSTANTS
    t1 = t1
    t2 = t2
    p1 = p1
    p2 = p2
    Cold = Cold
    Torrents <- OneTorrent
    Pieces <- TwoPieces
    Ops <- Rechecking
    Syncing = {}
    MaxCmds = 3
    MaxFaults = 1
    MaxCrashes = 1
    MaxDamage = 1
SPECIFICATION Spec
SYMMETRY PieceSymmetry
INVARIANTS CatalogBehindDisk
CHECK_DEADLOCK FALSE
