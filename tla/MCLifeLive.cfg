CONSTANTS
    t1 = t1
    t2 = t2
    p1 = p1
    p2 = p2
    Cold = Cold
    Torrents <- OneTorrent
    Pieces <- OnePiece
    Ops <- Commanding
    Syncing <- BothTasks
    MaxCmds = 2
    MaxFaults = 1
    MaxCrashes = 1
    MaxDamage = 0
SPECIFICATION FairSpec
INVARIANT PossessionCovered
CHECK_DEADLOCK FALSE
PROPERTIES HavesLand WantedRuns
