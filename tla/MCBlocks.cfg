CONSTANTS
    p1 = p1
    p2 = p2
    Pieces <- TwoPieces
    PieceLen <- Lengths
    BlockSize = 2
    Modes <- AnyMode
    Pipelines = {2, 3}
    Fair = 1
    EndgameMax = 0
    Buffers = 2
    Capacity = 3
    MaxTrouble = 1
SPECIFICATION FairSpec
INVARIANTS RequestsAgree BufferIsFresh PaidFor
PROPERTIES Arrives
CHECK_DEADLOCK FALSE
