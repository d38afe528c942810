CONSTANTS
    a = a
    b = b
    x = x
    y = y
    Pieces = {a, b}
    Blocks = {x, y}
    PieceOf <- OneEach
    NoPiece = NoPiece
    Modes <- ThreeModes
    PieceMax = 2
    ChunkMax = 2
    MaxMsgs = 4
    MaxTrouble = 1
    MaxIdle = 1
SPECIFICATION MCSpec
INVARIANTS CipherInStep CancelledIsGone RemoteLearns PendingWhileWaiting
PROPERTIES KeepsLedger
CHECK_DEADLOCK FALSE
