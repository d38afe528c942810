SPECIFICATION ServicesSpec
CONSTANTS
    NumFiles = 2
    MoveStarts <- Readded
    x = x
    y = y
    Bad = Bad
    Torrents = {x, y}
    Hash <- Hashes
    SizeOf <- Sizes
    CacheCap = 5
    CacheMargin = 1
    LibraryStarts <- Watched
    Mishaps = 2
    Ids = {1, 2}
    Filters <- FilterSets
    ConsoleStarts <- Used
    Threads = {t1}
    RingSize = 4
    LogTexts <- Texts
    MaxKeys = 3
    Heights = {2, 3}
    Prefix = 2
    BodyOf <- Bodies
    LowatMin = 3
    LowatCap = 6
    CompactAt = 5
    Pipe = 2
    MaxFrames = 3
    MaxStalls = 1
    CancelSafe = TRUE
    NumAddrs = 2
    MaxCopies = 2
    NumWorkers = 2
    Spawners = {s1, s2}
    MaxSessions = 3
    p1 = p1
    p2 = p2
    p3 = p3
    SpanPieces = {p1, p2, p3}
    SpansOf <- PieceSpans
    SpanDepth = 2
    RingEntries = 2
    MaxErrors = 2
INVARIANTS NeverSeedsEmpty
CHECK_DEADLOCK FALSE
