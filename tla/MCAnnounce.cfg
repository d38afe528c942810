CONSTANTS
    t1 = t1
    t2 = t2
    Torrents = {t1}
    Pieces = 1
    Had = 0
    Tasks = {1, 2}
    MaxInflight = 0
    PerHost = 1
    Budgets <- TwoTroubles
SPECIFICATION AnnounceFairSpec
INVARIANTS CompletedOnce
PROPERTIES CompletedIsHeard
CHECK_DEADLOCK FALSE
