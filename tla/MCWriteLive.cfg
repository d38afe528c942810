CONSTANTS
    Sessions = {s1}
    NoPool = NoPool
    Capacity = 2
    Slots = {1, 2}
    Jobs <- AllJobs
    NoJob = NoJob
    Hashers = {h1, h2}
    Mutator = Mutator
    Depth = 1
    MaxRestarts = 2
    MaxFailures = 1
    MaxRechecks = 0
    MaxAssembling = 1
    MaxPrio = 0
SPECIFICATION FairSpec
PROPERTIES Answers
CHECK_DEADLOCK FALSE
