CONSTANTS
    Sessions = {s1}
    NoPool = NoPool
    Capacity = 2
    Slots = {k1, k2, k3}
    Jobs <- AllJobs
    NoJob = NoJob
    Hashers = {h1, h2}
    Mutator = Mutator
    Depth = 1
    MaxRestarts = 2
    MaxFailures = 2
    MaxRechecks = 2
    MaxAssembling = 2
    MaxPrio = 2
SPECIFICATION SafetySpec
SYMMETRY Symm
INVARIANTS Budgeted OnePlace LeechFirst
CHECK_DEADLOCK FALSE
