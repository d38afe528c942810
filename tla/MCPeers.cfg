CONSTANTS
    e1 = e1
    e2 = e2
    d1 = d1
    d2 = d2
    Endpoints = {e1, e2}
    Manual = {}
    NoEndpoint = NoEndpoint
    Conns = {1, 2}
    Dialers = {d1, d2}
    Limits = {1, 2}
    MaxConnections = 3
    Quotas <- SmallQuotas
SPECIFICATION PeersFairSpec
INVARIANTS SlotsHold OneConnPerEndpoint
PROPERTIES DialsGoOn
CHECK_DEADLOCK FALSE
