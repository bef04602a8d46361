CONSTANTS
    c1 = c1
    c2 = c2
    tokA = tokA
    tokB = tokB
    Conns = {c1, c2}
    DeviceMaps <- TwoTunnels
    DefaultRate = 1
    Pool <- MCPool
    Legacy = NoToken
    NoToken = NoToken
    Requests <- Plain
    MaxSends = 1
    MaxRequests = 4
    Minute = 2
    Horizon = 3
SPECIFICATION Spec
INVARIANT UpstreamQuota
CHECK_DEADLOCK FALSE
