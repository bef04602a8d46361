CONSTANTS
    c1 = c1
    c2 = c2
    tokA = tokA
    tokB = tokB
    Conns = {c1}
    DeviceMaps <- OneTunnel
    DefaultRate = 2
    Pool <- MCPool
    Legacy = NoToken
    NoToken = NoToken
    Requests <- Mixed
    MaxSends = 3
    MaxRequests = 3
    Minute = 2
    Horizon = 2
SPECIFICATION FairSpec
INVARIANTS TypeOK SwapSound BodySentOnce
PROPERTY HangupEnds
CHECK_DEADLOCK FALSE
