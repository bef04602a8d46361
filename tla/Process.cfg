CONSTANTS
    Handshakes = {m, h}
    Main = m
    MaxPairs = 2
    Hosts = {api}
    Ttl = 1
    Margin = 1
    MaxMono = 2
    MaxDrift = 1
    Configs = {config}
    MaxCAs = 2
    MaxFailures = 1
SPECIFICATION FairSpec
INVARIANTS TypeOK CAPairMatches NewestServed FailsOnlyInRenewal LeafHasMargin
PROPERTY ComesUp
CHECK_DEADLOCK FALSE
