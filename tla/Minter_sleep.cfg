CONSTANTS
    Hosts = {api}
    Ttl = 2
    Margin = 1
    MaxMono = 4
    MaxDrift = 3
SPECIFICATION MinterSpec
INVARIANT LeafOutlivesCache
CHECK_DEADLOCK FALSE
