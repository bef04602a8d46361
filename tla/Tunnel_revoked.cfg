CONSTANTS
    f1 = f1
    f2 = f2
    d1 = d1
    d2 = d2
    Conns = {c1, c2}
    MaxInFlight = 1
    Fps = {f1, f2}
    Tables <- MCTables
    Hosts = {api}
    Allow = {api}
    Cap = 2
    Lengths = {1, 3}
    None = None
SPECIFICATION Spec
PROPERTY RevokedIsCutOff
CHECK_DEADLOCK FALSE
