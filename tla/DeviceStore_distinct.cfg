CONSTANTS
    f1 = f1
    f2 = f2
    bad = bad
    Lists <- MCLists
    Canonical <- MCCanonical
    Steps = {1}
    MaxEvents = 4
    MaxCrashes = 1
SPECIFICATION FairSpec
INVARIANTS TypeOK NoMissedChange
PROPERTIES ImplementsWhitelist StopIsFinal EditsTakeEffect StopTerminates
CHECK_DEADLOCK FALSE
