CONSTANTS
    MaxMiss = 3
    MaxRuns = 2
    MaxKills = 0
SPECIFICATION Spec
PROPERTIES RerunIsNew
CHECK_DEADLOCK FALSE
