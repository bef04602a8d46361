CONSTANTS
    Payload = 2
    Cap = 2
SPECIFICATION Spec
INVARIANTS TypeOK StreamsIntact Complete
PROPERTY HandleEnds
CHECK_DEADLOCK FALSE
