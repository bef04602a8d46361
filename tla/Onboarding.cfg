CONSTANTS
    MaxMiss = 3
    MaxRuns = 4
    MaxKills = 3
SPECIFICATION Spec
INVARIANTS TypeOK ShownIsUsable WrapperIsApproved GivesUpFairly
PROPERTIES IdentityKept PollEnds
CHECK_DEADLOCK FALSE
