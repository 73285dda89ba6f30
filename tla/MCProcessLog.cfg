CONSTANTS
    REST_LIST_SIZE = 4
    MaxViolations = 14
    Garbage = Garbage
SPECIFICATION LogSpec
CHECK_DEADLOCK FALSE
INVARIANTS
    LatestInDomain
    RecordsAreInLog
