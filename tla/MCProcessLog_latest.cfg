CONSTANTS
    REST_LIST_SIZE = 4
    MaxViolations = 14
    Garbage = Garbage
SPECIFICATION LogSpec
INVARIANTS
    AnswersLatest
