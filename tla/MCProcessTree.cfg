CONSTANTS
    Tasks = {init, t1, t2}
    Reaper = init
    PID_MAX = 4
    FIRST_PID = 2
    LastPid = 2
    Forks <- AllForks
    MaxForks = 5
    Waits <- AnyOrGroup
    Traces = TRUE
SPECIFICATION Spec
CONSTRAINT NothingExcused
SYMMETRY TaskSymmetry
INVARIANTS
    PidsUnique
    GroupsInSessions
    ReleasedOnce
    NoChildMissed
