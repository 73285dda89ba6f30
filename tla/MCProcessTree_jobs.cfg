CONSTANTS
    Tasks = {init, t1, t2, t3}
    Reaper = init
    PID_MAX = 5
    FIRST_PID = 2
    LastPid = 1
    Forks <- ForksAndThreads
    MaxForks = 3
    Waits <- NoSleep
    Traces = FALSE
SPECIFICATION Spec
CONSTRAINT NothingExcused
SYMMETRY TaskSymmetry
INVARIANTS
    ParentsLive
PROPERTIES
    NoJobLeftStopped
