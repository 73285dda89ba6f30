CONSTANTS
    Tasks = {t1, t2, t3}
    FirstTask = t1
    Idle = Idle
    MAX_RT_PRIO = 2
    MAX_PRIO = 4
    Asked = {"RR"}
    ShortPrios = {0, 3}
    RequestedTicks = {1}
    TimeSlice = 1
    MaxTimeSlice = 1
    Nices = {3}
    MaxBonus = 0
    ShortPenalty = 1
SPECIFICATION Spec
SYMMETRY TaskSymmetry
VIEW View
INVARIANTS
    RunqueueConsistent
    PlaceIsExact
PROPERTIES
    PreemptionPending
    ShortIsOneWay
