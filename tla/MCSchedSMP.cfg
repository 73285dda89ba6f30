CONSTANTS
    Cpus = {0, 1}
    Tasks = {t1, t2, t3}
    ShortTasks = {t3}
    Callers = {t1, t2}
    Targets = {t1, t3}
    Mortal = {t1}
    Boot = 0
    Idle = Idle
    None = None
    Free = Free
SPECIFICATION Spec
INVARIANTS
    OnePlace
    NoDeadlock
    AffinityKept
    NobodyForgotten
