CONSTANTS
    Tasks = {init, t1, t2}
    FirstTask = init
    None = None
    Uids = {0, 1}
    Gids = {0, 1}
    Caps = {CAP_SETUID, CAP_SETGID, CAP_SYS_RESOURCE, CAP_CHOWN}
    CAP_SETUID = CAP_SETUID
    CAP_SETGID = CAP_SETGID
    CAP_SYS_RESOURCE = CAP_SYS_RESOURCE
    CAP_FS_MASK = {CAP_CHOWN}
    NPROC = 1
    Idle = idle
    Structs = {0, 1, 2}
    Clones <- MCClones
SPECIFICATION MCSpec
CONSTRAINT Bounds
SYMMETRY Symmetry
INVARIANTS
    PowerlessWithoutRoot
    IdsWithinReach
    ChargesExact
    SharingExact
    MemoryCounted
    VforkHandshake
