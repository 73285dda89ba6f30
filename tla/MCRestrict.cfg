CONSTANTS
    Tasks = {1, 2}
    FirstTask = 1
    Blocks = {b1, b2, b3, b4}
    Null = Null
    Syscalls = {13, 20}
    Lists <- FewLists
    Fails = TRUE
    MaxLogged = 1
SPECIFICATION Spec
CONSTRAINT StillIntact
VIEW Seen
SYMMETRY BlockSymmetry
INVARIANTS
    OneOwner
    EnforcesPolicy
