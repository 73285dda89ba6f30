CONSTANTS
    Height = 3
    Width = 3
    Generations = 2
    NThread = 2
    InitialBoards <- FewBoards
    Main = Main
    NullJob = NullJob
    NoItem = NoItem
    NoThread = NoThread
SPECIFICATION FairSpec
INVARIANTS
    RaceFree
    TilesByGeneration
    CleanDestroy
PROPERTIES
    ComputesAllGenerations
    Termination
