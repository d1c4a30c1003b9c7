CONSTANTS
    Clients = {c1, c2, c3}
    Nobody = Nobody
    Asked = {0, 1, 3, 5, 8}
    MiB = 2
    Word = 16
    Block = 2
    MaxBlocks = 4
SPECIFICATION FairSpec
INVARIANTS
    ReachedStays
    MemoryInv
PROPERTY
    EveryCommandEnds
