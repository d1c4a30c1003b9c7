CONSTANTS
    Clients = {1, 2, 3}
    v1 = v1
    v2 = v2
    f1 = f1
    f2 = f2
    VMs = {v1, v2}
    Files = {f1, f2}
    Nobody = Nobody
    Sessions = 1
    Started <- MCStarted
SPECIFICATION FairSpec
INVARIANTS
    SavedIsComplete
    SourceIsStopped
    StoppedIsSaved
    RestoredRuns
    CheckpointInv
    SessionInv
PROPERTY
    EveryCommandEnds
