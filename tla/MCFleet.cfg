CONSTANTS
    Base <- MCBase
    Callers <- MCCallers
    Lines = {l1, l2}
    Fields <- MCFields
    None <- MCNone
    Elements <- Plain
    maxCmdline = 150
    MaxExtra = 2
    MaxArrays = 3
SPECIFICATION MachineSpec
CHECK_DEADLOCK FALSE
INVARIANTS
    ResumesOnSameHardware
    NoCheckpointStranded
    NoSlotTwice
    SetsAreGiven
    ChainsAreClosed
    LinesAreIndependent
    KernelReadsTheLine
