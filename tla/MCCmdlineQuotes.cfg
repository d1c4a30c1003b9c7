CONSTANTS
    Lines = {l1, l2}
    Fields <- MCFields
    None <- MCNone
    Elements <- Quotes
    maxCmdline = 2048
    MaxExtra = 1
    MaxArrays = 3
SPECIFICATION CmdlineSpec
CHECK_DEADLOCK FALSE
INVARIANT
    KernelReadsTheLine
