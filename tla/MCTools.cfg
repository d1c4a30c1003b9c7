CONSTANTS
    BootFlags <- MCBootFlags
    Unpacked <- MCUnpacked
    Bytes = {"a", "b"}
    markers <- MCMarkers
    MaxRead = 3
    MaxOutput = 8
    Stages = {"kernel", "usable"}
    Times = {14, 15, 24}
    MaxBoots = 3
    OldSections <- MCSections
    Axes <- MCAxes
    NewArgs <- MCArgs
    NewNames <- MCNames
    MaxEdits = 3
    FirstMajor = 9
    Minors = 2
    DeprecatedAfter = 2
    RemovedAfter = 4
    MaxSkip = 2
    MaxQEMU = 9
SPECIFICATION ToolsSpec
CHECK_DEADLOCK FALSE
INVARIANTS
    NoPartMissing
    BaseNeverWritten
    MachineFitsKernel
    StampedWhereItAppeared
    ReturnsOnceReached
    SummaryIsRank
    EveryRowOnce
    AxesRename
    WarnedInTime
    NoticeIsNewest
