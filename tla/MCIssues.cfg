CONSTANTS
    LastPackage = 2
    a = a
    b = b
    Ids = {a, b}
    History <- MCHistory
    MaxRelease = 2
    MaxChanges = 4
    PeopleDuringRuns = FALSE
SPECIFICATION FairSpec
INVARIANTS
    NothingLost
    OneIssue
    DoneIsReported
PROPERTY
    EventuallyReported
