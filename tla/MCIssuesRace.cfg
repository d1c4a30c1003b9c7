CONSTANTS
    LastPackage = 2
    a = a
    b = b
    Ids = {a, b}
    History <- MCHistory
    MaxRelease = 2
    MaxChanges = 3
    PeopleDuringRuns = TRUE
SPECIFICATION Spec
INVARIANT
    NothingLost
