CONSTANTS
    Clients = {1, 2, 3}
    Nobody = Nobody
    m1 = m1
    m2 = m2
    Monitors = {m1, m2}
    Asked = {0, 1}
    MaxHotplugDisks = 1
    HotplugDisks = 1
    Started <- MCStarted
SPECIFICATION FairSpec
INVARIANTS
    TypeOK
    DeviceOverOwnDisk
    SuccessIsReal
    FailedAttachLeavesNothing
    OrphanHasACause
    IInv
PROPERTIES
    ClosesOnlyItsOwn
    ImplementsSlots
    EveryCommandEnds
