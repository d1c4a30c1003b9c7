CONSTANTS
    Clients = {1, 2}
    Nobody = Nobody
    m1 = m1
    m2 = m2
    Monitors = {m1, m2}
    Asked = {0, 1}
    MaxHotplugDisks = 2
    HotplugDisks = 1
    Started <- MCStarted
SPECIFICATION Spec
INVARIANT
    AtMostHotplugDisks
