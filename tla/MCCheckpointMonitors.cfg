CONSTANTS
    Clients = {1, 2}
    v1 = v1
    v2 = v2
    f1 = f1
    f2 = f2
    VMs = {v1}
    Files = {f1, f2}
    Nobody = Nobody
    Sessions = 2
    Started <- MCStarted
SPECIFICATION Spec
INVARIANT
    SavedIsComplete
