CONSTANTS
    Clients = {c1, c2, c3}
    Nobody = Nobody
    Asked = {0, 1, 8}
    MiB = 2
    Word = 16
    Block = 2
    MaxBlocks = 4
SPECIFICATION Spec
SYMMETRY Symmetry
INVARIANT
    PluggedIsAsked
