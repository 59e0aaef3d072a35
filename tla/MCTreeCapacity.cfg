SPECIFICATION TreeSpec
CONSTANTS
    Capacity = 20
    SizeMod = 65536
    Keys = {1, 2, 3, 4, 5, 6, 7, 8}
    Sizes = {1, 5}
    Nodes = {n0, n1}
    FirstLeaf = n0
    NoSplit = NoSplit
    KeyBytes <- MCKeyBytes
    PtrBytes = 1
INVARIANTS
    WithinCapacity
SYMMETRY Siblings
CHECK_DEADLOCK FALSE
