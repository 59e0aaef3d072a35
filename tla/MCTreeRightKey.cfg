SPECIFICATION TreeSpec
CONSTANTS
    Capacity = 8
    SizeMod = 65536
    Keys = {1, 2, 3, 4, 5}
    Sizes = {1, 2}
    Nodes = {n0, n1}
    FirstLeaf = n0
    NoSplit = NoSplit
    KeyBytes <- MCKeyBytes
    PtrBytes = 1
PROPERTIES
    RightSplitSeparates
SYMMETRY Siblings
CHECK_DEADLOCK FALSE
