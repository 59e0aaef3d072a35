SPECIFICATION Spec
CONSTANTS
    Capacity = 8
    SizeMod = 65536
    Keys = {1, 2, 3, 4, 5}
    Sizes = {1, 2, 3}
    Nodes = {n0, n1}
    FirstLeaf = n0
    NoSplit = NoSplit
INVARIANTS
    TypeOK
    Ordered
    BytesExact
    RefusedCanSplit
PROPERTIES
    EntriesConserved
    HalvesBalanced
    LeftSplitSeparates
SYMMETRY Siblings
CHECK_DEADLOCK FALSE
