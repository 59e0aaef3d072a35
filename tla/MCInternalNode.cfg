SPECIFICATION Spec
CONSTANTS
    Capacity = 8
    SizeMod = 65536
    PtrBytes = 1
    MaxEntries = 7
    Root = n0
    NoSplit = NoSplit
    Keys = {1, 2, 3, 4, 5}
    KeyBytes <- MCKeyBytes
    Nodes = {n0, n1}
INVARIANTS
    BytesCounted
    RefusedCanSplit
PROPERTIES
    ChildrenConserved
    SplitKeyMigrates
CHECK_DEADLOCK FALSE
