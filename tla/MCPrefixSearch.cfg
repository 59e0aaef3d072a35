SPECIFICATION Spec
CONSTANTS
    Alphabet = {0, 1}
    MinKeySize = 0
    MaxKeySize = 3
    MaxEntries = 4
    Keys <- MCKeys
    Vectors <- MCVectors
    NotRead = NotRead
INVARIANTS
    PrefixShared
    Partitioned
    EqualTells
    AssertFailsAtEmpty
    ExactSound
    TotalOrder
PROPERTIES
    ComparesInFull
CHECK_DEADLOCK FALSE
