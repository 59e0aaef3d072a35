SPECIFICATION Spec
CONSTANTS
    N = 5
    MaxSizeOf = 3
    Values = {v1, v2}
    Raw = Raw
INVARIANTS
    Constructed
PROPERTIES
    IsStack
CHECK_DEADLOCK FALSE
