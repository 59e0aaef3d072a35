SPECIFICATION Spec
CONSTANTS
    Frames = {f1, f2, f3}
    MaxSize = 6
    End = End
PROPERTIES
    Returns
CHECK_DEADLOCK FALSE
