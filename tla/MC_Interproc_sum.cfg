SPECIFICATION Spec
CONSTANTS
    Programs <- Sum
    Inputs = {2}
    Limits = {2}
    MaxValue = 3
    None = None
INVARIANT FramesTrue
CHECK_DEADLOCK FALSE
