SPECIFICATION Spec
CONSTANTS
    Programs <- Looping
    Inputs = {0, 1}
    Limits = {1, 2}
    MaxValue = 3
    None = None
INVARIANTS FramesTrueApart PathsOnce CallstackTrueBefore NothingLeft DepthBounded
CHECK_DEADLOCK FALSE
