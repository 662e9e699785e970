SPECIFICATION Spec
CONSTANTS
    Key = {k1, k2, k3}
    None = None
    Sizes = {0, 1, 2, 3, 4}
    MaxDepth = 3
    MaxResults = 6
INVARIANTS TypeOK RingHoldsLog FindsRecent
PROPERTY HitIsNewest
SYMMETRY Symmetric
CHECK_DEADLOCK FALSE
