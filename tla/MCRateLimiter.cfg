SPECIFICATION Spec
CONSTANTS
    IPs = {a, b}
    Burst = 2
    Interval = 2
    Cleanup = 4
    MaxTime = 9
SYMMETRY IPSymmetry
INVARIANTS
    TypeOK
    RateBound
PROPERTIES
    ForgettingIsInvisible
CHECK_DEADLOCK FALSE
