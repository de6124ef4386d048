SPECIFICATION Spec
CONSTANTS
    Ids = {p1, p2}
    number_terrorist = 1
    number_counterterrorist = 1
    RoundsTotal = 1
    BombCountdown = 1
SYMMETRY Symmetry
INVARIANT
    KillerIsFound
CHECK_DEADLOCK FALSE
