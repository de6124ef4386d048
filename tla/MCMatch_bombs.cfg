SPECIFICATION Spec
CONSTANTS
    Ids = {p1, p2}
    number_terrorist = 1
    number_counterterrorist = 1
    RoundsTotal = 2
    BombCountdown = 1
INVARIANT
    OneBomb
CHECK_DEADLOCK FALSE
