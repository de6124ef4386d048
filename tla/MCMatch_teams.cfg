SPECIFICATION Spec
CONSTANTS
    Ids = {p1, p2, p3}
    number_terrorist = 2
    number_counterterrorist = 1
    RoundsTotal = 1
    BombCountdown = 2
SYMMETRY Symmetry
INVARIANTS
    LifeLedger
    ExplodedHasBomb
    TeamWithinPlaces
    StatsServable
PROPERTY
    FirstRoundCountdown
CHECK_DEADLOCK FALSE
