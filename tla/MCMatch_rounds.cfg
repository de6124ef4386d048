SPECIFICATION FairSpec
CONSTANTS
    Ids = {p1, p2}
    number_terrorist = 1
    number_counterterrorist = 1
    RoundsTotal = 2
    BombCountdown = 1
INVARIANTS
    RoundStartsClean
    SidesInStep
PROPERTIES
    RightTeamCredited
    ImplementsRoundCycle
    StopEnds
    BombResolves
    AbandonedEnds
CHECK_DEADLOCK FALSE
