SPECIFICATION Spec
CONSTANTS
    CELL_SIZE = 6
    MATRIX_SIZE = 3
    PLAYER_RADIUS = 2
    BULLET_RADIUS = 1
    Ids = {1, 2, 3}
    Places <- Places12
    Obstacles <- Walls
    TeamZones <- Zones
    ZONE_SIZE = 2
    MOVE_STEP = 4
    BULLET_STEP = 6
    Headings <- Aims
    Ranges = {8}
    RoundsTotal = 2
    MaxBulletId = 2
    MaxRounds = 2
    MaxActions = 3
INVARIANTS Registered
PROPERTIES NoTunnelling OnlyBulletsPush
CHECK_DEADLOCK FALSE
