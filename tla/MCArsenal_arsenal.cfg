SPECIFICATION Spec
CONSTANTS
    Ids = {p1, p2}
    Catalog = {"AK47", "AWP"}
    Price <- Prices
    MapWeapons <- OnTheMap
    PlayerHealth = 1
    PlayerMoney = 3
    WeaponAmmo = 3
    AmmoAmounts = {1}
    Damages = {0, 1}
    KILL_REWARD = 7
    ROUND_WON_REWARD = 1
    CheatAmount = 3
    Cheaters = {p1}
    Uint16 = 16
    MaxRounds = 2
    MaxActions = 5
    MaxTries = 0
    MaxWeaponId = 15
INVARIANTS TypeOK OneKeeper Solvent
CHECK_DEADLOCK FALSE
