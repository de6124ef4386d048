CONSTANTS
    mapas = {map1}
    partidas = {match1}
    MatchNames = {name1}
    NumberTexts <- Numbers
    skinsTerrorist = {skin1}
    skinsCounterTerrorist = {skin2}
    Ids <- Players
    local_id = 1
    MaxInFlight = 1
    MaxActions = 1
SPECIFICATION Spec
INVARIANTS TypeOK NoNullPlayer ShowsLastMessage
PROPERTIES SentAsShown ClientEnds
CHECK_DEADLOCK FALSE
