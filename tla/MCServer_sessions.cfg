CONSTANTS
    Names = {n1}
    MaxClients = 2
    MaxMatches = 2
    Places <- PlacesTyped
SPECIFICATION Spec
INVARIANTS TypeOK ReapFindsThreads SurvivesServing StillRegistered
PROPERTIES Reaped ShutdownEnds EndReachesClients
CHECK_DEADLOCK FALSE
