CONSTANTS
    Names = {n1}
    MaxClients = 1
    MaxMatches = 1
    Places <- PlacesTyped
SPECIFICATION Spec
INVARIANTS NotYetStarted
CHECK_DEADLOCK FALSE
