CONSTANTS
    MaxAddresses = 1
    ServerMessages <- StatsMessages
    ClientMessages <- AllClientMessages
    Followers <- ShortMessages
    id = 5
    MaxMessages = 1
SPECIFICATION Spec
INVARIANTS StatsArrive
CHECK_DEADLOCK FALSE
