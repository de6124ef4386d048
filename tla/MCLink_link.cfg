CONSTANTS
    MaxAddresses = 2
    ServerMessages <- AllServerMessages
    ClientMessages <- AllClientMessages
    Followers <- ShortMessages
    id = 5
    MaxMessages = 2
SPECIFICATION Spec
INVARIANTS TypeOK InOrder DescriptorsOwned
PROPERTIES Delivered KillEndsReceiver
CHECK_DEADLOCK FALSE
