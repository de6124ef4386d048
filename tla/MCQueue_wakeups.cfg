SPECIFICATION FairSpec
CONSTANTS
    Threads = {t1, t2, t3, t4, t5}
    max_size = 2
INVARIANTS
    WithinCapacity
    NoLostWakeup
PROPERTIES
    OnlyEarlierPushes
    ConsumersReleased
    ConsumersServed
CHECK_DEADLOCK FALSE
