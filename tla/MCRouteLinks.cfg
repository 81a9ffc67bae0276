CONSTANTS
    N = 3
    MinReconnect = 4
    MaxReconnect = 8
    NoSlot = NoSlot
    MaxTime = 3
SPECIFICATION FairSpec
INVARIANTS
    MasterIsOldest
    ReconnectIsDue
PROPERTIES
    MasterIsStable
    EmptySlotIsRetried
