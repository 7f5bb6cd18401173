SPECIFICATION FairSpec
CONSTANTS
    PacketCount <- MCPackets
    Longest = 2
    QueueLength = 1
    EventPlaces = 1
    MaxLost = 1
    None = None
INVARIANTS
    ArriveWhole
PROPERTIES
    AllSent
CHECK_DEADLOCK FALSE
