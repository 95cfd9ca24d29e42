CONSTANTS
    Clients = {guest}
    Commands <- MCCommands
    RingSize = 8
    HdrSize = 2
    BufSize = 4
    OpcodeMax = 9
    MaxAccepted = 5
SPECIFICATION FairSpec
INVARIANTS
    TypeOK
    AvailabilityExact
    UnreadIntact
    Framed
    InOrderDelivery
PROPERTIES
    StableWhilePeeked
    AllProcessed
    ImplementsQueue
CHECK_DEADLOCK FALSE
