SPECIFICATION FairSpec
CONSTANTS
    RingSlots = 3
    CompSlots = 4
    QemuMem = 16
    DaemonMem = 20
    MaxPolls = 2
    MaxSent = 4
    MaxBoots = 2
    MaxStarts = 2
CHECK_DEADLOCK FALSE
INVARIANTS
    TypeOK
    CachedFromHeader
    SessionDelivered
    RepliesDelivered
    HandledInOrder
PROPERTIES
    AnswerMatches
    StartEnds
    CommandsServed
