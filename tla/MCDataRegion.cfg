CONSTANTS
    Sizes <- MCSizes
    RegionSize = 8
    DataStart = 3
    Align = 2
    Word = 32
    MaxBlocks = 5
    MaxQueue = 3
SPECIFICATION Spec
INVARIANTS
    TypeOK
    BlocksIntact
    PayloadCopied
PROPERTIES
    NeverPassedOver
CHECK_DEADLOCK FALSE
