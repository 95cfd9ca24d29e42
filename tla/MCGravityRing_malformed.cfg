CONSTANTS
    Clients = {guest}
    Commands <- MCMalformedCommands
    RingSize = 8
    HdrSize = 2
    BufSize = 4
    OpcodeMax = 9
    MaxAccepted = 5
SPECIFICATION Spec
INVARIANTS
    PeekInBounds
CHECK_DEADLOCK FALSE
