CONSTANTS
    Clients = {client1, client2}
    Commands <- MCCommands
    RingSize = 8
    HdrSize = 2
    BufSize = 4
    OpcodeMax = 9
    MaxAccepted = 2
SPECIFICATION Spec
INVARIANTS
    InOrderDelivery
CHECK_DEADLOCK FALSE
