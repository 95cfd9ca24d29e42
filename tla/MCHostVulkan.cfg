CONSTANTS
    Textures <- MCTextures
    Samplers <- MCSamplers
    Devices <- MCDevices
    Hosts <- MCHosts
SPECIFICATION HostSpec
INVARIANTS
    MemoryChosen
    UsageFitsAspect
    ViewFitsImage
    ImageLegal
    QueuesLegal
    SetUpTakenDown
CHECK_DEADLOCK FALSE
