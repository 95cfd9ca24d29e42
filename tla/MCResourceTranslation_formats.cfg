CONSTANTS
    Textures <- MCTextures
    Samplers <- MCSamplers
    Devices <- MCDevices
SPECIFICATION Spec
INVARIANTS
    FormatsMirrorVulkan
CHECK_DEADLOCK FALSE
