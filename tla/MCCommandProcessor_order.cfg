CONSTANTS
    b1 = b1
    t1 = t1
    d1 = d1
    s1 = s1
    p1 = p1
    c1 = c1
    c2 = c2
    none = none
    NoTexture = none
    Buffers = {}
    Colors = {t1}
    Depths = {}
    Samplers = {}
    Placeholders = {}
    CmdBufs = {c1, c2}
    Levels = {0}
    MaxEntries = 3
    MayFail = FALSE
    MaxCreated = 3
    MaxRecorded = 4
SPECIFICATION Spec
PROPERTIES
    AttachmentsInLayout
CHECK_DEADLOCK FALSE
