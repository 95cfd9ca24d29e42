CONSTANTS
    b1 = b1
    t1 = t1
    d1 = d1
    s1 = s1
    p1 = p1
    c1 = c1
    c2 = c2
    none = none
    NoTexture = none
    Buffers = {b1}
    Colors = {t1}
    Depths = {}
    Samplers = {s1}
    Placeholders = {p1}
    CmdBufs = {c1, c2}
    Levels = {0}
    MaxEntries = 2
    MayFail = TRUE
    MaxCreated = 4
    MaxRecorded = 3
SPECIFICATION Spec
INVARIANTS
    TypeOK
    Ownership
    FlagsCover
CHECK_DEADLOCK FALSE
