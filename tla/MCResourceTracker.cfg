CONSTANTS
    h0 = h0
    h1 = h1
    h2 = h2
    h3 = h3
    h4 = h4
    h5 = h5
    Handles = {h0, h1, h2, h3, h4}
    InvalidHandle = h0
    HashSize = 2
    MaxEntries = 4
    Hash <- MCTinyHash
SPECIFICATION Spec
INVARIANTS
    TypeOK
    FreeListExact
    SlotsExact
PROPERTY
    LookupKept
    IndexedUntilFull
CHECK_DEADLOCK FALSE
