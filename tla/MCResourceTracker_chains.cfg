CONSTANTS
    h0 = h0
    h1 = h1
    h2 = h2
    h3 = h3
    h4 = h4
    h5 = h5
    Handles = {h0, h1, h2, h3, h4, h5}
    InvalidHandle = h0
    HashSize = 5
    MaxEntries = 5
    Hash <- MCChainHash
SPECIFICATION CarefulSpec
PROPERTY
    ImplementsTable
CHECK_DEADLOCK FALSE
