SPECIFICATION LibrarySpec
CONSTANTS
    a = a
    b = b
    c = c
    d = d
    h1 = h1
    h2 = h2
    e1 = e1
    e2 = e2
    e3 = e3
    Keys <- MCKeys
    pos <- MCpos
    Values = {1, 2}
    NoValue = NoValue
    MAX_TABLE_SIZE = 2
    MaxNodes = 4
    MaxIndex = 3
    Heads = {h1}
    Entries = {}
    POISON = POISON
INVARIANTS
    KeysUnique
