SPECIFICATION LibrarySpec
CONSTANTS
    a = a
    b = b
    c = c
    d = d
    h1 = h1
    h2 = h2
    e1 = e1
    e2 = e2
    e3 = e3
    Keys <- MCKeys
    pos <- MCpos
    Values = {1, 2}
    NoValue = NoValue
    MAX_TABLE_SIZE = 2
    MaxNodes = 4
    MaxIndex = 3
\* A list to splice or cut to, and three entries, so that two of them may have
\* one between them or be next to each other both ways round.
    Heads <- MCHeads
    Entries <- MCEntries
    POISON = POISON
SYMMETRY MCAlike
INVARIANTS
    BothTyped
PROPERTIES
    StacksSpec
    ListsSpec
