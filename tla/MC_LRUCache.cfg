\* Four ids compete for three places; searches for 3 and 7 run into each other and around
\* the end of the table.  store_msg may fail and the process may die.
CONSTANTS
    Ids = {2, 3, 4, 7}
    Stored = {2, 3, 4}
    Bodies = {b1, b2}
    Nodes = {n1, n2, n3}
    NULL = NULL
    head = head
    tail = tail
    HASH_SIZE = 4
    CACHE_CAPACITY = 3
    NoFile = nofile
    Torn = torn
    StoreFaults = {"open", "write"}
SYMMETRY NodeBodySymmetry
SPECIFICATION CarefulSpec
INVARIANTS
    TypeOK
    TableListAgree
    WriteThrough
PROPERTIES
    ImplementsLRU
