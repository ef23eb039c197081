\* Ids 1 and 4 collide, and there are more ids than places.
CONSTANTS
    Ids = {1, 2, 4}
    Stored = {1, 2, 4}
    Bodies = {b1, b2}
    Nodes = {n1, n2, n3}
    NULL = NULL
    head = head
    tail = tail
    HASH_SIZE = 3
    CACHE_CAPACITY = 2
    NoFile = nofile
    Torn = torn
    StoreFaults = {}
SYMMETRY NodeBodySymmetry
SPECIFICATION Spec
INVARIANTS
    LookupFindsCached
