\* Two producers and two consumers as in main; four items through one slot,
\* so that producers and consumers wait at the same time.
CONSTANTS
    Capacity = 1
    Total = 4
    Value = {1, 2, 3, 4}
    Garbage = garbage
    Producers = {p1, p2}
    Consumers = {c1, c2}
    Threads = {p1, p2, c1, c2}
    Nobody = nobody
    MaxSpurious = 1
\* Consumers may be left behind asleep (OnlyConsumersStrand says when).
CHECK_DEADLOCK FALSE
SPECIFICATION MainSpec
INVARIANTS
    ItemAccounting
    OnlyConsumersStrand
PROPERTIES
    WorkGetsDone
