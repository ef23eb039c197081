\* The smallest instance in which a consumer is left behind.
CONSTANTS
    Capacity = 1
    Total = 2
    Value = {1, 2}
    Garbage = garbage
    Producers = {p1, p2}
    Consumers = {c1, c2}
    Threads = {p1, p2, c1, c2}
    Nobody = nobody
    MaxSpurious = 0
\* Consumers may be left behind asleep, which is what is asked here.
CHECK_DEADLOCK FALSE
SPECIFICATION MainSpec
PROPERTY ConsumersStop
