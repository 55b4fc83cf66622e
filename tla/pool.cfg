SPECIFICATION FairSpec
CONSTANTS
    q1 = q1
    q2 = q2
    q3 = q3
    q4 = q4
    Request = {q1, q2, q3, q4}
    Kind <- Mixed
    Threads = 2
    PoolSize = 1
    MaxOverflow = 0
INVARIANTS
    Accounted
    NoStall
PROPERTIES
    EveryRequestEnds
