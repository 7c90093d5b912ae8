SPECIFICATION FairSpec
CONSTANTS
    Requests = {q1, q2, q3, q4}
    PoolSize = 2
    Ttl = 2
INVARIANTS
    TypeOK
    NoConnectionLost
    BurstBoundedByPool
PROPERTY EveryRequestAnswered
