SPECIFICATION Spec
CONSTANTS
    Requests = {q1, q2, q3, q4}
    PoolSize = 2
    Ttl = 2
INVARIANT NoBurstUpstream
