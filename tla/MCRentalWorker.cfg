\* Two workers, two messages out of two bookings that collide, one that
\* cannot be stored, and junk; three faults of any kind.
SPECIFICATION FairSpec
CONSTANTS
    w1 = w1
    w2 = w2
    v1 = v1
    v2 = v2
    Junk = Junk
    Vehicles = {v1, v2}
    Days = {1, 2}
    Times = {0}
    Requests <- PairRequests
    Unstorable <- BadRequests
    Workers = {w1, w2}
    RedisConnected = TRUE
    MaxQueue = 2
    Faults = {"db", "redis", "kafka", "crash", "rebalance"}
    MaxFaults = 3
INVARIANTS
    TypeOK
    NoDoubleBooking
    CommittedAccounted
    RowsPerRequest
PROPERTIES
    EverythingConsumed
    CommitsOnlyGrow
