\* One worker, no fault: five messages out of three bookings that collide in
\* a chain, one that cannot be stored, and junk, cut into batches at will.
SPECIFICATION FairSpec
CONSTANTS
    w1 = w1
    w2 = w2
    v1 = v1
    v2 = v2
    Junk = Junk
    Vehicles = {v1, v2}
    Days = {1, 2}
    Times = {0}
    Requests <- ChainRequests
    Unstorable <- BadRequests
    Workers = {w1}
    RedisConnected = TRUE
    MaxQueue = 5
    Faults = {}
    MaxFaults = 0
INVARIANT
    FirstComeFirstServed
PROPERTY
    ImplementsLedger
