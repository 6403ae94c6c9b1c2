\* The worker as worker.ts starts it: its Redis client is never connected.
SPECIFICATION Spec
CONSTANTS
    w1 = w1
    w2 = w2
    v1 = v1
    v2 = v2
    Junk = Junk
    Vehicles = {v1, v2}
    Days = {1, 2}
    Times = {0}
    Requests <- PairRequests
    Unstorable <- BadRequests
    Workers = {w1}
    RedisConnected = FALSE
    MaxQueue = 2
    Faults = {}
    MaxFaults = 0
INVARIANT
    PoisonReachesDLQ
