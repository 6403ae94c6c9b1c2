\* One worker, one booking, and a crash between the COMMIT of its row and the
\* commit of its offset.
SPECIFICATION Spec
CONSTANTS
    w1 = w1
    w2 = w2
    v1 = v1
    v2 = v2
    Junk = Junk
    Vehicles = {v1, v2}
    Days = {1, 2}
    Times = {0}
    Requests <- OneRequest
    Unstorable = {}
    Workers = {w1}
    RedisConnected = FALSE
    MaxQueue = 1
    Faults = {"crash"}
    MaxFaults = 1
INVARIANT
    RecordedNotRejected
