\* Two customers and the worker as worker.ts starts it, with errors of
\* Redis and Kafka, and processes that die on either side of the queue; day 1
\* is past, so that its slots may expire.
SPECIFICATION SystemFairSpec
CONSTANTS
    c1 = c1
    c2 = c2
    v1 = v1
    w1 = w1
    Free = Free
    Junk = Junk
    Vehicles = {v1}
    Days = {1, 2, 3}
    Times = {0, 1}
    Requests <- OddRange
    Clients = {c1, c2}
    Catalog = {v1}
    PastDays = {1}
    Faults = {"redis", "db", "kafka", "crash"}
    MaxCopies = 1
    Workers = {w1}
    Unstorable = {}
    RedisConnected = FALSE
    MaxQueue = 4
    WorkerFaults = {"crash"}
    MaxFaults = 1
INVARIANTS
    RecordedOnce
    RecordedKeepSlots
PROPERTIES
    PromiseKept
    LocksAreFreed
