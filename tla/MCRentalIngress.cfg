\* Safety: three bookings, of one range or of a vehicle that does not exist,
\* every fault at once.
SPECIFICATION Spec
SYMMETRY Reordering
CONSTANTS
    c1 = c1
    c2 = c2
    c3 = c3
    v1 = v1
    v2 = v2
    Free = Free
    Vehicles = {v1, v2}
    Days = {1, 2}
    Times = {0}
    Requests <- RangeOrUnknown
    Clients <- ThreeClients
    Catalog = {v1}
    PastDays = {1}
    Faults = {"redis", "db", "kafka", "crash", "slow"}
    MaxCopies = 1
INVARIANTS
    TypeOK
    NoDoubleAccept
    AcceptedKeepSlots
    NoOrphanSlots
PROPERTY
    ReleasesOwnLockOnly
