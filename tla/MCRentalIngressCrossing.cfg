\* Two bookings of ranges that share one day, no fault at all.
SPECIFICATION Spec
CONSTANTS
    c1 = c1
    c2 = c2
    c3 = c3
    v1 = v1
    v2 = v2
    Free = Free
    Vehicles = {v1, v2}
    Days = {1, 2, 3}
    Times = {0}
    Requests <- CrossingRanges
    Clients <- TwoClients
    Catalog = {v1}
    PastDays = {}
    Faults = {}
    MaxCopies = 0
INVARIANT
    CollisionsBlocked
