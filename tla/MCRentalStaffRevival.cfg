\* One staff request after the other, no failure: a rental is cancelled, its
\* date booked again, and the rental brought back.
SPECIFICATION Spec
CONSTANTS
    h1 = h1
    Keep = Keep
    Deleted = Deleted
    Free = Free
    Nothing = Nothing
    Vehicles = {1}
    Days = {1, 2}
    Times = {0}
    Requests <- Wishes
    Retirable = {}
    Staff = {h1}
    Failures = FALSE
    MaxRentals = 2
    MaxUpset = 0
    Months <- OneDayMonths
    DailyRate <- OneRate
    Scale = 2
    East = FALSE
    PageSize = 1
INVARIANT
    RevivalsKeepApart
