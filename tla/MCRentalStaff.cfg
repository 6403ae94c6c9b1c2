\* One staff request after the other, beside customers, with failures.
SPECIFICATION Spec
CONSTANTS
    h1 = h1
    Keep = Keep
    Deleted = Deleted
    Free = Free
    Nothing = Nothing
    Vehicles = {1}
    Days = {1, 2}
    Times = {0}
    Requests <- Wishes
    Retirable = {1}
    Staff = {h1}
    Failures = TRUE
    MaxRentals = 2
    MaxUpset = 0
    Months <- OneDayMonths
    DailyRate <- OneRate
    Scale = 2
    East = FALSE
    PageSize = 1
INVARIANTS
    TypeOK
    SlotsFollowTable
    UpdatesKeepApart
    BilledByDates
    ReportMatchesSlots
    PagesCoverList
