----------------------------- MODULE RentalReport ------------------------------
(***************************************************************************)
(* What is read off the rentals table: GET /reports/rentals, by            *)
(* ReportsService.getRentalReport, and the pages of GET /rentals, by       *)
(* RentalService.getRentalsList.  Both are functions of the table, which   *)
(* the staff operations of RentalStaff keep changing.                      *)
(*                                                                         *)
(* An amount is in cents.  A share of one is kept in units of 1/Scale,     *)
(* where every division comes out even, until it is rounded.               *)
(***************************************************************************)
EXTENDS RentalStaff, SequencesExt

CONSTANTS
    Months,     \* the calendar months, as records of their days
    DailyRate,  \* the daily rate of each vehicle
    Scale,      \* units per cent
    East,       \* whether the process runs in a zone ahead of UTC
    PageSize    \* rentals per page

ASSUME ReportAssumption ==
    /\ Vehicles \subseteq Nat \ {0}
    /\ Months \subseteq [first : Days, last : Days]
    /\ DailyRate \in [Vehicles -> Nat \ {0}]
    /\ \A d, e \in Days : d <= e => Scale % (e - d + 1) = 0
    /\ Scale \in Nat \ {0}
    /\ East \in BOOLEAN
    /\ PageSize \in Nat \ {0}
-----------------------------------------------------------------------------
\* getOverlappingRentals.
OverlappingRentals(month) ==
    {id \in Live : /\ rentals[id].status # "cancelled"
                   /\ rentals[id].start <= month.last
                   /\ rentals[id].end >= month.first}

\* parseToUTCMidnight: a DATE column arrives as midnight of the local zone,
\* which is the day before in UTC if the zone is ahead of it.
ParsedDay(d) == IF East THEN d - 1 ELSE d

RentalStart(id) == ParsedDay(rentals[id].start)

RentalEnd(id) == ParsedDay(rentals[id].end)

Later(a, b) == IF a > b THEN a ELSE b

Earlier(a, b) == IF a < b THEN a ELSE b

TotalRentalDays(id) == Later(1, RentalEnd(id) - RentalStart(id) + 1)

\* All the days of a rental, in every month it touches.
WholeRental(id, month) == RentalStart(id) .. RentalEnd(id)

\* The days from the effective start to the effective end.
DaysInMonth(id, month) ==
    Later(RentalStart(id), month.first) .. Earlier(RentalEnd(id), month.last)

\* The share of total_amount, in units.
RevenueInMonth(id, month) ==
    Cardinality(DaysInMonth(id, month)) *
        ((rentals[id].billed * DailyRate[rentals[id].vehicle] * Scale)
            \div TotalRentalDays(id))

\* toFixed(2): half a cent is rounded up.
Rounded(units) == (2 * units + Scale) \div (2 * Scale)

Report(listed, month) ==
    [v \in listed |->
        LET counted == {id \in OverlappingRentals(month) :
                           rentals[id].vehicle = v /\ DaysInMonth(id, month) # {}}
        IN  [bookings |-> Cardinality(counted),
             days |-> MapThenSumSet(
                          LAMBDA id : Cardinality(DaysInMonth(id, month)), counted),
             revenue |-> Rounded(MapThenSumSet(
                          LAMBDA id : RevenueInMonth(id, month), counted))]]

\* highest_revenue_vehicle: the first one, in the order of the ids, that
\* earned the most; 0 is none.
HighestRevenueVehicle(report) ==
    LET best == {v \in DOMAIN report :
                    /\ report[v].revenue > 0
                    /\ \A u \in DOMAIN report :
                          \/ report[u].revenue < report[v].revenue
                          \/ report[u].revenue = report[v].revenue /\ u >= v}
    IN  IF best = {} THEN 0 ELSE CHOOSE v \in best : TRUE
-----------------------------------------------------------------------------
Filters == [start : Days \cup {Keep}, end : Days \cup {Keep},
            status : Statuses \cup {Keep}]

\* The WHERE clauses of findPaginatedFromDb: two dates select what overlaps
\* them, one date what starts or ends on its side.
Matching(f) ==
    {id \in Live :
        /\ f.status \in {Keep, rentals[id].status}
        /\ \/ /\ Keep \notin {f.start, f.end}
              /\ rentals[id].start <= f.end
              /\ rentals[id].end >= f.start
           \/ f.end = Keep /\ f.start # Keep /\ rentals[id].start >= f.start
           \/ f.start = Keep /\ f.end # Keep /\ rentals[id].end <= f.end
           \/ f.start = Keep /\ f.end = Keep}

\* ORDER BY id DESC: the row in front of which there are i - 1 is the i-th.
Above(S, id) == {j \in S : j > id}

Descending(S) ==
    [i \in 1 .. Cardinality(S) |->
        CHOOSE id \in S : Cardinality(Above(S, id)) = i - 1]

FirstOf(s, n) == SubSeq(s, 1, Earlier(n, Len(s)))

\* The rows below the cursor, of which 0 is none, one more than a page holds.
Fetched(f, cursor) ==
    FirstOf(Descending({id \in Matching(f) : cursor # 0 => id < cursor}),
            PageSize + 1)

\* The cursor taken from the row that is fetched beyond the page.
CursorBeyondPage(rows) == IF Len(rows) > PageSize THEN Last(rows) ELSE 0

NextCursor(rows) == IF Len(rows) > PageSize THEN rows[PageSize] ELSE 0

\* The rows that a client sees who follows the cursors from one on.
Listing(f) ==
    LET from[cursor \in 0 .. Len(rentals)] ==
            LET rows == Fetched(f, cursor)
            IN  FirstOf(rows, PageSize) \o
                (IF NextCursor(rows) = 0 THEN <<>> ELSE from[NextCursor(rows)])
    IN  from[0]
-----------------------------------------------------------------------------
\* The monthly report and the calendar of reserved dates, which are computed
\* from different stores and, across the ends of months, by different rules,
\* agree: at rest, after whatever sequence of bookings, changes and refusals,
\* a vehicle was rented on exactly the reserved days of the month and earned
\* its rate for each, so that the months of a rental add up to its total.  In
\* a zone ahead of UTC the report counts other days than those.
ReportMatchesSlots ==
    Regular /\ AtRest /\ ~East =>
        \A month \in Months :
            LET report == Report(Vehicles, month)
            IN  /\ \A v \in Vehicles :
                      LET reserved == slots \cap ({v} \X (month.first .. month.last))
                      IN  /\ report[v].days = Cardinality(reserved)
                          /\ report[v].revenue = DailyRate[v] * Cardinality(reserved)
                /\ HighestRevenueVehicle(report) = 0 <=>
                       \A v \in Vehicles : report[v].days = 0

\* Whatever the filter, a client who follows the cursors of the rental list
\* sees every matching rental once, the latest first, and then an end.
PagesCoverList ==
    AtRest => \A f \in Filters : Listing(f) = Descending(Matching(f))
=============================================================================
